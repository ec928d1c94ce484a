--------------------------- MODULE MCOrderPipeline --------------------------
(***************************************************************************)
(* Instance of OrderPipeline for TLC: one warehouse and two hubs, and the  *)
(* payloads that take every branch of the pipeline.                        *)
(***************************************************************************)
EXTENDS OrderPipeline

\* A well-formed order record.
MkOrder(src, srcLoc, dst, dstLoc, name, q) ==
    [json |-> TRUE, generalInfo |-> TRUE, destination |-> TRUE, product |-> TRUE,
     srcType |-> src, srcLoc |-> srcLoc, destType |-> dst, destLoc |-> dstLoc,
     actionType |-> "request", name |-> name, quantity |-> q]

\* Warehouse 1 to hub 2: valid, enough stock; leaves 50 units, which
\* raises the low-stock alert and the restock to 1000.
WarehouseToHub == MkOrder("warehouse", 1, "hub", 2, "Water", 80)
\* Hub 2 to an external client: valid (critical, at most 25), may outrun
\* what hub 2 holds.
HubToExternal  == MkOrder("hub", 2, "external", 9, "Water", 25)
\* Warehouse 1 to hub 7, which has no row: the credit fails.
ToMissingHub   == MkOrder("warehouse", 1, "hub", 7, "Water", 30)
\* A non-positive quantity: rejected by both checks, stored in the ledger
\* without counting.
BadQuantity    == MkOrder("warehouse", 1, "hub", 2, "Water", -5)
\* A payload that starts with '{' and is not JSON.
Unparsable     == [MkOrder("warehouse", 1, "hub", 2, "Water", 80) EXCEPT !.json = FALSE]

MCOrders == {WarehouseToHub, HubToExternal, ToMissingHub, BadQuantity, Unparsable}

MCInitStock ==
    (<<"warehouse", 1, "Water">> :> 130) @@ (<<"hub", 2, "Water">> :> 40)
=============================================================================
