--------------------------- MODULE InventoryStore ---------------------------
(***************************************************************************)
(* What the inventory store promises the request pipeline, as spec.md 3,  *)
(* 7 and 8 describe it: one quantity per row (kind, location, product),   *)
(* and every order acting on it as one step.                               *)
(*                                                                         *)
(*   Move     a transfer between two rows: the source gives up q units    *)
(*            it holds and the destination gains them;                     *)
(*   Release  q units the source holds leave the store: shipped to an     *)
(*            external destination, or a transfer whose credit failed     *)
(*            (spec.md 7: the debit is not rolled back);                   *)
(*   Restock  a warehouse row at or below the restock threshold is set to *)
(*            the capacity.                                                *)
(*                                                                         *)
(* OrderPipeline, whose pipeline reads and writes the store in separate   *)
(* calls, is shown to implement this module when one handler thread runs  *)
(* at a time (OrderPipeline!StoreRefinement).                              *)
(***************************************************************************)
EXTENDS Integers

CONSTANTS
    Rows,          \* the rows of the store
    Restockable,   \* the warehouse rows reStock may top up
    Quantities,    \* quantities an order may carry
    Capacity,      \* MAX_CAPACITY
    Threshold      \* RESTOCK_THRESHOLD

VARIABLE inv       \* row -> quantity

Move(src, dst, q) ==
    /\ inv[src] >= q
    /\ inv' = [inv EXCEPT ![src] = @ - q, ![dst] = @ + q]

Release(src, q) ==
    /\ inv[src] >= q
    /\ inv' = [inv EXCEPT ![src] = @ - q]

Restock(r) ==
    /\ 0 <= inv[r] /\ inv[r] <= Threshold
    /\ inv' = [inv EXCEPT ![r] = Capacity]

Init == inv \in [Rows -> Nat]

Next ==
    \/ \E src, dst \in Rows, q \in Quantities : q > 0 /\ Move(src, dst, q)
    \/ \E src \in Rows, q \in Quantities : q > 0 /\ Release(src, q)
    \/ \E r \in Restockable : Restock(r)

Spec == Init /\ [][Next]_inv

=============================================================================
