---------------------------- MODULE OrderStorage ----------------------------
(***************************************************************************)
(* The order ledger of src/src/common/orderStorage.cpp: the raw payloads   *)
(* in arrival order (storedOrders) and the per-product total              *)
(* (productQuantities).  Every operation holds ordersMutex for its whole  *)
(* body, so each one is a single atomic step of whichever thread calls it. *)
(*                                                                         *)
(* printAllOrders, printProductReport and clearStoredOrders are called by  *)
(* the tests only; the server's one writer is storeOrder.                  *)
(* A payload is the order record of OrderRules plus `json`, whether the   *)
(* text parses as JSON.                                                    *)
(***************************************************************************)
EXTENDS Integers, Sequences, TLC

VARIABLES
    storedOrders,       \* std::vector<std::string>: every payload stored
    productQuantities   \* std::unordered_map<std::string,int>: name -> total

\* product["name"].asString() of the stored payload: "" when general_info,
\* action or product is missing.
StoredName(o) == IF o.generalInfo /\ o.product THEN o.name ELSE ""

\* Mutant: the quantity is not required to be positive.
CountedAnyQuantity(o) == o.json /\ StoredName(o) # ""

\* The payload adds to the total: it parses, names a product and carries a
\* positive quantity.
Counted(o) == o.json /\ StoredName(o) # "" /\ o.quantity > 0

\* Mutant: the total is overwritten instead of added to.
StoreOrderOverwrite(o) ==
    /\ storedOrders' = Append(storedOrders, o)
    /\ productQuantities' =
          IF Counted(o)
          THEN LET n == StoredName(o)
               IN  IF n \in DOMAIN productQuantities
                   THEN [productQuantities EXCEPT ![n] = o.quantity]
                   ELSE productQuantities @@ (n :> o.quantity)
          ELSE productQuantities

\* storeOrder: push the payload unconditionally, then, if it parses and
\* names a product with a positive quantity, add the quantity to the
\* product's total (operator[] starts a new product at 0).
StoreOrder(o) ==
    /\ storedOrders' = Append(storedOrders, o)
    /\ productQuantities' =
          IF Counted(o)
          THEN LET n == StoredName(o)
               IN  IF n \in DOMAIN productQuantities
                   THEN [productQuantities EXCEPT ![n] = @ + o.quantity]
                   ELSE productQuantities @@ (n :> o.quantity)
          ELSE productQuantities

LedgerInit ==
    /\ storedOrders = <<>>
    /\ productQuantities = <<>>

=============================================================================
