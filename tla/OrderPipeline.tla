---------------------------- MODULE OrderPipeline ---------------------------
(***************************************************************************)
(* The request pipeline of src/src/server/server.cpp: what a handler      *)
(* thread does with a payload that starts with '{' (handleTcpClient lines  *)
(* 484-575, handleUdpClients lines 311-400, the same code), against the    *)
(* inventory store of src/database/inventoryDb.cpp and the order ledger.   *)
(*                                                                         *)
(* Handlers are the threads that run the pipeline: one per accepted TCP    *)
(* connection and the single UDP loop.  Each has its own database session, *)
(* so every store call is one atomic step and the steps of different       *)
(* handlers interleave between store calls.  The pure checks between two *)
(* store calls belong to the step before them.                             *)
(*                                                                         *)
(* The store holds one row per (kind, location, product); a row that does  *)
(* not exist reads as -1 and an update of it affects no row, which the     *)
(* update functions report as -1.                                          *)
(*                                                                         *)
(* A TCP handler's write() may fail (written < 0); the code then          *)
(* `continue`s, skipping the rest of the iteration.  The UDP loop only    *)
(* logs a failed sendto and goes on.                                       *)
(***************************************************************************)
EXTENDS OrderRules, OrderStorage, Sequences, FiniteSets, SequencesExt, TLC

CONSTANTS
    Handlers,    \* handler threads
    TcpHandlers, \* those that serve a TCP connection (the rest: the UDP loop)
    Orders,      \* payloads a peer may send (records, see OrderStorage)
    InitStock,   \* the store's rows: [<<kind, location, name>> -> quantity]
    MaxOrders,   \* bound: payloads one handler receives
    NoOrder      \* model value: no payload in hand

ASSUME MaxOrders \in Nat \ {0}
ASSUME NoOrder \notin Orders
ASSUME TcpHandlers \subseteq Handlers

VARIABLES
    stock,       \* the store: row -> quantity
    pc,          \* handler -> where it is in the pipeline
    ord,         \* handler -> the payload it is processing
    isValid,     \* handler -> result of validateOrderLimits (kept across loops)
    productStock,\* handler -> result of checkProductStock (kept across loops)
    cur,         \* handler -> the quantity reStock read
    received,    \* handler -> payloads received so far (bounded by MaxOrders)
    out,         \* handler -> messages sent back for the current payload
    applied      \* handler -> store writes made for the current payload

vars == <<stock, pc, ord, isValid, productStock, cur, received, out, applied,
          storedOrders, productQuantities>>

Row(kind, loc, name) == <<kind, loc, name>>
SrcRow(o) == Row(o.srcType, o.srcLoc, o.name)
DstRow(o) == Row(o.destType, o.destLoc, o.name)

\* getHubInventory / getWarehouseInventory.
Fetch(r) == IF r \in DOMAIN stock THEN stock[r] ELSE -1

\* updateHubInventory / updateWarehouseInventory: adds delta to the row;
\* succeeds (returns 1) exactly when the row exists.
UpdateOk(r) == r \in DOMAIN stock
Update(h, r, delta) ==
    IF UpdateOk(r)
    THEN /\ stock' = [stock EXCEPT ![r] = @ + delta]
         /\ applied' = [applied EXCEPT ![h] = Append(@, [row |-> r, delta |-> delta])]
    ELSE UNCHANGED <<stock, applied>>

Send(h, msg) == out' = [out EXCEPT ![h] = Append(@, msg)]

Goto(h, p) == pc' = [pc EXCEPT ![h] = p]

\* A reply written back: it is sent and the handler goes on to `next`, or,
\* on a TCP connection, the write fails and the loop continues.
Write(h, msg, next) ==
    \/ Send(h, msg) /\ Goto(h, next)
    \/ h \in TcpHandlers /\ UNCHANGED out /\ Goto(h, "idle")

(***************************************************************************)
(* Steps of a handler.                                                     *)
(***************************************************************************)

\* read() returns a payload starting with '{': acknowledge it (a failed
\* TCP write continues before anything else), storeOrder it, parse it; a
\* payload that does not parse ends the iteration (`continue`), one that
\* does is validated (validateOrderLimits) and the error, if any, sent
\* back.
Receive(h, o) ==
    LET Answer(msgs, next) == out' = [out EXCEPT ![h] = msgs] /\ Goto(h, next)
    IN
    /\ pc[h] = "idle"
    /\ received[h] < MaxOrders
    /\ received' = [received EXCEPT ![h] = @ + 1]
    /\ ord' = [ord EXCEPT ![h] = o]
    /\ applied' = [applied EXCEPT ![h] = <<>>]
    /\ \/ /\ h \in TcpHandlers
          /\ Answer(<<>>, "idle")
          /\ UNCHANGED <<isValid, storedOrders, productQuantities>>
       \/ /\ StoreOrder(o)
          /\ IF o.json
             THEN LET valid == ValidateOrderLimits(o) = OK
                  IN  /\ isValid' = [isValid EXCEPT ![h] = valid]
                      /\ IF valid THEN Answer(<<"ack">>, "stock")
                         ELSE \/ Answer(<<"ack", "invalid">>, "stock")
                              \/ h \in TcpHandlers /\ Answer(<<"ack">>, "idle")
             ELSE /\ Answer(<<"ack">>, "idle")
                  /\ UNCHANGED isValid
    /\ UNCHANGED <<stock, productStock, cur>>

\* checkProductStock: one read of the source row, if the order gets that
\* far; then realTimeUpdate if both checks passed, else the alerts.
StockCheck(h) ==
    LET o  == ord[h]
        ok == CheckProductStock(o, Fetch(SrcRow(o))) = "ok"
    IN  /\ pc[h] = "stock"
        /\ productStock' = [productStock EXCEPT ![h] = ok]
        /\ IF ok THEN UNCHANGED out /\ Goto(h, IF isValid[h] THEN "debit" ELSE "lowstock")
                 ELSE Write(h, "stock_error", "lowstock")
        /\ UNCHANGED <<stock, ord, isValid, cur, received, applied,
                       storedOrders, productQuantities>>

\* realTimeUpdate, first leg: take the quantity off the source row.
\* Only if that succeeded does the credit follow.
Debit(h) ==
    LET o == ord[h]
    IN  /\ pc[h] = "debit"
        /\ Update(h, SrcRow(o), -o.quantity)
        /\ Goto(h, IF UpdateOk(SrcRow(o)) THEN "credit" ELSE "lowstock")
        /\ UNCHANGED <<ord, isValid, productStock, cur, received, out,
                       storedOrders, productQuantities>>

\* Mutant: the credit's result is not looked at.
CreditUnchecked(h) ==
    LET o      == ord[h]
        stored == o.destType \in StockKinds
    IN  /\ pc[h] = "credit"
        /\ IF stored THEN Update(h, DstRow(o), o.quantity)
                     ELSE UNCHANGED <<stock, applied>>
        /\ Write(h, "success", "lowstock")
        /\ UNCHANGED <<ord, isValid, productStock, cur,
                       received,
                       storedOrders,
                       productQuantities>>

\* realTimeUpdate, second leg: add the quantity to a hub or warehouse
\* destination; any other destination keeps the debit's result.  A
\* positive result sends "Successful order!".  A failed credit is not
\* undone.
Credit(h) ==
    LET o      == ord[h]
        stored == o.destType \in StockKinds
        ok     == ~stored \/ UpdateOk(DstRow(o))
    IN  /\ pc[h] = "credit"
        /\ IF stored THEN Update(h, DstRow(o), o.quantity)
                     ELSE UNCHANGED <<stock, applied>>
        /\ IF ok THEN Write(h, "success", "lowstock")
                 ELSE UNCHANGED out /\ Goto(h, "lowstock")
        /\ UNCHANGED <<ord, isValid, productStock, cur,
                       received,
                       storedOrders,
                       productQuantities>>

\* checkLowStockAlert: for a warehouse source, read the row again and
\* alert when it is at or below STOCK_THRESHOLD.
LowStock(h) ==
    LET o == ord[h]
    IN  /\ pc[h] = "lowstock"
        /\ IF o.generalInfo /\ o.srcType = "warehouse" /\ LowStockAlert(Fetch(SrcRow(o)))
           THEN Write(h, "low_stock", "restock")
           ELSE UNCHANGED out /\ Goto(h, "restock")
        /\ UNCHANGED <<stock, ord, isValid, productStock, cur, received,
                       applied, storedOrders, productQuantities>>

\* reStock, its read: for a warehouse source, read the row; at or below
\* RESTOCK_THRESHOLD go on to the write, otherwise return true, which
\* makes the handler send alertOut as a re-stock alert.
ReStockRead(h) ==
    LET o == ord[h]
        c == Fetch(SrcRow(o))
        d == ReStockDecision(c)
    IN  /\ pc[h] = "restock"
        /\ cur' = [cur EXCEPT ![h] = c]
        /\ IF o.generalInfo /\ o.srcType = "warehouse"
           THEN IF d = "untouched" THEN Write(h, "restock", "relay")
                ELSE UNCHANGED out /\ Goto(h, IF d = "restock" THEN "restock_write" ELSE "relay")
           ELSE /\ UNCHANGED out
                /\ Goto(h, "relay")
        /\ UNCHANGED <<stock, ord, isValid, productStock, received, applied,
                       storedOrders, productQuantities>>

\* Mutant: the restock adds MAX_CAPACITY instead of topping up to it.
ReStockWriteFull(h) ==
    LET r == SrcRow(ord[h])
    IN  /\ pc[h] = "restock_write"
        /\ Update(h, r, MAX_CAPACITY)
        /\ IF UpdateOk(r) THEN Write(h, "restock", "relay")
                          ELSE UNCHANGED out /\ Goto(h, "relay")
        /\ UNCHANGED <<ord, isValid, productStock, cur,
                       received,
                       storedOrders,
                       productQuantities>>

\* reStock, its write: top the row up by MAX_CAPACITY - current (the value
\* read in the previous step) and send the re-stock alert if it succeeded.
ReStockWrite(h) ==
    LET r == SrcRow(ord[h])
        amount == MAX_CAPACITY - cur[h]
    IN  /\ pc[h] = "restock_write"
        /\ Update(h, r, amount)
        /\ IF UpdateOk(r) THEN Write(h, "restock", "relay")
                          ELSE UNCHANGED out /\ Goto(h, "relay")
        /\ UNCHANGED <<ord, isValid, productStock, cur,
                       received,
                       storedOrders,
                       productQuantities>>

\* End of the iteration: processMessage (the relay to the order's source
\* session, see the Server module) runs only if both checks passed.
Relay(h) ==
    /\ pc[h] = "relay"
    /\ Goto(h, "idle")
    /\ UNCHANGED <<stock, ord, isValid, productStock, cur, received, out,
                   applied, storedOrders, productQuantities>>

(***************************************************************************)
(* Specification.                                                          *)
(***************************************************************************)
Init ==
    /\ stock = InitStock
    /\ pc = [h \in Handlers |-> "idle"]
    /\ ord = [h \in Handlers |-> NoOrder]
    /\ isValid = [h \in Handlers |-> TRUE]
    /\ productStock = [h \in Handlers |-> TRUE]
    /\ cur = [h \in Handlers |-> 0]
    /\ received = [h \in Handlers |-> 0]
    /\ out = [h \in Handlers |-> <<>>]
    /\ applied = [h \in Handlers |-> <<>>]
    /\ LedgerInit

\* A handler's own steps: everything after the payload arrived.
Work(h) ==
    \/ StockCheck(h)
    \/ Debit(h)
    \/ Credit(h)
    \/ LowStock(h)
    \/ ReStockRead(h)
    \/ ReStockWrite(h)
    \/ Relay(h)

Next ==
    \/ \E h \in Handlers, o \in Orders : Receive(h, o)
    \/ \E h \in Handlers : Work(h)

\* A thread that has a payload in hand runs to the end of the iteration
\* (the store calls return); peers are not obliged to send anything.
Spec == Init /\ [][Next]_vars /\ \A h \in Handlers : WF_vars(Work(h))

(***************************************************************************)
(* Properties.                                                             *)
(***************************************************************************)
Sent(h, m) == \E i \in DOMAIN out[h] : out[h][i] = m

TypeOK ==
    /\ stock \in [DOMAIN InitStock -> Int]
    /\ pc \in [Handlers -> {"idle", "stock", "debit", "credit", "lowstock",
                             "restock", "restock_write", "relay"}]
    /\ ord \in [Handlers -> Orders \cup {NoOrder}]
    /\ isValid \in [Handlers -> BOOLEAN] /\ productStock \in [Handlers -> BOOLEAN]
    /\ received \in [Handlers -> 0..MaxOrders]
    /\ storedOrders \in Seq(Orders)
    /\ productQuantities \in [DOMAIN productQuantities -> Nat]

\* No row of the store is ever driven below zero: checkProductStock lets
\* realTimeUpdate take off the source row only what it read there.
NoOversell == \A r \in DOMAIN stock : stock[r] >= 0

\* A warehouse never holds more than MAX_CAPACITY units of a product:
\* warehouses only gain stock through reStock, which tops up to exactly
\* MAX_CAPACITY, because validateOrderLimits admits no warehouse
\* destination.
WarehouseWithinCapacity ==
    \A r \in DOMAIN stock : r[1] = "warehouse" => stock[r] <= MAX_CAPACITY

\* The ledger invariant of spec.md 3: the total of a product is the sum of
\* the quantities of the stored payloads that count for it, and only
\* products named by such a payload have a total.
LedgerMatchesOrders ==
    LET counted == SelectSeq(storedOrders, Counted)
        Total(n) == FoldLeft(LAMBDA acc, o : IF StoredName(o) = n THEN acc + o.quantity ELSE acc,
                             0, counted)
    IN  /\ DOMAIN productQuantities = {StoredName(counted[i]) : i \in DOMAIN counted}
        /\ \A n \in DOMAIN productQuantities : productQuantities[n] = Total(n)

\* spec.md 8, transfer: when a handler has answered "Successful order!",
\* the store writes for that order began with exactly the debit of the
\* quantity at the source and, for a hub or warehouse destination, the
\* credit of the same quantity there.
TransferMovesQuantity ==
    \A h \in Handlers : Sent(h, "success") =>
        LET o    == ord[h]
            legs == IF o.destType \in StockKinds
                    THEN <<[row |-> SrcRow(o), delta |-> -o.quantity],
                           [row |-> DstRow(o), delta |-> o.quantity]>>
                    ELSE <<[row |-> SrcRow(o), delta |-> -o.quantity]>>
        IN  /\ Len(applied[h]) >= Len(legs)
            /\ SubSeq(applied[h], 1, Len(legs)) = legs

(***************************************************************************)
(* Refinement: the pipeline implements the atomic store of                 *)
(* InventoryStore.  A debit whose credit has not run yet is counted back  *)
(* on its source row, so that the credit step is the abstract Move (or    *)
(* Release); the restock write is the abstract Restock; every other step  *)
(* leaves the abstract store as it was.                                     *)
(***************************************************************************)
InFlight(r) ==
    MapThenSumSet(LAMBDA h : ord[h].quantity,
                  {h \in Handlers : pc[h] = "credit" /\ SrcRow(ord[h]) = r})

AbsInv == [r \in DOMAIN stock |-> stock[r] + InFlight(r)]

Store == INSTANCE InventoryStore
            WITH inv <- AbsInv,
                 Rows <- DOMAIN InitStock,
                 Restockable <- {r \in DOMAIN InitStock : r[1] = "warehouse"},
                 Quantities <- {o.quantity : o \in Orders},
                 Capacity <- MAX_CAPACITY,
                 Threshold <- RESTOCK_THRESHOLD

\* One order at a time, checkProductStock's read, realTimeUpdate's debit
\* and credit and reStock's read and write act on the store as the one
\* atomic step InventoryStore allows: no units appear, a transfer moves
\* only what its source holds, a restock fills a low warehouse row to
\* exactly MAX_CAPACITY.
StoreRefinement == Store!Spec

=============================================================================
