----------------------------- MODULE OrderRules -----------------------------
(***************************************************************************)
(* The rule engine of the server: the pure checks the request pipeline     *)
(* runs on a decoded order.                                                *)
(*                                                                         *)
(*   ValidateOrderLimits  src/src/common/orderValidation.cpp               *)
(*   CheckProductStock    src/src/common/anomalieHandler.cpp               *)
(*   LowStockAlert        src/src/common/lowStockChecker.cpp (checkLow..)  *)
(*   ReStockDecision      src/src/common/lowStockChecker.cpp (reStock)     *)
(*                                                                         *)
(* A decoded order (the Json::Value root) is abstracted to a record.  The  *)
(* booleans say whether an object of the document is present; a string    *)
(* field that is absent reads as "" (Json asString of null), a number     *)
(* that is absent reads as 0 (asInt of null).  The store answers of the    *)
(* stock functions are passed in as `available` / `current`, -1 being the  *)
(* value getWarehouseInventory / getHubInventory return on failure.        *)
(***************************************************************************)
EXTENDS Integers

\* Limits of include/common/orderValidation.hpp.
MIN_CRITICAL_HUB_QUANTITY      == 20
MAX_CRITICAL_HUB_QUANTITY      == 100
MIN_NONCRITICAL_HUB_QUANTITY   == 50
MAX_CRITICAL_EXTERNAL_QUANTITY == 25
MIN_EXTERNAL_QUANTITY          == 5

\* Error codes of include/common/orderValidation.hpp.
ERR_MISSING_GENERAL_INFO    == 1001
ERR_MISSING_REQUIRED_FIELDS == 1002
ERR_INVALID_VALUES          == 1003
ERR_INVALID_ACTION_TYPE     == 1004
ERR_INVALID_QTY_HUB_CRIT    == 1005
ERR_INVALID_QTY_HUB_NONCRIT == 1006
ERR_INVALID_QTY_EXT_CRIT    == 1007
ERR_INVALID_QTY_EXT_ANY     == 1008
ERR_UNKNOWN_CLIENT_TYPE     == 1009

\* validateOrderLimits returned true.
OK == 0
\* criticalProducts.at(name) threw std::out_of_range: nothing in the
\* handler thread catches it, so std::terminate ends the server process.
Abort == -1

\* Thresholds of include/common/lowStockChecker.hpp.
MAX_CAPACITY      == 1000
STOCK_THRESHOLD   == 200
RESTOCK_THRESHOLD == 100

\* The static table criticalProducts of orderValidation.hpp.
criticalProducts ==
    [p \in {"Water", "Medicines", "Meat", "Weapons", "Clothes"} |->
        p \in {"Water", "Medicines"}]

\* Mutant: hubs get no upper limit on critical products.
ValidateOrderLimitsNoHubMax(o) ==
    IF ~o.generalInfo THEN ERR_MISSING_GENERAL_INFO
    ELSE IF ~o.destination \/ ~o.product THEN ERR_MISSING_REQUIRED_FIELDS
    ELSE IF o.destType = "" \/ o.actionType = "" \/ o.name = "" \/ o.quantity <= 0
         THEN ERR_INVALID_VALUES
    ELSE IF o.actionType \notin {"request", "req"} THEN ERR_INVALID_ACTION_TYPE
    ELSE IF o.name \notin DOMAIN criticalProducts THEN Abort
    ELSE LET crit == criticalProducts[o.name]
             q    == o.quantity
         IN  IF o.destType = "hub"
             THEN IF crit /\ q < MIN_CRITICAL_HUB_QUANTITY
                  THEN ERR_INVALID_QTY_HUB_CRIT
                  ELSE IF ~crit /\ q < MIN_NONCRITICAL_HUB_QUANTITY
                  THEN ERR_INVALID_QTY_HUB_NONCRIT
                  ELSE OK
             ELSE IF o.destType = "external"
             THEN IF crit /\ q > MAX_CRITICAL_EXTERNAL_QUANTITY
                  THEN ERR_INVALID_QTY_EXT_CRIT
                  ELSE IF q < MIN_EXTERNAL_QUANTITY
                  THEN ERR_INVALID_QTY_EXT_ANY
                  ELSE OK
             ELSE ERR_UNKNOWN_CLIENT_TYPE

(***************************************************************************)
(* validateOrderLimits: the early returns in the order the code tests      *)
(* them; the first failing test gives the error code.                      *)
(***************************************************************************)
ValidateOrderLimits(o) ==
    IF ~o.generalInfo THEN ERR_MISSING_GENERAL_INFO
    ELSE IF ~o.destination \/ ~o.product THEN ERR_MISSING_REQUIRED_FIELDS
    ELSE IF o.destType = "" \/ o.actionType = "" \/ o.name = "" \/ o.quantity <= 0
         THEN ERR_INVALID_VALUES
    ELSE IF o.actionType \notin {"request", "req"} THEN ERR_INVALID_ACTION_TYPE
    ELSE IF o.name \notin DOMAIN criticalProducts THEN Abort
    ELSE LET crit == criticalProducts[o.name]
             q    == o.quantity
         IN  IF o.destType = "hub"
             THEN IF crit /\ (q < MIN_CRITICAL_HUB_QUANTITY \/ q > MAX_CRITICAL_HUB_QUANTITY)
                  THEN ERR_INVALID_QTY_HUB_CRIT
                  ELSE IF ~crit /\ q < MIN_NONCRITICAL_HUB_QUANTITY
                  THEN ERR_INVALID_QTY_HUB_NONCRIT
                  ELSE OK
             ELSE IF o.destType = "external"
             THEN IF crit /\ q > MAX_CRITICAL_EXTERNAL_QUANTITY
                  THEN ERR_INVALID_QTY_EXT_CRIT
                  ELSE IF q < MIN_EXTERNAL_QUANTITY
                  THEN ERR_INVALID_QTY_EXT_ANY
                  ELSE OK
             ELSE ERR_UNKNOWN_CLIENT_TYPE

(***************************************************************************)
(* checkProductStock: the stock kinds a source can have, whether the code  *)
(* queries the store for this order at all, and the outcome given the     *)
(* store's answer.  Every failure carries ERROR_INSUFFICIENT_STOCK (101);  *)
(* the outcome names which of its messages is sent.                        *)
(***************************************************************************)
StockKinds == {"hub", "warehouse"}

\* The order gets as far as the store query (getHubInventory or
\* getWarehouseInventory).
QueriesStore(o) ==
    /\ o.generalInfo
    /\ o.srcType # ""
    /\ o.product
    /\ o.name # "" /\ o.quantity > 0
    /\ o.srcType \in StockKinds

\* Mutant: any stock at all is taken as enough.
CheckProductStockInStock(o, available) ==
    IF ~o.generalInfo THEN "missing_general_info"
    ELSE IF o.srcType = "" THEN "missing_source"
    ELSE IF ~o.product THEN "missing_action_or_product"
    ELSE IF o.name = "" \/ o.quantity <= 0 THEN "invalid_product"
    ELSE IF o.srcType \notin StockKinds THEN "unknown_source_type"
    ELSE IF available < 0 THEN "fetch_failure"
    ELSE IF available > 0 THEN "ok"
    ELSE "insufficient"

CheckProductStock(o, available) ==
    IF ~o.generalInfo THEN "missing_general_info"
    ELSE IF o.srcType = "" THEN "missing_source"
    ELSE IF ~o.product THEN "missing_action_or_product"
    ELSE IF o.name = "" \/ o.quantity <= 0 THEN "invalid_product"
    ELSE IF o.srcType \notin StockKinds THEN "unknown_source_type"
    ELSE IF available < 0 THEN "fetch_failure"
    ELSE IF available >= o.quantity THEN "ok"
    ELSE "insufficient"

(***************************************************************************)
(* checkLowStockAlert and reStock given the warehouse quantity `current`   *)
(* they read (only orders whose source type is "warehouse" read it).      *)
(***************************************************************************)
LowStockAlert(current) == current # -1 /\ current <= STOCK_THRESHOLD

\* What reStock does after its read: "fetch_failed" returns false,
\* "restock" goes on to updateWarehouseInventory with MAX_CAPACITY - current,
\* "untouched" returns true without writing anything.

ReStockDecision(current) ==
    IF current = -1 THEN "fetch_failed"
    ELSE IF current <= RESTOCK_THRESHOLD THEN "restock"
    ELSE "untouched"

=============================================================================
