----------------------------- MODULE RuleEngine -----------------------------
(***************************************************************************)
(* Checks the rule engine of OrderRules against the reference policy of    *)
(* the specification (spec.md 4.3 and 8) over every input built from      *)
(* small sets of field values.  Each state is one (order, stock read)      *)
(* pair; every pair is initial and a step changes the store's answer.      *)
(***************************************************************************)
EXTENDS OrderRules

CONSTANTS
    Names,        \* product names an order may carry ("" = missing)
    Quantities,   \* product quantities (asInt, so 0 when missing)
    DestTypes,    \* destination types
    SrcTypes,     \* source types
    ActionTypes,  \* action types
    StockReads    \* answers of the store to a quantity read (-1 = failure)

VARIABLES
    order,        \* the decoded order the rules are applied to
    current       \* the store's answer for the order's source row

vars == <<order, current>>

Orders ==
    [generalInfo : BOOLEAN, destination : BOOLEAN, product : BOOLEAN,
     srcType : SrcTypes, destType : DestTypes, actionType : ActionTypes,
     name : Names, quantity : Quantities]

TypeOK == order \in Orders /\ current \in StockReads

Init == order \in Orders /\ current \in StockReads

\* The store answers a new read for the same order.
ReadAgain == current' \in StockReads /\ UNCHANGED order

Spec == Init /\ [][ReadAgain]_vars

(***************************************************************************)
(* Reference policy, from the table of spec.md 4.3: the rule a valid      *)
(* order must meet, and the error the specification names when it is      *)
(* broken.                                                                 *)
(***************************************************************************)
WellFormed(o) ==
    /\ o.generalInfo /\ o.destination /\ o.product
    /\ o.destType # "" /\ o.actionType # "" /\ o.name # "" /\ o.quantity > 0
    /\ o.actionType \in {"request", "req"}

Known(o) == o.name \in DOMAIN criticalProducts

\* The row of the table for a well-formed order of a known product, as the
\* error code the specification names for it, or OK when the rule holds.
PolicyVerdict(o) ==
    LET crit == criticalProducts[o.name]
        q    == o.quantity
    IN  CASE o.destType = "hub" /\ crit ->
                IF q >= 20 /\ q <= 100 THEN OK ELSE ERR_INVALID_QTY_HUB_CRIT
          [] o.destType = "hub" /\ ~crit ->
                IF q >= 50 THEN OK ELSE ERR_INVALID_QTY_HUB_NONCRIT
          [] o.destType = "external" /\ crit ->
                IF q <= 25 THEN OK ELSE ERR_INVALID_QTY_EXT_CRIT
          [] o.destType = "external" /\ ~crit ->
                IF q >= 5 THEN OK ELSE ERR_INVALID_QTY_EXT_ANY
          [] OTHER -> ERR_UNKNOWN_CLIENT_TYPE

(***************************************************************************)
(* Properties.                                                             *)
(***************************************************************************)

\* validateOrderLimits never accepts an order the specification's table
\* rejects, and when it rejects a well-formed order the table rejects it
\* reports the error code of the table row that is broken.
ValidatorAgreesWithPolicy ==
    /\ ValidateOrderLimits(order) = OK => WellFormed(order) /\ PolicyVerdict(order) = OK
    /\ (WellFormed(order) /\ Known(order) /\ PolicyVerdict(order) # OK)
          => ValidateOrderLimits(order) = PolicyVerdict(order)

=============================================================================
