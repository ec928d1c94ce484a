\* The rule engine against the reference policy of spec.md 4.3 and the
\* boundaries of spec.md 8, over every input of MCRuleEngine.
CONSTANTS
    Names       <- MCNames
    Quantities  <- MCQuantities
    DestTypes   <- MCDestTypes
    SrcTypes    <- MCSrcTypes
    ActionTypes <- MCActionTypes
    StockReads  <- MCStockReads
SPECIFICATION Spec
INVARIANT ValidatorAgreesWithPolicy
