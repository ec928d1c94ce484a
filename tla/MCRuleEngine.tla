---------------------------- MODULE MCRuleEngine ----------------------------
(***************************************************************************)
(* Inputs for RuleEngine: every combination of the fields the rules look  *)
(* at, with the quantities at and beside each limit of orderValidation.hpp *)
(* and lowStockChecker.hpp.                                                *)
(***************************************************************************)
EXTENDS RuleEngine

MCNames       == {"", "Water", "Meat"}
MCQuantities  == {0, 4, 5, 19, 20, 25, 26, 49, 50, 100, 101}
MCDestTypes   == {"", "hub", "external", "warehouse"}
MCSrcTypes    == {"", "hub", "warehouse", "external"}
MCActionTypes == {"", "request", "req", "send"}
MCStockReads  == {-1, 0, 19, 20, 100, 101, 199, 200, 201}

=============================================================================
