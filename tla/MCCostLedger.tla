------------------------------ MODULE MCCostLedger ------------------------------
(* Small instances of the ledger for TLC.                                   *)
EXTENDS CostLedger, TLC

CONSTANTS r1, r2, r3, blank, b1, b2

MCLimits == b1 :> 3 @@ b2 :> NoLimit
MCLists  == { << >>, <<b1>>, <<b2, b1>> }
MCCosts  == {-1, 1, 3}
Symmetric == Permutations({r1, r2, r3})
================================================================================
