--------------------------- MODULE MCRequestPipeline ---------------------------
(* Small instances of the request pipeline for TLC.                         *)
EXTENDS RequestPipeline, TLC

CONSTANTS r1, r2, b1, b2

OneScope == [r \in Requests |-> <<b1, b2>>]
Filled   == { b1 :> 3 @@ b2 :> NoLimit }
Tables   == Filled \cup { b1 :> Absent @@ b2 :> Absent }
MCLimits == {4}
Symmetric == Permutations(Requests)
================================================================================
