------------------------------ MODULE MCServePlanes ------------------------------
(* Small instances of the two planes for TLC.                               *)
EXTENDS ServePlanes, TLC

CONSTANTS r1, r2, s1, s2, hello, bye

Kind(content) == [content |-> content, tool |-> NoTool, failed |-> FALSE, cost |-> 0]
MCKinds == {Kind(hello), Kind(bye)}

(* heard only records, and PausesLast does not read it.                     *)
WithoutHistory == <<threshold, now, job, engine, adminPlane, restarts>>
Symmetric == Permutations(Requests) \cup Permutations(Sessions)
================================================================================
