--------------------------- MODULE MCStoreStatements ---------------------------
(* Three tasks, each with any of these programs.                            *)
EXTENDS StoreStatements

CONSTANTS p1, p2, p3, s1, a, b, k1, k2

Slugs == (p1 :> a) @@ (p2 :> a) @@ (p3 :> b)

Request(path, session, cost, served) ==
  [op |-> "request", path |-> path, session |-> session, cost |-> cost, served |-> served]
Budget(id, key, limit) == [id |-> id, key |-> key, limit |-> limit]
Upsert(todo, served) == [op |-> "upsert", todo |-> todo, served |-> served]

AllPrograms ==
  {Request(p1, Unnamed, 1, TRUE), Request(p1, Unnamed, 1, FALSE), Request(p1, s1, 1, TRUE),
   Request(p2, Unnamed, 1, TRUE), Request(p3, Unnamed, 2, TRUE), Request(p3, s1, 1, TRUE)}
  \cup
  {Upsert(<<Budget(0, k1, 1)>>, FALSE), Upsert(<<Budget(0, k1, 2)>>, FALSE),
   Upsert(<<Budget(0, k1, 1)>>, TRUE), Upsert(<<Budget(1, k2, 1)>>, TRUE),
   Upsert(<<Budget(0, k1, 2), Budget(0, k2, 1)>>, TRUE)}
  \cup
  {[op |-> "reset", key |-> k1, served |-> FALSE],
   [op |-> "reserve", cost |-> 1, served |-> TRUE],
   [op |-> "estimate", cost |-> 1, served |-> TRUE],
   [op |-> "event", served |-> TRUE],
   [op |-> "report", limit |-> 1, served |-> TRUE],
   [op |-> "dashboard", served |-> FALSE],
   [op |-> "tail", since |-> -1, limit |-> 1, served |-> TRUE],
   [op |-> "tail", since |-> 1, limit |-> 2, served |-> TRUE]}

TaskSymmetry == Permutations(Tasks)
================================================================================
