------------------------- MODULE RequestPipelineProofs -------------------------
(****************************************************************************)
(* Proofs about RequestPipeline, for any requests, budgets, scopes, costs   *)
(* and faults, both modes, and any number of permits and edits: what is     *)
(* sent is held, what is refused is free, what is billed is charged, and    *)
(* where a reservation may be left behind.                                  *)
(****************************************************************************)
EXTENDS RequestPipeline, FiniteSums, SequenceTheorems, FiniteSetTheorems, TLAPS

Entries == {"reserve", "reconcile", "release"}

(* A sequence of rows, of whatever shape.                                   *)
IsTable(t) == \E S : t \in Seq(S)

(* From t to u the rows of a request and type are the same.                 *)
Same(t, u, r, y) ==
  EntryIds(u, r, y) = EntryIds(t, r, y) /\ \A i \in EntryIds(t, r, y) : u[i] = t[i]

(* From t to u only rows of r come in.                                      *)
Only(t, u, r) ==
  IsTable(u) /\ \A q \in Requests \ {r} : \A y \in Entries : Same(t, u, q, y)

--------------------------------------------------------------------------------
(* The ledger's calls                                                       *)

LEMMA Appends ==
  ASSUME NEW S, NEW s \in Seq(S), NEW new \in Seq(S)
  PROVE  /\ s \o new \in Seq(S) /\ Len(s \o new) = Len(s) + Len(new)
         /\ \A i \in 1..Len(s) + Len(new) :
              (s \o new)[i] = IF i <= Len(s) THEN s[i] ELSE new[i - Len(s)]
BY ConcatProperties

LEMMA LedgerQueries == \A t, r, y : Ledger!EntryIds(t, r, y) = EntryIds(t, r, y)
BY DEF EntryIds, Ledger!EntryIds

(* From t to u come rows of one request and one type, with these budgets    *)
(* and amounts.                                                             *)
Adds(t, u, n, r, type, budgets, amounts) ==
  /\ IsTable(u)
  /\ \A q, y : q # r \/ y # type => Same(t, u, q, y)
  /\ \A i : i \in EntryIds(u, r, type) <=>
       i \in EntryIds(t, r, type) \/ \E k \in 1..n : i = Len(t) + k
  /\ \A k \in 1..n : /\ u[Len(t) + k].budget = budgets[k]
                     /\ u[Len(t) + k].amount = amounts[k]

(* They come after the rows of t, each with the total its budget is led to. *)
Appended(t, u, n, r, type, budgets, amounts) ==
  /\ \A i \in DOMAIN t : i \in DOMAIN u /\ u[i] = t[i]
  /\ \A i \in DOMAIN u : i \in DOMAIN t \/ \E k \in 1..n : i = Len(t) + k
  /\ \A k \in 1..n : u[Len(t) + k] = Entry(r, type, budgets[k], amounts[k],
                                          LatestTotal(t, budgets[k]) + amounts[k])

LEMMA Commits ==
  ASSUME NEW t, IsTable(t), NEW r, NEW type, NEW n \in Nat, NEW budgets, NEW amounts,
         DOMAIN budgets = 1..n, NEW u, u = t \o Ledger!Postings(t, r, type, budgets, amounts)
  PROVE  /\ Adds(t, u, n, r, type, budgets, amounts)
         /\ Appended(t, u, n, r, type, budgets, amounts)
<1> DEFINE row(k) == Ledger!Entry(r, type, budgets[k], amounts[k],
                                  Ledger!LatestTotal(t, budgets[k]) + amounts[k])
           new == [k \in 1..n |-> row(k)]
<1>1. u = t \o new
  BY DEF Ledger!Postings
<1>2. \A k \in 1..n : /\ new[k].request = r /\ new[k].type = type
                      /\ new[k].budget = budgets[k] /\ new[k].amount = amounts[k]
  BY DEF Ledger!Entry
<1>3. PICK S : t \in Seq(S)
  BY DEF IsTable
<1> DEFINE T == S \cup {row(k) : k \in 1..n}
<1>4. new \in [1..n -> T]
  OBVIOUS
<1>5. new \in Seq(T) /\ Len(new) = n
  <2> HIDE DEF new, T
  <2>1. new \in Seq(T)
    BY <1>4, SeqDef
  <2>2. DOMAIN new = 1..Len(new) /\ Len(new) \in Nat
    BY <2>1, LenProperties
  <2> QED
    BY <1>4, <2>1, <2>2
<1>6. t \in Seq(T) /\ DOMAIN t = 1..Len(t) /\ Len(t) \in Nat
  <2>1. DOMAIN t = 1..Len(t) /\ Len(t) \in Nat /\ \A i \in 1..Len(t) : t[i] \in S
    BY <1>3, LenProperties, ElementOfSeq
  <2>2. t \in [1..Len(t) -> T]
    BY <1>3, <2>1, LenProperties
  <2> QED
    BY <2>1, <2>2, SeqDef
<1> HIDE DEF new, T
<1>7. /\ u \in Seq(T) /\ Len(u) = Len(t) + n
      /\ \A i \in 1..Len(t) + n : u[i] = IF i <= Len(t) THEN t[i] ELSE new[i - Len(t)]
  <2>1. /\ t \o new \in Seq(T) /\ Len(t \o new) = Len(t) + Len(new)
        /\ \A i \in 1..Len(t) + Len(new) :
             (t \o new)[i] = IF i <= Len(t) THEN t[i] ELSE new[i - Len(t)]
    <3>1. t \in Seq(T) /\ new \in Seq(T)
      BY <1>5, <1>6
    <3> QED
      BY ONLY <3>1, Appends
  <2>2. Len(new) = n
    BY <1>5
  <2> QED
    BY ONLY <1>1, <2>1, <2>2
<1>8. DOMAIN u = 1..Len(t) + n
  BY <1>7, LenProperties
<1>9. \A i \in 1..Len(t) : u[i] = t[i] /\ i \in DOMAIN u
  BY <1>6, <1>7, <1>8
<1>10. \A k \in 1..n : Len(t) + k \in DOMAIN u /\ Len(t) + k \notin 1..Len(t) /\ u[Len(t) + k] = new[k]
  <2> TAKE k \in 1..n
  <2>1. Len(t) + k \in 1..Len(t) + n /\ ~(Len(t) + k <= Len(t)) /\ (Len(t) + k) - Len(t) = k
    BY <1>6
  <2> QED
    BY <1>7, <1>8, <2>1
<1>11. \A i \in DOMAIN u : i \in 1..Len(t) \/ \E k \in 1..n : i = Len(t) + k
  <2> SUFFICES ASSUME NEW i \in 1..(Len(t) + n), i \notin 1..Len(t)
               PROVE  \E k \in 1..n : i = Len(t) + k
    BY <1>8
  <2>1. i - Len(t) \in 1..n /\ i = Len(t) + (i - Len(t))
    BY <1>6
  <2> QED
    BY <2>1
<1>12. \A q, y, i : i \in EntryIds(u, q, y) <=>
          i \in EntryIds(t, q, y) \/ (q = r /\ y = type /\ \E k \in 1..n : i = Len(t) + k)
  <2> TAKE q, y, i
  <2>1. CASE i \in 1..Len(t)
    BY <1>6, <1>9, <1>10, <2>1 DEF EntryIds
  <2>2. CASE \E k \in 1..n : i = Len(t) + k
    <3>1. PICK k \in 1..n : i = Len(t) + k
      BY <2>2
    <3>2. /\ i \in DOMAIN u /\ i \notin DOMAIN t
          /\ u[i].request = r /\ u[i].type = type
      BY <1>2, <1>6, <1>10, <3>1
    <3> QED
      BY <3>1, <3>2 DEF EntryIds
  <2>3. CASE i \notin 1..Len(t) /\ ~\E k \in 1..n : i = Len(t) + k
    BY <1>6, <1>11, <2>3 DEF EntryIds
  <2> QED
    BY <2>1, <2>2, <2>3
<1>13. ASSUME NEW q, NEW y, q # r \/ y # type
       PROVE  Same(t, u, q, y)
  <2>1. \A i : i \in EntryIds(u, q, y) <=> i \in EntryIds(t, q, y)
    BY <1>12, <1>13
  <2>2. \A i \in EntryIds(t, q, y) : u[i] = t[i]
    BY <1>6, <1>9 DEF EntryIds
  <2>3. EntryIds(u, q, y) = EntryIds(t, q, y)
    BY <2>1
  <2> QED
    BY <2>2, <2>3 DEF Same
<1>14. Adds(t, u, n, r, type, budgets, amounts)
  BY <1>2, <1>7, <1>10, <1>12, <1>13 DEF IsTable, Adds
<1>15. \A k \in 1..n : new[k] = Entry(r, type, budgets[k], amounts[k],
                                      LatestTotal(t, budgets[k]) + amounts[k])
  BY DEF new, Ledger!Entry, Entry, Ledger!LatestTotal, LatestTotal, Ledger!BudgetIds,
         BudgetIds, Ledger!Max, Max
<1>16. Appended(t, u, n, r, type, budgets, amounts)
  BY <1>6, <1>8, <1>9, <1>10, <1>11, <1>15 DEF Appended
<1> QED
  BY <1>14, <1>16

(* A call that writes nothing.                                              *)
LEMMA Answers ==
  ASSUME IsTable(rows), NEW r, NEW outcome, NEW ids, Ledger!Answer(r, outcome, ids)
  PROVE  /\ rows' = rows /\ reply'.outcome = outcome
         /\ \A q : Only(rows, rows', q)
BY DEF Ledger!Answer, Ledger!Reply, Only, Same

(* The first reserve of a request writes a row of the estimate for each of  *)
(* its budgets, or none.                                                    *)
LEMMA Reserves ==
  ASSUME IsTable(rows), NEW r, NEW n \in Nat, NEW list, DOMAIN list = 1..n, Len(list) = n,
         NEW seen, NEW est, NEW e, EntryIds(rows, r, "reserve") = {},
         Ledger!ReserveInternal(r, list, seen, est, e)
  PROVE  /\ Only(rows, rows', r)
         /\ Same(rows, rows', r, "reconcile") /\ Same(rows, rows', r, "release")
         /\ reply'.outcome \in {"reserve", "denied", "error"}
         /\ reply'.outcome # "reserve" => EntryIds(rows', r, "reserve") = {}
         /\ reply'.outcome = "reserve" =>
              /\ EntryBudgets(rows', r, "reserve") = {list[k] : k \in 1..n}
              /\ \A i \in EntryIds(rows', r, "reserve") : rows'[i].amount = est
<1> DEFINE ests == [k \in 1..Len(list) |-> est]
<1>1. CASE \/ Ledger!Answer(r, "denied", {}) \/ Ledger!Answer(r, "error", {})
           \/ list = << >> /\ Ledger!Answer(r, "reserve", {})
  <2>1. /\ rows' = rows /\ Only(rows, rows', r)
        /\ \/ reply'.outcome \in {"denied", "error"}
           \/ reply'.outcome = "reserve" /\ list = << >>
    BY <1>1, Answers
  <2>2. EntryBudgets(rows', r, "reserve") = {}
    BY <2>1 DEF EntryBudgets
  <2>3. list = << >> => n = 0
    OBVIOUS
  <2> QED
    BY <2>1, <2>2, <2>3 DEF Same
<1>2. CASE Ledger!Commit(r, "reserve", list, ests)
  <2>1. rows' = rows \o Ledger!Postings(rows, r, "reserve", list, ests) /\ reply'.outcome = "reserve"
    BY <1>2 DEF Ledger!Commit, Ledger!Reply
  <2> HIDE DEF ests
  <2>2. Adds(rows, rows', n, r, "reserve", list, ests)
    BY <2>1, Commits
  <2>6. \A i : i \in EntryIds(rows', r, "reserve") <=> \E k \in 1..n : i = Len(rows) + k
    BY <2>2 DEF Adds
  <2>3. \A i \in EntryIds(rows', r, "reserve") : rows'[i].amount = est
    BY <2>2, <2>6 DEF ests, Adds
  <2>4. \A b : b \in EntryBudgets(rows', r, "reserve") <=> \E k \in 1..n : b = list[k]
    <3>1. \A b : b \in EntryBudgets(rows', r, "reserve")
                   <=> \E i \in EntryIds(rows', r, "reserve") : b = rows'[i].budget
      BY DEF EntryBudgets
    <3>2. \A k \in 1..n : rows'[Len(rows) + k].budget = list[k]
      BY <2>2 DEF Adds
    <3>3. ASSUME NEW b, b \in EntryBudgets(rows', r, "reserve")
          PROVE  \E k \in 1..n : b = list[k]
      <4>1. PICK i \in EntryIds(rows', r, "reserve") : b = rows'[i].budget
        BY <3>1, <3>3
      <4>2. PICK k \in 1..n : i = Len(rows) + k
        BY <2>6, <4>1
      <4> QED
        BY <3>2, <4>1, <4>2
    <3>4. ASSUME NEW k \in 1..n
          PROVE  list[k] \in EntryBudgets(rows', r, "reserve")
      <4>1. Len(rows) + k \in EntryIds(rows', r, "reserve")
        BY <2>6
      <4> QED
        BY <3>1, <3>2, <4>1
    <3> QED
      BY <3>3, <3>4
  <2>5. EntryBudgets(rows', r, "reserve") = {list[k] : k \in 1..n}
    BY <2>4
  <2> QED
    BY <2>1, <2>2, <2>3, <2>5 DEF Only, Adds
<1>3. Ledger!NewReserve(r, list, seen, est, e) =>
        \/ Ledger!Answer(r, "denied", {}) \/ Ledger!Answer(r, "error", {})
        \/ Ledger!Commit(r, "reserve", list, ests)
  BY DEF Ledger!NewReserve
<1> QED
  BY <1>1, <1>2, <1>3, LedgerQueries DEF Ledger!ReserveInternal

(* The first settlement of a request covers its reservation with rows of    *)
(* the given amounts, or is refused and writes nothing.                     *)
LEMMA Settles ==
  ASSUME IsTable(rows), NEW r, NEW op, NEW other, op # "reserve", other # op, NEW amount,
         EntryIds(rows, r, op) = {}, Ledger!Settle(op, other, r, amount)
  PROVE  \/ rows' = rows /\ reply'.outcome = "error"
         \/ /\ Only(rows, rows', r) /\ reply'.outcome = op
            /\ Same(rows, rows', r, "reserve") /\ Same(rows, rows', r, other)
            /\ EntryIds(rows', r, op) # {}
            /\ \A i \in EntryIds(rows', r, op) :
                 \E j \in EntryIds(rows, r, "reserve") : rows'[i].amount = amount[j]
<1> DEFINE held == EntryIds(rows, r, "reserve")
           budgets(ids) == [k \in DOMAIN ids |-> rows[ids[k]].budget]
           amounts(ids) == [k \in DOMAIN ids |-> amount[ids[k]]]
           n == Cardinality(held)
<1>1. CASE Ledger!Answer(r, "error", {})
  BY <1>1, Answers
<1>2. ASSUME held # {}, NEW ids \in Ledger!Ascending(held),
             Ledger!Commit(r, op, budgets(ids), amounts(ids))
      PROVE  /\ Only(rows, rows', r) /\ reply'.outcome = op
             /\ Same(rows, rows', r, "reserve") /\ Same(rows, rows', r, other)
             /\ EntryIds(rows', r, op) # {}
             /\ \A i \in EntryIds(rows', r, op) :
                  \E j \in EntryIds(rows, r, "reserve") : rows'[i].amount = amount[j]
  <2>1. n \in Nat
    <3>1. PICK S : rows \in Seq(S)
      BY DEF IsTable
    <3>2. DOMAIN rows = 1..Len(rows) /\ Len(rows) \in Nat
      BY <3>1, LenProperties
    <3>3. IsFiniteSet(1..Len(rows)) /\ held \in SUBSET (1..Len(rows))
      BY <3>2, FS_Interval DEF EntryIds
    <3>4. IsFiniteSet(held)
      BY <3>3, FS_Subset
    <3> QED
      BY <3>4, FS_CardinalityType
  <2>2. ids \in [1..n -> held] /\ \A i \in held : \E k \in 1..n : ids[k] = i
    <3>1. ids \in [1..n -> held] /\ \A i \in held : \E k \in DOMAIN ids : ids[k] = i
      BY DEF Ledger!Ascending, Ledger!Cardinality, Cardinality
    <3> QED
      BY <3>1
  <2> HIDE DEF held, n
  <2>3. /\ DOMAIN budgets(ids) = 1..n
        /\ rows' = rows \o Ledger!Postings(rows, r, op, budgets(ids), amounts(ids))
        /\ reply'.outcome = op
    BY <1>2, <2>2 DEF Ledger!Commit, Ledger!Reply
  <2>4. \A k \in 1..n : amounts(ids)[k] = amount[ids[k]] /\ ids[k] \in held
    BY <2>2
  <2> HIDE DEF budgets, amounts
  <2>5. Adds(rows, rows', n, r, op, budgets(ids), amounts(ids))
    BY <2>1, <2>3, Commits
  <2>6. \A i : i \in EntryIds(rows', r, op) <=> \E k \in 1..n : i = Len(rows) + k
    BY <2>5 DEF Adds
  <2>7. EntryIds(rows', r, op) # {}
    BY <1>2, <2>2, <2>6
  <2>8. \A k \in 1..n : rows'[Len(rows) + k].amount = amount[ids[k]]
    BY <2>4, <2>5 DEF Adds
  <2>9. \A i \in EntryIds(rows', r, op) : \E j \in held : rows'[i].amount = amount[j]
    BY <2>4, <2>6, <2>8
  <2>10. /\ IsTable(rows')
         /\ \A q, y : q # r \/ y # op => Same(rows, rows', q, y)
    BY <2>5 DEF Adds
  <2> QED
    BY <2>3, <2>7, <2>9, <2>10 DEF Only, held
<1>3. \/ Ledger!Answer(r, "error", {})
      \/ held # {} /\ \E ids \in Ledger!Ascending(held) :
           Ledger!Commit(r, op, budgets(ids), amounts(ids))
  <2> HIDE DEF held
  <2>1. Ledger!EntryIds(rows, r, op) = {} /\ Ledger!EntryIds(rows, r, "reserve") = held
    BY LedgerQueries DEF held
  <2> QED
    BY <2>1 DEF Ledger!Settle
<1> QED
  BY <1>1, <1>2, <1>3

--------------------------------------------------------------------------------
(* The inductive invariant: what the handler of a request knows of its rows *)

Unreserved == {"idle", "queued", "attribution", "budgets", "estimate", "lookup", "reserve"}
Reserved   == {"soft", "confirm", "sending", "streaming", "pricing", "reconciling", "releasing"}
Sent       == {"sending", "streaming", "pricing", "reconciling", "releasing", "request", "usage"}
Refusals   == {"blocked", "refused", "paused"}
Fields     == {"at", "told", "streamed", "seen", "est", "kept", "billed", "cost", "books", "slips"}

IsJob(j) == DOMAIN j = Fields /\ j.est \in Int /\ j.cost \in Int

(* Before its reserve a request has no rows, and none in the way of its     *)
(* settlement until the provider has answered.                              *)
Early(t, j, r) ==
  /\ j.at \in Unreserved =>
       /\ EntryIds(t, r, "reserve") = {}
       /\ EntryIds(t, r, "reconcile") = {} /\ EntryIds(t, r, "release") = {}
       /\ j.at # "reserve" => DOMAIN j.seen = {}
  /\ j.at \in Reserved => EntryIds(t, r, "reconcile") = {} /\ EntryIds(t, r, "release") = {}

(* Guard mode gets past the reserve only with what the lookup found.        *)
Covered(t, j, r, e) ==
  e /\ j.at \in Reserved => EntryBudgets(t, r, "reserve") = DOMAIN j.seen

(* The rows carry the estimate, and the cost less the estimate.             *)
Priced(t, j, r) ==
  /\ \A i \in EntryIds(t, r, "reserve") : t[i].amount = j.est
  /\ \A i \in EntryIds(t, r, "reconcile") : t[i].amount = j.cost - j.est

(* What was confirmed is reserved; what is reserved is confirmed before it  *)
(* is sent, unless the confirmation failed.                                 *)
Confirmed(t, j, r) ==
  /\ j.kept => EntryIds(t, r, "reserve") # {}
  /\ j.at \in Sent /\ EntryIds(t, r, "reserve") # {} => j.kept \/ "confirm" \in j.slips

(* What was billed has been reconciled before the books are written, or the *)
(* reconcile failed, and then only a stream goes on to write them.          *)
Reconciled(t, j, r) ==
  j.kept /\ (j.at \in {"request", "usage"} \/ (j.at = "done" /\ j.billed # -1)) =>
    \/ EntryIds(t, r, "reconcile") # {}
    \/ /\ "reconcile" \in j.slips
       /\ EntryIds(t, r, "reconcile") = {} /\ EntryIds(t, r, "release") = {}
       /\ j.streamed \/ (j.at = "done" /\ j.books = "none")

(* Billing comes before pricing and pricing before the books.               *)
Billed(j) ==
  /\ j.at \in {"pricing"} \cup Unreserved \cup Reserved => j.books = "none"
  /\ j.at \in Settling => j.billed # -1
  /\ j.at \in (Unreserved \cup Reserved) \ {"pricing", "reconciling"} => j.billed = -1
  /\ j.at = "request" => j.books = "none"
  /\ j.at = "usage" => j.books = "request"
  /\ j.books = "usage" => j.at = "done" /\ j.billed # -1
  /\ j.at \in Settling \ {"pricing"} \/ (j.at = "done" /\ j.billed # -1) =>
       j.cost = j.billed \/ "price" \in j.slips

(* A refusal ends a request before it is sent.                              *)
Refused(t, j, r) ==
  j.told \in Refusals =>
    /\ j.at = "done" /\ j.billed = -1 /\ j.books = "none"
    /\ EntryIds(t, r, "reconcile") = {} /\ EntryIds(t, r, "release") = {}
    /\ EntryIds(t, r, "reserve") # {} => "soft" \in j.slips

(* Which failures leave a reservation behind.                               *)
Stranded(t, j, r, e) ==
  /\ j.at = "done" /\ EntryIds(t, r, "reserve") # {}
  /\ EntryIds(t, r, "reconcile") = {} /\ EntryIds(t, r, "release") = {}
  => \/ "soft" \in j.slips /\ e /\ j.told = "refused"
     \/ "confirm" \in j.slips \/ "release" \in j.slips \/ "reconcile" \in j.slips

JobInv(t, j, r, e) ==
  /\ IsJob(j) /\ Early(t, j, r) /\ Covered(t, j, r, e) /\ Priced(t, j, r)
  /\ Confirmed(t, j, r) /\ Reconciled(t, j, r) /\ Billed(j)
  /\ Refused(t, j, r) /\ Stranded(t, j, r, e)

Inv == /\ IsTable(rows) /\ DOMAIN job = Requests
       /\ \A r \in Requests : JobInv(rows, job[r], r, enforce)

(* What a job found of the budgets stays, or is read by the lookup.         *)
Read(seen) == \A b \in DOMAIN seen : b \in Budgets /\ seen[b] = limits[b] /\ limits[b] \notin NoBudget
Sees(k, j) == j.seen = k.seen \/ (k.at = "lookup" /\ rows' = rows /\ Read(j.seen))

(* A step of r moves its own job, and adds rows of r alone.                 *)
Turn(r) ==
  /\ DOMAIN job' = Requests /\ \A q \in Requests \ {r} : job'[q] = job[q]
  /\ Only(rows, rows', r) /\ enforce' = enforce
  /\ JobInv(rows', job'[r], r, enforce) /\ Sees(job[r], job'[r])

LEMMA TurnKeeps ==
  ASSUME Inv, NEW r \in Requests, Turn(r)
  PROVE  Inv'
<1>1. ASSUME NEW q \in Requests \ {r}
      PROVE  JobInv(rows', job[q], q, enforce)
  <2>1. \A y \in Entries : /\ EntryIds(rows', q, y) = EntryIds(rows, q, y)
                          /\ \A i \in EntryIds(rows, q, y) : rows'[i] = rows[i]
    BY <1>1 DEF Turn, Only, Same
  <2>2. EntryBudgets(rows', q, "reserve") = EntryBudgets(rows, q, "reserve")
    BY <2>1 DEF EntryBudgets, Entries
  <2>3. JobInv(rows, job[q], q, enforce)
    BY DEF Inv
  <2> QED
    BY <2>1, <2>2, <2>3 DEF Entries, JobInv, Early, Covered, Priced, Confirmed, Reconciled,
       Refused, Stranded
<1> QED
  BY <1>1 DEF Inv, Turn, Only

(* A step that puts a record j in the place of the job of r.                *)
LEMMA RowTurn ==
  ASSUME Inv, NEW r \in Requests, NEW j, job' = [job EXCEPT ![r] = j],
         Only(rows, rows', r), enforce' = enforce,
         JobInv(rows, job[r], r, enforce) => JobInv(rows', j, r, enforce) /\ Sees(job[r], j)
  PROVE  Turn(r)
BY DEF Inv, Turn

(* The same for a step that leaves the ledger alone.                        *)
LEMMA OffTurn ==
  ASSUME Inv, NEW r \in Requests, NEW j, job' = [job EXCEPT ![r] = j], Off,
         JobInv(rows, job[r], r, enforce) => JobInv(rows, j, r, enforce) /\ Sees(job[r], j)
  PROVE  Turn(r)
BY RowTurn DEF Inv, Off, Only, Same

(* A check that failed, in either mode.                                     *)
LEMMA FailsTurn ==
  ASSUME Inv, NEW r \in Requests, NEW slips, Off, Failsafe(r, slips),
         \/ job[r].at = "soft" /\ "soft" \in slips
         \/ job[r].at \in Unreserved /\ slips = {}
  PROVE  Turn(r)
<1> USE DEF Refusals, Unreserved, Reserved, Sent, Settling, Fields, IsJob, Early, Covered,
       Priced, Confirmed, Reconciled, Billed, Refused, Stranded, JobInv, Sees
<1>1. CASE enforce
  <2> DEFINE j == [job[r] EXCEPT !.at = "done", !.told = "refused", !.slips = @ \cup slips]
  <2>1. job' = [job EXCEPT ![r] = j]
    BY <1>1 DEF Failsafe
  <2>2. JobInv(rows, job[r], r, enforce) => JobInv(rows, j, r, enforce) /\ Sees(job[r], j)
    BY <1>1
  <2> QED
    BY <2>1, <2>2, OffTurn
<1>2. CASE ~enforce
  <2> DEFINE j == [job[r] EXCEPT !.at = "confirm", !.told = @, !.slips = @ \cup slips]
  <2>1. job' = [job EXCEPT ![r] = j]
    BY <1>2 DEF Failsafe
  <2>2. JobInv(rows, job[r], r, enforce) => JobInv(rows, j, r, enforce) /\ Sees(job[r], j)
    BY <1>2
  <2> QED
    BY <2>1, <2>2, OffTurn
<1> QED
  BY <1>1, <1>2

(* The steps up to the reserve.                                             *)
LEMMA EarlySteps ==
  ASSUME Inv, NEW r \in Requests,
         \/ Arrive(r) \/ Admit(r) \/ Attribute(r) \/ CheckBudgets(r) \/ Estimate(r) \/ Lookup(r)
  PROVE  Turn(r)
<1> USE DEF Refusals, Unreserved, Reserved, Sent, Settling, Fields, IsJob, Early, Covered,
       Priced, Confirmed, Reconciled, Billed, Refused, Stranded, JobInv, Sees
<1>1. EntryIds(rows, r, "reserve") = {} => EntryBudgets(rows, r, "reserve") = {}
  BY DEF EntryBudgets
<1>2. ASSUME NEW at \in Unreserved \ {"reserve"}, job[r].at \in Unreserved \ {"reserve"}, Off,
             Goto(r, at)
      PROVE  Turn(r)
  BY <1>2, OffTurn DEF Goto
<1>3. ASSUME job[r].at \in Unreserved, Off, NEW told, Finish(r, told)
      PROVE  Turn(r)
  BY <1>3, OffTurn DEF Finish
<1>4. CASE Arrive(r) \/ Admit(r)
  BY <1>2, <1>4 DEF Arrive, Admit
<1>5. CASE Attribute(r)
  BY <1>2, <1>3, <1>5 DEF Attribute
<1>6. CASE CheckBudgets(r)
  <2>1. ASSUME job[r].at = "budgets", Off, Goto(r, "sending")
        PROVE  Turn(r)
    BY <1>1, <2>1, OffTurn DEF Goto
  <2> QED
    BY <1>2, <1>3, <1>6, <2>1 DEF CheckBudgets
<1>7. CASE Estimate(r)
  <2>1. ASSUME job[r].at = "estimate", Off, NEW c \in Costs,
               job' = [job EXCEPT ![r].at = "lookup", ![r].est = c]
        PROVE  Turn(r)
    <3> DEFINE j == [job[r] EXCEPT !.at = "lookup", !.est = c]
    <3>1. job' = [job EXCEPT ![r] = j]
      BY <2>1
    <3>2. JobInv(rows, job[r], r, enforce) => JobInv(rows, j, r, enforce) /\ Sees(job[r], j)
      BY <2>1, AmountAssumption
    <3> QED
      BY <2>1, <3>1, <3>2, OffTurn
  <2> QED
    BY <1>2, <1>3, <1>7, <2>1 DEF Estimate
<1>8. CASE Lookup(r)
  <2> DEFINE found == {b \in Range(Scope[r]) : limits[b] \notin NoBudget}
             seen  == [b \in found |-> limits[b]]
             at    == IF found = {} THEN "confirm" ELSE "reserve"
  <2>1. job[r].at = "lookup" /\ Off
    BY <1>8 DEF Lookup
  <2>2. CASE job' = [job EXCEPT ![r].at = at, ![r].seen = seen]
    <3> DEFINE j == [job[r] EXCEPT !.at = at, !.seen = seen]
    <3>1. job' = [job EXCEPT ![r] = j]
      BY <2>2
    <3>2. DOMAIN seen = found /\ Read(seen) /\ rows' = rows
      <4>1. Range(Scope[r]) \subseteq Budgets
        <5>1. Scope[r] \in Seq(Budgets)
          BY ScopeAssumption
        <5> QED
          BY <5>1, ElementOfSeq, LenProperties DEF Range
      <4> QED
        BY <2>1, <4>1 DEF Read, Off
    <3>3. JobInv(rows, job[r], r, enforce) => JobInv(rows, j, r, enforce) /\ Sees(job[r], j)
      <4> HIDE DEF found, seen
      <4>1. CASE found = {}
        BY <1>1, <2>1, <3>2, <4>1
      <4>2. CASE found # {}
        BY <2>1, <3>2, <4>2
      <4> QED
        BY <4>1, <4>2
    <3> QED
      BY <2>1, <3>1, <3>3, OffTurn
  <2>3. CASE Failsafe(r, {})
    BY <2>1, <2>3, FailsTurn
  <2> QED
    BY <1>8, <2>2, <2>3 DEF Lookup
<1> QED
  BY <1>4, <1>5, <1>6, <1>7, <1>8

(* The checks after the reserve.                                            *)
LEMMA CheckSteps ==
  ASSUME Inv, NEW r \in Requests, SoftCheck(r) \/ Confirm(r)
  PROVE  Turn(r)
<1> USE DEF Refusals, Unreserved, Reserved, Sent, Settling, Fields, IsJob, Early, Covered,
       Priced, Confirmed, Reconciled, Billed, Refused, Stranded, JobInv, Sees
<1>1. CASE job[r].at = "soft" /\ Off /\ Goto(r, "confirm")
  <2> DEFINE j == [job[r] EXCEPT !.at = "confirm"]
  <2>1. job' = [job EXCEPT ![r] = j]
    BY <1>1 DEF Goto
  <2>2. JobInv(rows, job[r], r, enforce) => JobInv(rows, j, r, enforce) /\ Sees(job[r], j)
    BY <1>1
  <2>3. Off
    BY <1>1
  <2> QED
    BY <2>1, <2>2, <2>3, OffTurn
<1>2. CASE job[r].at = "confirm" /\ Off /\ job' = [job EXCEPT ![r].at = "sending",
                                ![r].kept = EntryIds(rows, r, "reserve") # {}]
  <2> DEFINE j == [job[r] EXCEPT !.at = "sending", !.kept = EntryIds(rows, r, "reserve") # {}]
  <2>1. job' = [job EXCEPT ![r] = j]
    BY <1>2
  <2>2. JobInv(rows, job[r], r, enforce) => JobInv(rows, j, r, enforce) /\ Sees(job[r], j)
    BY <1>2
  <2>3. Off
    BY <1>2
  <2> QED
    BY <2>1, <2>2, <2>3, OffTurn
<1>3. CASE job[r].at = "confirm" /\ Off /\ job' = [job EXCEPT ![r].at = "sending",
                                ![r].slips = @ \cup {"confirm"}]
  <2> DEFINE j == [job[r] EXCEPT !.at = "sending", !.slips = @ \cup {"confirm"}]
  <2>1. job' = [job EXCEPT ![r] = j]
    BY <1>3
  <2>2. JobInv(rows, job[r], r, enforce) => JobInv(rows, j, r, enforce) /\ Sees(job[r], j)
    BY <1>3
  <2>3. Off
    BY <1>3
  <2> QED
    BY <2>1, <2>2, <2>3, OffTurn
<1>4. CASE Off /\ job[r].at = "soft" /\ Failsafe(r, {"soft"})
  BY <1>4, FailsTurn
<1> QED
  BY <1>1, <1>2, <1>3, <1>4 DEF SoftCheck, Confirm

(* What the provider does, and the price.                                   *)
LEMMA ProviderSteps ==
  ASSUME Inv, NEW r \in Requests,
         Dispatch(r) \/ StreamEnds(r) \/ StreamBreaks(r) \/ Price(r)
  PROVE  Turn(r)
<1> USE DEF Refusals, Unreserved, Reserved, Sent, Settling, Fields, IsJob, Early, Covered,
       Priced, Confirmed, Reconciled, Billed, Refused, Stranded, JobInv, Sees
<1>1. CASE Rejected(r)
  <2> DEFINE j == [job[r] EXCEPT !.at = "releasing", !.told = "rejected"]
  <2>1. job' = [job EXCEPT ![r] = j]
    BY <1>1 DEF Rejected
  <2>2. JobInv(rows, job[r], r, enforce) => JobInv(rows, j, r, enforce) /\ Sees(job[r], j)
    BY <1>1 DEF Rejected
  <2>3. Off
    BY <1>1 DEF Rejected
  <2> QED
    BY <2>1, <2>2, <2>3, OffTurn
<1>2. CASE Elapse(r)
  <2> DEFINE j == [job[r] EXCEPT !.at = "releasing", !.told = "timeout"]
  <2>1. job' = [job EXCEPT ![r] = j]
    BY <1>2 DEF Elapse
  <2>2. JobInv(rows, job[r], r, enforce) => JobInv(rows, j, r, enforce) /\ Sees(job[r], j)
    BY <1>2 DEF Elapse
  <2>3. Off
    BY <1>2 DEF Elapse
  <2> QED
    BY <2>1, <2>2, <2>3, OffTurn
<1>3. CASE StreamStarts(r)
  <2> DEFINE j == [job[r] EXCEPT !.at = "streaming", !.told = "answered", !.streamed = TRUE]
  <2>1. job' = [job EXCEPT ![r] = j]
    BY <1>3 DEF StreamStarts
  <2>2. JobInv(rows, job[r], r, enforce) => JobInv(rows, j, r, enforce) /\ Sees(job[r], j)
    BY <1>3 DEF StreamStarts
  <2>3. Off
    BY <1>3 DEF StreamStarts
  <2> QED
    BY <2>1, <2>2, <2>3, OffTurn
<1>4. ASSUME NEW c \in Costs, job[r].at \in {"sending", "streaming"}, Off,
             job' = [job EXCEPT ![r].at = "pricing", ![r].billed = c]
      PROVE  Turn(r)
  <2> DEFINE j == [job[r] EXCEPT !.at = "pricing", !.billed = c]
  <2>1. job' = [job EXCEPT ![r] = j]
    BY <1>4
  <2>2. JobInv(rows, job[r], r, enforce) => JobInv(rows, j, r, enforce) /\ Sees(job[r], j)
    BY <1>4, AmountAssumption
  <2>3. Off
    BY <1>4
  <2> QED
    BY <2>1, <2>2, <2>3, OffTurn
<1>5. ASSUME NEW c \in Costs, NEW told \in {"answered", "gone"}, job[r].at = "streaming", Off,
             job' = [job EXCEPT ![r].at = "pricing", ![r].told = told, ![r].billed = c,
                                ![r].slips = @ \cup {"incomplete"}]
      PROVE  Turn(r)
  <2> DEFINE j == [job[r] EXCEPT !.at = "pricing", !.told = told, !.billed = c,
                               !.slips = @ \cup {"incomplete"}]
  <2>1. job' = [job EXCEPT ![r] = j]
    BY <1>5
  <2>2. JobInv(rows, job[r], r, enforce) => JobInv(rows, j, r, enforce) /\ Sees(job[r], j)
    BY <1>5, AmountAssumption
  <2>3. Off
    BY <1>5
  <2> QED
    BY <2>1, <2>2, <2>3, OffTurn
<1>6. ASSUME NEW c \in Costs \cup {job[r].est}, job[r].at = "pricing", Off,
             job' = [job EXCEPT ![r].at = "reconciling", ![r].cost = c,
                                ![r].slips = @ \cup Slip(c # job[r].billed, "price")]
      PROVE  Turn(r)
  <2> DEFINE j == [job[r] EXCEPT !.at = "reconciling", !.cost = c,
                               !.slips = @ \cup Slip(c # job[r].billed, "price")]
  <2>1. job' = [job EXCEPT ![r] = j]
    BY <1>6 DEF Slip
  <2>2. JobInv(rows, job[r], r, enforce) => JobInv(rows, j, r, enforce) /\ Sees(job[r], j)
    BY <1>6, AmountAssumption DEF Slip
  <2>3. Off
    BY <1>6
  <2> QED
    BY <2>1, <2>2, <2>3, OffTurn
<1> QED
  BY <1>1, <1>2, <1>3, <1>4, <1>5, <1>6
     DEF Dispatch, Answered, StreamEnds, StreamBreaks, Price

(* The writes of the books, and a client that disconnects.                  *)
LEMMA LateSteps ==
  ASSUME Inv, NEW r \in Requests, PersistRequest(r) \/ PersistUsage(r) \/ Disconnect(r)
  PROVE  Turn(r)
<1> USE DEF Refusals, Unreserved, Reserved, Sent, Settling, Fields, IsJob, Early, Covered,
       Priced, Confirmed, Reconciled, Billed, Refused, Stranded, JobInv, Sees
<1>1. CASE job[r].at = "request" /\ Off /\ job' = [job EXCEPT ![r].at = "usage",
                                                           ![r].books = "request"]
  <2> DEFINE j == [job[r] EXCEPT !.at = "usage", !.books = "request"]
  <2>1. job' = [job EXCEPT ![r] = j]
    BY <1>1
  <2>2. JobInv(rows, job[r], r, enforce) => JobInv(rows, j, r, enforce) /\ Sees(job[r], j)
    BY <1>1
  <2>3. Off
    BY <1>1
  <2> QED
    BY <2>1, <2>2, <2>3, OffTurn
<1>2. CASE /\ job[r].at = "usage" /\ Off
            /\ job' = [job EXCEPT ![r].at = "done", ![r].books = "usage",
                                  ![r].told = IF job[r].streamed THEN @ ELSE "answered"]
  <2> DEFINE j == [job[r] EXCEPT !.at = "done", !.books = "usage",
                               !.told = IF job[r].streamed THEN @ ELSE "answered"]
  <2>1. job' = [job EXCEPT ![r] = j]
    BY <1>2
  <2>2. JobInv(rows, job[r], r, enforce) => JobInv(rows, j, r, enforce) /\ Sees(job[r], j)
    BY <1>2
  <2>3. Off
    BY <1>2
  <2> QED
    BY <2>1, <2>2, <2>3, OffTurn
<1>3. ASSUME NEW slip, job[r].at \in {"request", "usage"}, Off, BookingFails(r, slip, "done")
      PROVE  Turn(r)
  <2> DEFINE j == [job[r] EXCEPT !.at = "done", !.slips = @ \cup {slip},
                               !.told = IF job[r].streamed THEN @ ELSE "failed"]
  <2>1. job' = [job EXCEPT ![r] = j]
    BY <1>3 DEF BookingFails
  <2>2. JobInv(rows, job[r], r, enforce) => JobInv(rows, j, r, enforce) /\ Sees(job[r], j)
    BY <1>3
  <2>3. Off
    BY <1>3
  <2> HIDE DEF j, JobInv
  <2> QED
    BY <2>1, <2>2, <2>3, OffTurn
<1>4. CASE Disconnect(r)
  <2> DEFINE j == [job[r] EXCEPT !.at = "dropped", !.told = "gone"]
  <2>1. job' = [job EXCEPT ![r] = j]
    BY <1>4 DEF Disconnect, Handled, Handling
  <2>2. JobInv(rows, job[r], r, enforce) => JobInv(rows, j, r, enforce) /\ Sees(job[r], j)
    BY <1>4 DEF Disconnect, Handled, Handling
  <2>3. Off
    BY <1>4 DEF Disconnect, Handled, Handling
  <2> QED
    BY <2>1, <2>2, <2>3, OffTurn
<1> QED
  BY <1>1, <1>2, <1>3, <1>4 DEF PersistRequest, PersistUsage

(* The list of a reserve has the budgets that were found.                   *)
LEMMA ListingsFound ==
  ASSUME NEW r, NEW list \in Listings(r)
  PROVE  \E n \in Nat : /\ DOMAIN list = 1..n /\ Len(list) = n
                        /\ {list[k] : k \in 1..n} = DOMAIN job[r].seen
<1> DEFINE S == DOMAIN job[r].seen
<1>1. list \in SeqOf(S, Len(Scope[r])) /\ Range(list) = S
  BY DEF Listings
<1>2. PICK n \in 0..Len(Scope[r]) : list \in [1..n -> S]
  BY <1>1 DEF SeqOf
<1>3. n \in Nat /\ list \in Seq(S) /\ DOMAIN list = 1..n
  BY <1>2, SeqDef
<1>4. Len(list) = n
  BY <1>3, LenProperties
<1> QED
  BY <1>1, <1>3, <1>4 DEF Range

(* Reserve, and what the evaluator makes of its answer.                     *)
LEMMA ReserveStep ==
  ASSUME Inv, NEW r \in Requests, Reserve(r)
  PROVE  Turn(r)
<1>1. /\ job[r].at = "reserve" /\ enforce' = enforce
      /\ EntryIds(rows, r, "reserve") = {} /\ IsTable(rows)
  BY DEF Reserve, Inv, JobInv, Early, Unreserved
<1>2. /\ Only(rows, rows', r)
      /\ Same(rows, rows', r, "reconcile") /\ Same(rows, rows', r, "release")
      /\ reply'.outcome \in {"reserve", "denied", "error"}
      /\ reply'.outcome # "reserve" => EntryIds(rows', r, "reserve") = {}
      /\ reply'.outcome = "reserve" =>
           /\ EntryBudgets(rows', r, "reserve") = DOMAIN job[r].seen
           /\ \A i \in EntryIds(rows', r, "reserve") : rows'[i].amount = job[r].est
  <2>1. CASE Ledger!StorageError(r)
    <3>1. Ledger!Answer(r, "error", {})
      BY <2>1 DEF Ledger!StorageError
    <3>2. rows' = rows /\ reply'.outcome = "error" /\ Only(rows, rows', r)
      BY <1>1, <3>1, Answers
    <3> QED
      BY <1>1, <3>2 DEF Same
  <2>2. ASSUME NEW list \in Listings(r),
               Ledger!ReserveInternal(r, list, job[r].seen, job[r].est, enforce)
        PROVE  <1>2!:
    <3>1. PICK n \in Nat : /\ DOMAIN list = 1..n /\ Len(list) = n
                           /\ {list[k] : k \in 1..n} = DOMAIN job[r].seen
      BY ListingsFound
    <3>2. DOMAIN list = 1..n /\ Len(list) = n
      BY <3>1
    <3>3. /\ Only(rows, rows', r)
          /\ Same(rows, rows', r, "reconcile") /\ Same(rows, rows', r, "release")
          /\ reply'.outcome \in {"reserve", "denied", "error"}
          /\ reply'.outcome # "reserve" => EntryIds(rows', r, "reserve") = {}
          /\ reply'.outcome = "reserve" =>
               /\ EntryBudgets(rows', r, "reserve") = {list[k] : k \in 1..n}
               /\ \A i \in EntryIds(rows', r, "reserve") : rows'[i].amount = job[r].est
      BY <1>1, <2>2, <3>2, Reserves
    <3> QED
      BY <3>1, <3>3
  <2> QED
    BY <2>1, <2>2 DEF Reserve
<1> USE DEF Refusals, Unreserved, Reserved, Sent, Settling, Fields, IsJob, Early, Covered,
       Priced, Confirmed, Reconciled, Billed, Refused, Stranded, JobInv, Sees
<1>3. CASE reply'.outcome = "reserve"
  <2> DEFINE j == [job[r] EXCEPT !.at = "soft"]
  <2>1. job' = [job EXCEPT ![r] = j]
    BY <1>3 DEF Reserve, Goto
  <2>2. JobInv(rows, job[r], r, enforce) => JobInv(rows', j, r, enforce) /\ Sees(job[r], j)
    BY <1>1, <1>2, <1>3 DEF Same
  <2> HIDE DEF j, JobInv
  <2> QED
    BY <1>1, <1>2, <2>1, <2>2, RowTurn
<1>4. CASE reply'.outcome = "denied"
  <2> DEFINE j == [job[r] EXCEPT !.at = "done", !.told = "blocked"]
  <2>1. job' = [job EXCEPT ![r] = j]
    BY <1>4 DEF Reserve, Finish
  <2>2. JobInv(rows, job[r], r, enforce) => JobInv(rows', j, r, enforce) /\ Sees(job[r], j)
    BY <1>1, <1>2, <1>4 DEF Same
  <2> HIDE DEF j, JobInv
  <2> QED
    BY <1>1, <1>2, <2>1, <2>2, RowTurn
<1>5. CASE reply'.outcome = "error"
  <2> DEFINE j == [job[r] EXCEPT !.at = IF enforce THEN "done" ELSE "confirm",
                                 !.told = IF enforce THEN "refused" ELSE @,
                                 !.slips = @ \cup {}]
  <2>1. job' = [job EXCEPT ![r] = j]
    BY <1>5 DEF Reserve, Failsafe
  <2>2. JobInv(rows, job[r], r, enforce) => JobInv(rows', j, r, enforce) /\ Sees(job[r], j)
    <3>1. CASE enforce
      BY <1>1, <1>2, <1>5, <3>1 DEF Same
    <3>2. CASE ~enforce
      BY <1>1, <1>2, <1>5, <3>2 DEF Same
    <3> QED
      BY <3>1, <3>2
  <2> HIDE DEF j, JobInv
  <2> QED
    BY <1>1, <1>2, <2>1, <2>2, RowTurn
<1> QED
  BY <1>2, <1>3, <1>4, <1>5

(* The release of what was reserved for a request that is not answered.     *)
LEMMA ReleaseStep ==
  ASSUME Inv, NEW r \in Requests, ReleaseHold(r)
  PROVE  Turn(r)
<1>1. /\ job[r].at = "releasing" /\ enforce' = enforce /\ IsTable(rows)
      /\ EntryIds(rows, r, "release") = {}
  BY DEF ReleaseHold, Inv, JobInv, Early, Reserved
<1>2. /\ Only(rows, rows', r)
      /\ Same(rows, rows', r, "reserve") /\ Same(rows, rows', r, "reconcile")
      /\ \/ EntryIds(rows', r, "release") # {}
         \/ /\ Same(rows, rows', r, "release")
            /\ job[r].kept => reply'.outcome = "error"
  <2>1. CASE ~job[r].kept
    BY <1>1, <2>1 DEF ReleaseHold, table, Only, Same
  <2>2. CASE job[r].kept /\ Ledger!Answer(r, "error", {})
    <3>1. rows' = rows /\ reply'.outcome = "error" /\ Only(rows, rows', r)
      BY <1>1, <2>2, Answers
    <3> QED
      BY <3>1 DEF Same
  <2>3. ASSUME NEW amount, Ledger!Settle("release", "reconcile", r, amount)
        PROVE  <1>2!:
    <3>1. \/ rows' = rows /\ reply'.outcome = "error"
          \/ /\ Only(rows, rows', r)
             /\ Same(rows, rows', r, "reserve") /\ Same(rows, rows', r, "reconcile")
             /\ EntryIds(rows', r, "release") # {}
      BY <1>1, <2>3, Settles
    <3> QED
      BY <1>1, <3>1 DEF Only, Same
  <2> QED
    BY <2>1, <2>2, <2>3 DEF ReleaseHold, Ledger!Release, Ledger!StorageError
<1> DEFINE slip == Slip(job[r].kept /\ reply'.outcome = "error", "release")
           j == [job[r] EXCEPT !.at = "done", !.slips = @ \cup slip]
<1>3. job' = [job EXCEPT ![r] = j]
  BY DEF ReleaseHold
<1>4. JobInv(rows, job[r], r, enforce) => JobInv(rows', j, r, enforce) /\ Sees(job[r], j)
  <2>1. job[r].kept /\ reply'.outcome = "error" => "release" \in slip
    BY DEF Slip
  <2> HIDE DEF slip
  <2> USE DEF Refusals, Unreserved, Reserved, Sent, Settling, Fields, IsJob, Early, Covered,
         Priced, Confirmed, Reconciled, Billed, Refused, Stranded, JobInv, Sees
  <2> QED
    BY <1>1, <1>2, <2>1 DEF Same
<1> HIDE DEF j
<1> QED
  BY <1>1, <1>2, <1>3, <1>4, RowTurn

(* The reconcile of what was reserved for a request that was answered.      *)
LEMMA ReconcileStep ==
  ASSUME Inv, NEW r \in Requests, Reconcile(r)
  PROVE  Turn(r)
<1> DEFINE cost == job[r].cost
           est  == job[r].est
<1>1. /\ job[r].at = "reconciling" /\ enforce' = enforce /\ IsTable(rows)
      /\ EntryIds(rows, r, "reconcile") = {}
      /\ \A i \in EntryIds(rows, r, "reserve") : rows[i].amount = est
  BY DEF Reconcile, Inv, JobInv, Early, Reserved, Priced
<1>2. /\ Only(rows, rows', r)
      /\ Same(rows, rows', r, "reserve") /\ Same(rows, rows', r, "release")
      /\ \/ /\ job[r].kept /\ reply'.outcome = "reconcile"
            /\ EntryIds(rows', r, "reconcile") # {}
            /\ \A i \in EntryIds(rows', r, "reconcile") : rows'[i].amount = cost - est
         \/ /\ Same(rows, rows', r, "reconcile")
            /\ job[r].kept => reply'.outcome = "error"
  <2>1. CASE ~job[r].kept
    BY <1>1, <2>1 DEF Reconcile, table, Only, Same
  <2>2. CASE job[r].kept /\ Ledger!Answer(r, "error", {})
    <3>1. rows' = rows /\ reply'.outcome = "error" /\ Only(rows, rows', r)
      BY <1>1, <2>2, Answers
    <3> QED
      BY <2>2, <3>1 DEF Same
  <2>3. CASE job[r].kept
             /\ Ledger!Settle("reconcile", "release", r, [i \in DOMAIN rows |-> cost - rows[i].amount])
    <3> DEFINE amount == [i \in DOMAIN rows |-> cost - rows[i].amount]
    <3>1. \A i \in EntryIds(rows, r, "reserve") : amount[i] = cost - est
      BY <1>1 DEF EntryIds
    <3>2. Ledger!Settle("reconcile", "release", r, amount)
      BY <2>3
    <3> HIDE DEF amount
    <3>3. \/ rows' = rows /\ reply'.outcome = "error"
          \/ /\ Only(rows, rows', r) /\ reply'.outcome = "reconcile"
             /\ Same(rows, rows', r, "reserve") /\ Same(rows, rows', r, "release")
             /\ EntryIds(rows', r, "reconcile") # {}
             /\ \A i \in EntryIds(rows', r, "reconcile") :
                  \E k \in EntryIds(rows, r, "reserve") : rows'[i].amount = amount[k]
      BY <1>1, <3>2, Settles
    <3>4. \/ rows' = rows /\ reply'.outcome = "error"
          \/ \A i \in EntryIds(rows', r, "reconcile") : rows'[i].amount = cost - est
      BY <3>1, <3>3
    <3> QED
      BY <1>1, <2>3, <3>3, <3>4 DEF Only, Same
  <2> QED
    BY <2>1, <2>2, <2>3 DEF Reconcile, Ledger!Reconcile, Ledger!StorageError
<1> USE DEF Refusals, Unreserved, Reserved, Sent, Settling, Fields, IsJob, Early, Covered,
       Priced, Confirmed, Reconciled, Billed, Refused, Stranded, JobInv, Sees
<1>3. CASE job[r].kept /\ reply'.outcome = "error"
  <2> DEFINE j == [job[r] EXCEPT !.at = IF job[r].streamed THEN "request" ELSE "done",
                                 !.told = IF job[r].streamed THEN @ ELSE "failed",
                                 !.slips = @ \cup {"reconcile"}]
  <2>1. job' = [job EXCEPT ![r] = j]
    BY <1>3 DEF Reconcile, BookingFails
  <2>2. JobInv(rows, job[r], r, enforce) => JobInv(rows', j, r, enforce) /\ Sees(job[r], j)
    <3>1. CASE job[r].streamed
      BY <1>1, <1>2, <1>3, <3>1 DEF Same
    <3>2. CASE ~job[r].streamed
      BY <1>1, <1>2, <1>3, <3>2 DEF Same
    <3> QED
      BY <3>1, <3>2
  <2> HIDE DEF j, JobInv
  <2> QED
    BY <1>1, <1>2, <2>1, <2>2, RowTurn
<1>4. CASE ~(job[r].kept /\ reply'.outcome = "error")
  <2> DEFINE j == [job[r] EXCEPT !.at = "request"]
  <2>1. job' = [job EXCEPT ![r] = j]
    BY <1>4 DEF Reconcile, Goto
  <2>2. JobInv(rows, job[r], r, enforce) => JobInv(rows', j, r, enforce) /\ Sees(job[r], j)
    BY <1>1, <1>2, <1>4 DEF Same
  <2> HIDE DEF j, JobInv
  <2> QED
    BY <1>1, <1>2, <2>1, <2>2, RowTurn
<1> QED
  BY <1>3, <1>4

(* The process dies: what was on its way is dropped.                        *)
LEMMA CrashStep ==
  ASSUME Inv, Crash
  PROVE  Inv'
<1>1. /\ rows' = rows /\ enforce' = enforce /\ DOMAIN job' = Requests
      /\ \A r \in Requests :
           job'[r] = IF job[r].at \in Over \cup {"idle"} THEN job[r]
                     ELSE [job[r] EXCEPT !.at = "dropped", !.told = "gone"]
  BY DEF Crash, Off
<1>2. ASSUME NEW r \in Requests
      PROVE  JobInv(rows, job'[r], r, enforce)
  <2> DEFINE j == [job[r] EXCEPT !.at = "dropped", !.told = "gone"]
  <2>1. JobInv(rows, job[r], r, enforce)
    BY DEF Inv
  <2>2. job[r].at \notin Over => JobInv(rows, j, r, enforce)
    BY <2>1 DEF Over, Refusals, Unreserved, Reserved, Sent, Settling, Fields, IsJob, Early,
       Covered, Priced, Confirmed, Reconciled, Billed, Refused, Stranded, JobInv
  <2> HIDE DEF j
  <2>3. job'[r] = job[r] \/ (job[r].at \notin Over /\ job'[r] = j)
    BY <1>1 DEF j
  <2> QED
    BY <2>1, <2>2, <2>3
<1> QED
  BY <1>1, <1>2 DEF Inv

LEMMA InitInv == Init => Inv
<1> SUFFICES ASSUME Init PROVE Inv
  OBVIOUS
<1>1. rows = << >> /\ DOMAIN job = Requests /\ \A r \in Requests : job[r] = NewJob
  BY DEF Init
<1>2. \A r, y : EntryIds(rows, r, y) = {}
  BY <1>1 DEF EntryIds
<1>3. \A r \in Requests : JobInv(rows, NewJob, r, enforce)
  BY <1>2 DEF NewJob, Refusals, Unreserved, Reserved, Sent, Settling, Fields, IsJob, Early,
     Covered, Priced, Confirmed, Reconciled, Billed, Refused, Stranded, JobInv
<1>4. IsTable(rows)
  BY <1>1 DEF IsTable
<1> QED
  BY <1>1, <1>3, <1>4 DEF Inv

LEMMA NextInv == Inv /\ [Next]_vars => Inv'
<1> SUFFICES ASSUME Inv, [Next]_vars PROVE Inv'
  OBVIOUS
<1>1. ASSUME NEW r \in Requests,
             \/ Arrive(r) \/ Admit(r) \/ Step(r) \/ Dispatch(r)
             \/ StreamEnds(r) \/ StreamBreaks(r) \/ Disconnect(r)
      PROVE  Inv'
  <2>1. Turn(r)
    BY <1>1, EarlySteps, ReserveStep, CheckSteps, ProviderSteps, ReleaseStep, ReconcileStep,
       LateSteps DEF Step
  <2> QED
    BY <2>1, TurnKeeps
<1>2. CASE Crash
  BY <1>2, CrashStep
<1>3. ASSUME \/ \E b \in Budgets : ResetBudget(b) \/ \E limit \in Limits : SetBudget(b, limit)
             \/ UNCHANGED vars
      PROVE  Inv'
  <2>1. rows' = rows /\ job' = job /\ enforce' = enforce
    BY <1>3 DEF ResetBudget, SetBudget, vars
  <2> QED
    BY <2>1 DEF Inv
<1> QED
  BY <1>1, <1>2, <1>3 DEF Next

(* Invariance of what each handler knows of its rows.                       *)
THEOREM Invariance == Spec => []Inv
<1> QED
  BY InitInv, NextInv, PTL DEF Spec

--------------------------------------------------------------------------------
(* What a reservation may take                                              *)

TotalsInt(t) == \A i \in DOMAIN t : t[i].total \in Int

(* Every row belongs to a request, and a reserve of j was granted within    *)
(* the limits that j has seen.                                              *)
Granted(t, r, seen) ==
  \A i \in EntryIds(t, r, "reserve") :
    seen[t[i].budget] # NoLimit => t[i].total <= seen[t[i].budget]

LimitsOf(seen) == \A b \in DOMAIN seen : seen[b] \in Int \cup {NoLimit}

GrantInv ==
  /\ TotalsInt(rows) /\ \A i \in DOMAIN rows : rows[i].request \in Requests
  /\ \A b \in Budgets : limits[b] \in Int \cup {NoLimit} \cup NoBudget
  /\ \A r \in Requests : LimitsOf(job[r].seen) /\ (enforce => Granted(rows, r, job[r].seen))

(* From t to u come rows of r alone, and when limits are enforced none that *)
(* reserves more than seen.                                                 *)
Writes(t, u, r, e, seen) ==
  /\ \A i \in DOMAIN t : i \in DOMAIN u /\ u[i] = t[i]
  /\ \A i \in DOMAIN u : i \in DOMAIN t \/
       /\ u[i].request = r /\ u[i].total \in Int
       /\ e /\ u[i].type = "reserve" /\ seen[u[i].budget] # NoLimit
            => u[i].total <= seen[u[i].budget]

(* Running totals are integers, 0 before the first row of a budget.         *)
LEMMA LatestInt ==
  ASSUME NEW t, IsTable(t), TotalsInt(t), NEW b
  PROVE  LatestTotal(t, b) \in Int
<1> DEFINE S == BudgetIds(t, b)
<1>1. CASE S = {}
  BY <1>1 DEF LatestTotal
<1>2. CASE S # {}
  <2>1. DOMAIN t = 1..Len(t) /\ Len(t) \in Nat
    BY LenProperties DEF IsTable
  <2>2. S \subseteq 1..Len(t)
    BY <2>1 DEF BudgetIds
  <2> HIDE DEF S
  <2>3. S \in SUBSET Int /\ IsFiniteSet(S)
    <3>1. IsFiniteSet(1..Len(t))
      BY <2>1, FS_Interval
    <3>2. IsFiniteSet(S)
      BY ONLY <2>2, <3>1, FS_Subset
    <3> QED
      BY <2>1, <2>2, <3>2
  <2>4. PICK m \in S : \A j \in S : j <= m
    BY <1>2, <2>3, LargestOf
  <2>5. \A j \in S : m >= j
    BY <2>3, <2>4
  <2>6. Max(S) \in S
    BY <2>5 DEF Max
  <2>7. t[Max(S)].total \in Int
    BY <2>1, <2>2, <2>6 DEF TotalsInt
  <2> QED
    BY <1>2, <2>7 DEF LatestTotal, S
<1> QED
  BY <1>1, <1>2

LEMMA LedgerTotals == \A t, b : Ledger!LatestTotal(t, b) = LatestTotal(t, b)
BY DEF Ledger!LatestTotal, LatestTotal, Ledger!BudgetIds, BudgetIds, Ledger!Max, Max

(* A commit of integer amounts has integer totals.                          *)
LEMMA CommitWrites ==
  ASSUME NEW t, IsTable(t), TotalsInt(t), NEW r, NEW type, NEW n \in Nat,
         NEW budgets, NEW amounts, NEW e, NEW seen,
         \A k \in 1..n : amounts[k] \in Int,
         NEW u, Appended(t, u, n, r, type, budgets, amounts),
         type = "reserve" /\ e => \A k \in 1..n : seen[budgets[k]] # NoLimit =>
           LatestTotal(t, budgets[k]) + amounts[k] <= seen[budgets[k]]
  PROVE  Writes(t, u, r, e, seen)
<1>1. ASSUME NEW i \in DOMAIN u, i \notin DOMAIN t
      PROVE  /\ u[i].request = r /\ u[i].total \in Int
             /\ e /\ u[i].type = "reserve" /\ seen[u[i].budget] # NoLimit
                  => u[i].total <= seen[u[i].budget]
  <2>1. PICK k \in 1..n : i = Len(t) + k
    BY <1>1 DEF Appended
  <2>2. u[i] = Entry(r, type, budgets[k], amounts[k], LatestTotal(t, budgets[k]) + amounts[k])
    BY <2>1 DEF Appended
  <2>3. /\ u[i].request = r /\ u[i].type = type /\ u[i].budget = budgets[k]
        /\ u[i].total = LatestTotal(t, budgets[k]) + amounts[k]
    BY <2>2 DEF Entry
  <2>4. LatestTotal(t, budgets[k]) + amounts[k] \in Int
    BY LatestInt
  <2> QED
    BY <2>3, <2>4
<1> QED
  BY <1>1 DEF Writes, Appended

LEMMA NothingWritten ==
  ASSUME rows' = rows, NEW r, NEW e, NEW seen
  PROVE  Writes(rows, rows', r, e, seen)
BY DEF Writes

(* A reserve within the limits it is given.                                 *)
LEMMA ReserveWrites ==
  ASSUME IsTable(rows), TotalsInt(rows), NEW r, NEW n \in Nat, NEW list,
         DOMAIN list = 1..n, Len(list) = n, NEW seen, NEW est \in Int, NEW e,
         \A k \in 1..n : seen[list[k]] \in Int \cup {NoLimit},
         Ledger!ReserveInternal(r, list, seen, est, e)
  PROVE  Writes(rows, rows', r, e, seen)
<1> DEFINE ests == [k \in 1..Len(list) |-> est]
<1>1. CASE rows' = rows
  BY <1>1, NothingWritten
<1>2. CASE /\ Ledger!Commit(r, "reserve", list, ests)
           /\ \A k \in 1..n : ~Ledger!Stops(list[k], est, seen[list[k]], e)
  <2>1. rows' = rows \o Ledger!Postings(rows, r, "reserve", list, ests)
    BY <1>2 DEF Ledger!Commit
  <2>2. \A k \in 1..n : ests[k] = est /\ ests[k] \in Int
    OBVIOUS
  <2> HIDE DEF ests
  <2>3. Appended(rows, rows', n, r, "reserve", list, ests)
    BY <2>1, Commits
  <2>4. ASSUME e, NEW k \in 1..n, seen[list[k]] # NoLimit
        PROVE  LatestTotal(rows, list[k]) + ests[k] <= seen[list[k]]
    <3>1. ~Ledger!Exceeds(list[k], est, seen[list[k]])
      BY <1>2, <2>4 DEF Ledger!Stops
    <3>2. ~(LatestTotal(rows, list[k]) + est > seen[list[k]])
      BY <2>4, <3>1, LedgerTotals DEF Ledger!Exceeds
    <3>3. LatestTotal(rows, list[k]) \in Int /\ seen[list[k]] \in Int
      BY <2>4, LatestInt
    <3> QED
      BY <2>2, <3>2, <3>3
  <2> QED
    BY <2>2, <2>3, <2>4, CommitWrites
<1>3. \A outcome, ids : Ledger!Answer(r, outcome, ids) => rows' = rows
  BY DEF Ledger!Answer
<1>4. Ledger!NewReserve(r, list, seen, est, e) =>
        \/ rows' = rows
        \/ /\ Ledger!Commit(r, "reserve", list, ests)
           /\ \A k \in 1..n : ~Ledger!Stops(list[k], est, seen[list[k]], e)
  BY <1>3 DEF Ledger!NewReserve
<1> HIDE DEF ests
<1> QED
  BY <1>1, <1>2, <1>3, <1>4 DEF Ledger!ReserveInternal

(* A settlement of integer amounts reserves nothing.                        *)
LEMMA SettleWrites ==
  ASSUME IsTable(rows), TotalsInt(rows), NEW r, NEW op, NEW other, op # "reserve",
         NEW amount, NEW e, NEW seen,
         \A j \in EntryIds(rows, r, "reserve") : amount[j] \in Int,
         Ledger!Settle(op, other, r, amount)
  PROVE  Writes(rows, rows', r, e, seen)
<1> DEFINE held == EntryIds(rows, r, "reserve")
           budgets(ids) == [k \in DOMAIN ids |-> rows[ids[k]].budget]
           amounts(ids) == [k \in DOMAIN ids |-> amount[ids[k]]]
           n == Cardinality(held)
<1>1. CASE rows' = rows
  BY <1>1, NothingWritten
<1>2. ASSUME NEW ids \in Ledger!Ascending(held),
             Ledger!Commit(r, op, budgets(ids), amounts(ids))
      PROVE  Writes(rows, rows', r, e, seen)
  <2>1. n \in Nat
    <3>1. DOMAIN rows = 1..Len(rows) /\ Len(rows) \in Nat
      BY LenProperties DEF IsTable
    <3>2. IsFiniteSet(1..Len(rows)) /\ held \in SUBSET (1..Len(rows))
      BY <3>1, FS_Interval DEF EntryIds
    <3>3. IsFiniteSet(held)
      BY <3>2, FS_Subset
    <3> QED
      BY <3>3, FS_CardinalityType
  <2>2. ids \in [1..n -> held]
    BY DEF Ledger!Ascending, Ledger!Cardinality, Cardinality
  <2>3. \A j \in held : amount[j] \in Int
    OBVIOUS
  <2> HIDE DEF held, n
  <2>4. /\ DOMAIN budgets(ids) = 1..n
        /\ rows' = rows \o Ledger!Postings(rows, r, op, budgets(ids), amounts(ids))
    BY <1>2, <2>2 DEF Ledger!Commit
  <2>5. \A k \in 1..n : amounts(ids)[k] \in Int
    BY <2>2, <2>3
  <2> HIDE DEF budgets, amounts
  <2>6. Appended(rows, rows', n, r, op, budgets(ids), amounts(ids))
    BY <2>1, <2>4, Commits
  <2> QED
    BY <2>1, <2>5, <2>6, CommitWrites
<1>3. \/ rows' = rows
      \/ \E ids \in Ledger!Ascending(held) :
           Ledger!Commit(r, op, budgets(ids), amounts(ids))
  <2> HIDE DEF held
  <2>1. Ledger!EntryIds(rows, r, "reserve") = held
    BY LedgerQueries DEF held
  <2>2. \A outcome, ids : Ledger!Answer(r, outcome, ids) => rows' = rows
    BY DEF Ledger!Answer
  <2> QED
    BY <2>1, <2>2 DEF Ledger!Settle
<1> QED
  BY <1>1, <1>2, <1>3

(* The three steps that call the ledger.                                    *)
LEMMA LedgerWrites ==
  ASSUME Inv, GrantInv, NEW r \in Requests, Reserve(r) \/ ReleaseHold(r) \/ Reconcile(r)
  PROVE  Writes(rows, rows', r, enforce, job[r].seen)
<1>1. /\ IsTable(rows) /\ TotalsInt(rows) /\ LimitsOf(job[r].seen)
      /\ job[r].est \in Int /\ job[r].cost \in Int
      /\ \A i \in EntryIds(rows, r, "reserve") : rows[i].amount = job[r].est
  BY DEF Inv, GrantInv, JobInv, IsJob, Priced
<1>2. \A outcome, ids : Ledger!Answer(r, outcome, ids) => rows' = rows
  BY DEF Ledger!Answer
<1>3. CASE rows' = rows
  BY <1>3, NothingWritten
<1>4. ASSUME NEW list \in Listings(r),
             Ledger!ReserveInternal(r, list, job[r].seen, job[r].est, enforce)
      PROVE  Writes(rows, rows', r, enforce, job[r].seen)
  <2>1. PICK n \in Nat : /\ DOMAIN list = 1..n /\ Len(list) = n
                         /\ {list[k] : k \in 1..n} = DOMAIN job[r].seen
    BY ListingsFound
  <2>2. \A k \in 1..n : job[r].seen[list[k]] \in Int \cup {NoLimit}
    BY <1>1, <2>1 DEF LimitsOf
  <2> QED
    BY <1>1, <1>4, <2>1, <2>2, ReserveWrites
<1>5. ASSUME NEW c \in Int, NEW op \in {"reconcile", "release"}, NEW other,
             Ledger!Settle(op, other, r, [i \in DOMAIN rows |-> c - rows[i].amount])
      PROVE  Writes(rows, rows', r, enforce, job[r].seen)
  <2> DEFINE amount == [i \in DOMAIN rows |-> c - rows[i].amount]
  <2>1. \A i \in EntryIds(rows, r, "reserve") : amount[i] \in Int
    BY <1>1 DEF EntryIds
  <2>2. Ledger!Settle(op, other, r, amount)
    BY <1>5
  <2> HIDE DEF amount
  <2> QED
    BY <1>1, <2>1, <2>2, SettleWrites
<1>6. CASE Reserve(r)
  BY <1>2, <1>3, <1>4, <1>6 DEF Reserve, Ledger!StorageError
<1>7. CASE ReleaseHold(r)
  <2>1. \/ rows' = rows
        \/ Ledger!Settle("release", "reconcile", r, [i \in DOMAIN rows |-> 0 - rows[i].amount])
    BY <1>2, <1>7 DEF ReleaseHold, Ledger!Release, Ledger!StorageError, table
  <2> QED
    BY <1>3, <1>5, <2>1
<1>8. CASE Reconcile(r)
  <2>1. \/ rows' = rows
        \/ Ledger!Settle("reconcile", "release", r,
                         [i \in DOMAIN rows |-> job[r].cost - rows[i].amount])
    BY <1>2, <1>8 DEF Reconcile, Ledger!Reconcile, Ledger!StorageError, table
  <2> QED
    BY <1>1, <1>3, <1>5, <2>1
<1> QED
  BY <1>6, <1>7, <1>8

(* A step of r keeps the grants of all requests.                            *)
LEMMA TurnGrants ==
  ASSUME Inv, GrantInv, NEW r \in Requests, Turn(r), limits' = limits,
         Writes(rows, rows', r, enforce, job[r].seen)
  PROVE  GrantInv'
<1>1. TotalsInt(rows') /\ \A i \in DOMAIN rows' : rows'[i].request \in Requests
  BY DEF GrantInv, Writes, TotalsInt
<1>2. ASSUME NEW q \in Requests, enforce, job'[q].seen = job[q].seen
      PROVE  Granted(rows', q, job[q].seen)
  <2> SUFFICES ASSUME NEW i \in EntryIds(rows', q, "reserve"),
                      job[q].seen[rows'[i].budget] # NoLimit
               PROVE  rows'[i].total <= job[q].seen[rows'[i].budget]
    BY DEF Granted
  <2>1. i \in DOMAIN rows' /\ rows'[i].request = q /\ rows'[i].type = "reserve"
    BY DEF EntryIds
  <2>2. CASE i \in DOMAIN rows
    <3>1. rows'[i] = rows[i] /\ i \in EntryIds(rows, q, "reserve")
      BY <2>1, <2>2 DEF Writes, EntryIds
    <3> QED
      BY <1>2, <3>1 DEF GrantInv, Granted
  <2>3. CASE i \notin DOMAIN rows
    BY <1>2, <2>1, <2>3 DEF Writes
  <2> QED
    BY <2>2, <2>3
<1>3. ASSUME job'[r].seen # job[r].seen
      PROVE  LimitsOf(job'[r].seen) /\ Granted(rows', r, job'[r].seen)
  <2>1. job[r].at = "lookup" /\ rows' = rows /\ Read(job'[r].seen)
    BY <1>3 DEF Turn, Sees
  <2>2. EntryIds(rows', r, "reserve") = {}
    BY <2>1 DEF Inv, JobInv, Early, Unreserved
  <2>3. LimitsOf(job'[r].seen)
    BY <2>1 DEF Read, LimitsOf, GrantInv
  <2> QED
    BY <2>2, <2>3 DEF Granted
<1>4. ASSUME NEW q \in Requests
      PROVE  LimitsOf(job'[q].seen) /\ (enforce => Granted(rows', q, job'[q].seen))
  <2>1. CASE job'[q].seen = job[q].seen
    <3>1. LimitsOf(job[q].seen)
      BY DEF GrantInv
    <3> QED
      BY <1>2, <2>1, <3>1
  <2>2. CASE job'[q].seen # job[q].seen
    <3>1. q = r
      BY <2>2 DEF Turn
    <3> QED
      BY <1>3, <2>2, <3>1
  <2> QED
    BY <2>1, <2>2
<1>5. \A b \in Budgets : limits'[b] \in Int \cup {NoLimit} \cup NoBudget
  BY DEF GrantInv
<1>6. enforce' = enforce
  BY DEF Turn
<1> QED
  BY <1>1, <1>4, <1>5, <1>6 DEF GrantInv

LEMMA InitGrants == Init => GrantInv
<1> SUFFICES ASSUME Init PROVE GrantInv
  OBVIOUS
<1>1. rows = << >> /\ limits \in InitLimits /\ \A r \in Requests : job[r] = NewJob
  BY DEF Init
<1>2. \A r : EntryIds(rows, r, "reserve") = {}
  BY <1>1 DEF EntryIds
<1>3. limits \in [Budgets -> Int \cup {NoLimit, Absent}]
  BY <1>1, LimitsAssumption
<1>4. NewJob.seen = << >>
  BY DEF NewJob
<1> QED
  BY <1>1, <1>2, <1>3, <1>4 DEF GrantInv, TotalsInt, Granted, LimitsOf, NoBudget

LEMMA NextGrants == Inv /\ GrantInv /\ [Next]_vars => GrantInv'
<1> SUFFICES ASSUME Inv, GrantInv, [Next]_vars PROVE GrantInv'
  OBVIOUS
<1>1. ASSUME NEW r \in Requests, Reserve(r) \/ ReleaseHold(r) \/ Reconcile(r)
      PROVE  GrantInv'
  <2>1. Turn(r)
    BY <1>1, ReserveStep, ReleaseStep, ReconcileStep
  <2>2. limits' = limits
    BY <1>1 DEF Reserve, ReleaseHold, Reconcile
  <2> QED
    BY <1>1, <2>1, <2>2, LedgerWrites, TurnGrants
<1>2. ASSUME NEW r \in Requests, Off,
             \/ Arrive(r) \/ Admit(r) \/ Attribute(r) \/ CheckBudgets(r) \/ Estimate(r)
             \/ Lookup(r) \/ SoftCheck(r) \/ Confirm(r) \/ Dispatch(r) \/ StreamEnds(r)
             \/ StreamBreaks(r) \/ Price(r) \/ PersistRequest(r) \/ PersistUsage(r)
             \/ Disconnect(r)
      PROVE  GrantInv'
  <2>1. Turn(r)
    BY <1>2, EarlySteps, CheckSteps, ProviderSteps, LateSteps
  <2>2. limits' = limits /\ rows' = rows
    BY <1>2 DEF Off
  <2> QED
    BY <2>1, <2>2, NothingWritten, TurnGrants
<1>3. CASE Crash
  <2>1. UNCHANGED <<rows, limits, enforce>>
    BY <1>3 DEF Crash, Off
  <2>2. ASSUME NEW r \in Requests PROVE job'[r].seen = job[r].seen
    <3>1. DOMAIN job[r] = Fields
      BY DEF Inv, JobInv, IsJob
    <3>2. \/ job'[r] = job[r]
          \/ job'[r] = [job[r] EXCEPT !.at = "dropped", !.told = "gone"]
      BY <1>3 DEF Crash
    <3> QED
      BY <3>1, <3>2 DEF Fields
  <2> QED
    BY <2>1, <2>2 DEF GrantInv, TotalsInt, Granted, LimitsOf
<1>4. ASSUME NEW b \in Budgets, ResetBudget(b) \/ \E limit \in Limits : SetBudget(b, limit)
      PROVE  GrantInv'
  <2>1. rows' = rows /\ job' = job /\ enforce' = enforce
    BY <1>4 DEF ResetBudget, SetBudget
  <2>2. \A c \in Budgets : limits'[c] \in Int \cup {NoLimit} \cup NoBudget
    <3>1. PICK new \in Limits \cup {Removed} : limits' = [limits EXCEPT ![b] = new]
      BY <1>4 DEF ResetBudget, SetBudget
    <3>2. \A c \in Budgets : limits'[c] = limits[c] \/ limits'[c] = new
      BY <3>1
    <3> QED
      BY <3>1, <3>2, LimitsAssumption DEF GrantInv, NoBudget
  <2> QED
    BY <2>1, <2>2 DEF GrantInv
<1>5. CASE UNCHANGED vars
  BY <1>5 DEF vars, GrantInv, TotalsInt, Granted, LimitsOf
<1>6. ASSUME NEW r \in Requests,
             \/ Arrive(r) \/ Admit(r) \/ Step(r) \/ Dispatch(r)
             \/ StreamEnds(r) \/ StreamBreaks(r) \/ Disconnect(r)
      PROVE  GrantInv'
  <2>1. \/ Reserve(r) \/ ReleaseHold(r) \/ Reconcile(r)
        \/ Off
    BY <1>6 DEF Arrive, Admit, Step, Attribute, CheckBudgets, Estimate, Lookup, SoftCheck,
       Confirm, Price, PersistRequest, PersistUsage, Dispatch, Rejected, Answered,
       StreamStarts, Elapse, StreamEnds, StreamBreaks, Disconnect
  <2> QED
    BY <1>1, <1>2, <1>6, <2>1 DEF Step
<1> QED
  BY <1>3, <1>4, <1>5, <1>6 DEF Next

(* In guard mode a reservation is within the limits its request looked up,  *)
(* whatever operators do to the limits in the meantime, and whoever else    *)
(* reserves between the lookup and the reserve.                             *)
THEOREM GrantsChecked == Spec => []GrantsWithinSeen
<1>1. GrantInv => GrantsWithinSeen
  <2> SUFFICES ASSUME GrantInv, enforce, NEW i \in DOMAIN rows, rows[i].type = "reserve",
                      job[rows[i].request].seen[rows[i].budget] # NoLimit
               PROVE  rows[i].total <= job[rows[i].request].seen[rows[i].budget]
    BY DEF GrantsWithinSeen
  <2> DEFINE r == rows[i].request
  <2>1. r \in Requests /\ i \in EntryIds(rows, r, "reserve")
    BY DEF GrantInv, EntryIds
  <2>2. Granted(rows, r, job[r].seen)
    BY <2>1 DEF GrantInv
  <2> QED
    BY <2>1, <2>2 DEF Granted
<1> QED
  BY <1>1, InitGrants, NextGrants, InitInv, NextInv, PTL DEF Spec

--------------------------------------------------------------------------------
(* What follows from it                                                     *)

(* The phase of a request, by the rows it has.                              *)
LEMMA Phases ==
  ASSUME NEW r
  PROVE  /\ Held(r) <=> /\ EntryIds(rows, r, "reserve") # {}
                        /\ EntryIds(rows, r, "reconcile") = {}
                        /\ EntryIds(rows, r, "release") = {}
         /\ Phase(r) = "settled" <=> EntryIds(rows, r, "reconcile") # {}
         /\ EntryIds(rows, r, "reconcile") = {} /\ EntryIds(rows, r, "release") = {}
              => Phase(r) \in {"none", "held"}
BY LedgerQueries DEF Held, Phase, Ledger!Phase

(* A settled request is charged its cost.                                   *)
LEMMA Charges ==
  ASSUME Inv, NEW r \in Requests, EntryIds(rows, r, "reserve") # {},
         EntryIds(rows, r, "reconcile") # {}
  PROVE  Phase(r) = "settled" /\ Ledger!Charge(rows, r) = job[r].cost
<1>1. Phase(r) = "settled"
  BY Phases
<1>2. \A y : EntryIds(rows, r, y) # {} =>
        \E i \in EntryIds(rows, r, y) : Ledger!Posted(rows, r, y) = rows[i].amount
  BY LedgerQueries DEF Ledger!Posted
<1>3. Priced(rows, job[r], r) /\ job[r].est \in Int /\ job[r].cost \in Int
  BY DEF Inv, JobInv, IsJob
<1>4. /\ Ledger!Posted(rows, r, "reserve") = job[r].est
      /\ Ledger!Posted(rows, r, "reconcile") = job[r].cost - job[r].est
  BY <1>2, <1>3 DEF Priced
<1>5. Ledger!Charge(rows, r) = job[r].est + (job[r].cost - job[r].est)
  BY <1>1, <1>4 DEF Phase, Ledger!Charge
<1> QED
  BY <1>1, <1>3, <1>5

(* Guard mode fails closed: what is sent after budgets were found for it is *)
(* held on all of them (BudgetEvaluator's failsafe_decision).               *)
THEOREM SentIsHeld == Spec => []FailClosed
<1>1. Inv => FailClosed
  <2> SUFFICES ASSUME Inv, NEW r \in Requests, enforce,
                      job[r].at \in {"sending", "streaming", "pricing"}
               PROVE  /\ EntryBudgets(rows, r, "reserve") = DOMAIN job[r].seen
                      /\ DOMAIN job[r].seen # {} => Held(r)
    BY DEF FailClosed
  <2>1. /\ EntryBudgets(rows, r, "reserve") = DOMAIN job[r].seen
        /\ EntryIds(rows, r, "reconcile") = {} /\ EntryIds(rows, r, "release") = {}
    BY DEF Inv, JobInv, Early, Covered, Reserved
  <2>2. EntryIds(rows, r, "reserve") = {} => EntryBudgets(rows, r, "reserve") = {}
    BY DEF EntryBudgets
  <2> QED
    BY <2>1, <2>2, Phases
<1> QED
  BY <1>1, Invariance, PTL

(* Only the failures the code drops leave a reservation behind              *)
(* (maybe_release_on_dispatch_failure, has_reserve_entry's unwrap_or).      *)
THEOREM LeftoverIsFailure == Spec => []NoStrandedHold
<1>1. Inv => NoStrandedHold
  <2> SUFFICES ASSUME Inv, NEW r \in Requests, job[r].at = "done", Held(r)
               PROVE  \/ "soft" \in job[r].slips /\ enforce /\ job[r].told = "refused"
                      \/ {"confirm", "release", "reconcile"} \cap job[r].slips # {}
    BY DEF NoStrandedHold
  <2>1. Stranded(rows, job[r], r, enforce)
    BY DEF Inv, JobInv
  <2> QED
    BY <2>1, Phases DEF Stranded
<1> QED
  BY <1>1, Invariance, PTL

(* What the provider billed is what is charged (reconcile_after_dispatch).  *)
THEOREM BilledCharged == Spec => []BilledIsCharged
<1>1. Inv => BilledIsCharged
  <2> SUFFICES ASSUME Inv, NEW r \in Requests,
                      job[r].at = "done", job[r].billed # -1, job[r].kept,
                      {"incomplete", "price", "reconcile"} \cap job[r].slips = {}
               PROVE  Phase(r) = "settled" /\ Ledger!Charge(rows, r) = job[r].billed
    BY DEF BilledIsCharged
  <2>1. EntryIds(rows, r, "reserve") # {} /\ EntryIds(rows, r, "reconcile") # {}
    BY DEF Inv, JobInv, Confirmed, Reconciled
  <2>2. job[r].cost = job[r].billed
    BY DEF Inv, JobInv, Billed
  <2> QED
    BY <2>1, <2>2, Charges
<1> QED
  BY <1>1, Invariance, PTL

(* A request answered with a 402 is never sent nor charged (the checks of   *)
(* process_normalized_request come before the dispatch).                    *)
THEOREM RefusedFree == Spec => []RefusedIsFree
<1>1. Inv => RefusedIsFree
  <2> SUFFICES ASSUME Inv, NEW r \in Requests, job[r].told \in {"blocked", "refused", "paused"}
               PROVE  /\ job[r].billed = -1 /\ job[r].books = "none"
                      /\ Held(r) => "soft" \in job[r].slips
                      /\ Phase(r) \in {"none", "held"}
    BY DEF RefusedIsFree
  <2>1. Refused(rows, job[r], r)
    BY DEF Inv, JobInv
  <2> QED
    BY <2>1, Phases DEF Refused, Refusals
<1> QED
  BY <1>1, Invariance, PTL

(* A usage row and the ledger agree on the cost, except for a stream whose  *)
(* reconcile failed (persist_request_and_usage after the reconcile).        *)
THEOREM UsageCharged == Spec => []UsageMatchesCharge
<1>1. Inv => UsageMatchesCharge
  <2> SUFFICES ASSUME Inv, NEW r \in Requests, job[r].books = "usage", job[r].kept
               PROVE  \/ Phase(r) = "settled" /\ Ledger!Charge(rows, r) = job[r].cost
                      \/ job[r].streamed /\ "reconcile" \in job[r].slips /\ Held(r)
    BY DEF UsageMatchesCharge
  <2>1. EntryIds(rows, r, "reserve") # {} /\ job[r].at = "done" /\ job[r].billed # -1
    BY DEF Inv, JobInv, Confirmed, Billed
  <2>2. \/ EntryIds(rows, r, "reconcile") # {}
        \/ /\ "reconcile" \in job[r].slips /\ job[r].streamed
           /\ EntryIds(rows, r, "reconcile") = {} /\ EntryIds(rows, r, "release") = {}
    BY <2>1 DEF Inv, JobInv, Reconciled
  <2> QED
    BY <2>1, <2>2, Phases, Charges
<1> QED
  BY <1>1, Invariance, PTL
================================================================================
