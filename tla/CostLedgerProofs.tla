---------------------------- MODULE CostLedgerProofs ----------------------------
(****************************************************************************)
(* Proofs about CostLedger, for every set of requests and budgets, every     *)
(* limit, every cost and every width of Money; and that it implements        *)
(* BudgetHolds.                                                              *)
(****************************************************************************)
EXTENDS CostLedger, FiniteSums, SequenceTheorems, FiniteSetTheorems, TLAPS

RowSet == [request : Requests, type : EntryTypes, budget : Budgets,
           amount : Int, total : Int]

(* Every budget that has rows has a last one.  (It is carried as part of the *)
(* inductive invariant: each commit exhibits the new last row of a budget.)  *)
HasLatest(t) ==
  \A b \in Budgets :
    BudgetIds(t, b) # {} =>
      \E m \in BudgetIds(t, b) : \A j \in BudgetIds(t, b) : j <= m

(* u is t after a commit of n rows.                                          *)
Posts(t, u, n, r, type, budgets, amounts) ==
  /\ u \in Seq(RowSet)
  /\ Len(u) = Len(t) + n
  /\ \A i \in 1..Len(t) : u[i] = t[i]
  /\ \A k \in 1..n :
       u[Len(t) + k] = Entry(r, type, budgets[k], amounts[k],
                             LatestTotal(t, budgets[k]) + amounts[k])

--------------------------------------------------------------------------------
(* The operators of the table.                                              *)

(* The maximum of a set is the member that no other exceeds.                *)
LEMMA MaxOf ==
  ASSUME NEW S \in SUBSET Int, NEW m \in S, \A j \in S : j <= m
  PROVE  Max(S) = m
<1>1. \A y \in S : m >= y
  OBVIOUS
<1>2. ASSUME NEW x \in S, \A y \in S : x >= y
      PROVE  x = m
  BY <1>2
<1>3. QED
  BY <1>1, <1>2 DEF Max

(* The running total of a budget is that of its last row.                   *)
LEMMA LatestAt ==
  ASSUME NEW t \in Seq(RowSet), NEW b, NEW m \in BudgetIds(t, b),
         \A j \in BudgetIds(t, b) : j <= m
  PROVE  LatestTotal(t, b) = t[m].total /\ LatestTotal(t, b) \in Int
<1>1. BudgetIds(t, b) \subseteq 1..Len(t) /\ BudgetIds(t, b) \subseteq Int
  BY LenProperties DEF BudgetIds
<1>2. Max(BudgetIds(t, b)) = m
  BY <1>1, MaxOf
<1>3. t[m] \in RowSet
  BY <1>1, ElementOfSeq
<1>4. QED
  BY <1>2, <1>3 DEF LatestTotal, RowSet

(* Running totals are integers, 0 before the first row of a budget.         *)
LEMMA LatestOf ==
  ASSUME NEW t \in Seq(RowSet), HasLatest(t), NEW b \in Budgets
  PROVE  LatestTotal(t, b) \in Int
<1>1. CASE BudgetIds(t, b) = {}
  BY <1>1 DEF LatestTotal
<1>2. CASE BudgetIds(t, b) # {}
  BY <1>2, LatestAt DEF HasLatest
<1>3. QED
  BY <1>1, <1>2

(* A commit appends one row per budget of its list, as Posts says.          *)
LEMMA CommitPosts ==
  ASSUME NEW t \in Seq(RowSet), HasLatest(t), NEW n \in Nat,
         NEW r \in Requests, NEW type \in EntryTypes,
         NEW budgets \in [1..n -> Budgets], NEW amounts \in [1..n -> Int],
         NEW u, u = t \o Postings(t, r, type, budgets, amounts)
  PROVE  Posts(t, u, n, r, type, budgets, amounts)
<1> DEFINE new == Postings(t, r, type, budgets, amounts)
<1>1. new = [k \in 1..n |-> Entry(r, type, budgets[k], amounts[k],
                                  LatestTotal(t, budgets[k]) + amounts[k])]
  BY DEF Postings
<1>2. ASSUME NEW k \in 1..n
      PROVE  Entry(r, type, budgets[k], amounts[k],
                   LatestTotal(t, budgets[k]) + amounts[k]) \in RowSet
  <2>1. LatestTotal(t, budgets[k]) \in Int
    BY LatestOf
  <2>2. QED
    BY <2>1 DEF Entry, RowSet
<1>3. new \in [1..n -> RowSet]
  BY <1>1, <1>2
<1>4. new \in Seq(RowSet) /\ Len(new) = n
  <2>1. new \in Seq(RowSet)
    BY <1>3, SeqDef
  <2>2. DOMAIN new = 1..Len(new) /\ Len(new) \in Nat
    BY <2>1, LenProperties
  <2>3. QED
    BY <1>3, <2>1, <2>2
<1> HIDE DEF new
<1>5. /\ u \in Seq(RowSet)
      /\ Len(u) = Len(t) + n
      /\ \A i \in 1..Len(t) + n : u[i] = IF i <= Len(t) THEN t[i] ELSE new[i - Len(t)]
  BY <1>4, ConcatProperties DEF new
<1>6. Len(t) \in Nat
  BY LenProperties
<1>7. ASSUME NEW k \in 1..n
      PROVE  u[Len(t) + k] = new[k]
  <2>1. Len(t) + k \in 1..Len(t) + n /\ ~(Len(t) + k <= Len(t)) /\ (Len(t) + k) - Len(t) = k
    BY <1>6
  <2>2. QED
    BY <1>5, <2>1
<1>8. \A i \in 1..Len(t) : u[i] = t[i]
  BY <1>5, <1>6
<1>9. QED
  BY <1>1, <1>5, <1>7, <1>8 DEF Posts, new

(* The ids of the rows of a commit are the new ones.                        *)
AddsBudgets(t, u, n, budgets) ==
  \A b, i : i \in BudgetIds(u, b) <=>
    \/ i \in BudgetIds(t, b)
    \/ \E k \in 1..n : i = Len(t) + k /\ budgets[k] = b

AddsEntries(t, u, n, r, type) ==
  \A q, y, i : i \in EntryIds(u, q, y) <=>
    \/ i \in EntryIds(t, q, y)
    \/ q = r /\ y = type /\ \E k \in 1..n : i = Len(t) + k

(* What a commit adds to the rows of each request and type, and to the rows *)
(* of each budget: its own rows.                                            *)
LEMMA PostsIds ==
  ASSUME NEW t \in Seq(RowSet), NEW u, NEW n \in Nat, NEW r, NEW type,
         NEW budgets, NEW amounts, Posts(t, u, n, r, type, budgets, amounts)
  PROVE  /\ DOMAIN t = 1..Len(t) /\ Len(t) \in Nat
         /\ DOMAIN u = 1..(Len(t) + n)
         /\ AddsBudgets(t, u, n, budgets)
         /\ AddsEntries(t, u, n, r, type)
<1>1. DOMAIN t = 1..Len(t) /\ Len(t) \in Nat /\ DOMAIN u = 1..(Len(t) + n)
  BY LenProperties DEF Posts
<1>2. \A i \in 1..(Len(t) + n) : i \in 1..Len(t) \/ \E k \in 1..n : i = Len(t) + k
  <2> SUFFICES ASSUME NEW i \in 1..(Len(t) + n), i \notin 1..Len(t)
               PROVE  \E k \in 1..n : i = Len(t) + k
    OBVIOUS
  <2>1. i - Len(t) \in 1..n /\ i = Len(t) + (i - Len(t))
    BY <1>1
  <2>2. QED
    BY <2>1
<1>3. ASSUME NEW k \in 1..n
      PROVE  /\ u[Len(t) + k].budget = budgets[k]
             /\ u[Len(t) + k].request = r
             /\ u[Len(t) + k].type = type
  <2>1. u[Len(t) + k] = Entry(r, type, budgets[k], amounts[k],
                              LatestTotal(t, budgets[k]) + amounts[k])
    BY DEF Posts
  <2>2. QED
    BY <2>1 DEF Entry
<1>4. \A k \in 1..n : Len(t) + k \in 1..(Len(t) + n) /\ Len(t) + k \notin 1..Len(t)
  BY <1>1
<1>5. \A i \in 1..Len(t) : u[i] = t[i] /\ i \in 1..(Len(t) + n)
  BY <1>1 DEF Posts
<1>6. ASSUME NEW b, NEW i
      PROVE  i \in BudgetIds(u, b) <=>
               \/ i \in BudgetIds(t, b)
               \/ \E k \in 1..n : i = Len(t) + k /\ budgets[k] = b
  <2>2. ASSUME NEW k \in 1..n, i = Len(t) + k
        PROVE  /\ i \in 1..(Len(t) + n) /\ i \notin 1..Len(t)
               /\ \A j \in 1..n : i = Len(t) + j => j = k
    BY <1>1, <1>4, <2>2
  <2>3. ASSUME NEW k \in 1..n, i = Len(t) + k
        PROVE  /\ budgets[k] = b <=> i \in BudgetIds(u, b)
               /\ i \notin BudgetIds(t, b)
    BY <1>1, <1>3, <2>2, <2>3 DEF BudgetIds
  <2>4. CASE \A k \in 1..n : i # Len(t) + k
    BY <1>1, <1>2, <1>5, <2>4 DEF BudgetIds
  <2>5. QED
    BY <2>2, <2>3, <2>4
<1>7. ASSUME NEW q, NEW y, NEW i
      PROVE  i \in EntryIds(u, q, y) <=>
               \/ i \in EntryIds(t, q, y)
               \/ q = r /\ y = type /\ \E k \in 1..n : i = Len(t) + k
  <2>2. ASSUME NEW k \in 1..n, i = Len(t) + k
        PROVE  /\ i \in 1..(Len(t) + n) /\ i \notin 1..Len(t)
               /\ \A j \in 1..n : i = Len(t) + j => j = k
    BY <1>1, <1>4, <2>2
  <2>3. ASSUME NEW k \in 1..n, i = Len(t) + k
        PROVE  /\ (q = r /\ y = type) <=> i \in EntryIds(u, q, y)
               /\ i \notin EntryIds(t, q, y)
    BY <1>1, <1>3, <2>2, <2>3 DEF EntryIds
  <2>4. CASE \A k \in 1..n : i # Len(t) + k
    BY <1>1, <1>2, <1>5, <2>4 DEF EntryIds
  <2>5. QED
    BY <2>3, <2>4
<1>8. QED
  BY <1>1, <1>6, <1>7 DEF AddsEntries, AddsBudgets

(* A commit moves the totals of its budgets by its amounts, and no others.  *)
TotalsMove(t, u, n, budgets, amounts) ==
  \A b \in Budgets :
    /\ \A k \in 1..n : budgets[k] = b => LatestTotal(u, b) = LatestTotal(t, b) + amounts[k]
    /\ (\A k \in 1..n : budgets[k] # b) => LatestTotal(u, b) = LatestTotal(t, b)

(* A commit leaves every budget that has rows with a last one.              *)
LEMMA PostsLatest ==
  ASSUME NEW t \in Seq(RowSet), HasLatest(t), NEW u, NEW n \in Nat,
         NEW r, NEW type, NEW budgets, NEW amounts,
         Posts(t, u, n, r, type, budgets, amounts),
         \A j, k \in 1..n : budgets[j] = budgets[k] => j = k
  PROVE  HasLatest(u) /\ TotalsMove(t, u, n, budgets, amounts)
<1>1. u \in Seq(RowSet)
  BY DEF Posts
<1>2. Len(t) \in Nat /\ \A b, i : i \in BudgetIds(t, b) => i \in 1..Len(t)
  BY LenProperties DEF BudgetIds
<1>3. \A b, i : i \in BudgetIds(u, b) <=>
        \/ i \in BudgetIds(t, b)
        \/ \E k \in 1..n : i = Len(t) + k /\ budgets[k] = b
  <2>1. AddsBudgets(t, u, n, budgets)
    BY PostsIds
  <2>2. QED
    BY <2>1 DEF AddsBudgets
<1>4. ASSUME NEW b \in Budgets, NEW k \in 1..n, budgets[k] = b
      PROVE  /\ Len(t) + k \in BudgetIds(u, b)
             /\ \A j \in BudgetIds(u, b) : j <= Len(t) + k
             /\ LatestTotal(u, b) = LatestTotal(t, b) + amounts[k]
  <2>1. Len(t) + k \in BudgetIds(u, b)
    BY <1>3, <1>4
  <2>2. ASSUME NEW j \in BudgetIds(u, b)
        PROVE  j <= Len(t) + k
    <3>1. CASE j \in BudgetIds(t, b)
      BY <1>2, <3>1
    <3>2. CASE \E l \in 1..n : j = Len(t) + l /\ budgets[l] = b
      BY <1>2, <1>4, <3>2
    <3>3. QED
      BY <1>3, <3>1, <3>2
  <2>3. LatestTotal(u, b) = u[Len(t) + k].total
    BY <1>1, <2>1, <2>2, LatestAt
  <2>4. u[Len(t) + k] = Entry(r, type, b, amounts[k], LatestTotal(t, b) + amounts[k])
    BY <1>4 DEF Posts
  <2>5. QED
    BY <2>1, <2>2, <2>3, <2>4 DEF Entry
<1>5. ASSUME NEW b \in Budgets, \A k \in 1..n : budgets[k] # b
      PROVE  /\ BudgetIds(u, b) = BudgetIds(t, b)
             /\ LatestTotal(u, b) = LatestTotal(t, b)
  <2>1. BudgetIds(u, b) = BudgetIds(t, b)
    BY <1>3, <1>5
  <2>2. CASE BudgetIds(t, b) = {}
    BY <2>1, <2>2 DEF LatestTotal
  <2>3. CASE BudgetIds(t, b) # {}
    <3>1. PICK m \in BudgetIds(t, b) : \A j \in BudgetIds(t, b) : j <= m
      BY <2>3 DEF HasLatest
    <3>2. LatestTotal(t, b) = t[m].total /\ LatestTotal(u, b) = u[m].total
      BY <1>1, <2>1, <3>1, LatestAt
    <3>3. u[m] = t[m]
      BY <1>2, <3>1 DEF Posts
    <3>4. QED
      BY <2>1, <3>2, <3>3
  <2>4. QED
    BY <2>1, <2>2, <2>3
<1>6. HasLatest(u)
  <2> SUFFICES ASSUME NEW b \in Budgets, BudgetIds(u, b) # {}
               PROVE  \E m \in BudgetIds(u, b) : \A j \in BudgetIds(u, b) : j <= m
    BY DEF HasLatest
  <2>1. CASE \E k \in 1..n : budgets[k] = b
    BY <1>4, <2>1
  <2>2. CASE \A k \in 1..n : budgets[k] # b
    BY <1>5, <2>2 DEF HasLatest
  <2>3. QED
    BY <2>1, <2>2
<1>7. QED
  BY <1>4, <1>5, <1>6 DEF TotalsMove

(* After a commit every row still carries on from the previous row of its   *)
(* budget, the new rows too.                                                *)
LEMMA PostsCarry ==
  ASSUME NEW t \in Seq(RowSet), HasLatest(t), NEW u, NEW n \in Nat,
         NEW r, NEW type, NEW budgets \in [1..n -> Budgets],
         NEW amounts \in [1..n -> Int],
         Posts(t, u, n, r, type, budgets, amounts),
         \A j, k \in 1..n : budgets[j] = budgets[k] => j = k,
         \A i \in DOMAIN t : Carries(t, i)
  PROVE  \A i \in DOMAIN u : Carries(u, i)
<1>1. DOMAIN t = 1..Len(t) /\ Len(t) \in Nat /\ DOMAIN u = 1..(Len(t) + n)
  BY PostsIds
<1>2. \A i \in 1..Len(t) : u[i] = t[i]
  BY DEF Posts
<1>3. ASSUME NEW i \in 1..Len(t)
      PROVE  Carries(u, i)
  <2>1. Carries(t, i)
    BY <1>1
  <2>2. \A j \in 1..(i - 1) : j \in 1..Len(t)
    BY <1>1
  <2>3. {j \in 1..(i - 1) : u[j].budget = u[i].budget} =
          {j \in 1..(i - 1) : t[j].budget = t[i].budget}
    BY <1>2, <2>2
  <2>4. u[i] = t[i] /\ \A j \in 1..(i - 1) : u[j] = t[j]
    BY <1>2, <2>2
  <2>5. QED
    BY <2>1, <2>3, <2>4 DEF Carries
<1>4. ASSUME NEW k \in 1..n
      PROVE  Carries(u, Len(t) + k)
  <2> DEFINE i == Len(t) + k
             earlier == {j \in 1..(i - 1) : u[j].budget = u[i].budget}
  <2>1. u[i] = Entry(r, type, budgets[k], amounts[k],
                     LatestTotal(t, budgets[k]) + amounts[k])
    BY DEF Posts
  <2>2. /\ u[i].budget = budgets[k] /\ u[i].amount = amounts[k]
        /\ u[i].total = LatestTotal(t, budgets[k]) + amounts[k]
    BY <2>1 DEF Entry
  <2>3. ASSUME NEW j \in 1..(i - 1), u[j].budget = budgets[k]
        PROVE  j \in 1..Len(t)
    <3> SUFFICES ASSUME j \notin 1..Len(t) PROVE FALSE
      OBVIOUS
    <3>1. j - Len(t) \in 1..n /\ j - Len(t) # k /\ j = Len(t) + (j - Len(t))
      BY <1>1
    <3>2. u[j] = Entry(r, type, budgets[j - Len(t)], amounts[j - Len(t)],
                 LatestTotal(t, budgets[j - Len(t)]) + amounts[j - Len(t)])
      BY <3>1 DEF Posts
    <3>3. u[j].budget = budgets[j - Len(t)]
      BY <3>2 DEF Entry
    <3>4. QED
      BY <2>3, <3>1, <3>3
  <2>4. earlier = BudgetIds(t, budgets[k])
    <3>1. \A j \in 1..Len(t) : j \in 1..(i - 1)
      BY <1>1
    <3>2. QED
      BY <1>1, <1>2, <2>2, <2>3, <3>1 DEF BudgetIds
  <2>5. CASE BudgetIds(t, budgets[k]) = {}
    <3>1. LatestTotal(t, budgets[k]) = 0
      BY <2>5 DEF LatestTotal
    <3>2. u[i].total = u[i].amount
      BY <2>2, <3>1
    <3>3. QED
      BY <2>4, <2>5, <3>2 DEF Carries
  <2>6. CASE BudgetIds(t, budgets[k]) # {}
    <3>1. PICK m \in BudgetIds(t, budgets[k]) :
            \A j \in BudgetIds(t, budgets[k]) : j <= m
      BY <2>6 DEF HasLatest
    <3>2. LatestTotal(t, budgets[k]) = t[m].total
      BY <3>1, LatestAt
    <3>3. u[m] = t[m]
      BY <1>1, <1>2, <3>1 DEF BudgetIds
    <3>4. m \in earlier /\ (\A j \in earlier : j <= m)
          /\ u[i].total = u[m].total + u[i].amount
      BY <2>2, <2>4, <3>1, <3>2, <3>3
    <3>5. QED
      BY <3>4 DEF Carries
  <2>7. QED
    BY <2>5, <2>6
<1>5. ASSUME NEW i \in DOMAIN u
      PROVE  Carries(u, i)
  <2>1. CASE i \in 1..Len(t)
    BY <1>3, <2>1
  <2>2. CASE i \notin 1..Len(t)
    <3>1. i - Len(t) \in 1..n /\ i = Len(t) + (i - Len(t))
      BY <1>1, <2>2
    <3>2. QED
      BY <1>4, <3>1
  <2>3. QED
    BY <2>1, <2>2
<1>6. QED
  BY <1>5
--------------------------------------------------------------------------------
(* What a commit does to the requests: nothing to the others, and a whole   *)
(* move of its own.                                                         *)

OncePerBudget(t, r, y) ==
  \A i, j \in EntryIds(t, r, y) : t[i].budget = t[j].budget => i = j

SameAmounts(t, r, y) ==
  \A i, j \in EntryIds(t, r, y) : t[i].amount = t[j].amount

Covers(t, r, y, z) ==
  \A i \in EntryIds(t, r, y) : \E j \in EntryIds(t, r, z) : t[j].budget = t[i].budget

(* The rows of a request of one type are those of one table and of another. *)
SameEntries(t, u, r, y) ==
  /\ EntryIds(u, r, y) = EntryIds(t, r, y)
  /\ \A i \in EntryIds(t, r, y) : u[i] = t[i]

WholeParts(t, r) ==
  /\ \A y \in EntryTypes : OncePerBudget(t, r, y)
  /\ EntryIds(t, r, "reconcile") = {} \/ EntryIds(t, r, "release") = {}
  /\ \A y \in {"reconcile", "release"} :
       EntryIds(t, r, y) # {} => Covers(t, r, y, "reserve") /\ Covers(t, r, "reserve", y)
  /\ SameAmounts(t, r, "reserve") /\ SameAmounts(t, r, "reconcile")
  /\ \A i \in EntryIds(t, r, "reserve"), j \in EntryIds(t, r, "release") :
       t[j].amount = 0 - t[i].amount

(* Two types of rows cover each other exactly when they name the same       *)
(* budgets.                                                                 *)
LEMMA SameBudgets ==
  ASSUME NEW t, NEW r, NEW y, NEW z
  PROVE  EntryBudgets(t, r, y) = EntryBudgets(t, r, z)
           <=> Covers(t, r, y, z) /\ Covers(t, r, z, y)
<1>1. \A b : b \in EntryBudgets(t, r, y) <=> \E i \in EntryIds(t, r, y) : b = t[i].budget
  BY DEF EntryBudgets
<1>2. \A b : b \in EntryBudgets(t, r, z) <=> \E i \in EntryIds(t, r, z) : b = t[i].budget
  BY DEF EntryBudgets
<1>3. ASSUME EntryBudgets(t, r, y) = EntryBudgets(t, r, z)
      PROVE  Covers(t, r, y, z) /\ Covers(t, r, z, y)
  BY <1>1, <1>2, <1>3 DEF Covers
<1>4. ASSUME Covers(t, r, y, z), Covers(t, r, z, y)
      PROVE  \A b : b \in EntryBudgets(t, r, y) <=> b \in EntryBudgets(t, r, z)
  BY <1>1, <1>2, <1>4 DEF Covers
<1>5. QED
  BY <1>3, <1>4

(* Whole, in the parts that the proofs work with.                           *)
LEMMA WholeIff ==
  ASSUME NEW t, NEW r
  PROVE  Whole(t, r) <=> WholeParts(t, r)
<1>1. \A y \in {"reconcile", "release"} :
        EntryBudgets(t, r, y) = EntryBudgets(t, r, "reserve")
          <=> Covers(t, r, y, "reserve") /\ Covers(t, r, "reserve", y)
  BY SameBudgets
<1>2. QED
  BY <1>1 DEF Whole, WholeParts, OncePerBudget, SameAmounts

(* The rows that a commit leaves alone.                                     *)
LEMMA PostsSame ==
  ASSUME NEW t \in Seq(RowSet), NEW u, NEW n \in Nat, NEW r, NEW type,
         NEW budgets, NEW amounts, Posts(t, u, n, r, type, budgets, amounts),
         NEW q, NEW y, q # r \/ y # type
  PROVE  SameEntries(t, u, q, y)
<1>1. AddsEntries(t, u, n, r, type)
  BY PostsIds
<1>2. \A i : i \in EntryIds(u, q, y) <=> i \in EntryIds(t, q, y)
  BY <1>1 DEF AddsEntries
<1>3. DOMAIN t = 1..Len(t)
  BY PostsIds
<1>4. \A i \in EntryIds(t, q, y) : u[i] = t[i]
  BY <1>3 DEF EntryIds, Posts
<1>5. EntryIds(u, q, y) = EntryIds(t, q, y)
  BY <1>2
<1>6. QED
  BY <1>4, <1>5 DEF SameEntries

(* The rows that a commit adds.                                             *)
NewRows(t, u, n, r, type, budgets, amounts) ==
  /\ \A i \in EntryIds(u, r, type) : \E k \in 1..n : i = Len(t) + k
  /\ \A k \in 1..n : /\ Len(t) + k \in EntryIds(u, r, type)
                     /\ u[Len(t) + k].budget = budgets[k]
                     /\ u[Len(t) + k].amount = amounts[k]

LEMMA PostsNew ==
  ASSUME NEW t \in Seq(RowSet), NEW u, NEW n \in Nat, NEW r, NEW type,
         NEW budgets, NEW amounts, Posts(t, u, n, r, type, budgets, amounts),
         EntryIds(t, r, type) = {}
  PROVE  NewRows(t, u, n, r, type, budgets, amounts)
<1>1. AddsEntries(t, u, n, r, type)
  BY PostsIds
<1>2. \A i : i \in EntryIds(u, r, type) <=> \E k \in 1..n : i = Len(t) + k
  BY <1>1 DEF AddsEntries
<1>3. ASSUME NEW k \in 1..n
      PROVE  u[Len(t) + k].budget = budgets[k] /\ u[Len(t) + k].amount = amounts[k]
  <2>1. u[Len(t) + k] = Entry(r, type, budgets[k], amounts[k],
                              LatestTotal(t, budgets[k]) + amounts[k])
    BY DEF Posts
  <2>2. QED
    BY <2>1 DEF Entry
<1>4. QED
  BY <1>2, <1>3 DEF NewRows

(* The new rows of a type are as good as their budgets and amounts.         *)
LEMMA NewRowsOnce ==
  ASSUME NEW t, NEW u, NEW n \in Nat, NEW r, NEW type, NEW budgets, NEW amounts,
         NewRows(t, u, n, r, type, budgets, amounts),
         \A j, k \in 1..n : amounts[j] = amounts[k],
         \A j, k \in 1..n : budgets[j] = budgets[k] => j = k
  PROVE  OncePerBudget(u, r, type) /\ SameAmounts(u, r, type)
<1>1. ASSUME NEW i \in EntryIds(u, r, type), NEW j \in EntryIds(u, r, type)
      PROVE  /\ u[i].amount = u[j].amount
             /\ u[i].budget = u[j].budget => i = j
  <2>1. PICK k \in 1..n : i = Len(t) + k
    BY DEF NewRows
  <2>2. PICK l \in 1..n : j = Len(t) + l
    BY DEF NewRows
  <2>3. /\ u[i].budget = budgets[k] /\ u[i].amount = amounts[k]
        /\ u[j].budget = budgets[l] /\ u[j].amount = amounts[l]
    BY <2>1, <2>2 DEF NewRows
  <2>4. QED
    BY <2>1, <2>2, <2>3
<1>2. QED
  BY <1>1 DEF OncePerBudget, SameAmounts

(* A commit for one request leaves the other requests whole.                *)
LEMMA WholeOther ==
  ASSUME NEW t \in Seq(RowSet), NEW u, NEW n \in Nat, NEW r, NEW type,
         NEW budgets, NEW amounts, Posts(t, u, n, r, type, budgets, amounts),
         NEW q, q # r, WholeParts(t, q)
  PROVE  WholeParts(u, q)
<1>1. \A y : SameEntries(t, u, q, y)
  BY PostsSame
<1>2. \A y : OncePerBudget(t, q, y) => OncePerBudget(u, q, y)
  BY <1>1 DEF SameEntries, OncePerBudget
<1>3. \A y : SameAmounts(t, q, y) => SameAmounts(u, q, y)
  BY <1>1 DEF SameEntries, SameAmounts
<1>4. \A y, z : Covers(t, q, y, z) => Covers(u, q, y, z)
  BY <1>1 DEF SameEntries, Covers
<1>5. \A y : EntryIds(u, q, y) = EntryIds(t, q, y)
  BY <1>1 DEF SameEntries
<1>6. \A i \in EntryIds(u, q, "reserve"), j \in EntryIds(u, q, "release") :
        u[j].amount = 0 - u[i].amount
  BY <1>1 DEF SameEntries, WholeParts
<1>7. QED
  BY <1>2, <1>3, <1>4, <1>5, <1>6 DEF WholeParts

(* The first reserve of a request, with one amount for all of its distinct  *)
(* budgets, leaves it whole.                                                *)
LEMMA WholeReserve ==
  ASSUME NEW t \in Seq(RowSet), NEW u, NEW n \in Nat, NEW r,
         NEW budgets, NEW amounts,
         Posts(t, u, n, r, "reserve", budgets, amounts),
         \A j, k \in 1..n : amounts[j] = amounts[k],
         \A j, k \in 1..n : budgets[j] = budgets[k] => j = k,
         EntryIds(t, r, "reserve") = {}, WholeParts(t, r)
  PROVE  WholeParts(u, r)
<1>1. \A y \in {"reconcile", "release"} : EntryIds(t, r, y) = {}
  BY DEF WholeParts, Covers
<1>2. \A y \in {"reconcile", "release"} : SameEntries(t, u, r, y)
  BY PostsSame
<1>3. \A y \in {"reconcile", "release"} : EntryIds(u, r, y) = {}
  BY <1>1, <1>2 DEF SameEntries
<1>4. NewRows(t, u, n, r, "reserve", budgets, amounts)
  BY PostsNew
<1>5. OncePerBudget(u, r, "reserve") /\ SameAmounts(u, r, "reserve")
  BY <1>4, NewRowsOnce
<1>7. \A y \in {"reconcile", "release"} : OncePerBudget(u, r, y) /\ SameAmounts(u, r, y)
  BY <1>3 DEF OncePerBudget, SameAmounts
<1>8. QED
  BY <1>3, <1>5, <1>7 DEF WholeParts, EntryTypes

(* The running totals that a commit leads to are within the width of Money. *)
TotalsFit(t, n, budgets, amounts) ==
  \A k \in 1..n : Fits(LatestTotal(t, budgets[k]) + amounts[k])

(* A first settlement, to a cost c (0 for a release) on every reserve row.  *)
SettleRows(t, u, n, r, type, c, ids, budgets, amounts) ==
  /\ Posts(t, u, n, r, type, budgets, amounts)
  /\ c >= 0 /\ (type = "release" => c = 0)
  /\ EntryIds(t, r, "reserve") # {}
  /\ \A i \in EntryIds(t, r, "reserve") : \E k \in 1..n : ids[k] = i
  /\ \A j, k \in 1..n : ids[j] = ids[k] => j = k
  /\ \A k \in 1..n : budgets[k] = t[ids[k]].budget
  /\ \A k \in 1..n : amounts[k] = c - t[ids[k]].amount
  /\ EntryIds(t, r, "reconcile") = {} /\ EntryIds(t, r, "release") = {}
  /\ TotalsFit(t, n, budgets, amounts)

(* A settlement names each of its budgets once, as the reserve did.         *)
LEMMA SettleOnce ==
  ASSUME NEW t, NEW u, NEW n \in Nat, NEW r, NEW type, NEW c,
         NEW ids \in [1..n -> EntryIds(t, r, "reserve")], NEW budgets, NEW amounts,
         SettleRows(t, u, n, r, type, c, ids, budgets, amounts), WholeParts(t, r)
  PROVE  \A j, k \in 1..n : budgets[j] = budgets[k] => j = k
<1>1. /\ \A j, k \in 1..n : ids[j] = ids[k] => j = k
      /\ \A k \in 1..n : budgets[k] = t[ids[k]].budget
  BY DEF SettleRows
<1>2. \A i, j \in EntryIds(t, r, "reserve") : t[i].budget = t[j].budget => i = j
  BY DEF WholeParts, EntryTypes, OncePerBudget
<1>3. ASSUME NEW j \in 1..n, NEW k \in 1..n, budgets[j] = budgets[k]
      PROVE  j = k
  <2>1. t[ids[j]].budget = t[ids[k]].budget
    BY <1>1, <1>3
  <2>2. ids[j] = ids[k]
    BY <1>2, <2>1
  <2>3. QED
    BY <1>1, <2>2
<1>4. QED
  BY <1>3

(* A reconcile or release of every reserve row leaves its request whole.    *)
LEMMA WholeSettle ==
  ASSUME NEW t \in Seq(RowSet), NEW u, NEW n \in Nat, NEW r, NEW type,
         type \in {"reconcile", "release"}, NEW c \in Int,
         NEW ids \in [1..n -> EntryIds(t, r, "reserve")], NEW budgets, NEW amounts,
         SettleRows(t, u, n, r, type, c, ids, budgets, amounts),
         WholeParts(t, r)
  PROVE  WholeParts(u, r)
<1>0. /\ Posts(t, u, n, r, type, budgets, amounts)
      /\ type = "release" => c = 0
      /\ \A i \in EntryIds(t, r, "reserve") : \E k \in 1..n : ids[k] = i
      /\ \A j, k \in 1..n : ids[j] = ids[k] => j = k
      /\ \A k \in 1..n : budgets[k] = t[ids[k]].budget
      /\ \A k \in 1..n : amounts[k] = c - t[ids[k]].amount
      /\ EntryIds(t, r, "reconcile") = {} /\ EntryIds(t, r, "release") = {}
  BY DEF SettleRows
<1>1. \A i \in EntryIds(t, r, "reserve") : t[i].amount \in Int
  <2> SUFFICES ASSUME NEW i \in EntryIds(t, r, "reserve")
               PROVE  t[i].amount \in Int
    OBVIOUS
  <2>1. i \in 1..Len(t)
    BY LenProperties DEF EntryIds
  <2>2. t[i] \in RowSet
    BY <2>1, ElementOfSeq
  <2>3. QED
    BY <2>2 DEF RowSet
<1>2. /\ OncePerBudget(t, r, "reserve") /\ SameAmounts(t, r, "reserve")
  BY DEF WholeParts, EntryTypes
<1>3. SameEntries(t, u, r, "reserve")
  BY <1>0, PostsSame
<1>4. EntryIds(u, r, "reserve") = EntryIds(t, r, "reserve")
      /\ \A i \in EntryIds(t, r, "reserve") : u[i] = t[i]
  BY <1>3 DEF SameEntries
<1>5. \A y \in {"reconcile", "release"} : y # type => EntryIds(u, r, y) = {}
  <2>1. \A y \in {"reconcile", "release"} : y # type => SameEntries(t, u, r, y)
    BY <1>0, PostsSame
  <2>2. QED
    BY <1>0, <2>1 DEF SameEntries
<1>6. EntryIds(t, r, type) = {}
  BY <1>0
<1>7. NewRows(t, u, n, r, type, budgets, amounts)
  BY <1>0, <1>6, PostsNew
<1>8. ASSUME NEW j \in 1..n, NEW k \in 1..n
      PROVE  amounts[j] = amounts[k] /\ (budgets[j] = budgets[k] => j = k)
  <2>1. t[ids[j]].amount = t[ids[k]].amount
    BY <1>2 DEF SameAmounts
  <2>2. t[ids[j]].budget = t[ids[k]].budget => ids[j] = ids[k]
    BY <1>2 DEF OncePerBudget
  <2>3. QED
    BY <1>0, <2>1, <2>2
<1>9. OncePerBudget(u, r, type) /\ SameAmounts(u, r, type)
  BY <1>7, <1>8, NewRowsOnce
<1>10. OncePerBudget(u, r, "reserve") /\ SameAmounts(u, r, "reserve")
  BY <1>2, <1>4 DEF OncePerBudget, SameAmounts
<1>11. Covers(u, r, type, "reserve")
  <2> SUFFICES ASSUME NEW i \in EntryIds(u, r, type)
               PROVE  \E j \in EntryIds(u, r, "reserve") : u[j].budget = u[i].budget
    BY DEF Covers
  <2>1. PICK k \in 1..n : i = Len(t) + k
    BY <1>7 DEF NewRows
  <2>2. u[i].budget = t[ids[k]].budget
    BY <1>0, <1>7, <2>1 DEF NewRows
  <2>3. ids[k] \in EntryIds(u, r, "reserve") /\ u[ids[k]] = t[ids[k]]
    BY <1>4
  <2>4. QED
    BY <2>2, <2>3
<1>12. Covers(u, r, "reserve", type)
  <2> SUFFICES ASSUME NEW i \in EntryIds(t, r, "reserve")
               PROVE  \E j \in EntryIds(u, r, type) : u[j].budget = u[i].budget
    BY <1>4 DEF Covers
  <2>1. PICK k \in 1..n : ids[k] = i
    BY <1>0
  <2>2. Len(t) + k \in EntryIds(u, r, type) /\ u[Len(t) + k].budget = t[i].budget
    BY <1>0, <1>7, <2>1 DEF NewRows
  <2>3. QED
    BY <1>4, <2>2
<1>13. type = "release" =>
        \A i \in EntryIds(u, r, "reserve"), j \in EntryIds(u, r, type) :
          u[j].amount = 0 - u[i].amount
  <2> SUFFICES ASSUME type = "release", NEW i \in EntryIds(t, r, "reserve"),
                      NEW j \in EntryIds(u, r, type)
               PROVE  u[j].amount = 0 - u[i].amount
    BY <1>4
  <2>1. PICK k \in 1..n : j = Len(t) + k
    BY <1>7 DEF NewRows
  <2>2. u[j].amount = c - t[ids[k]].amount
    BY <1>0, <1>7, <2>1 DEF NewRows
  <2>3. t[ids[k]].amount = t[i].amount
    BY <1>2 DEF SameAmounts
  <2>4. QED
    BY <1>0, <1>1, <1>4, <2>2, <2>3
<1>14. \A y \in {"reconcile", "release"} : y # type =>
         OncePerBudget(u, r, y) /\ SameAmounts(u, r, y)
  BY <1>5 DEF OncePerBudget, SameAmounts
<1>15. CASE type = "reconcile"
  <2>1. EntryIds(u, r, "release") = {}
    BY <1>5, <1>15
  <2>2. QED
    BY <2>1, <1>9, <1>10, <1>11, <1>12, <1>14, <1>15 DEF WholeParts, EntryTypes
<1>16. CASE type = "release"
  <2>1. EntryIds(u, r, "reconcile") = {}
    BY <1>5, <1>16
  <2>2. QED
    BY <2>1, <1>9, <1>10, <1>11, <1>12, <1>13, <1>14, <1>16 DEF WholeParts, EntryTypes
<1>17. QED
  BY <1>15, <1>16
--------------------------------------------------------------------------------
(* The steps of the ledger.  Every call leaves the table alone or commits   *)
(* one of two kinds of rows.                                                *)

(* A first reserve, within the limits when every process enforces them.     *)
ReserveRows(t, u, n, r, budgets, amounts) ==
  /\ Posts(t, u, n, r, "reserve", budgets, amounts)
  /\ \A j, k \in 1..n : budgets[j] = budgets[k] => j = k
  /\ \A j, k \in 1..n : amounts[j] = amounts[k]
  /\ n # 0 /\ \A k \in 1..n : amounts[k] >= 0
  /\ EntryIds(t, r, "reserve") = {} /\ TotalsFit(t, n, budgets, amounts)
  /\ FALSE \notin Modes =>
       \A k \in 1..n : HardLimit[budgets[k]] # NoLimit =>
         LatestTotal(t, budgets[k]) + amounts[k] <= HardLimit[budgets[k]]

ReserveStep(t, u) ==
  \E n \in Nat, r \in Requests :
  \E budgets \in [1..n -> Budgets], amounts \in [1..n -> Int] :
    ReserveRows(t, u, n, r, budgets, amounts)

SettleStep(t, u) ==
  \E n \in Nat, r \in Requests, type \in {"reconcile", "release"}, c \in Int :
  \E ids \in [1..n -> EntryIds(t, r, "reserve")],
     budgets \in [1..n -> Budgets], amounts \in [1..n -> Int] :
    SettleRows(t, u, n, r, type, c, ids, budgets, amounts)

Changes(t, u) == u = t \/ ReserveStep(t, u) \/ SettleStep(t, u)

ReplySet == [request : Requests, outcome : Outcomes, entries : SUBSET Nat]

(* The answers that are true of a table.                                    *)
Answers(t, r, outcome, ids) ==
  /\ outcome \in {"reconcile", "release"} => ids # {}
  /\ ids # {} => ids = EntryIds(t, r, outcome)
  /\ outcome = "denied" => EntryIds(t, r, "reserve") = {}

ReplyOf(t) == {p \in ReplySet : Answers(t, p.request, p.outcome, p.entries)}

(* The rows of a request are a finite set of positions of the table.        *)
LEMMA IdsAreNats ==
  ASSUME NEW t \in Seq(RowSet), NEW r, NEW type
  PROVE  /\ EntryIds(t, r, type) \subseteq 1..Len(t)
         /\ EntryIds(t, r, type) \subseteq Nat
         /\ Cardinality(EntryIds(t, r, type)) \in Nat
<1>1. Len(t) \in Nat /\ DOMAIN t = 1..Len(t)
  BY LenProperties
<1>2. EntryIds(t, r, type) \subseteq 1..Len(t)
  BY <1>1 DEF EntryIds
<1>3. IsFiniteSet(1..Len(t))
  BY <1>1, FS_Interval
<1>4. IsFiniteSet(EntryIds(t, r, type))
  BY <1>2, <1>3, FS_Subset
<1>5. Cardinality(EntryIds(t, r, type)) \in Nat
  BY <1>4, FS_CardinalityType
<1>6. QED
  BY <1>1, <1>2, <1>5

(* The fields of a row have their types.                                    *)
LEMMA RowTypes ==
  ASSUME NEW t \in Seq(RowSet), NEW r, NEW type, NEW i \in EntryIds(t, r, type)
  PROVE  t[i].budget \in Budgets /\ t[i].amount \in Int
<1>1. i \in 1..Len(t)
  BY IdsAreNats
<1>2. t[i] \in RowSet
  BY <1>1, ElementOfSeq
<1>3. QED
  BY <1>2 DEF RowSet

(* An answer without a commit changes no row.                               *)
LEMMA AnswerChanges ==
  ASSUME NEW r \in Requests, NEW outcome \in Outcomes, NEW ids \in SUBSET Nat,
         Answers(rows, r, outcome, ids), Answer(r, outcome, ids)
  PROVE  Changes(rows, rows') /\ reply' \in ReplyOf(rows')
<1>1. rows' = rows /\ reply' = Reply(r, outcome, ids)
  BY DEF Answer
<1>2. Reply(r, outcome, ids) \in ReplySet
  BY DEF Reply, ReplySet
<1>3. /\ Reply(r, outcome, ids).request = r /\ Reply(r, outcome, ids).outcome = outcome
      /\ Reply(r, outcome, ids).entries = ids
  BY DEF Reply
<1> QED
  BY <1>1, <1>2, <1>3 DEF Changes, ReplyOf

(* The first commit of a type for a request answers with exactly the ids of *)
(* its rows of that type.                                                   *)
LEMMA CommitReplies ==
  ASSUME rows \in Seq(RowSet), NEW r \in Requests, NEW type \in EntryTypes,
         NEW n \in Nat, n # 0, NEW budgets, NEW amounts,
         Len(budgets) = n, EntryIds(rows, r, type) = {},
         Posts(rows, rows', n, r, type, budgets, amounts),
         Commit(r, type, budgets, amounts)
  PROVE  reply' \in ReplyOf(rows')
<1> DEFINE new == (Len(rows) + 1)..(Len(rows) + n)
<1>1. Len(rows) \in Nat
  BY LenProperties
<1>2. new \subseteq Nat /\ new # {}
  <2>1. Len(rows) + 1 \in new
    BY <1>1
  <2>2. \A i \in new : i \in Nat
    BY <1>1
  <2> QED
    BY <2>1, <2>2
<1>3. reply' = Reply(r, type, new)
  BY DEF Commit
<1>4. new = EntryIds(rows', r, type)
  <2>1. AddsEntries(rows, rows', n, r, type)
    BY PostsIds
  <2>2. \A i : i \in EntryIds(rows', r, type) <=> \E k \in 1..n : i = Len(rows) + k
    BY <2>1 DEF AddsEntries
  <2>3. \A i : i \in new <=> \E k \in 1..n : i = Len(rows) + k
    <3>1. ASSUME NEW i \in new PROVE \E k \in 1..n : i = Len(rows) + k
      <4>1. i - Len(rows) \in 1..n /\ i = Len(rows) + (i - Len(rows))
        BY <1>1
      <4> QED
        BY <4>1
    <3>2. \A k \in 1..n : Len(rows) + k \in new
      BY <1>1
    <3> QED
      BY <3>1, <3>2
  <2> QED
    BY <2>2, <2>3
<1>5. type # "denied" /\ type \in Outcomes
  BY DEF EntryTypes, Outcomes
<1> HIDE DEF new
<1>6. Answers(rows', r, type, new)
  BY <1>2, <1>4, <1>5 DEF Answers
<1>7. Reply(r, type, new) \in ReplySet
  BY <1>2, <1>5 DEF Reply, ReplySet
<1>8. /\ Reply(r, type, new).request = r /\ Reply(r, type, new).outcome = type
      /\ Reply(r, type, new).entries = new
  BY DEF Reply
<1> QED
  BY <1>3, <1>6, <1>7, <1>8 DEF ReplyOf

(* A first reserve is an answer, or a ReserveStep within the limits.        *)
LEMMA NewReserveChanges ==
  ASSUME rows \in Seq(RowSet), HasLatest(rows),
         NEW r \in Requests, NEW s \in BudgetLists, NEW est \in Costs,
         NEW enforce \in Modes, EntryIds(rows, r, "reserve") = {},
         est >= 0, s # << >>,
         NewReserve(r, s, HardLimit, est, enforce)
  PROVE  Changes(rows, rows') /\ reply' \in ReplyOf(rows')
<1> DEFINE n == Len(s)
           amounts == [k \in 1..n |-> est]
           stops(k) == Stops(s[k], est, HardLimit[s[k]], enforce)
<1>1. /\ s \in Seq(Budgets) /\ n \in Nat /\ s \in [1..n -> Budgets]
      /\ \A j, k \in 1..n : s[j] = s[k] => j = k
  BY ListAssumption, LenProperties
<1>2. est \in Int /\ amounts \in [1..n -> Int]
  BY CostAssumption
<1>3. CASE \E k \in 1..n : /\ stops(k) /\ \A j \in 1..(k - 1) : ~stops(j)
                          /\ Answer(r, IF Overflows(s[k], est) THEN "error" ELSE "denied", {})
  <2>1. PICK outcome \in {"error", "denied"} : Answer(r, outcome, {})
    BY <1>3
  <2>2. outcome \in Outcomes /\ Answers(rows, r, outcome, {})
    BY DEF Answers, Outcomes
  <2> QED
    BY <2>1, <2>2, AnswerChanges
<1>4. CASE (\A k \in 1..n : ~stops(k)) /\ Commit(r, "reserve", s, amounts)
  <2>1. rows' = rows \o Postings(rows, r, "reserve", s, amounts)
    BY <1>4 DEF Commit
  <2>2. Posts(rows, rows', n, r, "reserve", s, amounts)
    BY <1>1, <1>2, <2>1, CommitPosts DEF EntryTypes
  <2>3. ASSUME FALSE \notin Modes, NEW k \in 1..n, HardLimit[s[k]] # NoLimit
        PROVE  LatestTotal(rows, s[k]) + amounts[k] <= HardLimit[s[k]]
    <3>1. enforce = TRUE
      BY <2>3, LimitAssumption
    <3>2. ~Exceeds(s[k], est, HardLimit[s[k]])
      BY <1>4, <3>1 DEF Stops
    <3>3. s[k] \in Budgets /\ LatestTotal(rows, s[k]) \in Int /\ HardLimit[s[k]] \in Int
      BY <1>1, <2>3, LatestOf, LimitAssumption
    <3>4. QED
      BY <1>2, <2>3, <3>2, <3>3 DEF Exceeds
  <2>4. ReserveRows(rows, rows', n, r, s, amounts)
    <3>1. n # 0 /\ \A k \in 1..n : amounts[k] >= 0
      BY <1>1, EmptySeq
    <3>2. TotalsFit(rows, n, s, amounts)
      BY <1>4 DEF TotalsFit, Stops, Overflows
    <3>3. QED
      BY <1>1, <1>2, <2>2, <2>3, <3>1, <3>2 DEF ReserveRows
  <2>5. reply' \in ReplyOf(rows')
    <3>1. n # 0
      BY <1>1, EmptySeq
    <3> QED
      BY <1>1, <1>4, <2>2, <3>1, CommitReplies DEF EntryTypes
  <2>6. ReserveStep(rows, rows')
    BY <1>1, <1>2, <2>4 DEF ReserveStep
  <2>7. QED
    BY <2>5, <2>6 DEF Changes
<1>5. QED
  BY <1>3, <1>4 DEF NewReserve

(* A reserve, repeated or not, is an answer or a ReserveStep.               *)
LEMMA ReserveChanges ==
  ASSUME rows \in Seq(RowSet), HasLatest(rows),
         NEW r \in Requests, NEW s \in BudgetLists, NEW est \in Costs,
         NEW enforce \in Modes, ReserveInternal(r, s, HardLimit, est, enforce)
  PROVE  Changes(rows, rows') /\ reply' \in ReplyOf(rows')
<1>1. EntryIds(rows, r, "reserve") \in SUBSET Nat
  BY IdsAreNats
<1>2. CASE /\ EntryIds(rows, r, "reserve") = {} /\ est >= 0 /\ s # << >>
           /\ NewReserve(r, s, HardLimit, est, enforce)
  BY <1>2, NewReserveChanges
<1>3. CASE \E outcome \in {"reserve", "error"}, ids \in {{}, EntryIds(rows, r, "reserve")} :
             Answers(rows, r, outcome, ids) /\ Answer(r, outcome, ids)
  BY <1>1, <1>3, AnswerChanges DEF Outcomes, EntryTypes
<1>4. QED
  <2>1. /\ Answers(rows, r, "error", {}) /\ Answers(rows, r, "reserve", {})
        /\ Answers(rows, r, "reserve", EntryIds(rows, r, "reserve"))
    BY DEF Answers
  <2>2. Answer(r, "error", {}) \/ Answer(r, "reserve", {})
          \/ Answer(r, "reserve", EntryIds(rows, r, "reserve"))
        => \E outcome \in {"reserve", "error"}, ids \in {{}, EntryIds(rows, r, "reserve")} :
             Answers(rows, r, outcome, ids) /\ Answer(r, outcome, ids)
    BY <2>1
  <2> QED
    BY <1>2, <1>3, <2>2, CostAssumption DEF ReserveInternal, InvalidCall

(* A reconcile or release is an answer or a SettleStep.                     *)
LEMMA SettleChanges ==
  ASSUME rows \in Seq(RowSet), HasLatest(rows), NEW r \in Requests,
         NEW op \in {"reconcile", "release"}, NEW other \in {"reconcile", "release"},
         op # other, NEW c \in Nat, op = "release" => c = 0,
         Settle(op, other, r, [i \in DOMAIN rows |-> c - rows[i].amount])
  PROVE  Changes(rows, rows') /\ reply' \in ReplyOf(rows')
<1> DEFINE held == EntryIds(rows, r, "reserve")
           amount == [i \in DOMAIN rows |-> c - rows[i].amount]
           budgets(ids) == [k \in DOMAIN ids |-> rows[ids[k]].budget]
           amounts(ids) == [k \in DOMAIN ids |-> amount[ids[k]]]
<1>1. EntryIds(rows, r, op) \in SUBSET Nat /\ {} \in SUBSET Nat
  BY IdsAreNats
<1>2. CASE \/ EntryIds(rows, r, op) # {} /\ Answer(r, op, EntryIds(rows, r, op))
           \/ Answer(r, "error", {})
  <2>1. Answers(rows, r, "error", {}) /\ "error" \in Outcomes /\ op \in Outcomes
    BY DEF Answers, Outcomes, EntryTypes
  <2>2. EntryIds(rows, r, op) # {} => Answers(rows, r, op, EntryIds(rows, r, op))
    BY DEF Answers
  <2> QED
    BY <1>1, <1>2, <2>1, <2>2, AnswerChanges
<1>3. ASSUME EntryIds(rows, r, op) = {}, EntryIds(rows, r, other) = {}, held # {},
             NEW ids \in Ascending(held), PostingsFit(rows, budgets(ids), amounts(ids)),
             Commit(r, op, budgets(ids), amounts(ids))
      PROVE  Changes(rows, rows') /\ reply' \in ReplyOf(rows')
  <2> DEFINE n == Cardinality(held)
             bs == budgets(ids)
             as == amounts(ids)
  <2>1. /\ n \in Nat /\ ids \in [1..n -> held]
        /\ \A i \in held : \E k \in 1..n : ids[k] = i
        /\ \A j, k \in 1..n : j < k => ids[j] < ids[k]
    BY <1>3, IdsAreNats DEF Ascending
  <2>2. held \subseteq Nat /\ held \subseteq DOMAIN rows
    BY IdsAreNats DEF EntryIds
  <2>3. \A j, k \in 1..n : ids[j] = ids[k] => j = k
    <3>1. \A j \in 1..n : ids[j] \in Nat
      BY <2>1, <2>2
    <3>2. QED
      BY <2>1, <3>1
  <2>4. \A i \in held : rows[i].budget \in Budgets /\ rows[i].amount \in Int
    BY RowTypes
  <2>5. /\ bs \in [1..n -> Budgets]
        /\ \A k \in 1..n : bs[k] = rows[ids[k]].budget
    BY <2>1, <2>4
  <2>6. /\ as \in [1..n -> Int]
        /\ \A k \in 1..n : as[k] = c - rows[ids[k]].amount
    <3>1. \A k \in 1..n : amount[ids[k]] = c - rows[ids[k]].amount
                           /\ amount[ids[k]] \in Int
      BY <2>1, <2>2, <2>4
    <3>2. DOMAIN ids = 1..n
      BY <2>1
    <3>3. QED
      BY <3>1, <3>2
  <2> HIDE DEF bs, as
  <2>7. rows' = rows \o Postings(rows, r, op, bs, as)
    BY <1>3 DEF Commit, bs, as
  <2>8. Posts(rows, rows', n, r, op, bs, as)
    BY <2>1, <2>5, <2>6, <2>7, CommitPosts DEF EntryTypes
  <2>9. EntryIds(rows, r, "reconcile") = {} /\ EntryIds(rows, r, "release") = {}
    BY <1>3
  <2>10. SettleStep(rows, rows')
    <3>1. c \in Int /\ c >= 0 /\ EntryIds(rows, r, "reserve") # {}
      BY <1>3
    <3>2. TotalsFit(rows, n, bs, as)
      <4>1. PostingsFit(rows, bs, as)
        BY <1>3 DEF bs, as
      <4>2. DOMAIN bs = 1..n
        BY <2>5
      <4> HIDE DEF n
      <4>3. QED
        BY <4>1, <4>2 DEF PostingsFit, TotalsFit
    <3>3. SettleRows(rows, rows', n, r, op, c, ids, bs, as)
      BY <2>1, <2>3, <2>5, <2>6, <2>8, <2>9, <3>1, <3>2 DEF SettleRows
    <3> HIDE DEF n
    <3>4. QED
      BY <2>1, <2>5, <2>6, <3>1, <3>3 DEF SettleStep
  <2>11. Len(bs) = n
    BY <2>1, <2>5, SeqDef, LenProperties
  <2>12. Commit(r, op, bs, as)
    BY <1>3 DEF bs, as
  <2>13. reply' \in ReplyOf(rows')
    <3>1. n # 0
      BY <1>3, <2>1
    <3>2. EntryIds(rows, r, op) = {} /\ op \in EntryTypes /\ n \in Nat
      BY <1>3, <2>1 DEF EntryTypes
    <3> HIDE DEF n, held, amount
    <3> QED
      BY <2>8, <2>11, <2>12, <3>1, <3>2, CommitReplies
  <2>14. QED
    BY <2>10, <2>13 DEF Changes
<1>4. \/ EntryIds(rows, r, op) # {} /\ Answer(r, op, EntryIds(rows, r, op))
      \/ Answer(r, "error", {})
      \/ /\ EntryIds(rows, r, op) = {} /\ EntryIds(rows, r, other) = {} /\ held # {}
         /\ \E ids \in Ascending(held) :
              PostingsFit(rows, budgets(ids), amounts(ids)) /\ Commit(r, op, budgets(ids), amounts(ids))
  BY DEF Settle
<1> HIDE DEF held, amount, budgets, amounts
<1>5. QED
  BY <1>2, <1>3, <1>4

(* Every call of the ledger is one of these changes of its table.           *)
LEMMA NextChanges ==
  ASSUME rows \in Seq(RowSet), HasLatest(rows), Next
  PROVE  Changes(rows, rows') /\ reply' \in ReplyOf(rows')
<1>1. PICK r \in Requests :
        \/ \E s \in BudgetLists, est \in Costs, enforce \in Modes :
             ReserveInternal(r, s, HardLimit, est, enforce)
        \/ \E actual \in Costs : Reconcile(r, actual)
        \/ Release(r)
        \/ StorageError(r)
  BY DEF Next
<1>2. CASE \E s \in BudgetLists, est \in Costs, enforce \in Modes :
             ReserveInternal(r, s, HardLimit, est, enforce)
  BY <1>2, ReserveChanges
<1>3. CASE Answer(r, "error", {})
  <2>1. "error" \in Outcomes /\ {} \in SUBSET Nat
    BY DEF Outcomes
  <2>2. QED
    BY <1>3, <2>1, AnswerChanges DEF Answers
<1>4. ASSUME NEW actual \in Costs, Reconcile(r, actual)
      PROVE  Changes(rows, rows') /\ reply' \in ReplyOf(rows')
  <2>1. actual \in Int
    BY CostAssumption
  <2>2. Answer(r, "error", {}) \/
        /\ actual >= 0
        /\ Settle("reconcile", "release", r, [i \in DOMAIN rows |-> actual - rows[i].amount])
    BY <1>4, <2>1 DEF Reconcile, InvalidCall
  <2>3. CASE /\ actual >= 0
             /\ Settle("reconcile", "release", r,
                       [i \in DOMAIN rows |-> actual - rows[i].amount])
    <3>1. \A op, other \in {"reconcile", "release"}, c \in Nat :
            /\ op # other /\ (op = "release" => c = 0)
            /\ Settle(op, other, r, [i \in DOMAIN rows |-> c - rows[i].amount])
            => Changes(rows, rows') /\ reply' \in ReplyOf(rows')
      BY SettleChanges
    <3>2. QED
      BY <2>1, <2>3, <3>1
  <2>4. QED
    BY <1>3, <2>2, <2>3
<1>5. CASE Release(r)
  <2>1. Answer(r, "error", {}) \/
        Settle("release", "reconcile", r, [i \in DOMAIN rows |-> 0 - rows[i].amount])
    BY <1>5 DEF Release
  <2>2. QED
    BY <1>3, <2>1, SettleChanges
<1>6. QED
  BY <1>1, <1>2, <1>3, <1>4, <1>5 DEF StorageError
--------------------------------------------------------------------------------
(* The inductive invariant.                                                 *)

LimitKept(t) ==
  FALSE \notin Modes =>
    \A i \in DOMAIN t :
      t[i].type = "reserve" /\ HardLimit[t[i].budget] # NoLimit
        => t[i].total <= HardLimit[t[i].budget]

(* Every total fits the width of Money, and nothing negative is reserved.   *)
RowsSound(t) ==
  \A i \in DOMAIN t : Fits(t[i].total) /\ (t[i].type = "reserve" => t[i].amount >= 0)

TableInv(t) ==
  /\ t \in Seq(RowSet)
  /\ HasLatest(t)
  /\ \A i \in DOMAIN t : Carries(t, i)
  /\ \A r \in Requests : WholeParts(t, r)
  /\ LimitKept(t)
  /\ RowsSound(t)

(* The invariant holds of the empty table.                                  *)
LEMMA EmptyTable == TableInv(<< >>)
<1>1. << >> \in Seq(RowSet) /\ DOMAIN << >> = {}
  BY EmptySeq
<1>2. \A b : BudgetIds(<< >>, b) = {}
  BY <1>1 DEF BudgetIds
<1>3. \A r, y : EntryIds(<< >>, r, y) = {}
  BY <1>1 DEF EntryIds
<1>4. \A r \in Requests : WholeParts(<< >>, r)
  BY <1>3 DEF WholeParts, OncePerBudget, SameAmounts
<1>5. QED
  BY <1>1, <1>2, <1>4 DEF TableInv, HasLatest, LimitKept, RowsSound

(* A commit that reserves nothing above a limit keeps LimitKept.            *)
LEMMA LimitOld ==
  ASSUME NEW t \in Seq(RowSet), NEW u, NEW n \in Nat, NEW r, NEW type,
         NEW budgets, NEW amounts, Posts(t, u, n, r, type, budgets, amounts),
         LimitKept(t),
         FALSE \notin Modes =>
           \A k \in 1..n : type = "reserve" /\ HardLimit[budgets[k]] # NoLimit =>
             LatestTotal(t, budgets[k]) + amounts[k] <= HardLimit[budgets[k]]
  PROVE  LimitKept(u)
<1> SUFFICES ASSUME FALSE \notin Modes, NEW i \in DOMAIN u,
                    u[i].type = "reserve", HardLimit[u[i].budget] # NoLimit
             PROVE  u[i].total <= HardLimit[u[i].budget]
  BY DEF LimitKept
<1>1. DOMAIN t = 1..Len(t) /\ Len(t) \in Nat /\ DOMAIN u = 1..(Len(t) + n)
  BY PostsIds
<1>2. CASE i \in 1..Len(t)
  BY <1>1, <1>2 DEF LimitKept, Posts
<1>3. CASE i \notin 1..Len(t)
  <2>1. PICK k \in 1..n : i = Len(t) + k
    <3>1. i - Len(t) \in 1..n /\ i = Len(t) + (i - Len(t))
      BY <1>1, <1>3
    <3>2. QED
      BY <3>1
  <2>2. u[i] = Entry(r, type, budgets[k], amounts[k],
                     LatestTotal(t, budgets[k]) + amounts[k])
    BY <2>1 DEF Posts
  <2>3. /\ u[i].type = type /\ u[i].budget = budgets[k]
        /\ u[i].total = LatestTotal(t, budgets[k]) + amounts[k]
    BY <2>2 DEF Entry
  <2>4. QED
    BY <2>3
<1>4. QED
  BY <1>2, <1>3

(* A commit whose totals fit keeps RowsSound.                               *)
LEMMA SoundOld ==
  ASSUME NEW t \in Seq(RowSet), NEW u, NEW n \in Nat, NEW r, NEW type,
         NEW budgets, NEW amounts, Posts(t, u, n, r, type, budgets, amounts),
         RowsSound(t), TotalsFit(t, n, budgets, amounts),
         type = "reserve" => \A k \in 1..n : amounts[k] >= 0
  PROVE  RowsSound(u)
<1> SUFFICES ASSUME NEW i \in DOMAIN u
             PROVE  Fits(u[i].total) /\ (u[i].type = "reserve" => u[i].amount >= 0)
  BY DEF RowsSound
<1>1. DOMAIN t = 1..Len(t) /\ Len(t) \in Nat /\ DOMAIN u = 1..(Len(t) + n)
  BY PostsIds
<1>2. CASE i \in 1..Len(t)
  BY <1>1, <1>2 DEF RowsSound, Posts
<1>3. CASE i \notin 1..Len(t)
  <2>1. PICK k \in 1..n : i = Len(t) + k
    <3>1. i - Len(t) \in 1..n /\ i = Len(t) + (i - Len(t))
      BY <1>1, <1>3
    <3>2. QED
      BY <3>1
  <2>2. u[i] = Entry(r, type, budgets[k], amounts[k],
                     LatestTotal(t, budgets[k]) + amounts[k])
    BY <2>1 DEF Posts
  <2>3. /\ u[i].type = type /\ u[i].amount = amounts[k]
        /\ u[i].total = LatestTotal(t, budgets[k]) + amounts[k]
    BY <2>2 DEF Entry
  <2>4. QED
    BY <2>3 DEF TotalsFit
<1>4. QED
  BY <1>2, <1>3

(* Every change keeps the invariant of the table.                           *)
LEMMA ChangesKeep ==
  ASSUME NEW t, NEW u, TableInv(t), Changes(t, u)
  PROVE  TableInv(u)
<1>1. t \in Seq(RowSet) /\ HasLatest(t)
  BY DEF TableInv
<1>2. CASE ReserveStep(t, u)
  <2>0. PICK n \in Nat, r \in Requests :
          \E budgets \in [1..n -> Budgets], amounts \in [1..n -> Int] :
            ReserveRows(t, u, n, r, budgets, amounts)
    BY <1>2 DEF ReserveStep
  <2>1. PICK budgets \in [1..n -> Budgets], amounts \in [1..n -> Int] :
          ReserveRows(t, u, n, r, budgets, amounts)
    BY <2>0
  <2>2. /\ Posts(t, u, n, r, "reserve", budgets, amounts)
        /\ \A j, k \in 1..n : budgets[j] = budgets[k] => j = k
        /\ \A j, k \in 1..n : amounts[j] = amounts[k]
        /\ EntryIds(t, r, "reserve") = {}
        /\ FALSE \notin Modes =>
             \A k \in 1..n : HardLimit[budgets[k]] # NoLimit =>
               LatestTotal(t, budgets[k]) + amounts[k] <= HardLimit[budgets[k]]
        /\ TotalsFit(t, n, budgets, amounts) /\ \A k \in 1..n : amounts[k] >= 0
    BY <2>1 DEF ReserveRows
  <2>3. HasLatest(u)
    BY <1>1, <2>2, PostsLatest
  <2>4. \A i \in DOMAIN u : Carries(u, i)
    BY <1>1, <2>2, PostsCarry DEF TableInv
  <2>5. \A q \in Requests : WholeParts(u, q)
    <3>1. ASSUME NEW q \in Requests, q # r PROVE WholeParts(u, q)
      BY <1>1, <2>2, <3>1, WholeOther DEF TableInv
    <3>2. WholeParts(u, r)
      BY <1>1, <2>2, WholeReserve DEF TableInv
    <3>3. QED
      BY <3>1, <3>2
  <2>6. LimitKept(u)
    BY <1>1, <2>2, LimitOld DEF TableInv
  <2>7. u \in Seq(RowSet)
    BY <2>2 DEF Posts
  <2>8. RowsSound(u)
    BY <1>1, <2>2, SoundOld DEF TableInv
  <2>9. QED
    BY <2>3, <2>4, <2>5, <2>6, <2>7, <2>8 DEF TableInv
<1>3. CASE SettleStep(t, u)
  <2>0. PICK n \in Nat, r \in Requests, type \in {"reconcile", "release"}, c \in Int :
          \E ids \in [1..n -> EntryIds(t, r, "reserve")],
             budgets \in [1..n -> Budgets], amounts \in [1..n -> Int] :
            SettleRows(t, u, n, r, type, c, ids, budgets, amounts)
    BY <1>3 DEF SettleStep
  <2>1. PICK ids \in [1..n -> EntryIds(t, r, "reserve")],
             budgets \in [1..n -> Budgets], amounts \in [1..n -> Int] :
          SettleRows(t, u, n, r, type, c, ids, budgets, amounts)
    BY <2>0
  <2>2. /\ Posts(t, u, n, r, type, budgets, amounts)
        /\ type = "release" => c = 0
        /\ \A i \in EntryIds(t, r, "reserve") : \E k \in 1..n : ids[k] = i
        /\ \A j, k \in 1..n : ids[j] = ids[k] => j = k
        /\ \A k \in 1..n : budgets[k] = t[ids[k]].budget
        /\ \A k \in 1..n : amounts[k] = c - t[ids[k]].amount
        /\ EntryIds(t, r, "reconcile") = {} /\ EntryIds(t, r, "release") = {}
        /\ TotalsFit(t, n, budgets, amounts)
    BY <2>1 DEF SettleRows
  <2>3. WholeParts(t, r)
    BY DEF TableInv
  <2>4. \A j, k \in 1..n : budgets[j] = budgets[k] => j = k
    BY <2>1, <2>3, SettleOnce
  <2>5. HasLatest(u)
    BY <1>1, <2>2, <2>4, PostsLatest
  <2>6. \A i \in DOMAIN u : Carries(u, i)
    BY <1>1, <2>2, <2>4, PostsCarry DEF TableInv
  <2>7. \A q \in Requests : WholeParts(u, q)
    <3>1. ASSUME NEW q \in Requests, q # r PROVE WholeParts(u, q)
      BY <1>1, <2>2, <3>1, WholeOther DEF TableInv
    <3>2. WholeParts(u, r)
      BY <1>1, <2>1, <2>3, WholeSettle
    <3>3. QED
      BY <3>1, <3>2
  <2>8. LimitKept(u)
    BY <1>1, <2>2, LimitOld DEF TableInv
  <2>9. u \in Seq(RowSet)
    BY <2>2 DEF Posts
  <2>10. RowsSound(u)
    BY <1>1, <2>2, SoundOld DEF TableInv
  <2>11. QED
    BY <2>5, <2>6, <2>7, <2>8, <2>9, <2>10 DEF TableInv
<1>4. QED
  BY <1>2, <1>3 DEF Changes

IInv == TableInv(rows) /\ reply \in ReplyOf(rows)

(* The strengthening holds initially and every step keeps it.               *)
THEOREM Invariance == Spec => []IInv
<1>1. Init => IInv
  <2> SUFFICES ASSUME NEW r \in Requests, rows = << >>, reply = Reply(r, "none", {})
               PROVE  IInv
    BY DEF Init
  <2>1. reply \in ReplyOf(rows)
    BY DEF ReplyOf, Answers, ReplySet, Reply, Outcomes
  <2> QED
    BY <2>1, EmptyTable DEF IInv
<1>2. IInv /\ [Next]_vars => IInv'
  <2> SUFFICES ASSUME IInv, [Next]_vars PROVE IInv'
    OBVIOUS
  <2>1. rows \in Seq(RowSet) /\ HasLatest(rows)
    BY DEF IInv, TableInv
  <2>2. CASE Next
    <3>1. Changes(rows, rows') /\ reply' \in ReplyOf(rows')
      BY <2>1, <2>2, NextChanges
    <3>2. TableInv(rows')
      BY <3>1, ChangesKeep DEF IInv
    <3>3. QED
      BY <3>1, <3>2 DEF IInv
  <2>3. CASE UNCHANGED vars
    BY <2>3 DEF IInv, vars
  <2>4. QED
    BY <2>2, <2>3
<1>3. QED
  BY <1>1, <1>2, PTL DEF Spec

(* The rows and the answers of the ledger keep their types, for every       *)
(* caller, list of budgets and cost that the assumptions allow.             *)
THEOREM TypeCorrect == Spec => []TypeOK
<1>1. IInv => TypeOK
  BY DEF IInv, TableInv, TypeOK, RowSet, ReplyOf, ReplySet
<1>2. QED
  BY <1>1, Invariance, PTL

(* Each row carries on from the previous row of its budget.                 *)
THEOREM ChainCorrect == Spec => []TotalsChain
<1>1. IInv => TotalsChain
  BY DEF IInv, TableInv, TotalsChain
<1>2. QED
  BY <1>1, Invariance, PTL

(* The budgets of a request are charged, settled and returned together, and *)
(* once, whatever calls are repeated or raced.                              *)
THEOREM SettlementCorrect == Spec => []SettledWhole
<1>1. IInv => SettledWhole
  BY WholeIff DEF IInv, TableInv, SettledWhole
<1>2. QED
  BY <1>1, Invariance, PTL

(* With enforcing processes only, no reservation exceeds a hard limit.      *)
THEOREM LimitCorrect == Spec => []ReservesWithinLimit
<1>1. IInv => ReservesWithinLimit
  BY DEF IInv, TableInv, LimitKept, ReservesWithinLimit
<1>2. QED
  BY <1>1, Invariance, PTL

(* A successful answer names the rows of its request, also when it repeats  *)
(* an earlier one, and a denied request has reserved nothing.               *)
THEOREM AnswerCorrect == Spec => []AnswerMatchesTable
<1>1. IInv => AnswerMatchesTable
  BY DEF IInv, ReplyOf, Answers, AnswerMatchesTable
<1> QED
  BY <1>1, Invariance, PTL

--------------------------------------------------------------------------------
(* CostLedger implements BudgetHolds: every call of the ledger is a step of *)
(* the abstract accounts, or changes none of them.                          *)

Scope(t, r) == EntryBudgets(t, r, "reserve")

(* From one table to another the account of r alone moves: to a phase and a *)
(* charge c on the budgets S, whose totals move by the difference.          *)
Moves(t, u, r, S, next, c) ==
  /\ Phase(u, r) = next /\ Scope(u, r) = S /\ Charge(u, r) = c
  /\ \A q \in Requests \ {r} :
       Phase(u, q) = Phase(t, q) /\ Scope(u, q) = Scope(t, q) /\ Charge(u, q) = Charge(t, q)
  /\ \A b \in Budgets :
       LatestTotal(u, b) = IF b \in S THEN LatestTotal(t, b) + (c - Charge(t, r))
                                      ELSE LatestTotal(t, b)

--------------------------------------------------------------------------------
(* The amount of a request's rows of one type is that of any of them.       *)
LEMMA PostedAny ==
  ASSUME NEW t, NEW r, NEW y, SameAmounts(t, r, y), NEW i \in EntryIds(t, r, y)
  PROVE  Posted(t, r, y) = t[i].amount
<1>1. (CHOOSE j \in EntryIds(t, r, y) : TRUE) \in EntryIds(t, r, y)
  OBVIOUS
<1> QED
  BY <1>1 DEF Posted, SameAmounts

(* A request whose rows are left alone keeps its account.                   *)
LEMMA SameAccount ==
  ASSUME NEW t, NEW u, NEW q, WholeParts(t, q),
         \A y \in EntryTypes : SameEntries(t, u, q, y)
  PROVE  Phase(u, q) = Phase(t, q) /\ Scope(u, q) = Scope(t, q) /\ Charge(u, q) = Charge(t, q)
<1>1. \A y \in EntryTypes : /\ EntryIds(u, q, y) = EntryIds(t, q, y)
                           /\ \A i \in EntryIds(t, q, y) : u[i] = t[i]
  BY DEF SameEntries
<1>2. Phase(u, q) = Phase(t, q)
  BY <1>1 DEF Phase, EntryTypes
<1>3. Scope(u, q) = Scope(t, q)
  BY <1>1 DEF Scope, EntryBudgets, EntryTypes
<1>4. ASSUME NEW y \in EntryTypes, EntryIds(t, q, y) # {}
      PROVE  Posted(u, q, y) = Posted(t, q, y)
  <2>1. (CHOOSE j \in EntryIds(t, q, y) : TRUE) \in EntryIds(t, q, y)
    BY <1>4
  <2> QED
    BY <1>1, <2>1 DEF Posted
<1>5. Phase(t, q) = "settled" =>
        EntryIds(t, q, "reconcile") # {} /\ EntryIds(t, q, "reserve") # {}
  BY DEF Phase, WholeParts, Covers
<1>6. Phase(t, q) = "held" => EntryIds(t, q, "reserve") # {}
  BY DEF Phase
<1>7. Charge(u, q) = Charge(t, q)
  BY <1>2, <1>4, <1>5, <1>6 DEF Charge, EntryTypes
<1> QED
  BY <1>2, <1>3, <1>7

(* A commit for r leaves the accounts of the other requests alone.          *)
LEMMA OthersKeep ==
  ASSUME NEW t \in Seq(RowSet), NEW u, NEW n \in Nat, NEW r, NEW type,
         NEW budgets, NEW amounts, Posts(t, u, n, r, type, budgets, amounts),
         \A q \in Requests : WholeParts(t, q), NEW q \in Requests \ {r}
  PROVE  Phase(u, q) = Phase(t, q) /\ Scope(u, q) = Scope(t, q) /\ Charge(u, q) = Charge(t, q)
<1>1. \A y \in EntryTypes : SameEntries(t, u, q, y)
  BY PostsSame
<1> QED
  BY <1>1, SameAccount

(* A first reserve holds a charge on the budgets it names, within their     *)
(* limits when every process enforces them.                                 *)
LEMMA ReserveMoves ==
  ASSUME NEW t, NEW u, TableInv(t), TableInv(u), ReserveStep(t, u)
  PROVE  \E r \in Requests, S \in SUBSET Budgets, c \in Nat :
           /\ Moves(t, u, r, S, "held", c)
           /\ Phase(t, r) = "none" /\ S # {}
           /\ FALSE \notin Modes =>
                \A b \in S : HardLimit[b] # NoLimit => LatestTotal(t, b) + c <= HardLimit[b]
<1>0. PICK n \in Nat, r \in Requests :
        \E budgets \in [1..n -> Budgets], amounts \in [1..n -> Int] :
          ReserveRows(t, u, n, r, budgets, amounts)
  BY DEF ReserveStep
<1>1. PICK budgets \in [1..n -> Budgets], amounts \in [1..n -> Int] :
        ReserveRows(t, u, n, r, budgets, amounts)
  BY <1>0
<1>2. /\ Posts(t, u, n, r, "reserve", budgets, amounts)
      /\ \A j, k \in 1..n : budgets[j] = budgets[k] => j = k
      /\ \A j, k \in 1..n : amounts[j] = amounts[k]
      /\ n # 0 /\ \A k \in 1..n : amounts[k] >= 0
      /\ EntryIds(t, r, "reserve") = {}
      /\ FALSE \notin Modes =>
           \A k \in 1..n : HardLimit[budgets[k]] # NoLimit =>
             LatestTotal(t, budgets[k]) + amounts[k] <= HardLimit[budgets[k]]
  BY <1>1 DEF ReserveRows
<1>3. t \in Seq(RowSet) /\ HasLatest(t) /\ \A q \in Requests : WholeParts(t, q)
  BY DEF TableInv
<1> DEFINE c == amounts[1]
           S == {budgets[k] : k \in 1..n}
<1>4. 1 \in 1..n /\ c \in Nat /\ S \in SUBSET Budgets /\ S # {}
  BY <1>2
<1>5. \A y \in {"reconcile", "release"} : EntryIds(t, r, y) = {}
  BY <1>2, <1>3 DEF WholeParts, Covers
<1>6. Phase(t, r) = "none" /\ Charge(t, r) = 0
  BY <1>2, <1>5 DEF Phase, Charge
<1>7. NewRows(t, u, n, r, "reserve", budgets, amounts)
  BY <1>2, <1>3, PostsNew
<1>8. \A y \in {"reconcile", "release"} : EntryIds(u, r, y) = {}
  <2>1. \A y \in {"reconcile", "release"} : SameEntries(t, u, r, y)
    BY <1>2, <1>3, PostsSame
  <2> QED
    BY <1>5, <2>1 DEF SameEntries
<1>9. /\ Len(t) + 1 \in EntryIds(u, r, "reserve")
      /\ u[Len(t) + 1].amount = c
  BY <1>4, <1>7 DEF NewRows
<1>10. Phase(u, r) = "held"
  BY <1>8, <1>9 DEF Phase
<1>11. Charge(u, r) = c
  <2>1. SameAmounts(u, r, "reserve")
    BY DEF TableInv, WholeParts
  <2>2. Posted(u, r, "reserve") = c
    BY <1>9, <2>1, PostedAny
  <2> QED
    BY <1>10, <2>2 DEF Charge
<1>12. Scope(u, r) = S
  <2>1. ASSUME NEW i \in EntryIds(u, r, "reserve") PROVE u[i].budget \in S
    <3>1. PICK k \in 1..n : i = Len(t) + k
      BY <1>7 DEF NewRows
    <3>2. u[i].budget = budgets[k]
      BY <1>7, <3>1 DEF NewRows
    <3> QED
      BY <3>2
  <2>2. ASSUME NEW k \in 1..n PROVE budgets[k] \in Scope(u, r)
    BY <1>7 DEF NewRows, Scope, EntryBudgets
  <2> QED
    BY <2>1, <2>2 DEF Scope, EntryBudgets
<1>13. ASSUME NEW b \in Budgets
       PROVE  LatestTotal(u, b) = IF b \in S THEN LatestTotal(t, b) + (c - Charge(t, r))
                                             ELSE LatestTotal(t, b)
  <2>1. /\ \A k \in 1..n : budgets[k] = b => LatestTotal(u, b) = LatestTotal(t, b) + amounts[k]
        /\ (\A k \in 1..n : budgets[k] # b) => LatestTotal(u, b) = LatestTotal(t, b)
    <3>1. TotalsMove(t, u, n, budgets, amounts)
      BY <1>2, <1>3, PostsLatest
    <3> QED
      BY <3>1 DEF TotalsMove
  <2>2. LatestTotal(t, b) \in Int
    BY <1>3, LatestOf
  <2>3. CASE b \in S
    <3>1. PICK k \in 1..n : budgets[k] = b
      BY <2>3
    <3>2. amounts[k] = c
      BY <1>2, <1>4
    <3> QED
      BY <1>4, <1>6, <2>1, <2>2, <2>3, <3>1, <3>2
  <2>4. CASE b \notin S
    BY <2>1, <2>4
  <2> QED
    BY <2>3, <2>4
<1>14. Moves(t, u, r, S, "held", c)
  <2>1. \A q \in Requests \ {r} :
          Phase(u, q) = Phase(t, q) /\ Scope(u, q) = Scope(t, q) /\ Charge(u, q) = Charge(t, q)
    BY <1>2, <1>3, OthersKeep
  <2> HIDE DEF S, c
  <2> QED
    BY <1>10, <1>11, <1>12, <1>13, <2>1 DEF Moves
<1>15. FALSE \notin Modes =>
         \A b \in S : HardLimit[b] # NoLimit => LatestTotal(t, b) + c <= HardLimit[b]
  <2> SUFFICES ASSUME FALSE \notin Modes, NEW k \in 1..n, HardLimit[budgets[k]] # NoLimit
               PROVE  LatestTotal(t, budgets[k]) + c <= HardLimit[budgets[k]]
    OBVIOUS
  <2>1. amounts[k] = c
    BY <1>2, <1>4
  <2> QED
    BY <1>2, <2>1
<1> HIDE DEF S, c
<1> QED
  BY <1>4, <1>6, <1>14, <1>15

(* A first reconcile settles the charge to its cost, a first release        *)
(* returns it, on all the budgets it was held on.                           *)
LEMMA SettleMoves ==
  ASSUME NEW t, NEW u, TableInv(t), TableInv(u), SettleStep(t, u)
  PROVE  \E r \in Requests, next \in {"settled", "returned"}, c \in Nat :
           /\ Moves(t, u, r, Scope(t, r), next, c)
           /\ Phase(t, r) = "held" /\ (next = "returned" => c = 0)
<1>0. PICK n \in Nat, r \in Requests, type \in {"reconcile", "release"}, cost \in Int :
        \E ids \in [1..n -> EntryIds(t, r, "reserve")],
           budgets \in [1..n -> Budgets], amounts \in [1..n -> Int] :
          SettleRows(t, u, n, r, type, cost, ids, budgets, amounts)
  BY DEF SettleStep
<1>1. PICK ids \in [1..n -> EntryIds(t, r, "reserve")],
           budgets \in [1..n -> Budgets], amounts \in [1..n -> Int] :
        SettleRows(t, u, n, r, type, cost, ids, budgets, amounts)
  BY <1>0
<1>2. /\ Posts(t, u, n, r, type, budgets, amounts)
      /\ cost >= 0 /\ (type = "release" => cost = 0)
      /\ EntryIds(t, r, "reserve") # {}
      /\ \A i \in EntryIds(t, r, "reserve") : \E k \in 1..n : ids[k] = i
      /\ \A j, k \in 1..n : ids[j] = ids[k] => j = k
      /\ \A k \in 1..n : budgets[k] = t[ids[k]].budget
      /\ \A k \in 1..n : amounts[k] = cost - t[ids[k]].amount
      /\ EntryIds(t, r, "reconcile") = {} /\ EntryIds(t, r, "release") = {}
  BY <1>1 DEF SettleRows
<1>3. t \in Seq(RowSet) /\ HasLatest(t) /\ \A q \in Requests : WholeParts(t, q)
  BY DEF TableInv
<1>4. OncePerBudget(t, r, "reserve") /\ SameAmounts(t, r, "reserve")
  BY <1>3 DEF WholeParts, EntryTypes
<1> DEFINE held == Posted(t, r, "reserve")
           next == IF type = "reconcile" THEN "settled" ELSE "returned"
<1>5. Phase(t, r) = "held" /\ Charge(t, r) = held
  BY <1>2 DEF Phase, Charge
<1>6. \A k \in 1..n : t[ids[k]].amount = held /\ held \in Int
  <2> SUFFICES ASSUME NEW k \in 1..n PROVE t[ids[k]].amount = held /\ held \in Int
    OBVIOUS
  <2>1. ids[k] \in EntryIds(t, r, "reserve")
    OBVIOUS
  <2>2. t[ids[k]].amount \in Int
    BY <1>3, <2>1, RowTypes
  <2>3. t[ids[k]].amount = held
    BY <1>4, <2>1, PostedAny
  <2> QED
    BY <2>2, <2>3
<1> HIDE DEF held
<1>7. NewRows(t, u, n, r, type, budgets, amounts)
  BY <1>2, <1>3, PostsNew
<1>8. /\ SameEntries(t, u, r, "reserve")
      /\ \A y \in {"reconcile", "release"} : y # type => SameEntries(t, u, r, y)
  BY <1>2, <1>3, PostsSame
<1>9. PICK k \in 1..n : TRUE
  BY <1>2
<1>10. /\ Len(t) + k \in EntryIds(u, r, type)
       /\ u[Len(t) + k].amount = cost - held
  BY <1>2, <1>6, <1>7 DEF NewRows
<1>11. \A y \in {"reconcile", "release"} : y # type => EntryIds(u, r, y) = {}
  BY <1>2, <1>8 DEF SameEntries
<1>12. Phase(u, r) = next
  BY <1>10, <1>11 DEF Phase
<1>13. Charge(u, r) = cost
  <2>1. CASE type = "release"
    BY <1>2, <1>12, <2>1 DEF Charge
  <2>2. CASE type = "reconcile"
    <3>1. SameAmounts(u, r, "reconcile") /\ SameAmounts(u, r, "reserve")
      BY DEF TableInv, WholeParts
    <3>2. Posted(u, r, "reconcile") = cost - held
      BY <1>10, <2>2, <3>1, PostedAny
    <3>3. ids[k] \in EntryIds(u, r, "reserve") /\ u[ids[k]] = t[ids[k]]
      BY <1>8 DEF SameEntries
    <3>4. Posted(u, r, "reserve") = held
      BY <1>6, <3>1, <3>3, PostedAny
    <3> QED
      BY <1>6, <1>12, <2>2, <3>2, <3>4 DEF Charge
  <2> QED
    BY <2>1, <2>2
<1>14. Scope(u, r) = Scope(t, r)
  BY <1>8 DEF SameEntries, Scope, EntryBudgets
<1>15. ASSUME NEW b \in Budgets
       PROVE  LatestTotal(u, b) =
                IF b \in Scope(t, r) THEN LatestTotal(t, b) + (cost - Charge(t, r))
                                     ELSE LatestTotal(t, b)
  <2>1. \A j, l \in 1..n : budgets[j] = budgets[l] => j = l
    BY <1>1, <1>3, SettleOnce
  <2>2. /\ \A l \in 1..n : budgets[l] = b => LatestTotal(u, b) = LatestTotal(t, b) + amounts[l]
        /\ (\A l \in 1..n : budgets[l] # b) => LatestTotal(u, b) = LatestTotal(t, b)
    <3>1. TotalsMove(t, u, n, budgets, amounts)
      BY <1>2, <1>3, <2>1, PostsLatest
    <3> QED
      BY <3>1 DEF TotalsMove
  <2>3. CASE b \in Scope(t, r)
    <3>1. PICK i \in EntryIds(t, r, "reserve") : t[i].budget = b
      BY <2>3 DEF Scope, EntryBudgets
    <3>2. PICK l \in 1..n : ids[l] = i
      BY <1>2
    <3>3. budgets[l] = b /\ amounts[l] = cost - held
      BY <1>2, <1>6, <3>1, <3>2
    <3> QED
      BY <1>5, <2>2, <2>3, <3>3
  <2>4. CASE b \notin Scope(t, r)
    <3>1. \A l \in 1..n : budgets[l] # b
      BY <1>2, <2>4 DEF Scope, EntryBudgets
    <3> QED
      BY <2>2, <2>4, <3>1
  <2> QED
    BY <2>3, <2>4
<1>16. Moves(t, u, r, Scope(t, r), next, cost)
  <2>1. \A q \in Requests \ {r} :
          Phase(u, q) = Phase(t, q) /\ Scope(u, q) = Scope(t, q) /\ Charge(u, q) = Charge(t, q)
    <3> HIDE DEF next
    <3> SUFFICES ASSUME NEW q \in Requests \ {r}
                 PROVE  /\ Phase(u, q) = Phase(t, q) /\ Scope(u, q) = Scope(t, q)
                        /\ Charge(u, q) = Charge(t, q)
      OBVIOUS
    <3> QED
      BY <1>2, <1>3, OthersKeep
  <2> QED
    BY <1>12, <1>13, <1>14, <1>15, <2>1 DEF Moves
<1>17. cost \in Nat /\ next \in {"settled", "returned"} /\ (next = "returned" => cost = 0)
  BY <1>2
<1> HIDE DEF next
<1> QED
  BY <1>5, <1>16, <1>17

--------------------------------------------------------------------------------
(* The accounts of a table are the variables of BudgetHolds.                *)

(* An account that moves recharges its request there.                       *)
LEMMA MovesRecharge ==
  ASSUME NEW r \in Requests, NEW S, NEW next, NEW c, Moves(rows, rows', r, S, next, c)
  PROVE  /\ Holds!Recharge(r, S, next, c)
         /\ scopeBar' = [scopeBar EXCEPT ![r] = S]
         /\ scopeBar'[r] = S /\ chargeBar'[r] = c
<1>1. phaseBar' = [phaseBar EXCEPT ![r] = next]
  BY DEF Moves, phaseBar
<1>2. chargeBar' = [chargeBar EXCEPT ![r] = c] /\ chargeBar'[r] = c
  BY DEF Moves, chargeBar
<1>3. scopeBar' = [scopeBar EXCEPT ![r] = S] /\ scopeBar'[r] = S
  BY DEF Moves, scopeBar, Scope
<1>4. spentBar' = [b \in Budgets |->
                     IF b \in S THEN spentBar[b] + (c - chargeBar[r]) ELSE spentBar[b]]
  BY DEF Moves, spentBar, chargeBar
<1> QED
  BY <1>1, <1>2, <1>3, <1>4 DEF Holds!Recharge

LEMMA InitHolds == Init => Holds!Init
<1> SUFFICES ASSUME Init PROVE Holds!Init
  OBVIOUS
<1>1. rows = << >> /\ DOMAIN rows = {}
  BY DEF Init
<1>2. \A r, y : EntryIds(rows, r, y) = {}
  BY <1>1 DEF EntryIds
<1>3. \A b : LatestTotal(rows, b) = 0
  BY <1>1 DEF LatestTotal, BudgetIds
<1>4. \A r : Phase(rows, r) = "none" /\ Charge(rows, r) = 0
              /\ EntryBudgets(rows, r, "reserve") = {}
  BY <1>2 DEF Phase, Charge, EntryBudgets
<1> QED
  BY <1>3, <1>4 DEF Holds!Init, phaseBar, scopeBar, chargeBar, spentBar

LEMMA StepHolds ==
  ASSUME IInv, IInv', [Next]_vars
  PROVE  [Holds!Next]_Holds!holdVars
<1>1. CASE rows' = rows
  <2>1. phaseBar' = phaseBar /\ scopeBar' = scopeBar
        /\ chargeBar' = chargeBar /\ spentBar' = spentBar
    BY <1>1 DEF phaseBar, scopeBar, chargeBar, spentBar
  <2> QED
    BY <2>1 DEF Holds!holdVars
<1>2. CASE ReserveStep(rows, rows')
  <2>1. PICK r \in Requests, S \in SUBSET Budgets, c \in Nat :
          /\ Moves(rows, rows', r, S, "held", c)
          /\ Phase(rows, r) = "none" /\ S # {}
          /\ FALSE \notin Modes =>
               \A b \in S : HardLimit[b] # NoLimit => LatestTotal(rows, b) + c <= HardLimit[b]
    BY <1>2, ReserveMoves DEF IInv
  <2>2. phaseBar[r] = "none"
    BY <2>1 DEF phaseBar
  <2>3. FALSE \in Modes \/ Holds!WithinLimits(S, c)
    BY <2>1 DEF Holds!WithinLimits, spentBar
  <2>4. Holds!Hold(r, scopeBar'[r], chargeBar'[r])
    <3>1. /\ Holds!Recharge(r, S, "held", c)
          /\ scopeBar' = [scopeBar EXCEPT ![r] = S]
          /\ scopeBar'[r] = S /\ chargeBar'[r] = c
      BY <2>1, MovesRecharge
    <3>2. Holds!Hold(r, S, c)
      <4>1. S # {} /\ S \subseteq Budgets /\ c >= 0
        BY <2>1
      <4> QED
        BY <2>2, <2>3, <3>1, <4>1, Zenon DEF Holds!Hold
    <3> QED
      BY <3>1, <3>2
  <2> QED
    BY <2>4 DEF Holds!Next
<1>3. CASE SettleStep(rows, rows')
  <2>1. PICK r \in Requests, next \in {"settled", "returned"}, c \in Nat :
          /\ Moves(rows, rows', r, Scope(rows, r), next, c)
          /\ Phase(rows, r) = "held" /\ (next = "returned" => c = 0)
    BY <1>3, SettleMoves DEF IInv
  <2>2. phaseBar[r] = "held" /\ scopeBar[r] = Scope(rows, r)
    BY <2>1 DEF phaseBar, scopeBar, Scope
  <2>3. /\ Holds!Recharge(r, scopeBar[r], next, c)
        /\ scopeBar' = [scopeBar EXCEPT ![r] = scopeBar[r]]
        /\ chargeBar'[r] = c
    BY <2>1, <2>2, MovesRecharge
  <2>4. scopeBar' = scopeBar
    BY <2>3 DEF scopeBar
  <2>5. CASE next = "settled"
    <3>1. Holds!SettleTo(r, chargeBar'[r])
      BY <2>2, <2>3, <2>4, <2>5 DEF Holds!SettleTo
    <3> QED
      BY <3>1 DEF Holds!Next
  <2>6. CASE next = "returned"
    <3>1. Holds!Return(r)
      BY <2>1, <2>2, <2>3, <2>4, <2>6 DEF Holds!Return
    <3> QED
      BY <3>1 DEF Holds!Next
  <2> QED
    BY <2>5, <2>6
<1>4. rows' = rows \/ ReserveStep(rows, rows') \/ SettleStep(rows, rows')
  <2>1. CASE UNCHANGED vars
    BY <2>1 DEF vars
  <2>2. CASE Next
    BY <2>2, NextChanges DEF IInv, TableInv, Changes
  <2> QED
    BY <2>1, <2>2
<1> QED
  BY <1>1, <1>2, <1>3, <1>4

(* Whatever calls are made, raced and repeated, the ledger's transactions   *)
(* are the steps of accounts that hold one charge per request on all of its *)
(* budgets, and settle or return it once (ledger:62-273).                   *)
THEOREM LedgerImplementsHolds == Spec => ImplementsHolds
<1>1. Init => Holds!Init
  BY InitHolds
<1>2. IInv /\ IInv' /\ [Next]_vars => [Holds!Next]_Holds!holdVars
  BY StepHolds
<1> QED
  BY <1>1, <1>2, Invariance, PTL DEF Spec, ImplementsHolds, Holds!Spec

--------------------------------------------------------------------------------
(* The totals are the sums of the charges                                   *)

Charges(t)      == [r \in Requests |-> Charge(t, r)]
ChargedOn(t, b) == {r \in Requests : b \in Scope(t, r)}

(* Nobody is charged less than nothing, finitely many are charged, and the  *)
(* total of a budget is what they are charged.                              *)
Accounted(t) ==
  /\ \A r \in Requests : Charge(t, r) \in Nat
  /\ \A b \in Budgets : /\ IsFiniteSet(ChargedOn(t, b))
                        /\ LatestTotal(t, b) = SumOver(Charges(t), ChargedOn(t, b))

(* What one request contributes to a sum of charges.                        *)
LEMMA SumPart ==
  ASSUME NEW f, NEW S, IsFiniteSet(S), \A x \in S : f[x] \in Int, NEW x
  PROVE  /\ IsFiniteSet(S \ {x}) /\ SumOver(f, S \ {x}) \in Int
         /\ x \in S => SumOver(f, S) = SumOver(f, S \ {x}) + f[x]
         /\ x \notin S => SumOver(f, S) = SumOver(f, S \ {x})
<1> DEFINE T == S \ {x}
<1>1. IsFiniteSet(T) /\ \A y \in T : f[y] \in Int
  BY FS_Subset
<1>2. x \in S => SumOver(f, S) = f[x] + SumOver(f, T) /\ f[x] \in Int
  BY SumTake
<1>3. x \notin S => T = S
  OBVIOUS
<1> HIDE DEF T
<1>4. SumOver(f, T) \in Int
  BY <1>1, SumInt
<1>5. x \in S => SumOver(f, S) = SumOver(f, T) + f[x]
  BY <1>2, <1>4
<1> QED
  BY <1>1, <1>3, <1>4, <1>5 DEF T

(* An account that moves, from nothing or on the same budgets, keeps them   *)
(* so: the sum of each of its budgets changes by what its total does.       *)
LEMMA MovesAccounted ==
  ASSUME NEW t, NEW u, Accounted(t), NEW r \in Requests, NEW S, NEW next, NEW c \in Nat,
         Moves(t, u, r, S, next, c),
         S = Scope(t, r) \/ (Scope(t, r) = {} /\ Charge(t, r) = 0)
  PROVE  Accounted(u)
<1>1. /\ Scope(u, r) = S /\ Charge(u, r) = c
      /\ \A q \in Requests \ {r} : Scope(u, q) = Scope(t, q) /\ Charge(u, q) = Charge(t, q)
  BY DEF Moves
<1>2. \A q \in Requests : Charge(t, q) \in Nat /\ Charge(u, q) \in Nat
  BY <1>1 DEF Accounted
<1>3. ASSUME NEW b \in Budgets
      PROVE  /\ IsFiniteSet(ChargedOn(u, b))
             /\ LatestTotal(u, b) = SumOver(Charges(u), ChargedOn(u, b))
  <2> DEFINE before == ChargedOn(t, b)
             after  == ChargedOn(u, b)
             others == before \ {r}
             f == Charges(t)
             g == Charges(u)
  <2>1. after \ {r} = others
    BY <1>1 DEF ChargedOn
  <2>2. r \in after <=> b \in S
    BY <1>1 DEF ChargedOn
  <2>3. r \in before <=> b \in Scope(t, r)
    BY DEF ChargedOn
  <2>4. /\ \A q \in before : f[q] \in Int
        /\ \A q \in after : g[q] \in Int
    BY <1>2 DEF ChargedOn, Charges
  <2>5. f[r] = Charge(t, r) /\ g[r] = c /\ Charge(t, r) \in Int
    BY <1>1, <1>2 DEF Charges
  <2>6. \A q \in others : f[q] = g[q]
    BY <1>1 DEF ChargedOn, Charges
  <2>7. IsFiniteSet(before) /\ LatestTotal(t, b) = SumOver(f, before)
    BY DEF Accounted
  <2> HIDE DEF before, after, others, f, g
  <2>8. /\ IsFiniteSet(others) /\ SumOver(f, others) \in Int
        /\ r \in before => SumOver(f, before) = SumOver(f, others) + f[r]
        /\ r \notin before => SumOver(f, before) = SumOver(f, others)
    BY <2>4, <2>7, SumPart DEF others
  <2>9. SumOver(f, others) = SumOver(g, others)
    BY <2>6, <2>8, SumSame
  <2>10. IsFiniteSet(after)
    <3>1. IsFiniteSet(others \cup {r})
      BY <2>8, FS_AddElement
    <3>2. after \subseteq others \cup {r}
      BY <2>1
    <3> QED
      BY <3>1, <3>2, FS_Subset
  <2>11. /\ r \in after => SumOver(g, after) = SumOver(g, others) + g[r]
         /\ r \notin after => SumOver(g, after) = SumOver(g, others)
    <3>1. /\ r \in after => SumOver(g, after) = SumOver(g, after \ {r}) + g[r]
          /\ r \notin after => SumOver(g, after) = SumOver(g, after \ {r})
      BY <2>4, <2>10, SumPart
    <3> QED
      BY <2>1, <3>1
  <2>12. LatestTotal(u, b) = IF b \in S THEN LatestTotal(t, b) + (c - Charge(t, r))
                                        ELSE LatestTotal(t, b)
    BY DEF Moves
  <2>13. LatestTotal(u, b) = SumOver(g, after)
    <3>1. CASE b \in S /\ b \in Scope(t, r)
      BY <2>2, <2>3, <2>5, <2>7, <2>8, <2>9, <2>11, <2>12, <3>1
    <3>2. CASE b \in S /\ b \notin Scope(t, r)
      <4>1. Charge(t, r) = 0
        BY <3>2
      <4> QED
        BY <2>2, <2>3, <2>5, <2>7, <2>8, <2>9, <2>11, <2>12, <3>2, <4>1
    <3>3. CASE b \notin S
      <4>1. b \notin Scope(t, r)
        BY <3>3
      <4> QED
        BY <2>2, <2>3, <2>5, <2>7, <2>8, <2>9, <2>11, <2>12, <3>3, <4>1
    <3> QED
      BY <3>1, <3>2, <3>3
  <2> QED
    BY <2>10, <2>13 DEF after, g
<1> QED
  BY <1>2, <1>3 DEF Accounted

(* Every change keeps the totals the sums of the charges.                   *)
LEMMA ChangesAccounted ==
  ASSUME NEW t, NEW u, TableInv(t), TableInv(u), Changes(t, u), Accounted(t)
  PROVE  Accounted(u)
<1>1. CASE ReserveStep(t, u)
  <2>1. PICK r \in Requests, S \in SUBSET Budgets, c \in Nat :
          Moves(t, u, r, S, "held", c) /\ Phase(t, r) = "none"
    BY <1>1, ReserveMoves
  <2>2. Charge(t, r) = 0
    BY <2>1 DEF Charge
  <2>3. Scope(t, r) = {}
    BY <2>1 DEF Phase, Scope, EntryBudgets
  <2> QED
    BY <2>1, <2>2, <2>3, MovesAccounted
<1>2. CASE SettleStep(t, u)
  <2>1. PICK r \in Requests, next \in {"settled", "returned"}, c \in Nat :
          Moves(t, u, r, Scope(t, r), next, c)
    BY <1>2, SettleMoves
  <2> QED
    BY <2>1, MovesAccounted
<1> QED
  BY <1>1, <1>2 DEF Changes

(* The empty table owes nothing.                                            *)
LEMMA EmptyAccounted == Accounted(<< >>)
<1>1. \A r, y : EntryIds(<< >>, r, y) = {}
  BY DEF EntryIds
<1>2. \A r : Charge(<< >>, r) = 0 /\ Scope(<< >>, r) = {}
  BY <1>1 DEF Charge, Phase, Scope, EntryBudgets
<1>3. \A b : ChargedOn(<< >>, b) = {} /\ LatestTotal(<< >>, b) = 0
  BY <1>2 DEF ChargedOn, LatestTotal, BudgetIds
<1>4. IsFiniteSet({})
  BY FS_EmptySet
<1>5. SumOver(Charges(<< >>), {}) = 0
  BY <1>4, SumDef
<1>6. \A b : IsFiniteSet(ChargedOn(<< >>, b))
          /\ LatestTotal(<< >>, b) = SumOver(Charges(<< >>), ChargedOn(<< >>, b))
  BY <1>3, <1>4, <1>5
<1> QED
  BY <1>2, <1>6 DEF Accounted

(* A change appends one row for each of some distinct budgets.              *)
LEMMA ChangesPost ==
  ASSUME NEW t, NEW u, TableInv(t), Changes(t, u), u # t
  PROVE  \E n \in Nat, r \in Requests, type \in EntryTypes :
         \E budgets \in [1..n -> Budgets], amounts \in [1..n -> Int] :
           /\ Posts(t, u, n, r, type, budgets, amounts)
           /\ \A j, k \in 1..n : budgets[j] = budgets[k] => j = k
<1>1. CASE ReserveStep(t, u)
  <2>1. PICK n \in Nat, r \in Requests :
          \E budgets \in [1..n -> Budgets], amounts \in [1..n -> Int] :
            ReserveRows(t, u, n, r, budgets, amounts)
    BY <1>1 DEF ReserveStep
  <2>2. PICK budgets \in [1..n -> Budgets], amounts \in [1..n -> Int] :
          ReserveRows(t, u, n, r, budgets, amounts)
    BY <2>1
  <2>3. /\ Posts(t, u, n, r, "reserve", budgets, amounts)
        /\ \A j, k \in 1..n : budgets[j] = budgets[k] => j = k
    BY <2>2 DEF ReserveRows
  <2> QED
    BY <2>3 DEF EntryTypes
<1>2. CASE SettleStep(t, u)
  <2>1. PICK n \in Nat, r \in Requests, type \in {"reconcile", "release"}, c \in Int :
          \E ids \in [1..n -> EntryIds(t, r, "reserve")],
             budgets \in [1..n -> Budgets], amounts \in [1..n -> Int] :
            SettleRows(t, u, n, r, type, c, ids, budgets, amounts)
    BY <1>2 DEF SettleStep
  <2>2. PICK ids \in [1..n -> EntryIds(t, r, "reserve")],
             budgets \in [1..n -> Budgets], amounts \in [1..n -> Int] :
          SettleRows(t, u, n, r, type, c, ids, budgets, amounts)
    BY <2>1
  <2>3. \A j, k \in 1..n : budgets[j] = budgets[k] => j = k
    BY <2>2, SettleOnce DEF TableInv
  <2>4. Posts(t, u, n, r, type, budgets, amounts) /\ type \in EntryTypes
    BY <2>2 DEF SettleRows, EntryTypes
  <2> QED
    BY <2>3, <2>4
<1> QED
  BY <1>1, <1>2 DEF Changes

TotalsPositive(t) == \A i \in DOMAIN t : 0 <= t[i].total

(* A total that is a sum of charges is not negative; the total of a new row *)
(* is the new total of its budget.                                          *)
LEMMA ChangesPositive ==
  ASSUME NEW t, NEW u, TableInv(t), Changes(t, u), Accounted(u), TotalsPositive(t)
  PROVE  TotalsPositive(u)
<1> SUFFICES ASSUME u # t PROVE TotalsPositive(u)
  OBVIOUS
<1>1. PICK n \in Nat, r \in Requests, type \in EntryTypes :
        \E budgets \in [1..n -> Budgets], amounts \in [1..n -> Int] :
          /\ Posts(t, u, n, r, type, budgets, amounts)
          /\ \A j, k \in 1..n : budgets[j] = budgets[k] => j = k
  BY ChangesPost
<1>2. PICK budgets \in [1..n -> Budgets], amounts \in [1..n -> Int] :
        /\ Posts(t, u, n, r, type, budgets, amounts)
        /\ \A j, k \in 1..n : budgets[j] = budgets[k] => j = k
  BY <1>1
<1>3. t \in Seq(RowSet) /\ HasLatest(t)
  BY DEF TableInv
<1>4. DOMAIN t = 1..Len(t) /\ Len(t) \in Nat /\ DOMAIN u = 1..(Len(t) + n)
  BY <1>2, <1>3, PostsIds
<1>5. ASSUME NEW k \in 1..n
      PROVE  0 <= u[Len(t) + k].total
  <2> DEFINE b == budgets[k]
  <2>1. LatestTotal(u, b) = LatestTotal(t, b) + amounts[k]
    <3>1. TotalsMove(t, u, n, budgets, amounts)
      BY <1>2, <1>3, PostsLatest
    <3> QED
      BY <3>1 DEF TotalsMove
  <2>2. u[Len(t) + k].total = LatestTotal(t, b) + amounts[k]
    <3>1. u[Len(t) + k] = Entry(r, type, b, amounts[k], LatestTotal(t, b) + amounts[k])
      BY <1>2 DEF Posts
    <3> QED
      BY <3>1 DEF Entry
  <2>3. LatestTotal(u, b) >= 0
    <3>1. /\ IsFiniteSet(ChargedOn(u, b))
          /\ \A q \in ChargedOn(u, b) : Charges(u)[q] \in Nat
          /\ LatestTotal(u, b) = SumOver(Charges(u), ChargedOn(u, b))
      BY DEF Accounted, Charges, ChargedOn
    <3> QED
      BY <3>1, SumInt
  <2> QED
    BY <2>1, <2>2, <2>3
<1>6. ASSUME NEW i \in DOMAIN u
      PROVE  0 <= u[i].total
  <2>1. CASE i \in 1..Len(t)
    BY <1>2, <1>4, <2>1 DEF TotalsPositive, Posts
  <2>2. CASE i \notin 1..Len(t)
    <3>1. i - Len(t) \in 1..n /\ i = Len(t) + (i - Len(t))
      BY <1>4, <2>2
    <3> QED
      BY <1>5, <3>1
  <2> QED
    BY <2>1, <2>2
<1> QED
  BY <1>6 DEF TotalsPositive

(* What IInv needs to bound the totals from below.                          *)
AccountInv == IInv /\ Accounted(rows) /\ TotalsPositive(rows)

THEOREM AccountInvariance == Spec => []AccountInv
<1>1. Init /\ IInv => AccountInv
  BY EmptyAccounted DEF Init, TotalsPositive, AccountInv
<1>2. IInv' /\ [Next]_vars /\ AccountInv => AccountInv'
  <2> SUFFICES ASSUME IInv', [Next]_vars, AccountInv
               PROVE  Accounted(rows') /\ TotalsPositive(rows')
    BY DEF AccountInv
  <2>1. Changes(rows, rows')
    <3>1. CASE Next
      BY <3>1, NextChanges DEF AccountInv, IInv, TableInv
    <3>2. CASE UNCHANGED vars
      BY <3>2 DEF vars, Changes
    <3> QED
      BY <3>1, <3>2
  <2>2. TableInv(rows) /\ TableInv(rows')
    BY DEF IInv, AccountInv
  <2>3. Accounted(rows')
    BY <2>1, <2>2, ChangesAccounted DEF AccountInv
  <2> QED
    BY <2>1, <2>2, <2>3, ChangesPositive DEF AccountInv
<1> QED
  BY <1>1, <1>2, Invariance, PTL DEF Spec

(* The running total of each budget is the sum of what each request owes    *)
(* it, for any number of requests and budgets (ledger:324).                 *)
THEOREM TotalsCorrect == Spec => []TotalsAreCharges
<1>1. AccountInv => TotalsAreCharges
  <2> SUFFICES ASSUME AccountInv, NEW b \in Budgets
               PROVE  spentBar[b] = SumOver(chargeBar, {r \in Requests : b \in scopeBar[r]})
    BY DEF TotalsAreCharges, Holds!SpentIsCharges, SumOver, MapThenSumSet, MapThenFoldSet,
       Holds!MapThenSumSet, Holds!MapThenFoldSet
  <2>1. {r \in Requests : b \in scopeBar[r]} = ChargedOn(rows, b)
    BY DEF scopeBar, ChargedOn, Scope
  <2>2. chargeBar = Charges(rows) /\ spentBar[b] = LatestTotal(rows, b)
    BY DEF chargeBar, Charges, spentBar
  <2> QED
    BY <2>1, <2>2 DEF AccountInv, Accounted
<1> QED
  BY <1>1, AccountInvariance, PTL

(* No running total is negative or beyond the width of Money, whatever is   *)
(* reserved, settled and returned in whatever order (ledger:300-330).       *)
THEOREM NeverBelowZero == Spec => []NeverNegative
<1>1. AccountInv => NeverNegative
  BY DEF AccountInv, IInv, TableInv, RowsSound, TotalsPositive, NeverNegative
<1> QED
  BY <1>1, AccountInvariance, PTL

--------------------------------------------------------------------------------
(* How far a budget may be over its limit                                   *)

Above(t, b) == {i \in BudgetIds(t, b) : t[i].type = "reconcile" /\ t[i].amount > 0}

(* An overrun is a sum of positive amounts.                                 *)
LEMMA OverrunSum ==
  ASSUME NEW t \in Seq(RowSet), NEW b
  PROVE  /\ IsFiniteSet(Above(t, b)) /\ \A i \in Above(t, b) : Amounts(t)[i] \in Nat
         /\ Overrun(t, b) = SumOver(Amounts(t), Above(t, b))
         /\ Overrun(t, b) \in Nat
<1>1. DOMAIN t = 1..Len(t) /\ Len(t) \in Nat /\ \A i \in 1..Len(t) : t[i] \in RowSet
  BY LenProperties, ElementOfSeq
<1>2. Above(t, b) \subseteq 1..Len(t)
  BY <1>1 DEF Above, BudgetIds
<1>3. IsFiniteSet(Above(t, b))
  <2>1. IsFiniteSet(1..Len(t))
    BY <1>1, FS_Interval
  <2> QED
    BY <1>2, <2>1, FS_Subset
<1>4. \A i \in Above(t, b) : Amounts(t)[i] \in Nat
  <2> SUFFICES ASSUME NEW i \in Above(t, b) PROVE Amounts(t)[i] \in Nat
    OBVIOUS
  <2>1. t[i].amount \in Int /\ t[i].amount > 0
    BY <1>1, <1>2 DEF Above, RowSet
  <2> QED
    BY <1>1, <1>2, <2>1 DEF Amounts
<1>5. Overrun(t, b) = SumOver(Amounts(t), Above(t, b))
  BY DEF Overrun, SumOver, Above
<1>6. SumOver(Amounts(t), Above(t, b)) \in Nat
  <2>1. \A i \in Above(t, b) : Amounts(t)[i] \in Int /\ Amounts(t)[i] >= 0
    BY <1>4
  <2> QED
    BY <1>3, <2>1, SumInt
<1> QED
  BY <1>3, <1>4, <1>5, <1>6

(* How far u is over t in the overrun of b after a row of amount a.         *)
OverrunAdds(t, u, b, type, a) ==
  /\ type = "reconcile" /\ a > 0 => Overrun(u, b) = Overrun(t, b) + a
  /\ type # "reconcile" \/ a <= 0 => Overrun(u, b) = Overrun(t, b)

Misses(n, budgets, b) == \A k \in 1..n : budgets[k] # b
Distinct(n, budgets)  == \A j, k \in 1..n : budgets[j] = budgets[k] => j = k

OverrunStays(t, u, b) == BudgetIds(u, b) = BudgetIds(t, b) /\ Overrun(u, b) = Overrun(t, b)

(* A commit adds to the overrun of its budgets what a reconcile costs above *)
(* the estimate.                                                            *)
LEMMA OverrunMove ==
  ASSUME NEW t \in Seq(RowSet), NEW u, NEW n \in Nat, NEW r, NEW type,
         NEW budgets, NEW amounts, Posts(t, u, n, r, type, budgets, amounts),
         Distinct(n, budgets), NEW b
  PROVE  /\ Misses(n, budgets, b) => OverrunStays(t, u, b)
         /\ \A k \in 1..n : budgets[k] = b /\ amounts[k] \in Int =>
              OverrunAdds(t, u, b, type, amounts[k])
<1>1. DOMAIN t = 1..Len(t) /\ Len(t) \in Nat /\ DOMAIN u = 1..(Len(t) + n)
  BY PostsIds
<1>2. \A i : i \in BudgetIds(u, b) <=>
        i \in BudgetIds(t, b) \/ \E k \in 1..n : i = Len(t) + k /\ budgets[k] = b
  <2>1. AddsBudgets(t, u, n, budgets)
    BY PostsIds
  <2> QED
    BY <2>1 DEF AddsBudgets
<1>3. \A i \in BudgetIds(t, b) : i \in 1..Len(t) /\ u[i] = t[i]
  BY <1>1 DEF BudgetIds, Posts
<1>4. \A i \in Above(t, b) : i \in Above(u, b) /\ Amounts(u)[i] = Amounts(t)[i]
  BY <1>1, <1>2, <1>3 DEF Above, Amounts
<1>5. u \in Seq(RowSet)
  BY DEF Posts
<1>6. /\ IsFiniteSet(Above(t, b)) /\ IsFiniteSet(Above(u, b))
      /\ \A i \in Above(u, b) : Amounts(u)[i] \in Nat
      /\ Overrun(t, b) = SumOver(Amounts(t), Above(t, b))
      /\ Overrun(u, b) = SumOver(Amounts(u), Above(u, b))
      /\ Overrun(t, b) \in Nat
  BY <1>5, OverrunSum
<1>7. SumOver(Amounts(u), Above(t, b)) = Overrun(t, b)
  <2>1. SumOver(Amounts(t), Above(t, b)) = SumOver(Amounts(u), Above(t, b))
    BY <1>4, <1>6, SumSame
  <2> QED
    BY <1>6, <2>1
<1>8. ASSUME Misses(n, budgets, b) PROVE OverrunStays(t, u, b)
  <2>1. BudgetIds(u, b) = BudgetIds(t, b)
    BY <1>2, <1>8 DEF Misses
  <2>2. Above(u, b) = Above(t, b)
    BY <1>3, <2>1 DEF Above
  <2> QED
    BY <1>6, <1>7, <2>1, <2>2 DEF OverrunStays
<1>9. ASSUME NEW k \in 1..n, budgets[k] = b, amounts[k] \in Int
      PROVE  OverrunAdds(t, u, b, type, amounts[k])
  <2> DEFINE i == Len(t) + k
             a == amounts[k]
  <2>1. i \in BudgetIds(u, b) /\ i \in DOMAIN u /\ i \notin 1..Len(t)
    BY <1>1, <1>2, <1>9
  <2>2. u[i].type = type /\ u[i].amount = a
    <3>1. u[i] = Entry(r, type, budgets[k], a, LatestTotal(t, budgets[k]) + a)
      BY DEF Posts
    <3> QED
      BY <3>1 DEF Entry
  <2>3. \A j \in BudgetIds(u, b) : j = i \/ j \in BudgetIds(t, b)
    BY <1>2, <1>9 DEF Distinct
  <2> HIDE DEF i
  <2>4. Above(u, b) \ {i} = Above(t, b)
    BY <1>1, <1>2, <1>3, <2>1, <2>3 DEF Above
  <2>5. i \in Above(u, b) <=> type = "reconcile" /\ a > 0
    BY <2>1, <2>2 DEF Above
  <2>6. Amounts(u)[i] = a
    BY <2>1, <2>2 DEF Amounts
  <2>7. /\ i \in Above(u, b) =>
             Overrun(u, b) = SumOver(Amounts(u), Above(u, b) \ {i}) + Amounts(u)[i]
        /\ i \notin Above(u, b) => Overrun(u, b) = SumOver(Amounts(u), Above(u, b) \ {i})
    <3>1. \A j \in Above(u, b) : Amounts(u)[j] \in Int
      BY <1>6
    <3>2. /\ i \in Above(u, b) => SumOver(Amounts(u), Above(u, b)) =
                 SumOver(Amounts(u), Above(u, b) \ {i}) + Amounts(u)[i]
          /\ i \notin Above(u, b) =>
               SumOver(Amounts(u), Above(u, b)) = SumOver(Amounts(u), Above(u, b) \ {i})
      BY <1>6, <3>1, SumPart
    <3> QED
      BY <1>6, <3>2
  <2>8. SumOver(Amounts(u), Above(u, b) \ {i}) = Overrun(t, b)
    BY <1>7, <2>4
  <2> QED
    BY <1>6, <1>9, <2>5, <2>6, <2>7, <2>8 DEF OverrunAdds
<1> QED
  BY <1>8, <1>9

Bounded(t, b) == LatestTotal(t, b) <= HardLimit[b] + Overrun(t, b)

OverrunBounds(t) ==
  FALSE \notin Modes =>
    \A b \in Budgets : BudgetIds(t, b) # {} /\ HardLimit[b] # NoLimit => Bounded(t, b)

(* A budget that a commit leaves alone stays bounded.                       *)
LEMMA BoundOther ==
  ASSUME NEW t, NEW u, TableInv(t), NEW n \in Nat, NEW r, NEW type,
         NEW budgets, NEW amounts, Posts(t, u, n, r, type, budgets, amounts),
         Distinct(n, budgets), OverrunBounds(t), FALSE \notin Modes,
         NEW b \in Budgets, Misses(n, budgets, b),
         BudgetIds(u, b) # {}, HardLimit[b] # NoLimit
  PROVE  Bounded(u, b)
<1>1. t \in Seq(RowSet) /\ HasLatest(t)
  BY DEF TableInv
<1>2. BudgetIds(u, b) = BudgetIds(t, b) /\ Overrun(u, b) = Overrun(t, b)
  <2>1. OverrunStays(t, u, b)
    BY <1>1, OverrunMove
  <2> QED
    BY <2>1 DEF OverrunStays
<1>3. LatestTotal(u, b) = LatestTotal(t, b)
  <2>1. TotalsMove(t, u, n, budgets, amounts)
    BY <1>1, PostsLatest DEF Distinct
  <2> QED
    BY <2>1 DEF TotalsMove, Misses
<1> QED
  BY <1>2, <1>3 DEF OverrunBounds, Bounded

(* A reserve leaves its budgets within their limits.                        *)
LEMMA ReserveBounds ==
  ASSUME NEW t, NEW u, TableInv(t), TableInv(u), ReserveStep(t, u), OverrunBounds(t)
  PROVE  OverrunBounds(u)
<1> SUFFICES ASSUME FALSE \notin Modes,
                    NEW b \in Budgets, BudgetIds(u, b) # {}, HardLimit[b] # NoLimit
             PROVE  Bounded(u, b)
  BY DEF OverrunBounds
<1>1. PICK n \in Nat, r \in Requests :
        \E budgets \in [1..n -> Budgets], amounts \in [1..n -> Int] :
          ReserveRows(t, u, n, r, budgets, amounts)
  BY DEF ReserveStep
<1>2. PICK budgets \in [1..n -> Budgets], amounts \in [1..n -> Int] :
        ReserveRows(t, u, n, r, budgets, amounts)
  BY <1>1
<1>3. /\ Posts(t, u, n, r, "reserve", budgets, amounts)
      /\ Distinct(n, budgets)
      /\ \A k \in 1..n : HardLimit[budgets[k]] # NoLimit =>
           LatestTotal(t, budgets[k]) + amounts[k] <= HardLimit[budgets[k]]
  BY <1>2 DEF ReserveRows, Distinct
<1>4. t \in Seq(RowSet) /\ HasLatest(t) /\ u \in Seq(RowSet) /\ HasLatest(u)
  BY DEF TableInv
<1>5. CASE Misses(n, budgets, b)
  BY <1>3, <1>5, BoundOther
<1>6. ASSUME NEW k \in 1..n, budgets[k] = b
      PROVE  Bounded(u, b)
  <2>1. LatestTotal(u, b) = LatestTotal(t, b) + amounts[k]
    <3>1. TotalsMove(t, u, n, budgets, amounts)
      BY <1>3, <1>4, PostsLatest DEF Distinct
    <3> QED
      BY <1>6, <3>1 DEF TotalsMove
  <2>2. LatestTotal(u, b) <= HardLimit[b]
    BY <1>3, <1>6, <2>1
  <2>3. LatestTotal(u, b) \in Int /\ HardLimit[b] \in Int
    BY <1>4, LatestOf, LimitAssumption
  <2>4. Overrun(u, b) \in Nat
    BY <1>4, OverrunSum
  <2> QED
    BY <2>2, <2>3, <2>4 DEF Bounded
<1> QED
  BY <1>5, <1>6 DEF Misses

(* A settlement raises the total of a budget by no more than the overrun:   *)
(* only a reconcile can raise it at all.                                    *)
LEMMA SettleBounds ==
  ASSUME NEW t, NEW u, TableInv(t), TableInv(u), SettleStep(t, u), OverrunBounds(t)
  PROVE  OverrunBounds(u)
<1> SUFFICES ASSUME FALSE \notin Modes,
                    NEW b \in Budgets, BudgetIds(u, b) # {}, HardLimit[b] # NoLimit
             PROVE  Bounded(u, b)
  BY DEF OverrunBounds
<1>1. PICK n \in Nat, r \in Requests, type \in {"reconcile", "release"}, c \in Int :
        \E ids \in [1..n -> EntryIds(t, r, "reserve")],
           budgets \in [1..n -> Budgets], amounts \in [1..n -> Int] :
          SettleRows(t, u, n, r, type, c, ids, budgets, amounts)
  BY DEF SettleStep
<1>2. PICK ids \in [1..n -> EntryIds(t, r, "reserve")],
           budgets \in [1..n -> Budgets], amounts \in [1..n -> Int] :
        SettleRows(t, u, n, r, type, c, ids, budgets, amounts)
  BY <1>1
<1>3. /\ Posts(t, u, n, r, type, budgets, amounts)
      /\ type = "release" => c = 0
      /\ \A k \in 1..n : budgets[k] = t[ids[k]].budget
      /\ \A k \in 1..n : amounts[k] = c - t[ids[k]].amount
  BY <1>2 DEF SettleRows
<1>4. t \in Seq(RowSet) /\ HasLatest(t) /\ u \in Seq(RowSet) /\ HasLatest(u)
  BY DEF TableInv
<1>5. Distinct(n, budgets)
  <2>1. WholeParts(t, r)
    BY DEF TableInv
  <2> QED
    BY <1>2, <2>1, SettleOnce DEF Distinct
<1>6. CASE Misses(n, budgets, b)
  BY <1>3, <1>5, <1>6, BoundOther
<1>7. ASSUME NEW k \in 1..n, budgets[k] = b
      PROVE  Bounded(u, b)
  <2> DEFINE i == ids[k]
             a == amounts[k]
  <2>1. i \in EntryIds(t, r, "reserve") /\ i \in DOMAIN t
    BY DEF EntryIds
  <2>2. t[i].amount \in Int /\ t[i].amount >= 0
    <3>1. t[i].amount \in Int
      BY <1>4, <2>1, RowTypes
    <3>2. t[i].amount >= 0
      BY <2>1 DEF TableInv, RowsSound, EntryIds
    <3> QED
      BY <3>1, <3>2
  <2>3. BudgetIds(t, b) # {}
    BY <1>3, <1>7, <2>1 DEF BudgetIds
  <2>4. Bounded(t, b)
    BY <2>3 DEF OverrunBounds
  <2>5. LatestTotal(u, b) = LatestTotal(t, b) + a
    <3>1. TotalsMove(t, u, n, budgets, amounts)
      BY <1>3, <1>4, <1>5, PostsLatest DEF Distinct
    <3> QED
      BY <1>7, <3>1 DEF TotalsMove
  <2>6. OverrunAdds(t, u, b, type, a)
    BY <1>3, <1>4, <1>5, <1>7, OverrunMove
  <2>7. LatestTotal(t, b) \in Int /\ HardLimit[b] \in Int /\ a \in Int
    BY <1>4, LatestOf, LimitAssumption
  <2>8. Overrun(t, b) \in Nat
    BY <1>4, OverrunSum
  <2>9. type = "release" => a <= 0
    BY <1>3, <2>2
  <2> HIDE DEF i, a
  <2> QED
    BY <2>4, <2>5, <2>6, <2>7, <2>8, <2>9 DEF Bounded, OverrunAdds
<1> QED
  BY <1>6, <1>7 DEF Misses

(* When every process enforces limits, a charged budget is over its limit   *)
(* by no more than its requests cost above their estimates.                 *)
THEOREM OverspendBounded == Spec => []OverspendIsOverrun
<1>1. Init => OverrunBounds(rows)
  BY DEF Init, OverrunBounds, BudgetIds
<1>2. IInv /\ IInv' /\ [Next]_vars /\ OverrunBounds(rows) => OverrunBounds(rows)'
  <2> SUFFICES ASSUME IInv, IInv', [Next]_vars, OverrunBounds(rows)
               PROVE  OverrunBounds(rows')
    OBVIOUS
  <2>1. TableInv(rows) /\ TableInv(rows')
    BY DEF IInv
  <2>2. CASE UNCHANGED vars
    BY <2>2 DEF vars
  <2>3. CASE Next
    <3>1. Changes(rows, rows')
      BY <2>1, <2>3, NextChanges DEF TableInv
    <3> QED
      BY <2>1, <3>1, ReserveBounds, SettleBounds DEF Changes
  <2> QED
    BY <2>2, <2>3
<1>3. OverrunBounds(rows) => OverspendIsOverrun
  BY DEF OverrunBounds, Bounded, OverspendIsOverrun
<1> QED
  BY <1>1, <1>2, <1>3, Invariance, PTL DEF Spec
================================================================================
