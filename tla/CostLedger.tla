------------------------------- MODULE CostLedger -------------------------------
(****************************************************************************)
(* penny-ledger's CostLedger: reserve, reserve_allow_over_limit, reconcile   *)
(* and release.  Each call is one BEGIN IMMEDIATE transaction, so each is    *)
(* one action here.  Any caller may make any call at any time, and repeat    *)
(* it: the retries of the callers need no action of their own.               *)
(****************************************************************************)
EXTENDS LedgerTable

CONSTANTS Requests,    \* request ids
          BlankIds,    \* those of them whose trim() is empty
          Budgets,     \* rowids of the budgets table
          HardLimit,   \* hard_limit_usd of each budget, or NoLimit
          BudgetLists, \* the lists of budgets a caller may pass, as ids
          Costs,       \* the estimated and actual costs a caller may pass
          Modes        \* {TRUE}: reserve only; FALSE: reserve_allow_over_limit

ASSUME MoneyAssumption == MaxMoney \in Nat /\ NoLimit \notin Int
ASSUME LimitAssumption ==
  /\ HardLimit \in [Budgets -> Int \cup {NoLimit}]
  /\ Modes \subseteq BOOLEAN
ASSUME ListAssumption ==
  \A s \in BudgetLists :
     /\ s \in Seq(Budgets)
     /\ \A j, k \in 1..Len(s) : s[j] = s[k] => j = k
ASSUME CostAssumption == \A c \in Costs : c \in Int /\ Fits(c)

VARIABLES rows,  \* the committed rows of cost_ledger
          reply  \* the answer of the last call

vars == <<rows, reply>>

EntryTypes == {"reserve", "reconcile", "release"}

(* An answer is the type of the rows it names, a denial or an error.        *)
Outcomes == EntryTypes \cup {"none", "denied", "error"}
Reply(r, outcome, ids) == [request |-> r, outcome |-> outcome, entries |-> ids]

Init == /\ rows = << >>
        /\ \E r \in Requests : reply = Reply(r, "none", {})

(* A call that answers without writing: early returns and rollbacks.        *)
Answer(r, outcome, ids) == reply' = Reply(r, outcome, ids) /\ UNCHANGED rows

(* Mutant: the answer takes the last id before the inserts.                 *)
CommitFromLast(r, type, budgets, amounts) ==
  /\ rows' = rows \o Postings(rows, r, type, budgets, amounts)
  /\ reply' = Reply(r, type, Len(rows)..(Len(rows) + Len(budgets) - 1))

(* A call that commits new rows of a type and answers with their ids.       *)
Commit(r, type, budgets, amounts) ==
  /\ rows' = rows \o Postings(rows, r, type, budgets, amounts)
  /\ reply' = Reply(r, type, (Len(rows) + 1)..(Len(rows) + Len(budgets)))

InvalidCall(r, amount) == r \in BlankIds \/ amount < 0

(* Mutant: the limit is compared with the total before the estimate.        *)
ExceedsBefore(b, est, limit) == limit # NoLimit /\ LatestTotal(rows, b) > limit

(* Where the loop of reserve_internal stops: at the first budget whose new  *)
(* total does not fit, or exceeds its hard limit when limits are enforced.  *)
Overflows(b, est) == ~Fits(LatestTotal(rows, b) + est)
Exceeds(b, est, limit) == limit # NoLimit /\ LatestTotal(rows, b) + est > limit
Stops(b, est, limit, enforce) ==
  Overflows(b, est) \/ (enforce /\ Exceeds(b, est, limit))

(* Mutant: only the first budget of the request is checked.                 *)
NewReserveFirst(r, budgets, limits, est, enforce) ==
  IF Stops(budgets[1], est, limits[budgets[1]], enforce)
  THEN Answer(r, "denied", {})
  ELSE Commit(r, "reserve", budgets, [k \in 1..Len(budgets) |-> est])

(* The first reserve of a request: all of its budgets, or none of them.     *)
NewReserve(r, budgets, limits, est, enforce) ==
  LET stops(k) == Stops(budgets[k], est, limits[budgets[k]], enforce)
  IN  \/ \E k \in 1..Len(budgets) :
           /\ stops(k) /\ \A j \in 1..(k - 1) : ~stops(j)
           /\ Answer(r, IF Overflows(budgets[k], est) THEN "error" ELSE "denied", {})
      \/ /\ \A k \in 1..Len(budgets) : ~stops(k)
         /\ Commit(r, "reserve", budgets, [k \in 1..Len(budgets) |-> est])

(* Mutant: a repeated call reserves again.                                  *)
ReserveAgain(r, budgets, limits, est, enforce) ==
  IF InvalidCall(r, est) THEN Answer(r, "error", {})
  ELSE NewReserve(r, budgets, limits, est, enforce)

ReserveInternal(r, budgets, limits, est, enforce) ==
  LET earlier == EntryIds(rows, r, "reserve")
  IN  \/ InvalidCall(r, est) /\ Answer(r, "error", {})
      \/ /\ ~InvalidCall(r, est) /\ budgets = << >>
         /\ Answer(r, "reserve", {})
      \/ /\ ~InvalidCall(r, est) /\ budgets # << >> /\ earlier # {}
         /\ IF MatchesExisting(rows, r, budgets, est)
            THEN Answer(r, "reserve", earlier)
            ELSE Answer(r, "error", {})
      \/ /\ ~InvalidCall(r, est) /\ budgets # << >> /\ earlier = {}
         /\ NewReserve(r, budgets, limits, est, enforce)

(* Mutant: reconcile and release do not look for each other's rows.         *)
SettleTwice(op, other, r, amount) ==
  LET earlier == EntryIds(rows, r, op)
      held    == EntryIds(rows, r, "reserve")
  IN  \/ earlier # {} /\ Answer(r, op, earlier)
      \/ earlier = {} /\ held = {} /\ Answer(r, "error", {})
      \/ /\ earlier = {} /\ held # {}
         /\ \E ids \in Ascending(held) :
              Commit(r, op, [k \in DOMAIN ids |-> rows[ids[k]].budget],
                            [k \in DOMAIN ids |-> amount[ids[k]]])

(* reconcile and release share their shape: answer a repeated call from the *)
(* rows of the first, refuse the call after the other one or without a      *)
(* reserve, else post amount[i] for each reserve row i, in id order.        *)
Settle(op, other, r, amount) ==
  LET earlier == EntryIds(rows, r, op)
      held    == EntryIds(rows, r, "reserve")
      refused == EntryIds(rows, r, other) # {} \/ held = {}
  IN  \/ earlier # {} /\ Answer(r, op, earlier)
      \/ earlier = {} /\ refused /\ Answer(r, "error", {})
      \/ /\ earlier = {} /\ ~refused
         /\ \E ids \in Ascending(held) :
              LET budgets == [k \in DOMAIN ids |-> rows[ids[k]].budget]
                  amounts == [k \in DOMAIN ids |-> amount[ids[k]]]
              IN  IF PostingsFit(rows, budgets, amounts)
                  THEN Commit(r, op, budgets, amounts)
                  ELSE Answer(r, "error", {})

Reconcile(r, actual) ==
  \/ InvalidCall(r, actual) /\ Answer(r, "error", {})
  \/ /\ ~InvalidCall(r, actual)
     /\ Settle("reconcile", "release", r,
               [i \in DOMAIN rows |-> actual - rows[i].amount])

Release(r) ==
  \/ InvalidCall(r, 0) /\ Answer(r, "error", {})
  \/ /\ ~InvalidCall(r, 0)
     /\ Settle("release", "reconcile", r,
               [i \in DOMAIN rows |-> 0 - rows[i].amount])

(* A statement or the commit returns a database error: dropping the         *)
(* transaction rolls it back.                                               *)
StorageError(r) == Answer(r, "error", {})

Next == \E r \in Requests :
  \/ \E s \in BudgetLists, est \in Costs, enforce \in Modes :
        ReserveInternal(r, s, HardLimit, est, enforce)
  \/ \E actual \in Costs : Reconcile(r, actual)
  \/ Release(r)
  \/ StorageError(r)

Spec == Init /\ [][Next]_vars

--------------------------------------------------------------------------------
(* What a request owes, read off the rows of a table.                       *)
Posted(t, r, type) == t[CHOOSE i \in EntryIds(t, r, type) : TRUE].amount

Phase(t, r) ==
  IF EntryIds(t, r, "reconcile") # {} THEN "settled"
  ELSE IF EntryIds(t, r, "release") # {} THEN "returned"
  ELSE IF EntryIds(t, r, "reserve") # {} THEN "held" ELSE "none"

Charge(t, r) ==
  IF Phase(t, r) = "settled"
  THEN Posted(t, r, "reserve") + Posted(t, r, "reconcile")
  ELSE IF Phase(t, r) = "held" THEN Posted(t, r, "reserve") ELSE 0

(* The table implements accounts that hold, settle and return charges.      *)
phaseBar  == [r \in Requests |-> Phase(rows, r)]
scopeBar  == [r \in Requests |-> EntryBudgets(rows, r, "reserve")]
chargeBar == [r \in Requests |-> Charge(rows, r)]
spentBar  == [b \in Budgets |-> LatestTotal(rows, b)]

Holds == INSTANCE BudgetHolds WITH
           phase <- phaseBar, scope <- scopeBar, charge <- chargeBar, spent <- spentBar

(* The transactions of the ledger are the steps of BudgetHolds: whatever    *)
(* calls are made, in whatever order and however often they are repeated,   *)
(* a request is charged its estimate on all of its budgets at once, then    *)
(* once its actual cost or nothing, and never again.                        *)
ImplementsHolds == Holds!Spec

(* The running total of each budget is the sum of what each request owes    *)
(* it: nothing is lost or counted twice between the rows of the table.      *)
TotalsAreCharges == Holds!SpentIsCharges

TypeOK ==
  /\ rows \in Seq([request : Requests, type : EntryTypes, budget : Budgets,
                   amount : Int, total : Int])
  /\ reply \in [request : Requests, outcome : Outcomes, entries : SUBSET Nat]

(* Each row carries on from the previous row of its budget, whoever wrote   *)
(* it (SUM(amount) over a budget can be recomputed from the rows).          *)
Carries(t, i) ==
  LET earlier == {j \in 1..(i - 1) : t[j].budget = t[i].budget}
  IN  \/ earlier = {} /\ t[i].total = t[i].amount
      \/ \E j \in earlier :
            /\ \A k \in earlier : k <= j
            /\ t[i].total = t[j].total + t[i].amount
TotalsChain == \A i \in DOMAIN rows : Carries(rows, i)

(* The budgets of a request move together and once: it has one row of a     *)
(* type per budget, its reconcile or release rows (never both) cover all    *)
(* the budgets it reserved, a release returns what was reserved, and a      *)
(* reconcile leaves every budget with the same charge.                      *)
Whole(t, r) ==
  LET ids(type) == EntryIds(t, r, type)
  IN  /\ \A type \in EntryTypes : \A i, j \in ids(type) :
           t[i].budget = t[j].budget => i = j
      /\ ids("reconcile") = {} \/ ids("release") = {}
      /\ \A type \in {"reconcile", "release"} :
           ids(type) # {} => EntryBudgets(t, r, type) = EntryBudgets(t, r, "reserve")
      /\ \A i, j \in ids("reserve") : t[i].amount = t[j].amount
      /\ \A i, j \in ids("reconcile") : t[i].amount = t[j].amount
      /\ \A i \in ids("reserve"), j \in ids("release") :
           t[j].amount = 0 - t[i].amount
SettledWhole == \A r \in Requests : Whole(rows, r)

(* When every process enforces limits, no reservation ever leaves a budget  *)
(* above its hard limit (a reconcile to more than the estimate may).        *)
ReservesWithinLimit ==
  FALSE \notin Modes =>
    \A i \in DOMAIN rows :
      /\ rows[i].type = "reserve"
      /\ HardLimit[rows[i].budget] # NoLimit
      => rows[i].total <= HardLimit[rows[i].budget]

(* Then a budget that was charged is over its limit by no more than its     *)
(* requests cost above their estimates.  (A budget that was not may have a  *)
(* negative limit, which the admin API accepts, and a total of 0.)          *)
Amounts(t) == [i \in DOMAIN t |-> t[i].amount]
Overrun(t, b) ==
  MapThenSumSet(LAMBDA i : Amounts(t)[i],
                {i \in BudgetIds(t, b) : t[i].type = "reconcile" /\ t[i].amount > 0})
OverspendIsOverrun ==
  FALSE \notin Modes =>
    \A b \in Budgets :
      BudgetIds(rows, b) # {} /\ HardLimit[b] # NoLimit =>
        LatestTotal(rows, b) <= HardLimit[b] + Overrun(rows, b)

(* A running total is never negative, so the release of a held request      *)
(* always fits and a caller can always return what it reserved.             *)
NeverNegative ==
  \A i \in DOMAIN rows : 0 <= rows[i].total /\ Fits(rows[i].total)

(* A successful answer names the rows of the request, also when it repeats  *)
(* an earlier one, and a denied request left no row behind.                 *)
AnswerMatchesTable ==
  LET written(type) == EntryIds(rows, reply.request, type)
  IN  /\ reply.outcome \in {"reconcile", "release"} => reply.entries # {}
      /\ reply.entries # {} => reply.entries = written(reply.outcome)
      /\ reply.outcome = "denied" => written("reserve") = {}
================================================================================
