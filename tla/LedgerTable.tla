------------------------------ MODULE LedgerTable ------------------------------
(****************************************************************************)
(* The cost_ledger table of penny-ledger and the queries its transactions   *)
(* run on it.  A table is the sequence of its rows: the autoincrement id of *)
(* a row is its position.  Every operator takes the table as an argument,   *)
(* so that the ledger (CostLedger), its proofs and the request pipeline     *)
(* (RequestPipeline) query it alike.                                        *)
(****************************************************************************)
EXTENDS Integers, Sequences, FiniteSetsExt

CONSTANTS MaxMoney, \* the largest Money: i64::MAX micros in the code
          NoLimit   \* hard_limit_usd = None

(* The range of the checked additions and subtractions of Money (i64).      *)
Fits(x) == -MaxMoney - 1 <= x /\ x <= MaxMoney

(* Mutant: the request and the budget of the INSERT are bound in the wrong  *)
(* order.                                                                   *)
EntrySwapped(r, type, b, amount, total) ==
  [request |-> b, type |-> type, budget |-> r, amount |-> amount, total |-> total]

Entry(r, type, b, amount, total) ==
  [request |-> r, type |-> type, budget |-> b, amount |-> amount, total |-> total]

(* request_entries_by_type, request_entry_ids_by_type and                   *)
(* has_request_entries_of_type: the rows of one request of one type.        *)
EntryIds(t, r, type) ==
  {i \in DOMAIN t : t[i].request = r /\ t[i].type = type}

BudgetIds(t, b) == {i \in DOMAIN t : t[i].budget = b}

(* Mutant: ORDER BY id without DESC.                                        *)
LatestTotalAsc(t, b) ==
  IF BudgetIds(t, b) = {} THEN 0 ELSE t[Min(BudgetIds(t, b))].total

(* latest_running_total: ORDER BY id DESC LIMIT 1, and 0 without a row.     *)
LatestTotal(t, b) ==
  IF BudgetIds(t, b) = {} THEN 0 ELSE t[Max(BudgetIds(t, b))].total

(* The ids of S listed by ORDER BY id (the only member of this set).        *)
Ascending(S) ==
  {q \in [1..Cardinality(S) -> S] :
      /\ \A i \in S : \E k \in DOMAIN q : q[k] = i
      /\ \A j, k \in DOMAIN q : j < k => q[j] < q[k]}

(* Mutant: the running total of the first budget is read once, before the   *)
(* loop over the budgets.                                                   *)
PostingsOfFirst(t, r, type, budgets, amounts) ==
  [k \in DOMAIN budgets |->
     Entry(r, type, budgets[k], amounts[k],
           LatestTotal(t, budgets[1]) + amounts[k])]

(* The rows one transaction appends: one per budget of the list, each with  *)
(* the running total that the previous row of its budget leads to.          *)
Postings(t, r, type, budgets, amounts) ==
  [k \in DOMAIN budgets |->
     Entry(r, type, budgets[k], amounts[k],
           LatestTotal(t, budgets[k]) + amounts[k])]

PostingsFit(t, budgets, amounts) ==
  \A k \in DOMAIN budgets :
     Fits(amounts[k]) /\ Fits(LatestTotal(t, budgets[k]) + amounts[k])

(* The budgets that a request has entries of a type for.                    *)
EntryBudgets(t, r, type) == {t[i].budget : i \in EntryIds(t, r, type)}

(* reservation_from_existing: what a repeated reserve must ask for to be    *)
(* answered from the rows of the first one.                                 *)
MatchesExisting(t, r, budgets, est) ==
  /\ Cardinality(EntryIds(t, r, "reserve")) = Len(budgets)
  /\ \A i, j \in EntryIds(t, r, "reserve") : t[i].budget = t[j].budget => i = j
  /\ \A k \in 1..Len(budgets) :
       \E i \in EntryIds(t, r, "reserve") :
          t[i].budget = budgets[k] /\ t[i].amount = est
================================================================================
