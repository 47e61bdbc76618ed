----------------------------- MODULE RequestPipeline -----------------------------
(****************************************************************************)
(* One proxied request from arrival to its last bookkeeping write:          *)
(* penny-proxy's handlers, process_normalized_request and the task that     *)
(* forwards a stream, with penny-budget's BudgetEvaluator between them.     *)
(* Each step ends at an await, where other requests, an operator editing    *)
(* budgets, a disconnecting client or a crash may come in.  The ledger is   *)
(* CostLedger, one action per call.                                         *)
(****************************************************************************)
EXTENDS LedgerTable, SequencesExt

CONSTANTS Requests, Budgets,
          Scope,       \* the budgets that can apply to each request, by rowid
          Limits,      \* the hard limits an operator may set
          InitLimits,  \* the budgets tables the process may start with
          Absent,      \* no budget with this rowid yet
          Removed,     \* the budget of this rowid was deleted
          Costs,       \* what a request may be estimated at, or cost
          Faults,      \* what may go wrong: database calls, clients, crashes
          Modes,       \* {TRUE}: mode = "guard"; FALSE: mode = "observe"
          MaxInflight, \* max_inflight_requests
          MaxEdits     \* bound on the edits of the budgets table

(* -1 stands for no cost yet.                                               *)
ASSUME AmountAssumption == Costs \subseteq Int \ {-1}
ASSUME ScopeAssumption == Scope \in [Requests -> Seq(Budgets)]
ASSUME LimitsAssumption ==
  /\ Limits \subseteq Int \cup {NoLimit}
  /\ InitLimits \subseteq [Budgets -> Int \cup {NoLimit, Absent}]

VARIABLES rows, reply, \* the ledger
          limits,      \* the budgets table: the hard limit of each rowid
          edits,       \* how often it was edited
          enforce,     \* the mode of the process
          job          \* the local state of each request's handler or task

vars == <<rows, reply, limits, edits, enforce, job>>
table == <<rows, reply>>

NoBudget == {Absent, Removed}

(* HardLimit only bounds calls that CostLedger's own Next makes.            *)
Ledger == INSTANCE CostLedger WITH
            BlankIds <- {}, BudgetLists <- {Scope[r] : r \in Requests},
            HardLimit <- [b \in Budgets |-> NoLimit]

(* The awaits of the handler before it may leave its caller.                *)
Handling == {"attribution", "budgets", "estimate", "lookup", "reserve", "soft",
             "confirm", "sending", "releasing"}
(* Those of the bookkeeping after an answer, in the handler or in the task. *)
Settling == {"pricing", "reconciling", "request", "usage"}
Over     == {"done", "dropped"}

(* told is what the client was told: "refused", "blocked" and "paused" are  *)
(* the 402s of a failed check, an exceeded budget and a paused session.     *)
NewJob == [at |-> "idle", told |-> "waiting", streamed |-> FALSE,
           seen |-> << >>, est |-> 0, kept |-> FALSE,
           billed |-> -1, cost |-> -1, books |-> "none", slips |-> {}]

Init ==
  /\ rows = << >>
  /\ \E r \in Requests : reply = Ledger!Reply(r, "none", {})
  /\ limits \in InitLimits /\ edits = 0
  /\ enforce \in Modes
  /\ job = [r \in Requests |-> NewJob]

(* The handler of r moves on, or answers and is over.                       *)
Goto(r, next)     == job' = [job EXCEPT ![r].at = next]
Finish(r, answer) == job' = [job EXCEPT ![r].at = "done", ![r].told = answer]
Fails(fault)      == fault \in Faults
Off               == UNCHANGED <<rows, reply, limits, edits, enforce>>

(* A handler runs while its permit of the concurrency limit is taken; the   *)
(* task that forwards a stream holds none.                                  *)
Handled(r) == job[r].at \in Handling \cup Settling /\ ~job[r].streamed

Arrive(r) == job[r].at = "idle" /\ Goto(r, "queued") /\ Off

Admit(r) ==
  /\ job[r].at = "queued"
  /\ Cardinality({q \in Requests : Handled(q)}) < MaxInflight
  /\ Goto(r, "attribution") /\ Off

(* resolve_attribution, then the detector's is_session_paused.              *)
Attribute(r) ==
  /\ job[r].at = "attribution" /\ Off
  /\ \/ Goto(r, "budgets")
     \/ Fails("paused") /\ Finish(r, "paused")
     \/ Fails("attribution") /\ Finish(r, "failed")

(* has_any_budget: without budgets the request is sent unchecked.           *)
CheckBudgets(r) ==
  /\ job[r].at = "budgets" /\ Off
  /\ \/ IF \A b \in Budgets : limits[b] \in NoBudget
        THEN Goto(r, "sending") ELSE Goto(r, "estimate")
     \/ Fails("budgets") /\ IF enforce THEN Finish(r, "refused") ELSE Goto(r, "sending")

(* estimated_request_cost_usd: observe mode goes on with an estimate of 0.  *)
Estimate(r) ==
  /\ job[r].at = "estimate" /\ Off
  /\ \/ \E c \in Costs : job' = [job EXCEPT ![r].at = "lookup", ![r].est = c]
     \/ Fails("estimate") /\ IF enforce THEN Finish(r, "refused") ELSE Goto(r, "lookup")

(* Mutant: both modes fail open.                                            *)
FailsafeOpen(r, slips) ==
  job' = [job EXCEPT ![r].at = "confirm", ![r].slips = @ \cup slips]

(* failsafe_decision: guard fails closed, observe lets the request pass.    *)
Failsafe(r, slips) ==
  job' = [job EXCEPT ![r].at = IF enforce THEN "done" ELSE "confirm",
                     ![r].told = IF enforce THEN "refused" ELSE @,
                     ![r].slips = @ \cup slips]

(* list_applicable_for_request: the limits are read before the reserve.     *)
Lookup(r) ==
  /\ job[r].at = "lookup" /\ Off
  /\ \/ LET found == {b \in Range(Scope[r]) : limits[b] \notin NoBudget}
        IN  job' = [job EXCEPT
                      ![r].at = IF found = {} THEN "confirm" ELSE "reserve",
                      ![r].seen = [b \in found |-> limits[b]]]
     \/ Fails("lookup") /\ Failsafe(r, {})

(* What was found, in the order of Scope (the only member of this set).     *)
Listings(r) ==
  LET before(a, b) ==
        \E j, k \in DOMAIN Scope[r] : j < k /\ Scope[r][j] = a /\ Scope[r][k] = b
  IN {list \in SeqOf(DOMAIN job[r].seen, Len(Scope[r])) :
        /\ Range(list) = DOMAIN job[r].seen
        /\ \A j, k \in DOMAIN list : j < k => before(list[j], list[k])}

(* Mutant: reserve_allow_over_limit in both modes.                          *)
ReserveNever(r) ==
  /\ job[r].at = "reserve" /\ UNCHANGED <<limits, edits, enforce>>
  /\ \E list \in Listings(r) :
       Ledger!ReserveInternal(r, list, job[r].seen, job[r].est, FALSE)
  /\ CASE reply'.outcome = "reserve" -> Goto(r, "soft")
       [] reply'.outcome = "denied"  -> Finish(r, "blocked")
       [] OTHER                      -> Failsafe(r, {})

(* CostLedger::reserve or reserve_allow_over_limit.  A budget deleted since *)
(* the lookup fails the foreign key of the row to insert.                   *)
Reserve(r) ==
  /\ job[r].at = "reserve" /\ UNCHANGED <<limits, edits, enforce>>
  /\ IF \E b \in DOMAIN job[r].seen : limits[b] = Removed
     THEN Ledger!StorageError(r)
     ELSE \/ \E list \in Listings(r) :
               Ledger!ReserveInternal(r, list, job[r].seen, job[r].est, enforce)
          \/ Fails("reserve") /\ Ledger!StorageError(r)
  /\ CASE reply'.outcome = "reserve" -> Goto(r, "soft")
       [] reply'.outcome = "denied"  -> Finish(r, "blocked")
       [] OTHER                      -> Failsafe(r, {})

(* Mutant: a soft limit blocks the request it should only warn about.       *)
SoftCheckBlocks(r) ==
  job[r].at = "soft" /\ Off /\ (Goto(r, "confirm") \/ Finish(r, "blocked"))

(* compute_soft_limit_warnings: it queries the totals of the budgets        *)
(* without a hard limit, after the reservation has been committed.          *)
SoftCheck(r) ==
  /\ job[r].at = "soft" /\ Off
  /\ \/ Goto(r, "confirm")
     \/ /\ Fails("soft") /\ \E b \in DOMAIN job[r].seen : job[r].seen[b] = NoLimit
        /\ Failsafe(r, {"soft"})

(* has_reserve_entry(..).unwrap_or(false): reserve_persisted.               *)
Confirm(r) ==
  /\ job[r].at = "confirm" /\ Off
  /\ \/ job' = [job EXCEPT ![r].at = "sending",
                           ![r].kept = EntryIds(rows, r, "reserve") # {}]
     \/ Fails("confirm") /\ job' = [job EXCEPT ![r].at = "sending", ![r].slips = @ \cup {"confirm"}]

(* Mutant: the error path returns before it releases the reservation.       *)
RejectedEarly(r) == job[r].at = "sending" /\ Off /\ Finish(r, "rejected")

(* The provider refuses the request, answers an error, or cannot be reached. *)
Rejected(r) ==
  /\ job[r].at = "sending" /\ Off
  /\ job' = [job EXCEPT ![r].at = "releasing", ![r].told = "rejected"]

(* It answers, having billed c; a stream's answer leaves the handler.       *)
Answered(r) ==
  /\ job[r].at = "sending" /\ Off
  /\ \E c \in Costs :
       job' = [job EXCEPT ![r].at = "pricing", ![r].billed = c]

StreamStarts(r) ==
  /\ job[r].at = "sending" /\ Off
  /\ job' = [job EXCEPT ![r].at = "streaming", ![r].told = "answered",
                        ![r].streamed = TRUE]

(* Mutants: the timeout path forgets the release, or there is no timeout.   *)
ElapseHolds(r) == job[r].at = "sending" /\ Off /\ Finish(r, "timeout")
ElapseNever(r) == FALSE

(* upstream_timeout elapses, whatever the provider does with the request.   *)
Elapse(r) ==
  /\ job[r].at = "sending" /\ Off
  /\ job' = [job EXCEPT ![r].at = "releasing", ![r].told = "timeout"]

Slip(failed, name) == IF failed THEN {name} ELSE {}

(* maybe_release_on_dispatch_failure drops the error of the release.        *)
ReleaseHold(r) ==
  /\ job[r].at = "releasing" /\ UNCHANGED <<limits, edits, enforce>>
  /\ IF job[r].kept
     THEN Ledger!Release(r) \/ (Fails("release") /\ Ledger!StorageError(r))
     ELSE UNCHANGED table
  /\ job' = [job EXCEPT ![r].at = "done",
               ![r].slips = @ \cup Slip(job[r].kept /\ reply'.outcome = "error", "release")]

(* The last chunk of a stream: the provider has billed and reported c.      *)
StreamEnds(r) ==
  /\ job[r].at = "streaming" /\ Off
  /\ \E c \in Costs : job' = [job EXCEPT ![r].at = "pricing", ![r].billed = c]

(* The stream breaks off: the provider ends it or times out (the client of  *)
(* reqwest bounds the whole response), or the client has gone.              *)
StreamBreaks(r) ==
  /\ job[r].at = "streaming" /\ Off
  /\ \E answer \in {"answered", "gone"}, c \in Costs :
       job' = [job EXCEPT ![r].at = "pricing", ![r].told = answer, ![r].billed = c,
                          ![r].slips = @ \cup {"incomplete"}]

(* Mutant: the estimate is the cost, whatever usage the provider reports.   *)
PriceEstimate(r) ==
  /\ job[r].at = "pricing" /\ Off
  /\ job' = [job EXCEPT ![r].at = "reconciling", ![r].cost = job[r].est]

(* compute_usage_cost_or_fallback: the cost of the usage the provider       *)
(* reported; the estimate when it reported none or has no price; anything   *)
(* when the stream broke off after a part of it.                            *)
Price(r) ==
  /\ job[r].at = "pricing" /\ Off
  /\ \E c \in Costs \cup {job[r].est} :
       /\ \/ c = job[r].billed
          \/ c = job[r].est /\ Fails("price")
          \/ "incomplete" \in job[r].slips
       /\ job' = [job EXCEPT ![r].at = "reconciling", ![r].cost = c,
                             ![r].slips = @ \cup Slip(c # job[r].billed, "price")]

(* A failed write of the bookkeeping ends a handler with an error; the task *)
(* of a stream logs it and goes on.                                         *)
BookingFails(r, slip, next) ==
  job' = [job EXCEPT ![r].at = IF job[r].streamed THEN next ELSE "done",
                     ![r].told = IF job[r].streamed THEN @ ELSE "failed",
                     ![r].slips = @ \cup {slip}]

(* Mutant: the reservation is reconciled to its estimate.                   *)
ReconcileEstimate(r) ==
  /\ job[r].at = "reconciling" /\ UNCHANGED <<limits, edits, enforce>>
  /\ IF job[r].kept THEN Ledger!Reconcile(r, job[r].est) ELSE UNCHANGED table
  /\ Goto(r, "request")

(* reconcile_after_dispatch                                                 *)
Reconcile(r) ==
  /\ job[r].at = "reconciling" /\ UNCHANGED <<limits, edits, enforce>>
  /\ IF job[r].kept
     THEN Ledger!Reconcile(r, job[r].cost) \/ (Fails("reconcile") /\ Ledger!StorageError(r))
     ELSE UNCHANGED table
  /\ IF job[r].kept /\ reply'.outcome = "error"
     THEN BookingFails(r, "reconcile", "request")
     ELSE Goto(r, "request")

(* persist_request_and_usage: two inserts without a transaction.            *)
PersistRequest(r) ==
  /\ job[r].at = "request" /\ Off
  /\ \/ job' = [job EXCEPT ![r].at = "usage", ![r].books = "request"]
     \/ Fails("request") /\ BookingFails(r, "request", "done")

PersistUsage(r) ==
  /\ job[r].at = "usage" /\ Off
  /\ \/ job' = [job EXCEPT ![r].at = "done", ![r].books = "usage",
                            ![r].told = IF job[r].streamed THEN @ ELSE "answered"]
     \/ Fails("usage") /\ BookingFails(r, "usage", "done")

(* The client closes its connection: the future of the handler, or its      *)
(* place in the queue, is dropped where it stands.                          *)
Disconnect(r) ==
  /\ Fails("disconnect") /\ (job[r].at = "queued" \/ Handled(r)) /\ Off
  /\ job' = [job EXCEPT ![r].at = "dropped", ![r].told = "gone"]

(* The process dies and starts again: nothing recovers its requests.        *)
Crash ==
  /\ Fails("crash") /\ Off
  /\ \E r \in Requests : job[r].at \notin Over \cup {"idle"}
  /\ job' = [r \in Requests |->
               IF job[r].at \in Over \cup {"idle"} THEN job[r]
               ELSE [job[r] EXCEPT !.at = "dropped", !.told = "gone"]]

(* BudgetRepo::upsert, from the admin API or the command line.              *)
SetBudget(b, limit) ==
  /\ edits < MaxEdits /\ limits[b] \notin {limit, Removed}
  /\ limits' = [limits EXCEPT ![b] = limit] /\ edits' = edits + 1
  /\ UNCHANGED <<rows, reply, enforce, job>>

(* run_budget_reset: the foreign key of cost_ledger keeps used budgets.     *)
ResetBudget(b) ==
  /\ edits < MaxEdits /\ limits[b] \notin NoBudget /\ BudgetIds(rows, b) = {}
  /\ limits' = [limits EXCEPT ![b] = Removed] /\ edits' = edits + 1
  /\ UNCHANGED <<rows, reply, enforce, job>>

Dispatch(r) == Rejected(r) \/ Answered(r) \/ StreamStarts(r) \/ Elapse(r)

Step(r) ==
  \/ Attribute(r) \/ CheckBudgets(r) \/ Estimate(r) \/ Lookup(r)
  \/ Reserve(r) \/ SoftCheck(r) \/ Confirm(r) \/ ReleaseHold(r)
  \/ Price(r) \/ Reconcile(r) \/ PersistRequest(r) \/ PersistUsage(r)

Next ==
  \/ \E r \in Requests :
       \/ Arrive(r) \/ Admit(r) \/ Step(r) \/ Dispatch(r)
       \/ StreamEnds(r) \/ StreamBreaks(r) \/ Disconnect(r)
  \/ Crash
  \/ \E b \in Budgets : ResetBudget(b) \/ \E limit \in Limits : SetBudget(b, limit)

Spec == Init /\ [][Next]_vars

(* The runtime polls every handler and task that can move, the semaphore of *)
(* the concurrency limit is fair, and two timers end the waiting for a      *)
(* provider; nothing makes a provider answer or a client send a request.    *)
Fairness ==
  \A r \in Requests :
    /\ SF_vars(Admit(r)) /\ WF_vars(Step(r))
    /\ WF_vars(Elapse(r)) /\ WF_vars(StreamBreaks(r))

FairSpec == Spec /\ Fairness

--------------------------------------------------------------------------------
Phase(r) == Ledger!Phase(rows, r)
Held(r)  == Phase(r) = "held"

(* Guard mode fails closed: whatever fails on the way, a request that is    *)
(* sent to the provider after budgets were found to apply to it is held on  *)
(* every one of them until the provider has answered.                       *)
FailClosed ==
  \A r \in Requests :
    enforce /\ job[r].at \in {"sending", "streaming", "pricing"} =>
      EntryBudgets(rows, r, "reserve") = DOMAIN job[r].seen
      /\ (DOMAIN job[r].seen # {} => Held(r))

(* A request that is over leaves its reservation behind only where the code *)
(* lets it: the soft-limit query failed in guard mode, the check whether it *)
(* was reserved failed, or its release or reconcile failed.                 *)
NoStrandedHold ==
  \A r \in Requests :
    job[r].at = "done" /\ Held(r) =>
      \/ "soft" \in job[r].slips /\ enforce /\ job[r].told = "refused"
      \/ {"confirm", "release", "reconcile"} \cap job[r].slips # {}

(* Provider-reported usage wins: a request that was reserved and answered   *)
(* is charged what the provider billed, unless the stream broke off, the    *)
(* usage could not be priced or the reconcile failed.                       *)
BilledIsCharged ==
  \A r \in Requests :
    /\ job[r].at = "done" /\ job[r].billed # -1 /\ job[r].kept
    /\ {"incomplete", "price", "reconcile"} \cap job[r].slips = {}
    => Phase(r) = "settled" /\ Ledger!Charge(rows, r) = job[r].billed

(* A request answered with a 402 was never sent, and holds nothing unless   *)
(* the soft-limit query failed after its reservation.                       *)
RefusedIsFree ==
  \A r \in Requests :
    job[r].at = "done" /\ job[r].told \in {"blocked", "refused", "paused"} =>
      /\ job[r].billed = -1 /\ job[r].books = "none"
      /\ Held(r) => "soft" \in job[r].slips
      /\ Phase(r) \in {"none", "held"}

(* The usage table and the ledger agree on what a request cost, except for  *)
(* a stream whose reconcile failed.                                         *)
UsageMatchesCharge ==
  \A r \in Requests :
    job[r].books = "usage" /\ job[r].kept =>
      \/ Phase(r) = "settled" /\ Ledger!Charge(rows, r) = job[r].cost
      \/ job[r].streamed /\ "reconcile" \in job[r].slips /\ Held(r)

(* In guard mode a reservation is within the limits its request looked up,  *)
(* also when an operator lowers them before the reservation.                *)
GrantsWithinSeen ==
  enforce =>
    \A i \in DOMAIN rows :
      LET seen == job[rows[i].request].seen
      IN  rows[i].type = "reserve" /\ seen[rows[i].budget] # NoLimit
          => rows[i].total <= seen[rows[i].budget]

(* Every client that waits is answered or has gone, whatever the provider   *)
(* does: the timers end every wait and the permits come back.               *)
Concludes ==
  \A r \in Requests : job[r].at = "queued" ~> job[r].at \in Over

(* A reservation is settled or returned, or its handler died with it: a     *)
(* client that disconnects and a crash are all that strands one, as long as *)
(* the database answers.                                                    *)
HoldsConclude ==
  \A r \in Requests : Held(r) ~> ~Held(r) \/ job[r].at = "dropped"

================================================================================
