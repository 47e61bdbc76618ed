---------------------------- MODULE StoreStatements ----------------------------
(****************************************************************************)
(* The database as penny-store's callers use it: handlers of a serve        *)
(* process, its event stream, and command lines in processes of their own.  *)
(* Each statement is atomic and the pool of a process has one connection,   *)
(* but nothing joins the statements of a task: between any two of them      *)
(* those of other tasks may run.  A task runs one of Programs:              *)
(*   request   attribution and, after the answer, the rows of the request   *)
(*   upsert    the budgets of `todo`: run_budget_set, post_budgets, or the  *)
(*             list that a starting server seeds                            *)
(*   reset, reserve, event, report, dashboard, estimate, tail               *)
(* The reservation is one step here; CostLedger has the whole of it.        *)
(****************************************************************************)
EXTENDS Integers, Sequences, FiniteSetsExt, SequencesExt

CONSTANTS
  Tasks, Programs,
  Slug,          \* slug_from_path, on the paths that name projects
  SessionWindow, \* session_window_minutes
  Unnamed,       \* no session is named by the request or the configuration
  MaxNow         \* bound on the clock

VARIABLES
  now,
  projects,   \* id |-> path
  sessions,   \* id |-> its project and when it started
  budgets,    \* id |-> its key (scope and window) and its limit
  nextBudget, \* the autoincrement of budgets
  spent,      \* id of a budget |-> its last running total in cost_ledger
  events,     \* the tasks that wrote them; the id of an event is its position
  requests, usage, \* task |-> its row
  lastRow,    \* last_insert_rowid of each connection
  task,
  raced       \* history: what two tasks did not find at the same time

tables == <<projects, sessions, budgets, nextBudget, spent, events, requests, usage>>
vars == <<now, tables, lastRow, task, raced>>

Server == "server"
Failed == "failed"
Ops == {"request", "upsert", "reset", "reserve", "event", "report", "dashboard",
        "estimate", "tail"}

(* A session that a client names is not one that a task is yet to make.     *)
ASSUME TaskAssumption == Server \notin Tasks /\ Failed \notin Tasks
ASSUME WindowAssumption == SessionWindow \in Nat
ASSUME ProgramAssumption ==
  \A p \in Programs :
    /\ p.op \in Ops
    /\ p.op = "request" => p.cost \in Nat /\ p.session \notin Tasks \cup {Failed}
    /\ p.op = "report" => p.limit \in Nat
    /\ p.op = "tail" => p.since \in Int /\ p.limit \in Nat

Connections == {Server} \cup Tasks
Idle == [at |-> "idle", p |-> [op |-> "none", served |-> TRUE], todo |-> << >>,
         got |-> {}, wrote |-> << >>, out |-> << >>]

Init ==
  /\ now = 0
  /\ projects = << >> /\ sessions = << >> /\ budgets = << >> /\ nextBudget = 1
  /\ spent = << >> /\ events = << >> /\ requests = << >> /\ usage = << >>
  /\ lastRow = [c \in Connections |-> 0]
  /\ task = [t \in Tasks |-> Idle] /\ raced = {}

(* The rows with one more, or with another in its place.                    *)
Put(rows, id, row) == [i \in DOMAIN rows \cup {id} |-> IF i = id THEN row ELSE rows[i]]

(* A handler shares the server's connection; a command line has its own.    *)
Conn(t) == IF task[t].p.served THEN Server ELSE t
Inserted(t, rowid) == lastRow' = [lastRow EXCEPT ![Conn(t)] = rowid]
Goto(t, at) == task' = [task EXCEPT ![t].at = at]
Read(t, at, rows) == task' = [task EXCEPT ![t].at = at, ![t].got = rows]
Answer(t, out) == task' = [task EXCEPT ![t].at = "done", ![t].got = {}, ![t].out = out]
Size(f) == Cardinality(DOMAIN f)

NextUpsert(todo) ==
  IF todo = << >> THEN "done" ELSE IF Head(todo).id > 0 THEN "by_id" ELSE "select"

Begin(t, p) ==
  LET todo == IF p.op = "upsert" THEN p.todo ELSE << >>
      first == CASE p.op = "request" -> "project" [] p.op = "upsert" -> NextUpsert(todo)
                 [] OTHER -> p.op
  IN
  /\ task[t].at = "idle"
  /\ task' = [task EXCEPT ![t].at = first, ![t].p = p, ![t].todo = todo]
  /\ UNCHANGED <<now, tables, lastRow, raced>>

Tick ==
  /\ now < MaxNow /\ now' = now + 1
  /\ UNCHANGED <<tables, lastRow, task, raced>>

--------------------------------------------------------------------------------
(* resolve_attribution                                                      *)

(* upsert_by_path, without its conflict clause.                             *)
UpsertProjectPlain(t) ==
  LET id == Slug[task[t].p.path] IN
  /\ task[t].at = "project"
  /\ \/ /\ id \in DOMAIN projects
        /\ Answer(t, Failed) /\ UNCHANGED <<projects, lastRow>>
     \/ /\ id \notin DOMAIN projects
        /\ projects' = Put(projects, id, task[t].p.path)
        /\ Inserted(t, Size(projects'))
        /\ Goto(t, IF task[t].p.session = Unnamed THEN "find" ELSE "ensure")
  /\ UNCHANGED <<now, sessions, budgets, nextBudget, spent, events, requests, usage, raced>>

(* upsert_by_path: a known path keeps its row; another path with the slug   *)
(* of a known one meets the primary key, which no conflict clause names.    *)
(* The SELECT that follows reads the row of the path: it is never deleted.  *)
UpsertProject(t) ==
  LET id == Slug[task[t].p.path]
      known == id \in DOMAIN projects /\ projects[id] = task[t].p.path
  IN
  /\ task[t].at = "project"
  /\ \/ /\ id \in DOMAIN projects /\ ~known
        /\ Answer(t, Failed) /\ UNCHANGED <<projects, lastRow>>
     \/ /\ id \notin DOMAIN projects \/ known
        /\ projects' = Put(projects, id, task[t].p.path)
        /\ IF known THEN UNCHANGED lastRow ELSE Inserted(t, Size(projects'))
        /\ Goto(t, IF task[t].p.session = Unnamed THEN "find" ELSE "ensure")
  /\ UNCHANGED <<now, sessions, budgets, nextBudget, spent, events, requests, usage, raced>>

Project(t) == Slug[task[t].p.path]
NewSession(t, id) == Put(sessions, id, [project |-> Project(t), at |-> now])

(* ensure_session_override_exists: INSERT OR IGNORE.                        *)
EnsureSession(t) ==
  LET id == task[t].p.session IN
  /\ task[t].at = "ensure"
  /\ IF id \in DOMAIN sessions THEN UNCHANGED <<sessions, lastRow>>
     ELSE sessions' = NewSession(t, id) /\ Inserted(t, Size(sessions'))
  /\ Read(t, "request_row", id)
  /\ UNCHANGED <<now, projects, budgets, nextBudget, spent, events, requests, usage, raced>>

(* Mutant: the window is compared with the wrong side of its bound.         *)
ActiveSince(project) ==
  {s \in DOMAIN sessions : sessions[s].project = project /\ sessions[s].at > now - SessionWindow}

(* find_active's rows; no caller closes a session.                          *)
Active(project) ==
  {s \in DOMAIN sessions : sessions[s].project = project /\ sessions[s].at >= now - SessionWindow}

FindActive(t) ==
  /\ task[t].at = "find"
  /\ \/ /\ Active(Project(t)) = {} /\ Goto(t, "create")
        /\ raced' = IF \E u \in Tasks : task[u].at = "create" /\ Project(u) = Project(t)
                    THEN raced \cup {Project(t)} ELSE raced
     \/ /\ \E s \in Active(Project(t)) :
             /\ \A other \in Active(Project(t)) : sessions[other].at <= sessions[s].at
             /\ Read(t, "request_row", s)
        /\ UNCHANGED raced
  /\ UNCHANGED <<now, tables, lastRow>>

(* The id of a new session is unique; the task that makes it stands for it. *)
CreateSession(t) ==
  /\ task[t].at = "create"
  /\ sessions' = NewSession(t, t) /\ Inserted(t, Size(sessions'))
  /\ Read(t, "request_row", t)
  /\ UNCHANGED <<now, projects, budgets, nextBudget, spent, events, requests, usage, raced>>

(* persist_request_and_usage: two inserts.                                  *)
PersistRequest(t) ==
  /\ task[t].at = "request_row"
  /\ requests' = Put(requests, t, [project |-> Project(t), session |-> task[t].got])
  /\ Inserted(t, Size(requests')) /\ Goto(t, "usage_row")
  /\ UNCHANGED <<now, projects, sessions, budgets, nextBudget, spent, events, usage, raced>>

PersistUsage(t) ==
  /\ task[t].at = "usage_row"
  /\ usage' = Put(usage, t, task[t].p.cost)
  /\ Inserted(t, Size(usage')) /\ Answer(t, task[t].got)
  /\ UNCHANGED <<now, projects, sessions, budgets, nextBudget, spent, events, requests, raced>>

--------------------------------------------------------------------------------
(* BudgetRepo::upsert, for each budget of the list                          *)

Wanted(t) == Head(task[t].todo)
Row(t) == [key |-> Wanted(t).key, limit |-> Wanted(t).limit]
Stored(t, id, answer) ==
  task' = [task EXCEPT ![t].at = NextUpsert(Tail(task[t].todo)), ![t].todo = Tail(@), ![t].got = {},
                       ![t].wrote = Append(@, id), ![t].out = Append(@, answer)]

(* A budget named by its id is updated whatever its key was; an id that no  *)
(* row has is treated like none.                                            *)
UpdateById(t) ==
  LET id == Wanted(t).id IN
  /\ task[t].at = "by_id"
  /\ IF id \in DOMAIN budgets
     THEN /\ budgets' = [budgets EXCEPT ![id] = Row(t)] /\ Stored(t, id, id)
          /\ raced' = IF budgets[id].key = Wanted(t).key THEN raced
                      ELSE raced \cup {Wanted(t).key}
     ELSE Goto(t, "select") /\ UNCHANGED <<budgets, raced>>
  /\ UNCHANGED <<now, projects, sessions, nextBudget, spent, events, requests, usage, lastRow>>

OfKey(key) == {id \in DOMAIN budgets : budgets[id].key = key}
FindsNone(t) == task[t].at = "write" /\ task[t].got = {}

SelectBudget(t) ==
  /\ task[t].at = "select"
  /\ \/ /\ OfKey(Wanted(t).key) = {} /\ Read(t, "write", {})
        /\ raced' = IF \E u \in Tasks : FindsNone(u) /\ Wanted(u).key = Wanted(t).key
                    THEN raced \cup {Wanted(t).key} ELSE raced
     \/ /\ \E id \in OfKey(Wanted(t).key) : Read(t, "write", {id})
        /\ UNCHANGED raced
  /\ UNCHANGED <<now, tables, lastRow>>

(* Mutant: the row is inserted whether one was found or not.                *)
WriteBudgetAlways(t) ==
  /\ task[t].at = "write"
  /\ budgets' = Put(budgets, nextBudget, Row(t)) /\ nextBudget' = nextBudget + 1
  /\ Inserted(t, nextBudget) /\ Read(t, "rowid", {nextBudget})
  /\ UNCHANGED <<now, projects, sessions, spent, events, requests, usage, raced>>

(* The UPDATE of a row that was deleted meanwhile changes nothing and is no *)
(* error.                                                                   *)
WriteBudget(t) ==
  /\ task[t].at = "write"
  /\ \/ \E id \in task[t].got :
          /\ budgets' = IF id \in DOMAIN budgets
                        THEN [budgets EXCEPT ![id].limit = Wanted(t).limit] ELSE budgets
          /\ Stored(t, id, id) /\ UNCHANGED <<nextBudget, lastRow>>
     \/ /\ task[t].got = {}
        /\ budgets' = Put(budgets, nextBudget, Row(t)) /\ nextBudget' = nextBudget + 1
        /\ Inserted(t, nextBudget) /\ Read(t, "rowid", {nextBudget})
  /\ UNCHANGED <<now, projects, sessions, spent, events, requests, usage, raced>>

(* Mutant: the id is that of the last insert of any process.                *)
LastRowIdOfAny(t) ==
  /\ task[t].at = "rowid"
  /\ \E id \in task[t].got : Stored(t, id, nextBudget - 1)
  /\ UNCHANGED <<now, tables, lastRow, raced>>

(* SELECT last_insert_rowid(): of the connection, whatever table it was.    *)
LastRowId(t) ==
  /\ task[t].at = "rowid"
  /\ \E id \in task[t].got : Stored(t, id, lastRow[Conn(t)])
  /\ UNCHANGED <<now, tables, lastRow, raced>>

(* run_budget_reset: one DELETE; the foreign key of cost_ledger makes it    *)
(* fail as a whole when one of the rows was ever used.                      *)
ResetBudget(t) ==
  LET ids == OfKey(task[t].p.key) IN
  /\ task[t].at = "reset"
  /\ \/ /\ ids \cap DOMAIN spent # {} /\ Answer(t, Failed) /\ UNCHANGED budgets
     \/ /\ ids \cap DOMAIN spent = {} /\ Answer(t, ids)
        /\ budgets' = [id \in DOMAIN budgets \ ids |-> budgets[id]]
  /\ UNCHANGED <<now, projects, sessions, nextBudget, spent, events, requests, usage,
                 lastRow, raced>>

--------------------------------------------------------------------------------
(* Spending, estimates, reports and events                                  *)

Total(b) == IF b \in DOMAIN spent THEN spent[b] ELSE 0

(* What the ledger refuses, with the budgets as they are.                   *)
Refuses(cost) == \E b \in DOMAIN budgets : Total(b) + cost > budgets[b].limit

Reserve(t) ==
  LET cost == task[t].p.cost IN
  /\ task[t].at = "reserve"
  /\ \/ Refuses(cost) /\ Answer(t, "denied") /\ UNCHANGED <<spent, lastRow>>
     \/ /\ ~Refuses(cost) /\ Answer(t, "granted")
        /\ spent' = [b \in DOMAIN budgets \cup DOMAIN spent |->
                       IF b \in DOMAIN budgets THEN Total(b) + cost ELSE spent[b]]
        /\ IF budgets = << >> THEN UNCHANGED lastRow
           ELSE Inserted(t, Size(spent')) \* some row of cost_ledger
  /\ UNCHANGED <<now, projects, sessions, budgets, nextBudget, events, requests, usage, raced>>

(* build_estimate_budget_summary, of the admin plane and the command line   *)
(* (get_budgets has the same two queries): the budgets, then the totals.    *)
EstimateBudgets(t) ==
  /\ task[t].at = "estimate" /\ Read(t, "totals", budgets)
  /\ UNCHANGED <<now, tables, lastRow, raced>>

(* Mutant: the hard limit counts as exceeded when it is reached.            *)
StatusAtLimit(listed, cost) ==
  IF listed = << >> THEN "no_budgets"
  ELSE IF \E b \in DOMAIN listed : Total(b) + cost >= listed[b].limit
       THEN "over_hard_limit" ELSE "within_limit"

Status(listed, cost) ==
  IF listed = << >> THEN "no_budgets"
  ELSE IF \E b \in DOMAIN listed : Total(b) + cost > listed[b].limit
       THEN "over_hard_limit" ELSE "within_limit"

EstimateTotals(t) ==
  /\ task[t].at = "totals"
  /\ Answer(t, [status |-> Status(task[t].got, task[t].p.cost),
                listed |-> task[t].got, totals |-> spent])
  /\ UNCHANGED <<now, tables, lastRow, raced>>

(* get_report_summary by project: requests joined with their usage.         *)
Accounted(project) == {t \in DOMAIN usage : requests[t].project = project}
Groups == {requests[t].project : t \in DOMAIN usage}
Cost(ts) == MapThenSumSet(LAMBDA t : usage[t], ts)
Summary(ts, groups) == [requests |-> Cardinality(ts), cost |-> Cost(ts), groups |-> groups]

(* The rows: the groups of highest cost, up to the limit.                   *)
ReportRows(t) ==
  /\ task[t].at = "report"
  /\ \E page \in SUBSET Groups :
       /\ Cardinality(page) = Min({task[t].p.limit, Cardinality(Groups)})
       /\ \A g \in page, other \in Groups \ page : Cost(Accounted(other)) <= Cost(Accounted(g))
       /\ Read(t, "report_totals", Summary(UNION {Accounted(g) : g \in page}, Cardinality(page)))
  /\ UNCHANGED <<now, tables, lastRow, raced>>

(* run_dashboard: all requests by project, whose sums head the page, and    *)
(* then all by model, the sums of which are the totals of ReportTotals.     *)
DashboardRows(t) ==
  /\ task[t].at = "dashboard" /\ Read(t, "report_totals", Summary(DOMAIN usage, 0))
  /\ UNCHANGED <<now, tables, lastRow, raced>>

(* Mutant: the limit of the page is in the common query of both.            *)
ReportTotalsPaged(t) ==
  /\ task[t].at = "report_totals"
  /\ \E page \in SUBSET Groups :
       /\ Cardinality(page) = Min({1, Cardinality(Groups)})
       /\ Answer(t, [page |-> task[t].got,
                     all |-> Summary(UNION {Accounted(g) : g \in page}, Cardinality(page))])
  /\ UNCHANGED <<now, tables, lastRow, raced>>

(* The totals: a second query, over whatever has been added meanwhile.      *)
ReportTotals(t) ==
  /\ task[t].at = "report_totals"
  /\ Answer(t, [page |-> task[t].got, all |-> Summary(DOMAIN usage, Cardinality(Groups))])
  /\ UNCHANGED <<now, tables, lastRow, raced>>

(* EventRepo::insert: the INSERT, and the id of whatever came last.         *)
InsertEvent(t) ==
  /\ task[t].at = "event"
  /\ events' = Append(events, t) /\ Inserted(t, Len(events'))
  /\ Read(t, "event_id", Len(events'))
  /\ UNCHANGED <<now, projects, sessions, budgets, nextBudget, spent, requests, usage, raced>>

EventId(t) ==
  /\ task[t].at = "event_id"
  /\ task' = [task EXCEPT ![t].at = "done", ![t].wrote = <<task[t].got>>,
                          ![t].out = <<lastRow[Conn(t)]>>]
  /\ UNCHANGED <<now, tables, lastRow, raced>>

(* Mutant: the newest events first, as EventRepo::list has them.            *)
LatestSince(since, limit) == Reverse(SelectSeq([i \in 1..Len(events) |-> i],
                                 LAMBDA i : i > since /\ i > Len(events) - limit))

(* fetch_events_since: the oldest events after the cursor.  (A client may   *)
(* begin with a negative since_id; the first event has the id 1.)           *)
EventsSince(since, limit) ==
  LET first == Max({since, 0})
  IN  [i \in 1..Min({limit, Len(events) - first}) |-> first + i]

(* One round of get_events; `out` is what the stream has delivered.  The    *)
(* cursor is the largest id sent, or since_id.                              *)
Poll(t) ==
  LET cursor == Max({task[t].p.since} \cup ToSet(task[t].out))
      batch == EventsSince(cursor, task[t].p.limit)
  IN
  /\ task[t].at = "tail" /\ cursor < Len(events)
  /\ task' = [task EXCEPT ![t].out = @ \o batch]
  /\ UNCHANGED <<now, tables, lastRow, raced>>

Step(t) ==
  \/ UpsertProject(t) \/ EnsureSession(t) \/ FindActive(t) \/ CreateSession(t)
  \/ PersistRequest(t) \/ PersistUsage(t)
  \/ UpdateById(t) \/ SelectBudget(t) \/ WriteBudget(t) \/ LastRowId(t)
  \/ ResetBudget(t) \/ Reserve(t) \/ EstimateBudgets(t) \/ EstimateTotals(t)
  \/ ReportRows(t) \/ DashboardRows(t) \/ ReportTotals(t) \/ InsertEvent(t) \/ EventId(t) \/ Poll(t)

Next ==
  \/ \E t \in Tasks : Step(t) \/ \E p \in Programs : Begin(t, p)
  \/ Tick

Spec == Init /\ [][Next]_vars

--------------------------------------------------------------------------------
(* A project gets a second session within the window only when two first    *)
(* requests looked for one before either of them had made it.               *)
OneSessionPerWindow ==
  \A s, u \in DOMAIN sessions \cap Tasks :
    /\ s # u /\ sessions[s].project = sessions[u].project
    /\ sessions[s].at \in sessions[u].at - SessionWindow .. sessions[u].at + SessionWindow
    => sessions[s].project \in raced

(* Requests of one path never get in each other's way: attribution fails    *)
(* only when the slug of the path belongs to another path.                  *)
RefusedOnlyOnSlug ==
  \A t \in Tasks : task[t].p.op = "request" /\ task[t].at = "done" /\ task[t].out = Failed
                 => projects[Project(t)] # task[t].p.path

(* A scope and window has one budget row, unless two upserts both found     *)
(* none or an update by id moved a row to it: a second row would keep its   *)
(* limit when the first is changed.                                         *)
OneRowPerBudget ==
  \A a, b \in DOMAIN budgets :
    a # b /\ budgets[a].key = budgets[b].key => budgets[a].key \in raced

(* A command line is told the id of the row it wrote, whatever the server   *)
(* inserts at the same time.  (A handler of the server may be told another: *)
(* it shares last_insert_rowid with the other handlers.)                    *)
AnswersOwnRow ==
  \A t \in Tasks :
    task[t].p.op \in {"upsert", "event"} /\ ~task[t].p.served => task[t].out = task[t].wrote

(* A reservation is refused exactly when an estimate of the same cost,      *)
(* whose two queries saw the present budgets and totals, said it would be.  *)
EstimateForetells ==
  [][\A t, u \in Tasks :
       /\ task[t].p.op = "estimate" /\ task[t].at = "done"
       /\ task[t].out.listed = budgets /\ task[t].out.totals = spent
       /\ task[u].at = "reserve" /\ task'[u].at = "done" /\ task[u].p.cost = task[t].p.cost
       => (task'[u].out = "denied" <=> task[t].out.status = "over_hard_limit")]_vars

(* A report never shows more on its page than in its totals, nor a          *)
(* dashboard more at its head than by model, though requests are accounted  *)
(* between their two queries.                                               *)
TotalsCoverPage ==
  \A t \in Tasks :
    task[t].p.op \in {"report", "dashboard"} /\ task[t].at = "done" =>
      LET r == task[t].out IN
      r.page.requests <= r.all.requests /\ r.page.cost <= r.all.cost
      /\ r.page.groups <= r.all.groups

(* The event stream delivers every event after since_id, once and in order, *)
(* however the events come and whatever the size of its batches.            *)
FeedComplete ==
  \A t \in Tasks :
    task[t].p.op = "tail" =>
      task[t].out = [i \in 1..Len(task[t].out) |-> Max({task[t].p.since, 0}) + i]
================================================================================
