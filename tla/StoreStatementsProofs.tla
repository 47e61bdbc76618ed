------------------------- MODULE StoreStatementsProofs -------------------------
(****************************************************************************)
(* Proofs about StoreStatements, for any number of tasks running any of     *)
(* their programs: what two tasks can do to each other between the          *)
(* statements of either.                                                    *)
(****************************************************************************)
EXTENDS StoreStatements, FiniteSums, SequenceTheorems, TLAPS

Fields == {"at", "p", "todo", "got", "wrote", "out"}

(* The statements each program consists of.                                 *)
States == [op \in Ops \cup {"none"} |->
  CASE op = "none"      -> {"idle"}
    [] op = "request"   -> {"project", "find", "ensure", "create", "request_row",
                            "usage_row", "done"}
    [] op = "upsert"    -> {"by_id", "select", "write", "rowid", "done"}
    [] op = "reset"     -> {"reset", "done"}
    [] op = "reserve"   -> {"reserve", "done"}
    [] op = "event"     -> {"event", "event_id", "done"}
    [] op = "report"    -> {"report", "report_totals", "done"}
    [] op = "dashboard" -> {"dashboard", "report_totals", "done"}
    [] op = "estimate"  -> {"estimate", "totals", "done"}
    [] op = "tail"      -> {"tail"}]

IsTask(j) ==
  /\ DOMAIN j = Fields
  /\ j.p \in Programs \cup {Idle.p}
  /\ j.at \in States[j.p.op]

Control == DOMAIN task = Tasks /\ \A t \in Tasks : IsTask(task[t])

--------------------------------------------------------------------------------
(* How a step of t leaves its task                                          *)

Others(t) == DOMAIN task' = Tasks /\ \A q \in Tasks \ {t} : task'[q] = task[q]
Becomes(t, at, todo, got, wrote, out) ==
  /\ Others(t) /\ DOMAIN task'[t] = Fields
  /\ task'[t].p = task[t].p /\ task'[t].at = at /\ task'[t].todo = todo
  /\ task'[t].got = got /\ task'[t].wrote = wrote /\ task'[t].out = out

LEMMA Moves ==
  ASSUME Control, NEW t \in Tasks, NEW j, task' = [task EXCEPT ![t] = j]
  PROVE  Others(t) /\ task'[t] = j
BY DEF Control, Others

LEMMA Gone ==
  ASSUME Control, NEW t \in Tasks, NEW at, Goto(t, at)
  PROVE  Becomes(t, at, task[t].todo, task[t].got, task[t].wrote, task[t].out)
<1> DEFINE j == [task[t] EXCEPT !.at = at]
<1>1. Others(t) /\ task'[t] = j
  BY Moves DEF Goto
<1> QED
  BY <1>1 DEF Control, IsTask, Fields, Becomes

LEMMA HasRead ==
  ASSUME Control, NEW t \in Tasks, NEW at, NEW found, Read(t, at, found)
  PROVE  Becomes(t, at, task[t].todo, found, task[t].wrote, task[t].out)
<1> DEFINE j == [task[t] EXCEPT !.at = at, !.got = found]
<1>1. task' = [task EXCEPT ![t] = j]
  BY DEF Read
<1>2. Others(t) /\ task'[t] = j
  BY <1>1, Moves
<1> QED
  BY <1>2 DEF Control, IsTask, Fields, Becomes

LEMMA Answered ==
  ASSUME Control, NEW t \in Tasks, NEW out, Answer(t, out)
  PROVE  Becomes(t, "done", task[t].todo, {}, task[t].wrote, out)
<1> DEFINE j == [task[t] EXCEPT !.at = "done", !.got = {}, !.out = out]
<1>1. task' = [task EXCEPT ![t] = j]
  BY DEF Answer
<1>2. Others(t) /\ task'[t] = j
  BY <1>1, Moves
<1> QED
  BY <1>2 DEF Control, IsTask, Fields, Becomes

LEMMA HasStored ==
  ASSUME Control, NEW t \in Tasks, NEW id, NEW answer, Stored(t, id, answer)
  PROVE  Becomes(t, NextUpsert(Tail(task[t].todo)), Tail(task[t].todo), {},
                 Append(task[t].wrote, id), Append(task[t].out, answer))
<1> DEFINE j == [task[t] EXCEPT !.at = NextUpsert(Tail(task[t].todo)), !.todo = Tail(@),
                               !.got = {}, !.wrote = Append(@, id), !.out = Append(@, answer)]
<1>1. task' = [task EXCEPT ![t] = j]
  BY DEF Stored
<1>2. Others(t) /\ task'[t] = j
  BY <1>1, Moves
<1> QED
  BY <1>2 DEF Control, IsTask, Fields, Becomes

LEMMA EventTold ==
  ASSUME Control, NEW t \in Tasks, EventId(t)
  PROVE  Becomes(t, "done", task[t].todo, task[t].got, <<task[t].got>>, <<lastRow[Conn(t)]>>)
<1> DEFINE j == [task[t] EXCEPT !.at = "done", !.wrote = <<task[t].got>>,
                               !.out = <<lastRow[Conn(t)]>>]
<1>1. task' = [task EXCEPT ![t] = j]
  BY DEF EventId
<1>2. Others(t) /\ task'[t] = j
  BY <1>1, Moves
<1> QED
  BY <1>2 DEF Control, IsTask, Fields, Becomes

Cursor(t) == Max({task[t].p.since} \cup ToSet(task[t].out))

LEMMA Polled ==
  ASSUME Control, NEW t \in Tasks, Poll(t)
  PROVE  Becomes(t, "tail", task[t].todo, task[t].got, task[t].wrote,
                 task[t].out \o EventsSince(Cursor(t), task[t].p.limit))
<1> DEFINE batch == EventsSince(Cursor(t), task[t].p.limit)
           j == [task[t] EXCEPT !.out = @ \o batch]
<1>1. task' = [task EXCEPT ![t] = j] /\ task[t].at = "tail"
  BY DEF Poll, Cursor
<1>2. Others(t) /\ task'[t] = j
  BY <1>1, Moves
<1> QED
  BY <1>1, <1>2 DEF Control, IsTask, Fields, Becomes

(* Where the programs of a task start.                                      *)
Begun(t, p) ==
  /\ Others(t) /\ DOMAIN task'[t] = Fields /\ task[t].at = "idle"
  /\ task'[t].p = p /\ task'[t].got = task[t].got
  /\ task'[t].wrote = task[t].wrote /\ task'[t].out = task[t].out
  /\ task'[t].at = CASE p.op = "request" -> "project" [] p.op = "upsert" -> NextUpsert(p.todo)
                     [] OTHER -> p.op

LEMMA HasBegun ==
  ASSUME Control, NEW t \in Tasks, NEW p, Begin(t, p)
  PROVE  Begun(t, p) /\ UNCHANGED <<now, tables, lastRow, raced>>
<1> DEFINE todo  == IF p.op = "upsert" THEN p.todo ELSE << >>
           first == CASE p.op = "request" -> "project" [] p.op = "upsert" -> NextUpsert(todo)
                      [] OTHER -> p.op
           j == [task[t] EXCEPT !.at = first, !.p = p, !.todo = todo]
<1>1. task' = [task EXCEPT ![t] = j] /\ task[t].at = "idle"
  BY DEF Begin
<1>2. Others(t) /\ task'[t] = j
  BY <1>1, Moves
<1>3. first = CASE p.op = "request" -> "project" [] p.op = "upsert" -> NextUpsert(p.todo)
                [] OTHER -> p.op
  OBVIOUS
<1> HIDE DEF first, todo
<1>4. Begun(t, p)
  BY <1>1, <1>2, <1>3 DEF Control, IsTask, Fields, Begun
<1> QED
  BY <1>4 DEF Begin

--------------------------------------------------------------------------------
(* Control is an invariant                                                  *)

(* A step of t within its program.                                          *)
Goes(t) ==
  /\ Others(t) /\ DOMAIN task'[t] = Fields /\ task'[t].p = task[t].p
  /\ task'[t].at \in States[task[t].p.op]

LEMMA GoesIs ==
  ASSUME Control, NEW t \in Tasks, NEW at, NEW todo, NEW got, NEW wrote, NEW out,
         Becomes(t, at, todo, got, wrote, out), at \in States[task[t].p.op]
  PROVE  Goes(t)
BY DEF Becomes, Goes

(* The program of a task is known from where it stands.                     *)
LEMMA ProgramAt ==
  ASSUME Control, NEW t \in Tasks
  PROVE  /\ task[t].at \in {"project", "find", "ensure", "create", "request_row", "usage_row"}
              => task[t].p.op = "request"
         /\ task[t].at \in {"by_id", "select", "write", "rowid"} => task[t].p.op = "upsert"
         /\ task[t].at = "reset" => task[t].p.op = "reset"
         /\ task[t].at = "reserve" => task[t].p.op = "reserve"
         /\ task[t].at \in {"event", "event_id"} => task[t].p.op = "event"
         /\ task[t].at = "report" => task[t].p.op = "report"
         /\ task[t].at = "dashboard" => task[t].p.op = "dashboard"
         /\ task[t].at = "report_totals" => task[t].p.op \in {"report", "dashboard"}
         /\ task[t].at \in {"estimate", "totals"} => task[t].p.op = "estimate"
         /\ task[t].at = "tail" => task[t].p.op = "tail"
         /\ task[t].at = "idle" <=> task[t].p.op = "none"
         /\ task[t].at # "idle" => task[t].p \in Programs /\ task[t].p.op \in Ops
<1>1. /\ task[t].p \in Programs \cup {Idle.p} /\ task[t].at \in States[task[t].p.op]
      /\ Idle.p.op = "none"
  BY DEF Control, IsTask, Idle
<1>2. task[t].p.op \in Ops \cup {"none"}
  BY <1>1, ProgramAssumption
<1>3. States[task[t].p.op] = CASE task[t].p.op = "none" -> {"idle"}
    [] task[t].p.op = "request"   -> {"project", "find", "ensure", "create", "request_row",
                            "usage_row", "done"}
    [] task[t].p.op = "upsert"    -> {"by_id", "select", "write", "rowid", "done"}
    [] task[t].p.op = "reset"     -> {"reset", "done"}
    [] task[t].p.op = "reserve"   -> {"reserve", "done"}
    [] task[t].p.op = "event"     -> {"event", "event_id", "done"}
    [] task[t].p.op = "report"    -> {"report", "report_totals", "done"}
    [] task[t].p.op = "dashboard" -> {"dashboard", "report_totals", "done"}
    [] task[t].p.op = "estimate"  -> {"estimate", "totals", "done"}
    [] task[t].p.op = "tail"      -> {"tail"}
  BY <1>2 DEF States
<1>4. task[t].p \in Programs => task[t].p.op \in Ops
  BY ProgramAssumption
<1> QED
  BY <1>1, <1>2, <1>3, <1>4 DEF Ops

LEMMA StatesOf ==
  /\ States["request"] = {"project", "find", "ensure", "create", "request_row",
                          "usage_row", "done"}
  /\ States["upsert"] = {"by_id", "select", "write", "rowid", "done"}
  /\ States["reset"] = {"reset", "done"} /\ States["reserve"] = {"reserve", "done"}
  /\ States["event"] = {"event", "event_id", "done"}
  /\ States["report"] = {"report", "report_totals", "done"}
  /\ States["dashboard"] = {"dashboard", "report_totals", "done"}
  /\ States["estimate"] = {"estimate", "totals", "done"}
  /\ States["tail"] = {"tail"}
BY DEF States, Ops

LEMMA StepGoes ==
  ASSUME Control, NEW t \in Tasks, Step(t)
  PROVE  Goes(t)
<1>1. ASSUME NEW at, Goto(t, at), at \in States[task[t].p.op] PROVE Goes(t)
  BY <1>1, Gone, GoesIs
<1>2. ASSUME NEW at, NEW found, Read(t, at, found), at \in States[task[t].p.op] PROVE Goes(t)
  BY <1>2, HasRead, GoesIs
<1>3. ASSUME NEW out, Answer(t, out), "done" \in States[task[t].p.op] PROVE Goes(t)
  BY <1>3, Answered, GoesIs
<1>4. ASSUME NEW id, NEW answer, Stored(t, id, answer), task[t].p.op = "upsert" PROVE Goes(t)
  <2>1. NextUpsert(Tail(task[t].todo)) \in States[task[t].p.op]
    BY <1>4, StatesOf DEF NextUpsert
  <2> HIDE DEF NextUpsert
  <2> QED
    BY <1>4, <2>1, HasStored, GoesIs
<1>5. CASE UpsertProject(t)
  <2>1. task[t].p.op = "request"
    BY <1>5, ProgramAt DEF UpsertProject
  <2>2. PICK at, out : at \in {"find", "ensure", "done"} /\ (Goto(t, at) \/ Answer(t, out))
    BY <1>5 DEF UpsertProject
  <2> QED
    BY <1>1, <1>3, <2>1, <2>2, StatesOf
<1>6. CASE EnsureSession(t) \/ FindActive(t) \/ CreateSession(t)
  <2>1. task[t].p.op = "request"
    BY <1>6, ProgramAt DEF EnsureSession, FindActive, CreateSession
  <2> QED
    BY <1>1, <1>2, <1>6, <2>1, StatesOf DEF EnsureSession, FindActive, CreateSession
<1>7. CASE PersistRequest(t) \/ PersistUsage(t)
  <2>1. task[t].p.op = "request"
    BY <1>7, ProgramAt DEF PersistRequest, PersistUsage
  <2> QED
    BY <1>1, <1>3, <1>7, <2>1, StatesOf DEF PersistRequest, PersistUsage
<1>8. CASE UpdateById(t) \/ SelectBudget(t) \/ WriteBudget(t) \/ LastRowId(t)
  <2>1. task[t].p.op = "upsert"
    BY <1>8, ProgramAt DEF UpdateById, SelectBudget, WriteBudget, LastRowId
  <2> QED
    BY <1>1, <1>2, <1>4, <1>8, <2>1, StatesOf
       DEF UpdateById, SelectBudget, WriteBudget, LastRowId
<1>9. CASE ResetBudget(t) \/ Reserve(t)
  <2>1. task[t].p.op \in {"reset", "reserve"}
    BY <1>9, ProgramAt DEF ResetBudget, Reserve
  <2> QED
    BY <1>3, <1>9, <2>1, StatesOf DEF ResetBudget, Reserve
<1>10. CASE EstimateBudgets(t) \/ EstimateTotals(t)
  <2>1. task[t].p.op = "estimate"
    BY <1>10, ProgramAt DEF EstimateBudgets, EstimateTotals
  <2> QED
    BY <1>2, <1>3, <1>10, <2>1, StatesOf DEF EstimateBudgets, EstimateTotals
<1>11. CASE ReportRows(t) \/ DashboardRows(t) \/ ReportTotals(t)
  <2>1. task[t].p.op \in {"report", "dashboard"}
    BY <1>11, ProgramAt DEF ReportRows, DashboardRows, ReportTotals
  <2> QED
    BY <1>2, <1>3, <1>11, <2>1, StatesOf DEF ReportRows, DashboardRows, ReportTotals
<1>12. CASE InsertEvent(t) \/ EventId(t)
  <2>1. task[t].p.op = "event"
    BY <1>12, ProgramAt DEF InsertEvent, EventId
  <2>2. CASE EventId(t)
    BY <2>1, <2>2, EventTold, GoesIs, StatesOf
  <2> QED
    BY <1>2, <1>12, <2>1, <2>2, StatesOf DEF InsertEvent
<1>13. CASE Poll(t)
  <2>1. task[t].p.op = "tail"
    BY <1>13, ProgramAt DEF Poll
  <2> QED
    BY <1>13, <2>1, Polled, GoesIs, StatesOf
<1> QED
  BY <1>5, <1>6, <1>7, <1>8, <1>9, <1>10, <1>11, <1>12, <1>13 DEF Step

LEMMA InitControl == Init => Control
<1> SUFFICES ASSUME Init PROVE Control
  OBVIOUS
<1>1. DOMAIN task = Tasks /\ \A t \in Tasks : task[t] = Idle
  BY DEF Init
<1>2. IsTask(Idle)
  <2>1. Idle.at = "idle" /\ Idle.p.op = "none" /\ DOMAIN Idle = Fields
    BY DEF Idle, Fields
  <2>2. States["none"] = {"idle"}
    BY DEF States
  <2> QED
    BY <2>1, <2>2 DEF IsTask
<1> QED
  BY <1>1, <1>2 DEF Control

LEMMA NextControl == Control /\ [Next]_vars => Control'
<1> SUFFICES ASSUME Control, [Next]_vars PROVE Control'
  OBVIOUS
<1>1. ASSUME NEW t \in Tasks, Step(t) PROVE Control'
  <2>1. Goes(t)
    BY <1>1, StepGoes
  <2> QED
    BY <2>1 DEF Goes, Others, Control, IsTask
<1>2. ASSUME NEW t \in Tasks, NEW p \in Programs, Begin(t, p) PROVE Control'
  <2>1. Begun(t, p)
    BY <1>2, HasBegun
  <2>2. p.op \in Ops
    BY ProgramAssumption
  <2>3. task'[t].at \in States[p.op]
    <3>1. NextUpsert(p.todo) \in {"done", "by_id", "select"}
      BY DEF NextUpsert
    <3> HIDE DEF NextUpsert
    <3> QED
      BY <2>1, <2>2, <3>1, StatesOf DEF Begun, Ops
  <2>4. IsTask(task'[t])
    BY <2>1, <2>3 DEF Begun, IsTask
  <2> QED
    BY <2>1, <2>4 DEF Begun, Others, Control
<1>3. CASE Tick \/ UNCHANGED vars
  BY <1>3 DEF Tick, vars, Control
<1> QED
  BY <1>1, <1>2, <1>3 DEF Next

(* A task runs the statements of its program and no others: none of another *)
(* task moves it (each handler and command line awaits its own calls).      *)
THEOREM ControlInvariance == Spec => []Control
<1> QED
  BY InitControl, NextControl, PTL DEF Spec

--------------------------------------------------------------------------------
(* Which statement a change comes from                                      *)

LEMMA Origins ==
  ASSUME NEW t \in Tasks, Step(t)
  PROVE  /\ UpsertProject(t) \/ projects' = projects
         /\ EnsureSession(t) \/ CreateSession(t) \/ sessions' = sessions
         /\ FindActive(t) \/ SelectBudget(t) \/ UpdateById(t) \/ raced' = raced
         /\ \/ UpdateById(t) \/ WriteBudget(t) \/ ResetBudget(t)
            \/ budgets' = budgets /\ nextBudget' = nextBudget
         /\ Reserve(t) \/ spent' = spent
         /\ InsertEvent(t) \/ events' = events
         /\ PersistRequest(t) \/ requests' = requests
         /\ PersistUsage(t) \/ usage' = usage
         /\ now' = now
<1>1. CASE UpsertProject(t) \/ EnsureSession(t) \/ FindActive(t) \/ CreateSession(t)
  BY <1>1 DEF UpsertProject, EnsureSession, FindActive, CreateSession, tables
<1>2. CASE PersistRequest(t) \/ PersistUsage(t) \/ UpdateById(t) \/ SelectBudget(t)
  BY <1>2 DEF PersistRequest, PersistUsage, UpdateById, SelectBudget, tables
<1>3. CASE WriteBudget(t) \/ LastRowId(t) \/ ResetBudget(t) \/ Reserve(t)
  BY <1>3 DEF WriteBudget, LastRowId, ResetBudget, Reserve, tables
<1>4. CASE EstimateBudgets(t) \/ EstimateTotals(t) \/ ReportRows(t) \/ DashboardRows(t)
  BY <1>4 DEF EstimateBudgets, EstimateTotals, ReportRows, DashboardRows, tables
<1>5. CASE ReportTotals(t) \/ InsertEvent(t) \/ EventId(t) \/ Poll(t)
  BY <1>5 DEF ReportTotals, InsertEvent, EventId, Poll, tables
<1> QED
  BY <1>1, <1>2, <1>3, <1>4, <1>5 DEF Step

(* Which statement a task has come from.                                    *)
LEMMA Arrivals ==
  ASSUME Control, NEW t \in Tasks, Step(t)
  PROVE  /\ task'[t].at \in {"find", "ensure"} => UpsertProject(t)
         /\ task'[t].at = "create" => FindActive(t)
         /\ task'[t].at = "request_row" => EnsureSession(t) \/ FindActive(t) \/ CreateSession(t)
         /\ task'[t].at = "usage_row" => PersistRequest(t)
         /\ task'[t].at = "write" => SelectBudget(t)
         /\ task'[t].at = "rowid" => WriteBudget(t)
         /\ task'[t].at = "totals" => EstimateBudgets(t)
         /\ task'[t].at = "report_totals" => ReportRows(t) \/ DashboardRows(t)
         /\ task'[t].at = "event_id" => InsertEvent(t)
         /\ task'[t].at = "tail" => Poll(t)
         /\ task'[t].at \notin {"idle", "project", "reset", "reserve", "event", "report",
                                "dashboard", "estimate"}
         /\ task'[t].at = "done" /\ task[t].p.op = "request" => UpsertProject(t) \/ PersistUsage(t)
         /\ task'[t].at = "done" /\ task[t].p.op = "estimate" => EstimateTotals(t)
         /\ task'[t].at = "done" /\ task[t].p.op \in {"report", "dashboard"} => ReportTotals(t)
         /\ task'[t].at = "done" /\ task[t].p.op = "reserve" => Reserve(t)
<1>1. \A at : Goto(t, at) => task'[t].at = at
  BY Gone DEF Becomes
<1>2. \A at, found : Read(t, at, found) => task'[t].at = at
  BY HasRead DEF Becomes
<1>3. \A out : Answer(t, out) => task'[t].at = "done"
  BY Answered DEF Becomes
<1>4. ASSUME NEW id, NEW answer, Stored(t, id, answer)
      PROVE  task'[t].at \in {"done", "by_id", "select"}
  <2>1. NextUpsert(Tail(task[t].todo)) \in {"done", "by_id", "select"}
    BY DEF NextUpsert
  <2> QED
    BY <1>4, <2>1, HasStored DEF Becomes
<1>5. CASE UpsertProject(t)
  <2>1. task'[t].at \in {"done", "find", "ensure"}
    BY <1>1, <1>3, <1>5 DEF UpsertProject
  <2>2. task[t].p.op = "request"
    BY <1>5, ProgramAt DEF UpsertProject
  <2> QED
    BY <1>5, <2>1, <2>2
<1>6. CASE EnsureSession(t) \/ FindActive(t) \/ CreateSession(t)
  <2>1. task'[t].at = "request_row" \/ (task'[t].at = "create" /\ FindActive(t))
    BY <1>1, <1>2, <1>6 DEF EnsureSession, FindActive, CreateSession
  <2> QED
    BY <1>6, <2>1
<1>7. CASE PersistRequest(t)
  BY <1>1, <1>7 DEF PersistRequest
<1>8. CASE PersistUsage(t)
  <2>1. task'[t].at = "done" /\ task[t].p.op = "request"
    BY <1>3, <1>8, ProgramAt DEF PersistUsage
  <2> QED
    BY <1>8, <2>1
<1>9. CASE UpdateById(t) \/ SelectBudget(t) \/ WriteBudget(t) \/ LastRowId(t)
  <2>1. task[t].p.op = "upsert"
    BY <1>9, ProgramAt DEF UpdateById, SelectBudget, WriteBudget, LastRowId
  <2>2. \/ task'[t].at \in {"done", "by_id", "select"}
        \/ task'[t].at = "write" /\ SelectBudget(t)
        \/ task'[t].at = "rowid" /\ WriteBudget(t)
    BY <1>1, <1>2, <1>4, <1>9 DEF UpdateById, SelectBudget, WriteBudget, LastRowId
  <2> QED
    BY <2>1, <2>2
<1>10. CASE ResetBudget(t) \/ Reserve(t)
  <2>1. task'[t].at = "done" /\ (task[t].p.op = "reset" \/ (task[t].p.op = "reserve" /\ Reserve(t)))
    BY <1>3, <1>10, ProgramAt DEF ResetBudget, Reserve
  <2> QED
    BY <2>1
<1>11. CASE EstimateBudgets(t) \/ EstimateTotals(t)
  <2>1. \/ task'[t].at = "totals" /\ EstimateBudgets(t)
        \/ task'[t].at = "done" /\ task[t].p.op = "estimate" /\ EstimateTotals(t)
    BY <1>2, <1>3, <1>11, ProgramAt DEF EstimateBudgets, EstimateTotals
  <2> QED
    BY <2>1
<1>12. CASE ReportRows(t) \/ DashboardRows(t) \/ ReportTotals(t)
  <2>1. \/ task'[t].at = "report_totals" /\ (ReportRows(t) \/ DashboardRows(t))
        \/ task'[t].at = "done" /\ task[t].p.op \in {"report", "dashboard"} /\ ReportTotals(t)
    BY <1>2, <1>3, <1>12, ProgramAt DEF ReportRows, DashboardRows, ReportTotals
  <2> QED
    BY <2>1
<1>13. CASE InsertEvent(t)
  BY <1>2, <1>13 DEF InsertEvent
<1>14. CASE EventId(t)
  <2>1. task'[t].at = "done" /\ task[t].p.op = "event"
    BY <1>14, EventTold, ProgramAt DEF Becomes, EventId
  <2> QED
    BY <2>1
<1>15. CASE Poll(t)
  BY <1>15, Polled DEF Becomes
<1> QED
  BY <1>5, <1>6, <1>7, <1>8, <1>9, <1>10, <1>11, <1>12, <1>13, <1>14, <1>15 DEF Step

(* A program that begins has not come anywhere yet.                         *)
LEMMA Beginnings ==
  ASSUME Control, NEW t \in Tasks, NEW p \in Programs, Begin(t, p)
  PROVE  /\ UNCHANGED <<now, tables, lastRow, raced>> /\ Others(t) /\ task[t].p.op = "none"
         /\ task'[t].p = p /\ task'[t].p.op \in Ops
         /\ task'[t].wrote = task[t].wrote /\ task'[t].out = task[t].out
         /\ task'[t].at \notin {"idle", "find", "ensure", "create", "request_row", "usage_row",
                                "write", "rowid", "totals", "report_totals", "event_id"}
         /\ task'[t].at = "done" => p.op = "upsert"
<1>1. Begun(t, p) /\ UNCHANGED <<now, tables, lastRow, raced>>
  BY HasBegun
<1>2. p.op \in Ops
  BY ProgramAssumption
<1>3. NextUpsert(p.todo) \in {"done", "by_id", "select"}
  BY DEF NextUpsert
<1>4. task[t].at = "idle" /\ task[t].p.op = "none"
  BY <1>1, ProgramAt DEF Begun
<1> HIDE DEF NextUpsert
<1>5. /\ task'[t].at \notin {"idle", "find", "ensure", "create", "request_row", "usage_row",
                             "write", "rowid", "totals", "report_totals", "event_id"}
      /\ task'[t].at = "done" => p.op = "upsert"
  BY <1>1, <1>2, <1>3 DEF Begun, Ops
<1> QED
  BY <1>1, <1>2, <1>4, <1>5 DEF Begun

--------------------------------------------------------------------------------
(* Projects                                                                 *)

(* A path that was refused is not the one its slug belongs to, and nothing  *)
(* else makes attribution fail.                                             *)
Refused(t) == task[t].p.op = "request" /\ task[t].at = "done" /\ task[t].out = Failed
PathInv ==
  /\ Failed \notin DOMAIN sessions
  /\ \A t \in Tasks :
       /\ Refused(t) => /\ Project(t) \in DOMAIN projects
                        /\ projects[Project(t)] # task[t].p.path
       /\ task[t].at \in {"request_row", "usage_row"} => task[t].got # Failed

(* The row of a path stays.                                                 *)
LEMMA ProjectsStay ==
  ASSUME NEW t \in Tasks, UpsertProject(t), NEW id \in DOMAIN projects
  PROVE  id \in DOMAIN projects' /\ projects'[id] = projects[id]
BY DEF UpsertProject, Put

LEMMA StepPaths ==
  ASSUME Control, PathInv, NEW t \in Tasks, Step(t)
  PROVE  PathInv'
<1>1. Goes(t)
  BY StepGoes
<1>2. \A id \in DOMAIN projects : id \in DOMAIN projects' /\ projects'[id] = projects[id]
  BY Origins, ProjectsStay
<1>3. Failed \notin DOMAIN sessions'
  <2>1. CASE EnsureSession(t)
    <3>1. task[t].p.op = "request" /\ task[t].p \in Programs
      BY <2>1, ProgramAt DEF EnsureSession
    <3>2. task[t].p.session # Failed
      BY <3>1, ProgramAssumption
    <3> QED
      BY <2>1, <3>2 DEF PathInv, EnsureSession, NewSession, Put
  <2>2. CASE CreateSession(t)
    BY <2>2, TaskAssumption DEF PathInv, CreateSession, NewSession, Put
  <2> QED
    BY <2>1, <2>2, Origins DEF PathInv
<1>4. ASSUME Refused(t)'
      PROVE  Project(t) \in DOMAIN projects' /\ projects'[Project(t)] # task[t].p.path
  <2>1. UpsertProject(t) \/ PersistUsage(t)
    BY <1>1, <1>4, Arrivals DEF Refused, Goes
  <2>2. CASE UpsertProject(t)
    <3>1. CASE Project(t) \in DOMAIN projects /\ projects[Project(t)] # task[t].p.path
      BY <1>2, <3>1
    <3>2. CASE ~(Project(t) \in DOMAIN projects /\ projects[Project(t)] # task[t].p.path)
      <4>1. PICK at \in {"find", "ensure"} : Goto(t, at)
        BY <2>2, <3>2 DEF UpsertProject, Project
      <4> QED
        BY <1>4, <4>1, Gone DEF Becomes, Refused
    <3> QED
      BY <3>1, <3>2
  <2>3. CASE PersistUsage(t)
    <3>1. task[t].got # Failed /\ Answer(t, task[t].got)
      BY <2>3 DEF PersistUsage, PathInv
    <3> QED
      BY <1>4, <3>1, Answered DEF Becomes, Refused
  <2> QED
    BY <2>1, <2>2, <2>3
<1>5. ASSUME task'[t].at \in {"request_row", "usage_row"}
      PROVE  task'[t].got # Failed
  <2>1. EnsureSession(t) \/ FindActive(t) \/ CreateSession(t) \/ PersistRequest(t)
    BY <1>5, Arrivals
  <2>2. CASE EnsureSession(t)
    <3>1. task[t].p.op = "request" /\ task[t].p \in Programs
      BY <2>2, ProgramAt DEF EnsureSession
    <3>2. task[t].p.session # Failed
      BY <3>1, ProgramAssumption
    <3>3. task'[t].got = task[t].p.session
      BY <2>2, HasRead DEF EnsureSession, Becomes
    <3> QED
      BY <3>2, <3>3
  <2>3. CASE CreateSession(t)
    BY <2>3, HasRead, TaskAssumption DEF CreateSession, Becomes
  <2>4. CASE FindActive(t)
    <3>1. Goto(t, "create") \/ \E s \in DOMAIN sessions : Read(t, "request_row", s)
      BY <2>4 DEF FindActive, Active
    <3>2. ~Goto(t, "create")
      BY <1>5, Gone DEF Becomes
    <3> QED
      BY <3>1, <3>2, HasRead DEF Becomes, PathInv
  <2>5. CASE PersistRequest(t)
    BY <2>5, Gone DEF PersistRequest, Becomes, PathInv
  <2> QED
    BY <2>1, <2>2, <2>3, <2>4, <2>5
<1>6. Project(t)' = Project(t) /\ task'[t].p = task[t].p
  BY <1>1 DEF Goes, Project
<1>7. ASSUME NEW q \in Tasks
      PROVE  /\ Refused(q)' => /\ Project(q)' \in DOMAIN projects'
                               /\ projects'[Project(q)'] # task'[q].p.path
             /\ task'[q].at \in {"request_row", "usage_row"} => task'[q].got # Failed
  <2>1. CASE q = t
    BY <1>4, <1>5, <1>6, <2>1
  <2>2. CASE q # t
    <3>1. task'[q] = task[q]
      BY <1>1, <2>2 DEF Goes, Others
    <3> QED
      BY <1>2, <3>1 DEF PathInv, Refused, Project
  <2> QED
    BY <2>1, <2>2
<1> QED
  BY <1>3, <1>7 DEF PathInv

LEMMA NextPaths == Control /\ PathInv /\ [Next]_vars => PathInv'
<1> SUFFICES ASSUME Control, PathInv, [Next]_vars PROVE PathInv'
  OBVIOUS
<1>1. ASSUME NEW t \in Tasks, NEW p \in Programs, Begin(t, p) PROVE PathInv'
  <2>1. /\ Others(t) /\ projects' = projects /\ sessions' = sessions
        /\ ~Refused(t)' /\ task'[t].at \notin {"request_row", "usage_row"}
    BY <1>1, Beginnings DEF Refused, tables
  <2>2. ASSUME NEW q \in Tasks
        PROVE  /\ Refused(q)' => /\ Project(q)' \in DOMAIN projects'
                                 /\ projects'[Project(q)'] # task'[q].p.path
               /\ task'[q].at \in {"request_row", "usage_row"} => task'[q].got # Failed
    <3>1. CASE q = t
      BY <2>1, <3>1
    <3>2. CASE q # t
      <4>1. task'[q] = task[q]
        BY <2>1, <3>2 DEF Others
      <4> QED
        BY <2>1, <4>1 DEF PathInv, Refused, Project
    <3> QED
      BY <3>1, <3>2
  <2> QED
    BY <2>1, <2>2 DEF PathInv
<1>2. CASE Tick \/ UNCHANGED vars
  BY <1>2 DEF Tick, vars, tables, PathInv, Refused, Project
<1> QED
  BY <1>1, <1>2, StepPaths DEF Next

(* Requests of one path never get in each other's way: attribution fails    *)
(* only where the slug of the path belongs to another path (upsert_by_path).*)
THEOREM RefusedForSlug == Spec => []RefusedOnlyOnSlug
<1>1. Init => PathInv
  <2> SUFFICES ASSUME Init PROVE PathInv
    OBVIOUS
  <2>1. sessions = << >> /\ \A t \in Tasks : task[t].at = "idle"
    BY DEF Init, Idle
  <2> QED
    BY <2>1 DEF PathInv, Refused
<1>2. PathInv => RefusedOnlyOnSlug
  BY DEF PathInv, Refused, RefusedOnlyOnSlug
<1> QED
  BY <1>1, <1>2, InitControl, NextControl, NextPaths, PTL DEF Spec

--------------------------------------------------------------------------------
(* Budget rows                                                              *)

(* The ids are those of inserts; a key with two rows was raced for; so was  *)
(* one that a task is about to insert, when it has a row meanwhile or when  *)
(* another task is about to insert it too.                                  *)
RowIds == nextBudget \in Nat /\ \A id \in DOMAIN budgets : id \in Nat /\ id < nextBudget
FreeKeys ==
  \A t \in Tasks : FindsNone(t) =>
    Wanted(t).key \in raced \/ \A b \in DOMAIN budgets : budgets[b].key # Wanted(t).key
Rivals ==
  \A t, u \in Tasks :
    t # u /\ FindsNone(t) /\ FindsNone(u) /\ Wanted(t).key = Wanted(u).key => Wanted(t).key \in raced
RowInv == RowIds /\ OneRowPerBudget /\ FreeKeys /\ Rivals

(* What is raced for stays so.                                              *)
LEMMA RacedGrows == ASSUME NEW t \in Tasks, Step(t) PROVE raced \subseteq raced'
<1>1. CASE FindActive(t) \/ SelectBudget(t) \/ UpdateById(t)
  BY <1>1 DEF FindActive, SelectBudget, UpdateById
<1> QED
  BY <1>1, Origins

(* A row is inserted, or each row left is one of the same key or its key    *)
(* was raced for.                                                           *)
KeysFrom ==
  /\ nextBudget' = nextBudget
  /\ \A id \in DOMAIN budgets' :
       id \in DOMAIN budgets /\ (budgets'[id].key = budgets[id].key \/ budgets'[id].key \in raced')
Inserts(t) ==
  /\ FindsNone(t) /\ budgets' = Put(budgets, nextBudget, Row(t)) /\ nextBudget' = nextBudget + 1
  /\ raced' = raced

LEMMA RowsFrom ==
  ASSUME NEW t \in Tasks, Step(t)
  PROVE  KeysFrom \/ Inserts(t)
<1>1. CASE UpdateById(t)
  <2> DEFINE id == Wanted(t).id
  <2>1. nextBudget' = nextBudget
    BY <1>1 DEF UpdateById
  <2>2. CASE id \in DOMAIN budgets
    <3>1. /\ budgets' = [budgets EXCEPT ![id] = Row(t)]
          /\ raced' = IF budgets[id].key = Wanted(t).key THEN raced
                      ELSE raced \cup {Wanted(t).key}
      BY <1>1, <2>2 DEF UpdateById
    <3>2. budgets'[id].key = budgets[id].key \/ budgets'[id].key \in raced'
      BY <2>2, <3>1 DEF Row
    <3> QED
      BY <2>1, <3>1, <3>2 DEF KeysFrom
  <2>3. CASE id \notin DOMAIN budgets
    BY <1>1, <2>1, <2>3 DEF UpdateById, KeysFrom
  <2> QED
    BY <2>2, <2>3
<1>2. CASE WriteBudget(t)
  <2>1. CASE task[t].got = {}
    BY <1>2, <2>1 DEF WriteBudget, Inserts, FindsNone
  <2>2. CASE task[t].got # {}
    <3>1. PICK id \in task[t].got :
            /\ nextBudget' = nextBudget
            /\ budgets' = IF id \in DOMAIN budgets
                          THEN [budgets EXCEPT ![id].limit = Wanted(t).limit] ELSE budgets
      BY <1>2, <2>2 DEF WriteBudget
    <3> DEFINE row == [budgets[id] EXCEPT !.limit = Wanted(t).limit]
    <3>2. CASE id \in DOMAIN budgets
      <4>1. budgets' = [budgets EXCEPT ![id] = row]
        BY <3>1, <3>2
      <4>2. row.key = budgets[id].key
        OBVIOUS
      <4> HIDE DEF row
      <4> QED
        BY <3>1, <4>1, <4>2 DEF KeysFrom
    <3>3. CASE id \notin DOMAIN budgets
      BY <3>1, <3>3 DEF KeysFrom
    <3> QED
      BY <3>2, <3>3
  <2> QED
    BY <2>1, <2>2
<1>3. CASE ResetBudget(t)
  BY <1>3 DEF ResetBudget, KeysFrom
<1>4. CASE budgets' = budgets /\ nextBudget' = nextBudget
  BY <1>4 DEF KeysFrom
<1> QED
  BY <1>1, <1>2, <1>3, <1>4, Origins

(* A task is about to insert only once it has found none.                   *)
LEMMA FoundNone ==
  ASSUME Control, NEW t \in Tasks, Step(t), FindsNone(t)'
  PROVE  /\ Wanted(t)' = Wanted(t) /\ budgets' = budgets
         /\ \A b \in DOMAIN budgets : budgets[b].key # Wanted(t).key
         /\ \A u \in Tasks : FindsNone(u) /\ Wanted(u).key = Wanted(t).key => Wanted(t).key \in raced'
<1>1. SelectBudget(t)
  BY Arrivals DEF FindsNone
<1>2. ASSUME NEW id, Read(t, "write", {id}) PROVE FALSE
  <2>1. task'[t].got = {id}
    BY <1>2, HasRead DEF Becomes
  <2> QED
    BY <2>1 DEF FindsNone
<1>3. /\ OfKey(Wanted(t).key) = {} /\ Read(t, "write", {})
      /\ raced' = IF \E u \in Tasks : FindsNone(u) /\ Wanted(u).key = Wanted(t).key
                  THEN raced \cup {Wanted(t).key} ELSE raced
      /\ budgets' = budgets
  BY <1>1, <1>2 DEF SelectBudget, tables
<1>4. task'[t].todo = task[t].todo
  BY <1>3, HasRead DEF Becomes
<1> QED
  BY <1>3, <1>4 DEF Wanted, OfKey

LEMMA StepRows ==
  ASSUME Control, RowInv, NEW t \in Tasks, Step(t)
  PROVE  RowInv'
<1>1. \A q \in Tasks \ {t} : task'[q] = task[q]
  BY StepGoes DEF Goes, Others
<1>2. ASSUME NEW q \in Tasks \ {t} PROVE FindsNone(q)' = FindsNone(q) /\ Wanted(q)' = Wanted(q)
  BY <1>1 DEF FindsNone, Wanted
<1>3. raced \subseteq raced'
  BY RacedGrows
<1>4. Rivals'
  <2>1. ASSUME NEW u \in Tasks \ {t}, FindsNone(t)', FindsNone(u)', Wanted(t)'.key = Wanted(u)'.key
        PROVE  Wanted(t)'.key \in raced'
    BY <1>2, <2>1, FoundNone
  <2>2. ASSUME NEW q \in Tasks \ {t}, NEW u \in Tasks \ {t}, q # u, FindsNone(q)', FindsNone(u)',
               Wanted(q)'.key = Wanted(u)'.key
        PROVE  Wanted(q)'.key \in raced'
    BY <1>2, <1>3, <2>2 DEF RowInv, Rivals
  <2> QED
    BY <2>1, <2>2 DEF Rivals
<1>5. CASE KeysFrom
  <2>1. RowIds'
    BY <1>5 DEF RowInv, RowIds, KeysFrom
  <2>2. OneRowPerBudget'
    BY <1>3, <1>5 DEF RowInv, OneRowPerBudget, KeysFrom
  <2>3. ASSUME NEW q \in Tasks \ {t}, FindsNone(q)', NEW b \in DOMAIN budgets',
               budgets'[b].key = Wanted(q)'.key
        PROVE  Wanted(q)'.key \in raced'
    BY <1>2, <1>3, <1>5, <2>3 DEF RowInv, FreeKeys, KeysFrom
  <2>4. ASSUME FindsNone(t)', NEW b \in DOMAIN budgets'
        PROVE  budgets'[b].key # Wanted(t)'.key
    BY <2>4, FoundNone
  <2>5. FreeKeys'
    BY <2>3, <2>4 DEF FreeKeys
  <2> QED
    BY <1>4, <2>1, <2>2, <2>5 DEF RowInv
<1>6. CASE Inserts(t)
  <2> DEFINE key == Wanted(t).key
  <2>1. /\ DOMAIN budgets' = DOMAIN budgets \cup {nextBudget}
        /\ budgets'[nextBudget].key = key
        /\ \A b \in DOMAIN budgets : budgets'[b] = budgets[b] /\ b # nextBudget
    BY <1>6 DEF Inserts, Put, Row, RowInv, RowIds
  <2>2. /\ FindsNone(t) /\ ~FindsNone(t)' /\ raced' = raced /\ nextBudget' = nextBudget + 1
    BY <1>6, <2>1, FoundNone DEF Inserts, RowInv, RowIds
  <2>3. key \in raced \/ \A b \in DOMAIN budgets : budgets[b].key # key
    BY <2>2 DEF RowInv, FreeKeys
  <2>4. \A q \in Tasks \ {t} : FindsNone(q)' /\ Wanted(q)'.key = key => key \in raced
    BY <1>2, <2>2 DEF RowInv, Rivals
  <2> HIDE DEF key
  <2>5. RowIds'
    BY <2>1, <2>2 DEF RowInv, RowIds
  <2>6. OneRowPerBudget'
    BY <2>1, <2>2, <2>3 DEF RowInv, OneRowPerBudget
  <2>7. FreeKeys'
    <3>1. ASSUME NEW q \in Tasks, FindsNone(q)', NEW b \in DOMAIN budgets',
                 budgets'[b].key = Wanted(q)'.key
          PROVE  Wanted(q)'.key \in raced'
      <4>1. q \in Tasks \ {t}
        BY <2>2, <3>1
      <4>2. CASE b = nextBudget
        BY <2>1, <2>2, <2>4, <3>1, <4>1, <4>2
      <4>3. CASE b # nextBudget
        BY <1>2, <2>1, <2>2, <3>1, <4>1, <4>3 DEF RowInv, FreeKeys
      <4> QED
        BY <4>2, <4>3
    <3> QED
      BY <3>1 DEF FreeKeys
  <2> QED
    BY <1>4, <2>5, <2>6, <2>7 DEF RowInv
<1> QED
  BY <1>5, <1>6, RowsFrom

LEMMA NextRows == Control /\ RowInv /\ [Next]_vars => RowInv'
<1> SUFFICES ASSUME Control, RowInv, [Next]_vars PROVE RowInv'
  OBVIOUS
<1>1. ASSUME NEW t \in Tasks, NEW p \in Programs, Begin(t, p) PROVE RowInv'
  <2>1. /\ budgets' = budgets /\ nextBudget' = nextBudget /\ raced' = raced /\ ~FindsNone(t)'
        /\ \A q \in Tasks \ {t} : task'[q] = task[q]
    BY <1>1, Beginnings DEF FindsNone, Others, tables
  <2>2. ASSUME NEW q \in Tasks \ {t} PROVE FindsNone(q)' = FindsNone(q) /\ Wanted(q)' = Wanted(q)
    BY <2>1 DEF FindsNone, Wanted
  <2>3. FreeKeys' /\ Rivals'
    BY <2>1, <2>2 DEF RowInv, FreeKeys, Rivals
  <2> QED
    BY <2>1, <2>3 DEF RowInv, RowIds, OneRowPerBudget
<1>2. CASE Tick \/ UNCHANGED vars
  BY <1>2 DEF Tick, vars, tables, RowInv, RowIds, OneRowPerBudget, FreeKeys, Rivals, FindsNone, Wanted
<1> QED
  BY <1>1, <1>2, StepRows DEF Next

(* A scope and window has one budget row, unless two tasks both found none  *)
(* before either had inserted it, or an update by id moved a row to it      *)
(* (BudgetRepo::upsert: its SELECT and its INSERT are two statements).      *)
THEOREM RowsUnique == Spec => []OneRowPerBudget
<1>1. Init => RowInv
  <2> SUFFICES ASSUME Init PROVE RowInv
    OBVIOUS
  <2>1. budgets = << >> /\ nextBudget = 1 /\ \A t \in Tasks : task[t].at = "idle"
    BY DEF Init, Idle
  <2> QED
    BY <2>1 DEF RowInv, RowIds, OneRowPerBudget, FreeKeys, Rivals, FindsNone
<1>2. RowInv => OneRowPerBudget
  BY DEF RowInv
<1> QED
  BY <1>1, <1>2, InitControl, NextControl, NextRows, PTL DEF Spec

--------------------------------------------------------------------------------
(* What a command line is told                                              *)

(* The task writes budgets or an event on a connection of its own.          *)
Alone(t) == task[t].p.op \in {"upsert", "event"} /\ ~task[t].p.served
OwnRow(t) ==
  /\ task[t].out = task[t].wrote
  /\ task[t].at = "rowid" => task[t].got = {lastRow[t]}
  /\ task[t].at = "event_id" => task[t].got = lastRow[t]
ConnInv ==
  /\ DOMAIN lastRow = Connections
  /\ \A t \in Tasks : /\ task[t].at = "idle" => task[t].out = << >> /\ task[t].wrote = << >>
                      /\ Alone(t) => OwnRow(t)

(* An insert moves the last row of the connection it came by, and of no     *)
(* other.                                                                   *)
LEMMA InsertsOf ==
  ASSUME NEW t \in Tasks, Step(t)
  PROVE  lastRow' = lastRow \/ \E rowid : Inserted(t, rowid)
<1>1. CASE UpsertProject(t) \/ EnsureSession(t) \/ FindActive(t) \/ CreateSession(t)
  BY <1>1 DEF UpsertProject, EnsureSession, FindActive, CreateSession
<1>2. CASE PersistRequest(t) \/ PersistUsage(t) \/ UpdateById(t) \/ SelectBudget(t)
  BY <1>2 DEF PersistRequest, PersistUsage, UpdateById, SelectBudget
<1>3. CASE WriteBudget(t) \/ LastRowId(t) \/ ResetBudget(t)
  BY <1>3 DEF WriteBudget, LastRowId, ResetBudget
<1>4. CASE Reserve(t)
  BY <1>4 DEF Reserve
<1>5. CASE EstimateBudgets(t) \/ EstimateTotals(t) \/ ReportRows(t) \/ DashboardRows(t)
  BY <1>5 DEF EstimateBudgets, EstimateTotals, ReportRows, DashboardRows
<1>6. CASE ReportTotals(t) \/ InsertEvent(t) \/ EventId(t) \/ Poll(t)
  BY <1>6 DEF ReportTotals, InsertEvent, EventId, Poll
<1> QED
  BY <1>1, <1>2, <1>3, <1>4, <1>5, <1>6 DEF Step

LEMMA OthersRows ==
  ASSUME DOMAIN lastRow = Connections, NEW t \in Tasks, Step(t)
  PROVE  /\ DOMAIN lastRow' = Connections
         /\ \A q \in Tasks \ {t} : lastRow'[q] = lastRow[q]
<1>1. Conn(t) \in {Server, t} /\ Server \notin Tasks
  BY TaskAssumption DEF Conn
<1>2. CASE lastRow' = lastRow
  BY <1>2
<1>3. ASSUME NEW rowid, Inserted(t, rowid)
      PROVE  /\ DOMAIN lastRow' = Connections
             /\ \A q \in Tasks \ {t} : lastRow'[q] = lastRow[q]
  BY <1>1, <1>3 DEF Inserted
<1> QED
  BY <1>2, <1>3, InsertsOf

LEMMA OwnAnswer ==
  ASSUME Control, ConnInv, NEW t \in Tasks, Step(t), Alone(t)
  PROVE  OwnRow(t)'
<1>1. task[t].out = task[t].wrote /\ Conn(t) = t /\ t \in DOMAIN lastRow
  BY DEF ConnInv, Alone, OwnRow, Conn, Connections
<1>2. ASSUME NEW at, Goto(t, at), at \notin {"rowid", "event_id"} PROVE OwnRow(t)'
  BY <1>1, <1>2, Gone DEF Becomes, OwnRow
<1>3. ASSUME NEW at, NEW found, Read(t, at, found), at \notin {"rowid", "event_id"}
      PROVE  OwnRow(t)'
  BY <1>1, <1>3, HasRead DEF Becomes, OwnRow
<1>4. ASSUME NEW id, Stored(t, id, id) PROVE OwnRow(t)'
  <2>1. NextUpsert(Tail(task[t].todo)) \in {"done", "by_id", "select"}
    BY DEF NextUpsert
  <2>2. Becomes(t, NextUpsert(Tail(task[t].todo)), Tail(task[t].todo), {},
                Append(task[t].wrote, id), Append(task[t].out, id))
    BY <1>4, HasStored
  <2> HIDE DEF NextUpsert
  <2>3. /\ task'[t].out = Append(task[t].out, id) /\ task'[t].wrote = Append(task[t].wrote, id)
        /\ task'[t].at = NextUpsert(Tail(task[t].todo))
    BY <2>2 DEF Becomes
  <2> QED
    BY <1>1, <2>1, <2>3 DEF OwnRow
<1>5. CASE UpdateById(t) \/ SelectBudget(t)
  BY <1>2, <1>3, <1>4, <1>5 DEF UpdateById, SelectBudget
<1>6. CASE WriteBudget(t)
  <2>1. CASE Inserted(t, nextBudget) /\ Read(t, "rowid", {nextBudget})
    <3>1. lastRow'[t] = nextBudget
      BY <1>1, <2>1 DEF Inserted
    <3>2. /\ task'[t].at = "rowid" /\ task'[t].got = {nextBudget}
          /\ task'[t].out = task[t].out /\ task'[t].wrote = task[t].wrote
      BY <2>1, HasRead DEF Becomes
    <3> QED
      BY <1>1, <3>1, <3>2 DEF OwnRow
  <2> QED
    BY <1>4, <1>6, <2>1 DEF WriteBudget
<1>7. CASE LastRowId(t)
  <2>1. task[t].got = {lastRow[t]}
    BY <1>7 DEF LastRowId, ConnInv, OwnRow
  <2>2. Stored(t, lastRow[t], lastRow[t])
    BY <1>1, <1>7, <2>1 DEF LastRowId
  <2> QED
    BY <1>4, <2>2
<1>8. CASE InsertEvent(t)
  <2>1. lastRow'[t] = Len(events')
    BY <1>1, <1>8 DEF InsertEvent, Inserted
  <2>2. /\ task'[t].at = "event_id" /\ task'[t].got = Len(events')
        /\ task'[t].out = task[t].out /\ task'[t].wrote = task[t].wrote
    BY <1>8, HasRead DEF InsertEvent, Becomes
  <2> QED
    BY <1>1, <2>1, <2>2 DEF OwnRow
<1>9. CASE EventId(t)
  <2>1. task[t].got = lastRow[t]
    BY <1>9 DEF EventId, ConnInv, OwnRow
  <2>2. task'[t].out = task'[t].wrote /\ task'[t].at = "done"
    BY <1>1, <1>9, <2>1, EventTold DEF Becomes
  <2> QED
    BY <2>2 DEF OwnRow
<1>10. task[t].at \in {"by_id", "select", "write", "rowid", "event", "event_id", "done"}
  <2>1. task[t].at \in States[task[t].p.op] /\ task[t].p.op \in {"upsert", "event"}
    BY DEF Control, IsTask, Alone
  <2> QED
    BY <2>1, StatesOf
<1>11. UpdateById(t) \/ SelectBudget(t) \/ WriteBudget(t) \/ LastRowId(t) \/ InsertEvent(t) \/ EventId(t)
  BY <1>10 DEF Step, UpsertProject, EnsureSession, FindActive, CreateSession, PersistRequest,
               PersistUsage, ResetBudget, Reserve, EstimateBudgets, EstimateTotals, ReportRows,
               DashboardRows, ReportTotals, Poll
<1> QED
  BY <1>5, <1>6, <1>7, <1>8, <1>9, <1>11

LEMMA NextConn == Control /\ ConnInv /\ [Next]_vars => ConnInv'
<1> SUFFICES ASSUME Control, ConnInv, [Next]_vars PROVE ConnInv'
  OBVIOUS
<1>1. ASSUME NEW t \in Tasks, Step(t) PROVE ConnInv'
  <2>1. Goes(t) /\ Others(t)
    BY <1>1, StepGoes DEF Goes
  <2>2. /\ DOMAIN lastRow' = Connections
        /\ \A q \in Tasks \ {t} : lastRow'[q] = lastRow[q]
    BY <1>1, OthersRows DEF ConnInv
  <2>3. Alone(t)' => OwnRow(t)'
    <3>1. Alone(t)' => Alone(t)
      BY <2>1 DEF Goes, Alone
    <3> QED
      BY <1>1, <3>1, OwnAnswer
  <2>4. task'[t].at # "idle"
    BY <1>1, Arrivals
  <2>5. ASSUME NEW q \in Tasks
        PROVE  /\ task'[q].at = "idle" => task'[q].out = << >> /\ task'[q].wrote = << >>
               /\ Alone(q)' => OwnRow(q)'
    <3>1. CASE q = t
      BY <2>3, <2>4, <3>1
    <3>2. CASE q # t
      <4>1. task'[q] = task[q] /\ lastRow'[q] = lastRow[q]
        BY <2>1, <2>2, <3>2 DEF Others
      <4> QED
        BY <4>1 DEF ConnInv, Alone, OwnRow
    <3> QED
      BY <3>1, <3>2
  <2> QED
    BY <2>2, <2>5 DEF ConnInv
<1>2. ASSUME NEW t \in Tasks, NEW p \in Programs, Begin(t, p) PROVE ConnInv'
  <2>1. /\ lastRow' = lastRow /\ Others(t) /\ task[t].at = "idle"
        /\ task'[t].at \notin {"idle", "rowid", "event_id"}
        /\ task'[t].out = task[t].out /\ task'[t].wrote = task[t].wrote
    BY <1>2, Beginnings DEF Begin
  <2>2. ASSUME NEW q \in Tasks
        PROVE  /\ task'[q].at = "idle" => task'[q].out = << >> /\ task'[q].wrote = << >>
               /\ Alone(q)' => OwnRow(q)'
    <3>1. CASE q = t
      BY <2>1, <3>1 DEF ConnInv, OwnRow
    <3>2. CASE q # t
      <4>1. task'[q] = task[q] /\ lastRow'[q] = lastRow[q]
        BY <2>1, <3>2 DEF Others
      <4> QED
        BY <4>1 DEF ConnInv, Alone, OwnRow
    <3> QED
      BY <3>1, <3>2
  <2> QED
    BY <2>1, <2>2 DEF ConnInv
<1>3. CASE Tick \/ UNCHANGED vars
  BY <1>3 DEF Tick, vars, ConnInv, Alone, OwnRow
<1> QED
  BY <1>1, <1>2, <1>3 DEF Next

(* A command line is told the ids of the rows it wrote, whatever the server *)
(* and other command lines insert between its INSERT and its SELECT         *)
(* last_insert_rowid(): that is of its own connection.                      *)
THEOREM OwnRowsTold == Spec => []AnswersOwnRow
<1>1. Init => ConnInv
  <2> SUFFICES ASSUME Init PROVE ConnInv
    OBVIOUS
  <2>1. /\ DOMAIN lastRow = Connections
        /\ \A t \in Tasks : task[t] = Idle
    BY DEF Init
  <2>2. Idle.out = << >> /\ Idle.wrote = << >> /\ Idle.p.op = "none"
    BY DEF Idle
  <2> QED
    BY <2>1, <2>2 DEF ConnInv, Alone
<1>2. ConnInv => AnswersOwnRow
  BY DEF ConnInv, Alone, OwnRow, AnswersOwnRow
<1> QED
  BY <1>1, <1>2, InitControl, NextControl, NextConn, PTL DEF Spec

--------------------------------------------------------------------------------
(* Sessions                                                                 *)

(* The sessions that FindActive's tasks made for a project.                 *)
MadeFor(project) == {s \in DOMAIN sessions \cap Tasks : sessions[s].project = project}
Making(t) == task[t].at = "create"

(* A task that is about to make a session found none younger than the       *)
(* window, and no other task is about to make one: or it was raced for.     *)
SessionTimes == now \in Nat /\ \A s \in DOMAIN sessions : sessions[s].at \in 0..now
NoneYoung ==
  \A t \in Tasks : Making(t) =>
    Project(t) \in raced \/ \A s \in MadeFor(Project(t)) : sessions[s].at + SessionWindow < now
Makers ==
  \A t, u \in Tasks :
    t # u /\ Making(t) /\ Making(u) /\ Project(t) = Project(u) => Project(t) \in raced
SessionInv == SessionTimes /\ OneSessionPerWindow /\ NoneYoung /\ Makers

Made(t) ==
  /\ Making(t) /\ raced' = raced
  /\ sessions' = Put(sessions, t, [project |-> Project(t), at |-> now])

(* A session is made, or those of tasks stay as they are.                   *)
LEMMA SessionsFrom ==
  ASSUME Control, NEW t \in Tasks, Step(t), SessionTimes
  PROVE  /\ SessionTimes' /\ now' = now
         /\ \/ Made(t)
            \/ /\ DOMAIN sessions' \cap Tasks = DOMAIN sessions \cap Tasks
               /\ \A s \in DOMAIN sessions : sessions'[s] = sessions[s]
<1>1. now' = now
  BY Origins
<1>2. ASSUME NEW id, sessions' = Put(sessions, id, [project |-> Project(t), at |-> now])
      PROVE  SessionTimes'
  BY <1>1, <1>2 DEF SessionTimes, Put
<1>3. CASE EnsureSession(t)
  <2> DEFINE id == task[t].p.session
  <2>1. task[t].p.op = "request" /\ task[t].p \in Programs
    BY <1>3, ProgramAt DEF EnsureSession
  <2>2. id \notin Tasks
    BY <2>1, ProgramAssumption
  <2>3. \/ sessions' = sessions
        \/ id \notin DOMAIN sessions /\ sessions' = Put(sessions, id, [project |-> Project(t), at |-> now])
    BY <1>3 DEF EnsureSession, NewSession
  <2> HIDE DEF id
  <2>4. CASE sessions' = sessions
    BY <1>1, <2>4 DEF SessionTimes
  <2>5. CASE id \notin DOMAIN sessions /\ sessions' = Put(sessions, id, [project |-> Project(t), at |-> now])
    BY <1>1, <1>2, <2>2, <2>5 DEF Put
  <2> QED
    BY <2>3, <2>4, <2>5
<1>4. CASE CreateSession(t)
  BY <1>1, <1>2, <1>4 DEF CreateSession, NewSession, Made, Making
<1>5. CASE sessions' = sessions
  BY <1>1, <1>5 DEF SessionTimes
<1> QED
  BY <1>3, <1>4, <1>5, Origins

(* A task is about to make a session only once it has found none.           *)
LEMMA FoundNoSession ==
  ASSUME Control, NEW t \in Tasks, Step(t), Making(t)', SessionTimes
  PROVE  /\ sessions' = sessions
         /\ \A s \in MadeFor(Project(t)) : sessions[s].at + SessionWindow < now
         /\ \A u \in Tasks : Making(u) /\ Project(u) = Project(t) => Project(t) \in raced'
<1>1. FindActive(t)
  BY Arrivals DEF Making
<1>2. ASSUME NEW s, Read(t, "request_row", s) PROVE FALSE
  <2>1. task'[t].at = "request_row"
    BY <1>2, HasRead DEF Becomes
  <2> QED
    BY <2>1 DEF Making
<1>3. /\ Active(Project(t)) = {} /\ sessions' = sessions
      /\ raced' = IF \E u \in Tasks : task[u].at = "create" /\ Project(u) = Project(t)
                  THEN raced \cup {Project(t)} ELSE raced
  BY <1>1, <1>2 DEF FindActive, tables
<1>4. ASSUME NEW s \in MadeFor(Project(t)) PROVE sessions[s].at + SessionWindow < now
  <2>1. ~(sessions[s].at >= now - SessionWindow) /\ s \in DOMAIN sessions
    BY <1>3, <1>4 DEF Active, MadeFor
  <2>2. sessions[s].at \in Nat /\ now \in Nat
    BY <2>1 DEF SessionTimes
  <2> QED
    BY <2>1, <2>2, WindowAssumption
<1>5. \A u \in Tasks : Making(u) /\ Project(u) = Project(t) => Project(t) \in raced'
  BY <1>3 DEF Making
<1> QED
  BY <1>3, <1>4, <1>5

LEMMA StepSessions ==
  ASSUME Control, SessionInv, NEW t \in Tasks, Step(t)
  PROVE  SessionInv'
<1>1. Goes(t) /\ Others(t)
  BY StepGoes DEF Goes
<1>2. ASSUME NEW q \in Tasks \ {t} PROVE Making(q)' = Making(q) /\ Project(q)' = Project(q)
  BY <1>1 DEF Others, Making, Project
<1>3. raced \subseteq raced' /\ Project(t)' = Project(t)
  BY <1>1, RacedGrows DEF Goes, Project
<1>4. Makers'
  <2>1. ASSUME NEW u \in Tasks \ {t}, Making(t)', Making(u)', Project(t)' = Project(u)'
        PROVE  Project(t)' \in raced'
    BY <1>2, <1>3, <2>1, FoundNoSession DEF SessionInv
  <2>2. ASSUME NEW q \in Tasks \ {t}, NEW u \in Tasks \ {t}, q # u, Making(q)', Making(u)',
               Project(q)' = Project(u)'
        PROVE  Project(q)' \in raced'
    BY <1>2, <1>3, <2>2 DEF SessionInv, Makers
  <2> QED
    BY <2>1, <2>2 DEF Makers
<1>5. SessionTimes' /\ now' = now
  BY SessionsFrom DEF SessionInv
<1>6. CASE /\ DOMAIN sessions' \cap Tasks = DOMAIN sessions \cap Tasks
           /\ \A s \in DOMAIN sessions : sessions'[s] = sessions[s]
  <2>1. OneSessionPerWindow'
    BY <1>3, <1>6 DEF SessionInv, OneSessionPerWindow
  <2>2. \A project : MadeFor(project)' = MadeFor(project)
    BY <1>6 DEF MadeFor
  <2>3. \A project : \A s \in MadeFor(project) : sessions'[s] = sessions[s]
    BY <1>6 DEF MadeFor
  <2>4. ASSUME NEW q \in Tasks \ {t}, Making(q)', Project(q)' \notin raced',
               NEW s \in MadeFor(Project(q))'
        PROVE  sessions'[s].at + SessionWindow < now'
    <3>1. Making(q) /\ Project(q) \notin raced /\ s \in MadeFor(Project(q))
      BY <1>2, <1>3, <2>2, <2>4
    <3> QED
      BY <1>5, <2>3, <3>1 DEF SessionInv, NoneYoung
  <2>5. ASSUME Making(t)', NEW s \in MadeFor(Project(t))'
        PROVE  sessions'[s].at + SessionWindow < now'
    <3>1. s \in MadeFor(Project(t))
      BY <1>3, <2>2, <2>5
    <3> QED
      BY <1>5, <2>3, <2>5, <3>1, FoundNoSession DEF SessionInv
  <2>6. NoneYoung'
    BY <2>4, <2>5 DEF NoneYoung
  <2> QED
    BY <1>4, <1>5, <2>1, <2>6 DEF SessionInv
<1>7. CASE Made(t)
  <2> DEFINE project == Project(t)
  <2>1. /\ DOMAIN sessions' = DOMAIN sessions \cup {t}
        /\ sessions'[t].project = project /\ sessions'[t].at = now
        /\ \A s \in DOMAIN sessions \ {t} : sessions'[s] = sessions[s]
    BY <1>7 DEF Made, Put
  <2>2. Making(t) /\ raced' = raced
    BY <1>7 DEF Made
  <2>3. ~Making(t)'
    <3>1. CASE CreateSession(t)
      BY <3>1, HasRead DEF CreateSession, Becomes, Making
    <3>2. CASE FindActive(t)
      BY <2>2, <3>2 DEF FindActive, Making
    <3>3. task'[t].at = "create" => FindActive(t)
      BY Arrivals
    <3> QED
      BY <3>2, <3>3 DEF Making
  <2>4. project \in raced \/ \A s \in MadeFor(project) : sessions[s].at + SessionWindow < now
    BY <2>2 DEF SessionInv, NoneYoung
  <2>5. \A q \in Tasks \ {t} : Making(q)' /\ Project(q)' = project => project \in raced
    BY <1>2, <2>2 DEF SessionInv, Makers
  <2> HIDE DEF project
  <2>6. ASSUME NEW s \in (DOMAIN sessions \cap Tasks) \ {t}, sessions[s].project = project,
               sessions[s].at \in now - SessionWindow .. now + SessionWindow
                 \/ now \in sessions[s].at - SessionWindow .. sessions[s].at + SessionWindow
        PROVE  project \in raced
    <3>1. sessions[s].at \in Nat /\ now \in Nat /\ s \in MadeFor(project)
      BY <2>6 DEF SessionInv, SessionTimes, MadeFor
    <3>2. ~(sessions[s].at + SessionWindow < now)
      BY <2>6, <3>1, WindowAssumption
    <3> QED
      BY <2>4, <3>1, <3>2
  <2>7. OneSessionPerWindow'
    <3> SUFFICES ASSUME NEW s \in DOMAIN sessions' \cap Tasks, NEW u \in DOMAIN sessions' \cap Tasks,
                        s # u, sessions'[s].project = sessions'[u].project,
                        sessions'[s].at \in sessions'[u].at - SessionWindow
                                            .. sessions'[u].at + SessionWindow
                 PROVE  sessions'[s].project \in raced'
      BY DEF OneSessionPerWindow
    <3>1. CASE s = t
      BY <2>1, <2>2, <2>6, <3>1
    <3>2. CASE u = t
      BY <2>1, <2>2, <2>6, <3>2
    <3>3. CASE s # t /\ u # t
      BY <2>1, <2>2, <3>3 DEF SessionInv, OneSessionPerWindow
    <3> QED
      BY <3>1, <3>2, <3>3
  <2>8. NoneYoung'
    <3> SUFFICES ASSUME NEW q \in Tasks, Making(q)', Project(q)' \notin raced',
                        NEW s \in MadeFor(Project(q))'
                 PROVE  sessions'[s].at + SessionWindow < now'
      BY DEF NoneYoung
    <3>1. q \in Tasks \ {t}
      BY <2>3
    <3>2. Making(q) /\ Project(q)' = Project(q) /\ Project(q) \notin raced
      BY <1>2, <2>2, <3>1
    <3>3. s \in DOMAIN sessions' \cap Tasks /\ sessions'[s].project = Project(q)
      BY <3>2 DEF MadeFor
    <3>4. s # t
      BY <2>1, <2>5, <3>1, <3>2, <3>3
    <3>5. s \in MadeFor(Project(q)) /\ sessions'[s] = sessions[s]
      BY <2>1, <3>3, <3>4 DEF MadeFor
    <3> QED
      BY <1>5, <3>1, <3>2, <3>5 DEF SessionInv, NoneYoung
  <2> QED
    BY <1>4, <1>5, <2>7, <2>8 DEF SessionInv
<1> QED
  BY <1>6, <1>7, SessionsFrom DEF SessionInv

LEMMA NextSessions == Control /\ SessionInv /\ [Next]_vars => SessionInv'
<1> SUFFICES ASSUME Control, SessionInv, [Next]_vars PROVE SessionInv'
  OBVIOUS
<1>1. ASSUME NEW t \in Tasks, NEW p \in Programs, Begin(t, p) PROVE SessionInv'
  <2>1. /\ sessions' = sessions /\ now' = now /\ raced' = raced /\ ~Making(t)'
        /\ \A q \in Tasks \ {t} : task'[q] = task[q]
    BY <1>1, Beginnings DEF Making, Others, tables
  <2>2. ASSUME NEW q \in Tasks \ {t} PROVE Making(q)' = Making(q) /\ Project(q)' = Project(q)
    BY <2>1 DEF Making, Project
  <2>3. NoneYoung'
    BY <2>1, <2>2 DEF SessionInv, NoneYoung, MadeFor
  <2>4. Makers'
    BY <2>1, <2>2 DEF SessionInv, Makers
  <2> QED
    BY <2>1, <2>3, <2>4 DEF SessionInv, SessionTimes, OneSessionPerWindow
<1>2. CASE Tick
  <2>1. now' = now + 1 /\ sessions' = sessions /\ raced' = raced /\ task' = task
    BY <1>2 DEF Tick, tables
  <2>2. SessionTimes'
    BY <2>1 DEF SessionInv, SessionTimes
  <2>3. NoneYoung'
    <3> SUFFICES ASSUME NEW q \in Tasks, Making(q), Project(q) \notin raced,
                        NEW s \in MadeFor(Project(q))
                 PROVE  sessions[s].at + SessionWindow < now + 1
      BY <2>1 DEF NoneYoung, Making, Project, MadeFor
    <3>1. sessions[s].at + SessionWindow < now
      BY DEF SessionInv, NoneYoung
    <3>2. sessions[s].at \in Nat /\ now \in Nat
      BY DEF SessionInv, SessionTimes, MadeFor
    <3> QED
      BY <3>1, <3>2, WindowAssumption
  <2> QED
    BY <2>1, <2>2, <2>3 DEF SessionInv, OneSessionPerWindow, Makers, Making, Project
<1>3. CASE UNCHANGED vars
  BY <1>3 DEF vars, tables, SessionInv, SessionTimes, OneSessionPerWindow, NoneYoung, Makers,
              Making, Project, MadeFor
<1> QED
  BY <1>1, <1>2, <1>3, StepSessions DEF Next

(* A project gets a second session within the window only when two first    *)
(* requests looked for one before either of them had made it (find_active   *)
(* and the INSERT of resolve_attribution are two statements).               *)
THEOREM SessionsUnique == Spec => []OneSessionPerWindow
<1>1. Init => SessionInv
  <2> SUFFICES ASSUME Init PROVE SessionInv
    OBVIOUS
  <2>1. now = 0 /\ sessions = << >> /\ \A t \in Tasks : task[t].at = "idle"
    BY DEF Init, Idle
  <2> QED
    BY <2>1 DEF SessionInv, SessionTimes, OneSessionPerWindow, NoneYoung, Makers, Making
<1>2. SessionInv => OneSessionPerWindow
  BY DEF SessionInv
<1> QED
  BY <1>1, <1>2, InitControl, NextControl, NextSessions, PTL DEF Spec

--------------------------------------------------------------------------------
(* The event stream                                                         *)

LEMMA MaxIs ==
  ASSUME NEW S \in SUBSET Int, NEW m \in S, \A x \in S : x <= m
  PROVE  Max(S) = m
<1>1. \A y \in S : m >= y
  OBVIOUS
<1>2. ASSUME NEW x \in S, \A y \in S : x >= y PROVE x = m
  BY <1>2
<1> QED
  BY <1>1, <1>2 DEF Max

LEMMA MaxOfTwo ==
  ASSUME NEW i \in Int, NEW k \in Int
  PROVE  Max({i, k}) = IF i <= k THEN k ELSE i
<1>1. CASE i <= k
  BY <1>1, MaxIs
<1>2. CASE ~(i <= k)
  BY <1>2, MaxIs
<1> QED
  BY <1>1, <1>2

LEMMA MinOfTwo ==
  ASSUME NEW i \in Int, NEW k \in Int
  PROVE  Min({i, k}) \in Int /\ (i >= 0 /\ k >= 0 => Min({i, k}) >= 0)
<1>1. Min({i, k}) \in {i, k}
  <2>1. \E x \in {i, k} : \A y \in {i, k} : x <= y
    OBVIOUS
  <2> QED
    BY <2>1 DEF Min
<1> QED
  BY <1>1

(* The n ids that follow `first`.                                           *)
Run(first, n) == [i \in 1..n |-> first + i]

LEMMA RunJoins ==
  ASSUME NEW first \in Int, NEW m \in Nat, NEW n \in Nat
  PROVE  Run(first, m) \o Run(first + m, n) = Run(first, m + n)
<1> DEFINE s == Run(first, m)
           u == Run(first + m, n)
<1>1. s \in Seq(Int) /\ u \in Seq(Int) /\ Len(s) = m /\ Len(u) = n
  BY DEF Run
<1> HIDE DEF s, u
<1>2. /\ s \o u \in Seq(Int) /\ Len(s \o u) = m + n
      /\ \A i \in 1 .. m + n : (s \o u)[i] = IF i <= m THEN s[i] ELSE u[i - m]
  BY <1>1, ConcatProperties
<1>3. Run(first, m + n) \in Seq(Int) /\ Len(Run(first, m + n)) = m + n
  BY DEF Run
<1>4. ASSUME NEW i \in 1 .. m + n PROVE (s \o u)[i] = Run(first, m + n)[i]
  <2>1. CASE i <= m
    <3>1. s[i] = first + i
      BY <2>1 DEF Run, s
    <3> QED
      BY <1>2, <2>1, <3>1 DEF Run
  <2>2. CASE ~(i <= m)
    <3>1. i - m \in 1..n /\ u[i - m] = (first + m) + (i - m)
      BY <2>2 DEF Run, u
    <3> QED
      BY <1>2, <2>2, <3>1 DEF Run
  <2> QED
    BY <2>1, <2>2
<1>5. s \o u = Run(first, m + n)
  BY <1>2, <1>3, <1>4, SeqEqual
<1> QED
  BY <1>5 DEF s, u

First(t) == Max({task[t].p.since, 0})

(* What a stream has delivered, and what all start from.                    *)
Fed(t) == task[t].p.op = "tail" => \E n \in Nat : task[t].out = Run(First(t), n)
FeedInv ==
  /\ events \in Seq(Tasks)
  /\ \A t \in Tasks : Fed(t) /\ (task[t].at = "idle" => task[t].out = << >>)

(* The cursor is the last id delivered, or since_id.                        *)
LEMMA CursorIs ==
  ASSUME NEW since \in Int, NEW first \in Nat, since <= first, NEW n \in Nat
  PROVE  Max({since} \cup ToSet(Run(first, n))) = IF n = 0 THEN since ELSE first + n
<1> DEFINE S == {since} \cup ToSet(Run(first, n))
           m == IF n = 0 THEN since ELSE first + n
<1>1. ToSet(Run(first, n)) = {first + i : i \in 1..n}
  BY DEF ToSet, Run
<1>2. \A x : x \in S <=> x = since \/ \E i \in 1..n : x = first + i
  BY <1>1
<1>3. m \in Int
  OBVIOUS
<1>4. m \in S
  <2>1. n # 0 => n \in 1..n
    OBVIOUS
  <2> QED
    BY <1>2, <2>1
<1> HIDE DEF S
<1>5. S \in SUBSET Int
  BY <1>2
<1>6. \A x \in S : x <= m
  BY <1>2
<1> HIDE DEF m
<1>7. Max(S) = m
  BY <1>3, <1>4, <1>5, <1>6, MaxIs
<1> QED
  BY <1>7 DEF S, m

(* What follows the cursor is the next batch.                               *)
LEMMA BatchIs ==
  ASSUME NEW cursor \in Int, NEW from \in Nat, from = IF cursor <= 0 THEN 0 ELSE cursor,
         NEW limit \in Nat, events \in Seq(Tasks), cursor < Len(events)
  PROVE  \E k \in Nat : EventsSince(cursor, limit) = Run(from, k)
<1>1. Max({cursor, 0}) = from
  BY MaxOfTwo
<1>2. Len(events) \in Nat
  OBVIOUS
<1>3. Len(events) - from \in Int /\ Len(events) - from >= 0
  BY <1>2
<1> DEFINE k == Min({limit, Len(events) - from})
<1>4. k \in Nat
  <2>1. \A rest \in Int : rest >= 0 => Min({limit, rest}) \in Nat
    BY MinOfTwo
  <2> QED
    BY <1>3, <2>1
<1>5. EventsSince(cursor, limit) = Run(from, k)
  BY <1>1 DEF EventsSince, Run
<1> HIDE DEF k
<1> QED
  BY <1>4, <1>5

LEMMA PolledFeed ==
  ASSUME Control, FeedInv, NEW t \in Tasks, Poll(t)
  PROVE  Fed(t)'
<1>1. task[t].p.op = "tail" /\ task[t].p \in Programs
  BY ProgramAt DEF Poll
<1>2. task[t].p.since \in Int /\ task[t].p.limit \in Nat
  BY <1>1, ProgramAssumption
<1> DEFINE since == task[t].p.since
           limit == task[t].p.limit
           out == task[t].out
           first == First(t)
<1>3. PICK n \in Nat : out = Run(first, n)
  BY <1>1 DEF FeedInv, Fed
<1>4. Cursor(t) = Max({since} \cup ToSet(out)) /\ Cursor(t) < Len(events) /\ first = Max({since, 0})
  BY DEF Poll, Cursor, First
<1>5. first \in Nat /\ since <= first /\ first = IF since <= 0 THEN 0 ELSE since
  BY <1>2, <1>4, MaxOfTwo
<1>6. /\ task'[t].out = out \o EventsSince(Cursor(t), limit)
      /\ task'[t].p = task[t].p
  BY Polled DEF Becomes
<1>7. First(t)' = first
  BY <1>6 DEF First
<1> HIDE DEF since, limit, out, first
<1>8. Cursor(t) = IF n = 0 THEN since ELSE first + n
  <2>1. Cursor(t) = Max({since} \cup ToSet(Run(first, n)))
    BY <1>3, <1>4
  <2>2. since \in Int
    BY <1>2 DEF since
  <2> QED
    BY ONLY <1>5, <2>1, <2>2, n \in Nat, CursorIs
<1>9. \E k \in Nat : EventsSince(Cursor(t), limit) = Run(first + n, k)
  <2> DEFINE cursor == Cursor(t)
  <2>1. limit \in Nat /\ since \in Int /\ events \in Seq(Tasks)
    BY <1>2 DEF since, limit, FeedInv
  <2>2. cursor \in Int /\ first + n \in Nat /\ first + n = IF cursor <= 0 THEN 0 ELSE cursor
    BY <1>5, <1>8, <2>1
  <2>3. cursor < Len(events)
    BY <1>4
  <2> HIDE DEF cursor
  <2>4. \E k \in Nat : EventsSince(cursor, limit) = Run(first + n, k)
    BY ONLY <2>1, <2>2, <2>3, BatchIs
  <2> QED
    BY <2>4 DEF cursor
<1>10. PICK k \in Nat : EventsSince(Cursor(t), limit) = Run(first + n, k)
  BY <1>9
<1>11. task'[t].out = Run(first, n + k)
  <2>1. task'[t].out = Run(first, n) \o Run(first + n, k)
    BY <1>3, <1>6, <1>10
  <2>2. first \in Int
    BY <1>5
  <2>3. Run(first, n) \o Run(first + n, k) = Run(first, n + k)
    BY ONLY <2>2, n \in Nat, k \in Nat, RunJoins
  <2> QED
    BY <2>1, <2>3
<1> QED
  BY <1>7, <1>11 DEF Fed

LEMMA NextFeed == Control /\ FeedInv /\ [Next]_vars => FeedInv'
<1> SUFFICES ASSUME Control, FeedInv, [Next]_vars PROVE FeedInv'
  OBVIOUS
<1>1. ASSUME NEW t \in Tasks, Step(t) PROVE FeedInv'
  <2>1. Goes(t) /\ Others(t)
    BY <1>1, StepGoes DEF Goes
  <2>2. events' \in Seq(Tasks)
    <3>1. CASE InsertEvent(t)
      BY <3>1 DEF InsertEvent, FeedInv
    <3> QED
      BY <1>1, <3>1, Origins DEF FeedInv
  <2>3. Fed(t)'
    <3>1. CASE task[t].p.op = "tail"
      <4>1. Poll(t)
        BY <1>1, <2>1, <3>1, StatesOf, Arrivals DEF Goes
      <4> QED
        BY <4>1, PolledFeed
    <3>2. CASE task[t].p.op # "tail"
      BY <2>1, <3>2 DEF Goes, Fed
    <3> QED
      BY <3>1, <3>2
  <2>4. task'[t].at # "idle"
    BY <1>1, Arrivals
  <2>5. ASSUME NEW q \in Tasks \ {t}
        PROVE  Fed(q)' /\ (task'[q].at = "idle" => task'[q].out = << >>)
    BY <2>1 DEF Others, FeedInv, Fed, First
  <2> QED
    BY <2>2, <2>3, <2>4, <2>5 DEF FeedInv
<1>2. ASSUME NEW t \in Tasks, NEW p \in Programs, Begin(t, p) PROVE FeedInv'
  <2>1. /\ events' = events /\ Others(t) /\ task[t].at = "idle" /\ task'[t].at # "idle"
        /\ task'[t].out = task[t].out /\ task'[t].p = p
    BY <1>2, Beginnings DEF Begin, tables
  <2>2. Fed(t)'
    <3>1. task'[t].out = << >>
      BY <2>1 DEF FeedInv
    <3>2. \A first : Run(first, 0) = << >>
      BY DEF Run
    <3>3. 0 \in Nat
      OBVIOUS
    <3> QED
      BY <3>1, <3>2, <3>3 DEF Fed
  <2>3. ASSUME NEW q \in Tasks \ {t}
        PROVE  Fed(q)' /\ (task'[q].at = "idle" => task'[q].out = << >>)
    BY <2>1 DEF Others, FeedInv, Fed, First
  <2> QED
    BY <2>1, <2>2, <2>3 DEF FeedInv
<1>3. CASE Tick \/ UNCHANGED vars
  BY <1>3 DEF Tick, vars, tables, FeedInv, Fed, First
<1> QED
  BY <1>1, <1>2, <1>3 DEF Next

(* A stream of events delivers every event after since_id once and in       *)
(* order, whatever is inserted between its polls (fetch_events_since).      *)
THEOREM FeedInOrder == Spec => []FeedComplete
<1>1. Init => FeedInv
  <2> SUFFICES ASSUME Init PROVE FeedInv
    OBVIOUS
  <2>1. events = << >> /\ \A t \in Tasks : task[t] = Idle
    BY DEF Init
  <2>2. Idle.p.op = "none" /\ Idle.out = << >>
    BY DEF Idle
  <2> QED
    BY <2>1, <2>2 DEF FeedInv, Fed
<1>2. Control /\ FeedInv => FeedComplete
  <2> SUFFICES ASSUME Control, FeedInv, NEW t \in Tasks, task[t].p.op = "tail"
               PROVE  task[t].out = Run(First(t), Len(task[t].out))
    BY DEF FeedComplete, Run, First
  <2>1. PICK n \in Nat : task[t].out = Run(First(t), n)
    BY DEF FeedInv, Fed
  <2>2. Len(Run(First(t), n)) = n
    BY DEF Run
  <2> QED
    BY <2>1, <2>2
<1> QED
  BY <1>1, <1>2, InitControl, NextControl, NextFeed, PTL DEF Spec

--------------------------------------------------------------------------------
(* Estimates                                                                *)

Estimated(j) ==
  j.p.op = "estimate" /\ j.at = "done" =>
    (j.out.status = "over_hard_limit" <=>
       \E b \in DOMAIN j.out.listed :
         (IF b \in DOMAIN j.out.totals THEN j.out.totals[b] ELSE 0) + j.p.cost > j.out.listed[b].limit)
EstimateInv == \A t \in Tasks : Estimated(task[t])

LEMMA StatusIs ==
  ASSUME NEW listed, NEW cost
  PROVE  Status(listed, cost) = "over_hard_limit"
           <=> \E b \in DOMAIN listed : Total(b) + cost > listed[b].limit
BY DEF Status

LEMMA NextEstimates == Control /\ EstimateInv /\ [Next]_vars => EstimateInv'
<1> SUFFICES ASSUME Control, EstimateInv, [Next]_vars PROVE EstimateInv'
  OBVIOUS
<1>1. ASSUME NEW t \in Tasks, Step(t) PROVE EstimateInv'
  <2>1. Goes(t) /\ Others(t)
    BY <1>1, StepGoes DEF Goes
  <2>2. ASSUME task'[t].p.op = "estimate", task'[t].at = "done" PROVE Estimated(task'[t])
    <3>1. EstimateTotals(t)
      BY <1>1, <2>1, <2>2, Arrivals DEF Goes
    <3> DEFINE listed == task[t].got
               cost == task[t].p.cost
               status == Status(listed, cost)
               out == [status |-> status, listed |-> listed, totals |-> spent]
    <3>2. task'[t].out = out /\ task'[t].p = task[t].p
      BY <3>1, Answered DEF EstimateTotals, Becomes
    <3>3. status = "over_hard_limit" <=> \E b \in DOMAIN listed : Total(b) + cost > listed[b].limit
      BY StatusIs
    <3> HIDE DEF status
    <3>4. out.status = status /\ out.listed = listed /\ out.totals = spent
      OBVIOUS
    <3> HIDE DEF out
    <3> QED
      BY <3>2, <3>3, <3>4 DEF Estimated, Total
  <2>3. Estimated(task'[t])
    BY <2>2 DEF Estimated
  <2> QED
    BY <2>1, <2>3 DEF Others, EstimateInv
<1>2. ASSUME NEW t \in Tasks, NEW p \in Programs, Begin(t, p) PROVE EstimateInv'
  <2>1. Others(t) /\ task'[t].p = p /\ (task'[t].at = "done" => p.op = "upsert")
    BY <1>2, Beginnings
  <2>2. Estimated(task'[t])
    BY <2>1 DEF Estimated
  <2> QED
    BY <2>1, <2>2 DEF Others, EstimateInv
<1>3. CASE Tick \/ UNCHANGED vars
  BY <1>3 DEF Tick, vars, EstimateInv
<1> QED
  BY <1>1, <1>2, <1>3 DEF Next

(* A reservation is refused exactly when an estimate that saw the present   *)
(* budgets and totals said so: the ledger and build_estimate_budget_summary *)
(* compare alike.                                                           *)
THEOREM EstimatesForetell == Spec => EstimateForetells
<1> DEFINE Foretold ==
      \A t, u \in Tasks :
        /\ task[t].p.op = "estimate" /\ task[t].at = "done"
        /\ task[t].out.listed = budgets /\ task[t].out.totals = spent
        /\ task[u].at = "reserve" /\ task'[u].at = "done" /\ task[u].p.cost = task[t].p.cost
        => (task'[u].out = "denied" <=> task[t].out.status = "over_hard_limit")
<1>1. Init => EstimateInv
  <2>1. Init => \A t \in Tasks : task[t] = Idle
    BY DEF Init
  <2>2. Idle.p.op = "none"
    BY DEF Idle
  <2> QED
    BY <2>1, <2>2 DEF EstimateInv, Estimated
<1>2. Control /\ EstimateInv /\ [Next]_vars => [Foretold]_vars
  <2> SUFFICES ASSUME Control, EstimateInv, Next, NEW t \in Tasks, NEW u \in Tasks,
                      task[t].p.op = "estimate", task[t].at = "done",
                      task[t].out.listed = budgets, task[t].out.totals = spent,
                      task[u].at = "reserve", task'[u].at = "done", task[u].p.cost = task[t].p.cost
               PROVE  task'[u].out = "denied" <=> task[t].out.status = "over_hard_limit"
    OBVIOUS
  <2>1. Reserve(u)
    <3>1. ASSUME NEW q \in Tasks, Step(q) PROVE Reserve(u)
      <4>1. q = u
        BY <3>1, StepGoes DEF Goes, Others
      <4>2. task[u].p.op = "reserve"
        BY ProgramAt
      <4> QED
        BY <3>1, <4>1, <4>2, Arrivals
    <3>2. ASSUME NEW q \in Tasks, NEW p \in Programs, Begin(q, p) PROVE FALSE
      <4>1. Others(q) /\ task[q].p.op = "none"
        BY <3>2, Beginnings
      <4>2. task[u].p.op = "reserve"
        BY ProgramAt
      <4> QED
        BY <4>1, <4>2 DEF Others
    <3> QED
      BY <3>1, <3>2 DEF Next, Tick
  <2>2. task'[u].out = "denied" <=> Refuses(task[u].p.cost)
    <3>1. ASSUME NEW out, Answer(u, out) PROVE task'[u].out = out
      BY <3>1, Answered DEF Becomes
    <3> QED
      BY <2>1, <3>1 DEF Reserve
  <2>3. task[t].out.status = "over_hard_limit"
          <=> \E b \in DOMAIN budgets : Total(b) + task[t].p.cost > budgets[b].limit
    BY DEF EstimateInv, Estimated, Total
  <2> QED
    BY <2>2, <2>3 DEF Refuses
<1> HIDE DEF Foretold
<1>3. [][Foretold]_vars => EstimateForetells
  BY DEF Foretold, EstimateForetells
<1> QED
  BY <1>1, <1>2, <1>3, InitControl, NextControl, NextEstimates, PTL DEF Spec

--------------------------------------------------------------------------------
(* Reports                                                                  *)

(* The usage that is there belongs to tasks that are done.                  *)
UsageSound ==
  /\ IsFiniteSet(DOMAIN usage)
  /\ \A t \in DOMAIN usage : /\ t \in Tasks /\ t \in DOMAIN requests
                              /\ usage[t] \in Nat /\ task[t].at = "done"
  /\ \A t \in Tasks : task[t].at = "usage_row" => t \in DOMAIN requests

(* A first query shows no more than there is.                               *)
Below(r) ==
  /\ r.requests \in Nat /\ r.requests <= Cardinality(DOMAIN usage)
  /\ r.cost \in Nat /\ r.cost <= Cost(DOMAIN usage)
  /\ r.groups \in Nat /\ r.groups <= Cardinality(Groups)
PagesBelow == \A t \in Tasks : task[t].at = "report_totals" => Below(task[t].got)
TotalsInv == UsageSound /\ PagesBelow /\ TotalsCoverPage

LEMMA CostSums == \A ts : Cost(ts) = SumOver(usage, ts)
BY DEF Cost, SumOver

LEMMA CostSumsNext == \A ts : Cost(ts)' = SumOver(usage', ts)
<1>1. (\A ts : Cost(ts) = SumOver(usage, ts))'
  BY CostSums, PTL
<1> QED
  BY <1>1

Sizes ==
  /\ IsFiniteSet(Groups) /\ Cardinality(Groups) \in Nat
  /\ Cardinality(DOMAIN usage) \in Nat /\ Cost(DOMAIN usage) \in Nat

LEMMA SizesOf == UsageSound => Sizes
<1> SUFFICES ASSUME UsageSound PROVE Sizes
  OBVIOUS
<1>1. IsFiniteSet(DOMAIN usage) /\ \A t \in DOMAIN usage : usage[t] \in Nat
  BY DEF UsageSound
<1>2. IsFiniteSet(Groups)
  <2> DEFINE f == [t \in DOMAIN usage |-> requests[t].project]
  <2>1. IsFiniteSet({f[t] : t \in DOMAIN usage})
    BY <1>1, ImageFinite
  <2>2. {f[t] : t \in DOMAIN usage} = Groups
    BY DEF Groups
  <2> QED
    BY <2>1, <2>2
<1>3. SumOver(usage, DOMAIN usage) \in Int /\ SumOver(usage, DOMAIN usage) >= 0
  BY <1>1, SumInt
<1> QED
  BY <1>1, <1>2, <1>3, CostSums, FS_CardinalityType DEF Sizes

LEMMA SizesNext == UsageSound' => Sizes'
<1> QED
  BY SizesOf, PTL

(* What is accounted stays, and adds up.                                    *)
LEMMA StepUsage ==
  ASSUME Control, UsageSound, NEW t \in Tasks, Step(t)
  PROVE  /\ UsageSound'
         /\ \A u \in DOMAIN usage : /\ u \in DOMAIN usage' /\ usage'[u] = usage[u]
                                    /\ requests'[u] = requests[u]
<1>1. Goes(t) /\ Others(t)
  BY StepGoes DEF Goes
<1>2. task[t].at = "usage_row" => t \notin DOMAIN usage
  BY DEF UsageSound
<1>3. t \in DOMAIN usage => FALSE
  <2>1. task[t].at = "done" => FALSE
    BY DEF Step, UpsertProject, EnsureSession, FindActive, CreateSession, PersistRequest,
           PersistUsage, UpdateById, SelectBudget, WriteBudget, LastRowId, ResetBudget, Reserve,
           EstimateBudgets, EstimateTotals, ReportRows, DashboardRows, ReportTotals,
           InsertEvent, EventId, Poll
  <2> QED
    BY <2>1 DEF UsageSound
<1>4. \A u \in DOMAIN usage : requests'[u] = requests[u]
  <2>1. CASE PersistRequest(t)
    <3>1. requests' = Put(requests, t, [project |-> Project(t), session |-> task[t].got])
      BY <2>1 DEF PersistRequest
    <3>2. DOMAIN usage \subseteq DOMAIN requests
      BY DEF UsageSound
    <3> QED
      BY <1>3, <3>1, <3>2 DEF Put
  <2> QED
    BY <2>1, Origins
<1>5. /\ DOMAIN requests \subseteq DOMAIN requests'
      /\ \A q \in Tasks : task'[q].at = "usage_row" => q \in DOMAIN requests'
  <2>1. DOMAIN requests \subseteq DOMAIN requests' /\ (PersistRequest(t) => t \in DOMAIN requests')
    <3>1. CASE PersistRequest(t)
      <4>1. requests' = Put(requests, t, [project |-> Project(t), session |-> task[t].got])
        BY <3>1 DEF PersistRequest
      <4> QED
        BY <4>1 DEF Put
    <3> QED
      BY <3>1, Origins
  <2>2. task'[t].at = "usage_row" => PersistRequest(t)
    BY Arrivals
  <2> QED
    BY <1>1, <2>1, <2>2 DEF UsageSound, Others
<1>6. CASE PersistUsage(t)
  <2> DEFINE cost == task[t].p.cost
  <2>1. cost \in Nat
    <3>1. task[t].p.op = "request" /\ task[t].p \in Programs
      BY <1>6, ProgramAt DEF PersistUsage
    <3> QED
      BY <3>1, ProgramAssumption
  <2>2. usage' = Put(usage, t, cost)
    BY <1>6 DEF PersistUsage
  <2> HIDE DEF cost
  <2>3. /\ DOMAIN usage' = DOMAIN usage \cup {t} /\ usage'[t] = cost
        /\ \A u \in DOMAIN usage : usage'[u] = usage[u]
    BY <1>3, <2>2 DEF Put
  <2>4. task'[t].at = "done"
    BY <1>6, Answered DEF PersistUsage, Becomes
  <2>5. IsFiniteSet(DOMAIN usage')
    BY <2>3, FS_AddElement DEF UsageSound
  <2>6. ASSUME NEW u \in DOMAIN usage'
        PROVE  u \in Tasks /\ u \in DOMAIN requests' /\ usage'[u] \in Nat /\ task'[u].at = "done"
    <3>1. CASE u = t
      <4>1. t \in DOMAIN requests
        BY <1>6 DEF PersistUsage, UsageSound
      <4> QED
        BY <1>5, <2>1, <2>3, <2>4, <3>1, <4>1
    <3>2. CASE u # t
      <4>1. u \in DOMAIN usage /\ u \in Tasks /\ u \in DOMAIN requests /\ usage[u] \in Nat
            /\ task[u].at = "done"
        BY <2>3, <2>6, <3>2 DEF UsageSound
      <4> QED
        BY <1>1, <1>5, <2>3, <3>2, <4>1 DEF Others
    <3> QED
      BY <3>1, <3>2
  <2>7. UsageSound'
    BY <1>5, <2>5, <2>6 DEF UsageSound
  <2> QED
    BY <1>4, <2>3, <2>7
<1>7. CASE usage' = usage
  <2>1. \A u \in DOMAIN usage : task'[u].at = "done"
    BY <1>1, <1>3 DEF UsageSound, Others
  <2>2. UsageSound'
    BY <1>5, <1>7, <2>1 DEF UsageSound
  <2> QED
    BY <1>4, <1>7, <2>2
<1> QED
  BY <1>6, <1>7, Origins

LEMMA BelowStays ==
  ASSUME Control, UsageSound, NEW t \in Tasks, Step(t), NEW r, Below(r)
  PROVE  Below(r)'
<1>1. /\ UsageSound' /\ DOMAIN usage \subseteq DOMAIN usage'
      /\ \A u \in DOMAIN usage : usage'[u] = usage[u] /\ requests'[u] = requests[u]
  BY StepUsage
<1>2. /\ IsFiniteSet(Groups)' /\ Cardinality(Groups)' \in Nat
      /\ Cardinality(DOMAIN usage)' \in Nat /\ Cost(DOMAIN usage)' \in Nat
  BY <1>1, SizesNext DEF Sizes
<1>3. /\ Cardinality(Groups) \in Nat
      /\ Cardinality(DOMAIN usage) \in Nat /\ Cost(DOMAIN usage) \in Nat
  BY SizesOf DEF Sizes
<1>4. Cardinality(DOMAIN usage) <= Cardinality(DOMAIN usage')
  BY <1>1, FS_Subset DEF UsageSound
<1>5. Cardinality(Groups) <= Cardinality(Groups')
  <2>1. Groups \subseteq Groups'
    BY <1>1 DEF Groups
  <2> QED
    BY <1>2, <2>1, FS_Subset
<1>6. Cost(DOMAIN usage) <= Cost(DOMAIN usage)'
  <2>1. SumOver(usage, DOMAIN usage) = SumOver(usage', DOMAIN usage)
    BY <1>1, SumSame DEF UsageSound
  <2>2. SumOver(usage', DOMAIN usage) <= SumOver(usage', DOMAIN usage')
    BY <1>1, SumOfPart DEF UsageSound
  <2>3. Cost(DOMAIN usage) = SumOver(usage, DOMAIN usage)
    BY CostSums
  <2>4. Cost(DOMAIN usage)' = SumOver(usage', DOMAIN usage')
    BY CostSumsNext
  <2> QED
    BY <2>1, <2>2, <2>3, <2>4
<1> QED
  BY <1>2, <1>3, <1>4, <1>5, <1>6 DEF Below

LEMMA SameBelow ==
  ASSUME usage' = usage, requests' = requests, NEW r, Below(r)
  PROVE  Below(r)'
<1>1. Cost(DOMAIN usage)' = Cost(DOMAIN usage)
  BY CostSums, CostSumsNext
<1>2. Groups' = Groups
  BY DEF Groups
<1> QED
  BY <1>1, <1>2 DEF Below

(* What a query of some of the requests shows.                              *)
LEMMA SummaryBelow ==
  ASSUME UsageSound, NEW ts \in SUBSET DOMAIN usage, NEW n \in Nat, n <= Cardinality(Groups)
  PROVE  Below(Summary(ts, n))
<1>1. IsFiniteSet(DOMAIN usage) /\ \A t \in DOMAIN usage : usage[t] \in Nat
  BY DEF UsageSound
<1>2. Cardinality(ts) \in Nat /\ Cardinality(ts) <= Cardinality(DOMAIN usage)
  BY <1>1, FS_Subset, FS_CardinalityType
<1>3. Cost(ts) \in Nat /\ Cost(ts) <= Cost(DOMAIN usage)
  <2>1. SumOver(usage, ts) <= SumOver(usage, DOMAIN usage)
    BY <1>1, SumOfPart
  <2>2. SumOver(usage, ts) \in Int /\ SumOver(usage, ts) >= 0
    BY <1>1, FS_Subset, SumInt
  <2> QED
    BY <2>1, <2>2, CostSums
<1> HIDE DEF Cost
<1> QED
  BY <1>2, <1>3 DEF Summary, Below

LEMMA PageFound ==
  ASSUME Control, UsageSound, NEW t \in Tasks, Step(t), task'[t].at = "report_totals"
  PROVE  Below(task'[t].got) /\ usage' = usage /\ requests' = requests
<1>1. ReportRows(t) \/ DashboardRows(t)
  BY Arrivals
<1>2. UNCHANGED tables
  BY <1>1 DEF ReportRows, DashboardRows
<1>3. CASE DashboardRows(t)
  <2>1. task'[t].got = Summary(DOMAIN usage, 0)
    BY <1>3, HasRead DEF DashboardRows, Becomes
  <2>2. 0 \in Nat /\ 0 <= Cardinality(Groups)
    BY SizesOf DEF Sizes
  <2> QED
    BY <1>2, <2>1, <2>2, SummaryBelow DEF tables
<1>4. CASE ReportRows(t)
  <2>1. PICK page \in SUBSET Groups :
          Read(t, "report_totals", Summary(UNION {Accounted(g) : g \in page}, Cardinality(page)))
    BY <1>4 DEF ReportRows
  <2> DEFINE ts == UNION {Accounted(g) : g \in page}
             n == Cardinality(page)
  <2>2. ts \in SUBSET DOMAIN usage
    BY DEF Accounted
  <2>3. n \in Nat /\ n <= Cardinality(Groups)
    BY SizesOf, FS_Subset, FS_CardinalityType DEF Sizes
  <2>4. task'[t].got = Summary(ts, n)
    BY <2>1, HasRead DEF Becomes
  <2> HIDE DEF ts, n
  <2> QED
    BY <1>2, <2>2, <2>3, <2>4, SummaryBelow DEF tables
<1> QED
  BY <1>1, <1>3, <1>4

Covered(t) ==
  task[t].p.op \in {"report", "dashboard"} /\ task[t].at = "done" =>
    LET r == task[t].out IN
    r.page.requests <= r.all.requests /\ r.page.cost <= r.all.cost
    /\ r.page.groups <= r.all.groups

LEMMA TotalsCover ==
  ASSUME Control, UsageSound, PagesBelow, NEW t \in Tasks, Step(t)
  PROVE  Covered(t)'
<1>1. Goes(t)
  BY StepGoes
<1>2. SUFFICES ASSUME task'[t].p.op \in {"report", "dashboard"}, task'[t].at = "done" PROVE Covered(t)'
  BY DEF Covered
<1>3. ReportTotals(t)
  BY <1>1, <1>2, Arrivals DEF Goes
<1> DEFINE got == task[t].got
           all == Summary(DOMAIN usage, Cardinality(Groups))
<1>4. Below(got)
  BY <1>3 DEF ReportTotals, PagesBelow
<1>5. task'[t].out = [page |-> got, all |-> all]
  BY <1>3, Answered DEF ReportTotals, Becomes
<1>6. /\ all.requests = Cardinality(DOMAIN usage) /\ all.cost = Cost(DOMAIN usage)
      /\ all.groups = Cardinality(Groups)
  BY DEF Summary
<1> HIDE DEF got, all
<1>7. task'[t].out.page = got /\ task'[t].out.all = all
  BY <1>5
<1> QED
  BY <1>4, <1>6, <1>7 DEF Covered, Below

LEMMA NextTotals == Control /\ TotalsInv /\ [Next]_vars => TotalsInv'
<1> SUFFICES ASSUME Control, TotalsInv, [Next]_vars PROVE TotalsInv'
  OBVIOUS
<1>1. TotalsCoverPage <=> \A t \in Tasks : Covered(t)
  BY DEF TotalsCoverPage, Covered
<1>2. TotalsCoverPage' <=> \A t \in Tasks : Covered(t)'
  BY DEF TotalsCoverPage, Covered
<1>3. ASSUME NEW t \in Tasks, Step(t) PROVE TotalsInv'
  <2>1. Goes(t) /\ Others(t)
    BY <1>3, StepGoes DEF Goes
  <2>2. UsageSound'
    BY <1>3, StepUsage DEF TotalsInv
  <2>3. ASSUME NEW q \in Tasks, task'[q].at = "report_totals", NEW r, r = task'[q].got
        PROVE  Below(r)'
    <3>1. CASE q = t
      <4>1. Below(r) /\ usage' = usage /\ requests' = requests
        BY <1>3, <2>3, <3>1, PageFound DEF TotalsInv
      <4> QED
        BY <4>1, SameBelow
    <3>2. CASE q # t
      <4>1. task'[q] = task[q]
        BY <2>1, <3>2 DEF Others
      <4>2. Below(r)
        BY <2>3, <4>1 DEF TotalsInv, PagesBelow
      <4> QED
        BY <1>3, <4>2, BelowStays DEF TotalsInv
    <3> QED
      BY <3>1, <3>2
  <2>4. PagesBelow'
    BY <2>3 DEF PagesBelow, Below
  <2>5. ASSUME NEW q \in Tasks PROVE Covered(q)'
    <3>1. CASE q = t
      BY <1>3, <3>1, TotalsCover DEF TotalsInv
    <3>2. CASE q # t
      BY <1>1, <2>1, <3>2 DEF TotalsInv, Others, Covered
    <3> QED
      BY <3>1, <3>2
  <2> QED
    BY <1>2, <2>2, <2>4, <2>5 DEF TotalsInv
<1>4. ASSUME NEW t \in Tasks, NEW p \in Programs, Begin(t, p) PROVE TotalsInv'
  <2>1. /\ Others(t) /\ task[t].at = "idle" /\ task'[t].at \notin {"report_totals", "usage_row"}
        /\ usage' = usage /\ requests' = requests /\ Covered(t)'
    BY <1>4, Beginnings DEF Begin, Covered, tables
  <2>2. UsageSound'
    BY <2>1 DEF TotalsInv, UsageSound, Others
  <2>3. ASSUME NEW q \in Tasks, task'[q].at = "report_totals", NEW r, r = task'[q].got
        PROVE  Below(r)'
    <3>1. task'[q] = task[q]
      BY <2>1, <2>3 DEF Others
    <3>2. Below(r)
      BY <2>3, <3>1 DEF TotalsInv, PagesBelow
    <3> QED
      BY <2>1, <3>2, SameBelow
  <2>4. PagesBelow'
    BY <2>3 DEF PagesBelow, Below
  <2>5. ASSUME NEW q \in Tasks PROVE Covered(q)'
    BY <1>1, <2>1 DEF TotalsInv, Others, Covered
  <2> QED
    BY <1>2, <2>2, <2>4, <2>5 DEF TotalsInv
<1>5. CASE Tick \/ UNCHANGED vars
  <2>1. usage' = usage /\ requests' = requests /\ task' = task
    BY <1>5 DEF Tick, vars, tables
  <2>2. ASSUME NEW q \in Tasks, task'[q].at = "report_totals", NEW r, r = task'[q].got
        PROVE  Below(r)'
    BY <2>1, <2>2, SameBelow DEF TotalsInv, PagesBelow
  <2>3. PagesBelow'
    BY <2>2 DEF PagesBelow, Below
  <2> QED
    BY <2>1, <2>3 DEF TotalsInv, UsageSound, TotalsCoverPage
<1> QED
  BY <1>3, <1>4, <1>5 DEF Next

(* A report never shows more on its page, nor a dashboard more at its head, *)
(* than the totals that a second query adds up (get_report_summary and      *)
(* run_dashboard: requests are accounted between the two).                  *)
THEOREM TotalsCovered == Spec => []TotalsCoverPage
<1>1. Init => TotalsInv
  <2> SUFFICES ASSUME Init PROVE TotalsInv
    OBVIOUS
  <2>1. usage = << >> /\ \A t \in Tasks : task[t].at = "idle"
    BY DEF Init, Idle
  <2>2. DOMAIN usage = {}
    BY <2>1
  <2> QED
    BY <2>1, <2>2, FS_EmptySet DEF TotalsInv, UsageSound, PagesBelow, TotalsCoverPage
<1>2. TotalsInv => TotalsCoverPage
  BY DEF TotalsInv
<1> QED
  BY <1>1, <1>2, InitControl, NextControl, NextTotals, PTL DEF Spec
==================================================================================
