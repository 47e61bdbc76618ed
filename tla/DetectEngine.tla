------------------------------ MODULE DetectEngine ------------------------------
(****************************************************************************)
(* penny-detect's DetectEngine: the windows of recent requests per session, *)
(* the alerts raised from them, the paused sessions and the log of events.  *)
(* A write lock makes each feed and each resume one step.  Digests carry    *)
(* the time their request arrived and are fed when it has been answered, so *)
(* their timestamps come in any order: the engine never reads a clock.      *)
(****************************************************************************)
EXTENDS Integers, Sequences, FiniteSetsExt, SequencesExt

CONSTANTS Sessions,
          Kinds,          \* what a digest says of its request, without its time
          NoTool,         \* tool_name = None
          Window,         \* loop_window_seconds
          Thresholds,     \* the loop_threshold_similar_requests it may start with
          Pauses,         \* loop_action = "pause"
          RateLimit,      \* burn_rate_alert, per unit of time
          MinObservation, \* min_burn_rate_observation_seconds
          Retention,      \* session_state_retention_seconds
          MaxSessions,    \* max_sessions
          MaxEvents,      \* max_recorded_events
          MaxNow,         \* bound on the timestamps
          MaxAbove        \* bound on the digests of a window above the threshold

ASSUME ConfigAssumption ==
  /\ {Window, RateLimit, MinObservation, Retention} \subseteq Nat
  /\ {MaxSessions, MaxEvents, MaxNow, MaxAbove} \cup Thresholds \subseteq Nat
  /\ Pauses \in BOOLEAN

VARIABLES threshold, \* loop_threshold_similar_requests of the process
          windows,   \* of the sessions seen: their digests and last_seen
          paused,    \* of the paused sessions: when, and by which alert
          alerts,    \* of the sessions with an active alert: when, and which
          events     \* the recorded events, the oldest first

engine == <<windows, paused, alerts, events>>
vars == <<threshold, engine>>

Times   == 0..MaxNow
Digests == [kind : Kinds, at : Times]

NoEntries == [s \in {} |-> s]

Init ==
  /\ threshold \in Thresholds
  /\ windows = NoEntries /\ paused = NoEntries /\ alerts = NoEntries /\ events = << >>

AtLeastOne(x) == IF x < 1 THEN 1 ELSE x
Count(window, Test(_)) == Len(SelectSeq(window, Test))

(* tool_failure_repetition_alert, content_similarity_alert, burn_rate_alert *)
ToolLoop(window, d) ==
  LET Similar(e) == e.kind.tool = d.kind.tool /\ e.kind.failed
  IN  /\ d.kind.tool # NoTool /\ d.kind.failed
      /\ Count(window, Similar) >= AtLeastOne(threshold)

ContentLoop(window, d) ==
  LET Similar(e) == e.kind.content = d.kind.content
  IN  Count(window, Similar) >= AtLeastOne(threshold)

(* The first and the last digest are those fed first and last.              *)
BurnRate(window) ==
  /\ RateLimit > 0 /\ Len(window) >= 2
  /\ LET elapsed == AtLeastOne(Last(window).at - Head(window).at)
     IN  /\ elapsed >= AtLeastOne(MinObservation)
         /\ FoldSeq(LAMBDA e, sum : sum + e.kind.cost, 0, window) > RateLimit * elapsed

(* detect_alerts: in this order; the first is the active one.               *)
Raises(alert, raised) == IF raised THEN <<alert>> ELSE << >>
Loops(window, d) == Raises("tool", ToolLoop(window, d)) \o Raises("content", ContentLoop(window, d))
Raised(window, d) == Loops(window, d) \o Raises("burn", BurnRate(window))

IsLoop(alert) == alert \in {"tool", "content"}

(* push_recorded_event, for several events.                                 *)
Push(new) ==
  LET all == events \o new
  IN  events' = SubSeq(all, Max({Len(all) - MaxEvents, 0}) + 1, Len(all))

Event(s, type) == [session |-> s, type |-> type]

(* Mutant: every entry that is older than the digest is pruned.             *)
SinceNow(at) == at

(* prune_inactive_sessions at the time of a digest: the sessions whose      *)
(* window is recent enough, and the entries of paused or alerts that are.   *)
Since(at) == at - AtLeastOne(Retention)
Live(at) == {s \in DOMAIN windows : windows[s].last >= Since(at)}
Recent(f, at) == {s \in DOMAIN f \cap Live(at) : f[s].at >= Since(at)}

(* Mutant: a digest without an alert leaves the active alert in place.      *)
StillAlertedByFed(s, at, kept) == Recent(alerts, at) \cap kept

(* The other sessions keep their alerts; the one that was fed does not.     *)
StillAlerted(s, at, kept) == (Recent(alerts, at) \cap kept) \ {s}

(* Mutant: no session is evicted.                                           *)
SurvivorsAll(w) == {DOMAIN w}

(* cap_session_count: the sessions it may keep of those with a window, as   *)
(* last_seen leaves ties open.                                              *)
Survivors(w) ==
  {kept \in SUBSET DOMAIN w :
     /\ Cardinality(kept) = Min({Cardinality(DOMAIN w), MaxSessions})
     /\ \A s \in kept, q \in DOMAIN w \ kept : w[q].last <= w[s].last}

(* prune_window: the digests of the last Window, at the time of the last.   *)
Within(window, at) == SelectSeq(window, LAMBDA e : e.at >= at - AtLeastOne(Window))

Feed(s, d) ==
  LET live   == Live(d.at)
      before == IF s \in live THEN windows[s].digests ELSE << >>
      window == Within(Append(before, d), d.at)
      raised == Raised(window, d)
      loops  == Loops(window, d)
      stops  == IF Pauses /\ loops # << >> THEN {s} ELSE {}
      warns  == IF raised # << >> THEN {s} ELSE {}
      fed    == [q \in live \cup {s} |->
                   IF q = s THEN [digests |-> window, last |-> d.at] ELSE windows[q]]
  IN  \E kept \in Survivors(fed) :
        /\ windows' = [q \in kept |-> fed[q]]
        /\ paused'  = [q \in (Recent(paused, d.at) \cap kept) \cup stops |->
                         IF q \in stops THEN [at |-> d.at, by |-> Head(loops)] ELSE paused[q]]
        /\ alerts'  = [q \in StillAlerted(s, d.at, kept) \cup warns |->
                         IF q \in warns THEN [at |-> d.at, by |-> Head(raised)] ELSE alerts[q]]
        /\ Push([k \in DOMAIN raised |->
                   Event(s, IF IsLoop(raised[k]) THEN "loop" ELSE "burn")]
                \o IF stops = {} THEN << >> ELSE <<Event(s, "paused")>>)

(* Mutants: the alert outlives the pause, or the pause its resume.          *)
ResumeKeepsAlert(s) ==
  /\ paused'  = [q \in DOMAIN paused \ {s} |-> paused[q]]
  /\ windows' = [q \in DOMAIN windows \ {s} |-> windows[q]]
  /\ UNCHANGED <<alerts, events>>
ResumeKeepsPause(s) ==
  /\ s \in DOMAIN paused /\ UNCHANGED <<windows, paused, alerts>>
  /\ Push(<<Event(s, "resumed")>>)

(* resume_session returns None for a session that is not paused.            *)
Resume(s) ==
  \/ s \notin DOMAIN paused /\ UNCHANGED engine
  \/ /\ s \in DOMAIN paused
     /\ paused'  = [q \in DOMAIN paused \ {s} |-> paused[q]]
     /\ windows' = [q \in DOMAIN windows \ {s} |-> windows[q]]
     /\ alerts'  = [q \in DOMAIN alerts \ {s} |-> alerts[q]]
     /\ Push(<<Event(s, "resumed")>>)

Next ==
  /\ UNCHANGED threshold
  /\ \E s \in Sessions :
       \/ \E d \in Digests :
            /\ s \in DOMAIN windows => Len(windows[s].digests) < threshold + MaxAbove
            /\ Feed(s, d)
       \/ Resume(s)

Spec == Init /\ [][Next]_vars

--------------------------------------------------------------------------------
(* While a loop alert is active its session is paused: no pruning, eviction *)
(* or resume takes the one away and leaves the other.                       *)
LoopAlertMeansPaused ==
  \A s \in DOMAIN alerts : Pauses /\ IsLoop(alerts[s].by) => s \in DOMAIN paused

(* The active alert of a session is about its last digest, never an earlier *)
(* one: the status does not report alerts that the traffic has outdated.    *)
AlertsCurrent ==
  \A s \in DOMAIN alerts \cap DOMAIN windows : alerts[s].at = windows[s].last

(* A session is resumed at most once per pause: in the log, another pause   *)
(* lies between two resumes of a session.                                   *)
ResumesAlternate ==
  \A i, j \in DOMAIN events :
    /\ i < j /\ events[i].session = events[j].session
    /\ events[i].type = "resumed" /\ events[j].type = "resumed"
    => \E k \in (i + 1)..(j - 1) : events[k] = Event(events[i].session, "paused")

(* The memory of the engine is bounded: max_sessions bounds the windows, at *)
(* most the session fed last is paused or alerted without a window, and the *)
(* log drops its oldest events.                                             *)
MemoryBounded ==
  /\ Cardinality(DOMAIN windows) <= MaxSessions
  /\ Cardinality((DOMAIN paused \cup DOMAIN alerts) \ DOMAIN windows) <= 1
  /\ Len(events) <= MaxEvents
================================================================================
