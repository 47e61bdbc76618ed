------------------------------ MODULE ServePlanes ------------------------------
(****************************************************************************)
(* One `pennyprompt serve` process: the data plane (penny-proxy) checks and *)
(* feeds a detector while requests come and go, the admin plane             *)
(* (penny-admin) answers `pennyprompt detect resume` from a detector of its *)
(* own.  Both are a DetectEngine, in memory only, of one configuration: the *)
(* data plane's is the one this module extends.                             *)
(****************************************************************************)
EXTENDS DetectEngine

CONSTANTS Requests,
          MaxLag,     \* bound on the time from the arrival of a request to its digest
          MaxRestarts \* bound on the restarts of the process

ASSUME LagAssumption == MaxLag \in Nat

(* windows, paused, alerts and events are those of the data plane.          *)
VARIABLES now,      \* the clock, up to MaxNow
          job,      \* the requests being handled: their session and digest
          adminWindows, adminPaused, adminAlerts, adminEvents,
          heard,    \* the answer to the last resume
          restarts

adminPlane == <<adminWindows, adminPaused, adminAlerts, adminEvents>>
planes == <<threshold, now, job, engine, adminPlane, heard, restarts>>

Admin == INSTANCE DetectEngine WITH
           windows <- adminWindows, paused <- adminPaused,
           alerts <- adminAlerts, events <- adminEvents

NoJob == [session |-> "none"]
NoAnswer == [found |-> TRUE, wasPaused |-> TRUE]

PlanesInit ==
  /\ now = 0 /\ job = [r \in Requests |-> NoJob]
  /\ Init /\ Admin!Init
  /\ heard = NoAnswer /\ restarts = 0

(* normalize_request stamps the request; when is_session_paused is false it *)
(* goes on to the provider.  Its digest will say that its tool succeeded.   *)
Accept(r, s, k) ==
  /\ job[r] = NoJob /\ s \notin DOMAIN paused
  /\ job' = [job EXCEPT ![r] = [session |-> s, digest |-> [kind |-> [k EXCEPT !.failed = FALSE],
                                             at |-> now]]]
  /\ UNCHANGED <<now, engine, adminPlane, heard, restarts>>

(* A request that ends without usage leaves no digest.                      *)
Fail(r) ==
  /\ job[r] # NoJob /\ job' = [job EXCEPT ![r] = NoJob]
  /\ UNCHANGED <<now, engine, adminPlane, heard, restarts>>

(* run_detection_after_reconcile, in a task of its own after the answer.    *)
RunDetection(r) ==
  /\ job[r] # NoJob
  /\ Feed(job[r].session, job[r].digest)
  /\ job' = [job EXCEPT ![r] = NoJob]
  /\ UNCHANGED <<now, adminPlane, heard, restarts>>

(* post_detect_resume, on the detector that run_serve gave the admin plane. *)
PostDetectResume(s) ==
  /\ Admin!Resume(s)
  /\ heard' = [found |-> s \in DOMAIN adminPaused, wasPaused |-> s \in DOMAIN paused]
  /\ UNCHANGED <<now, job, engine, restarts>>

Tick ==
  /\ now < MaxNow /\ \A r \in Requests : job[r] # NoJob => now - job[r].digest.at < MaxLag
  /\ now' = now + 1
  /\ UNCHANGED <<job, engine, adminPlane, heard, restarts>>

(* The process stops and starts again with new detectors.                   *)
Restart ==
  /\ restarts < MaxRestarts /\ restarts' = restarts + 1
  /\ job' = [r \in Requests |-> NoJob]
  /\ windows' = NoEntries /\ paused' = NoEntries
  /\ alerts' = NoEntries /\ events' = << >>
  /\ adminWindows' = NoEntries /\ adminPaused' = NoEntries
  /\ adminAlerts' = NoEntries /\ adminEvents' = << >>
  /\ UNCHANGED <<now, heard>>

PlanesNext ==
  /\ UNCHANGED threshold
  /\ \/ \E r \in Requests :
          \/ \E s \in Sessions, k \in Kinds : Accept(r, s, k)
          \/ Fail(r) \/ RunDetection(r)
     \/ \E s \in Sessions : PostDetectResume(s)
     \/ Tick \/ Restart

PlanesSpec == PlanesInit /\ [][PlanesNext]_planes

--------------------------------------------------------------------------------
(* With room for every session, a pause that no operator and no restart     *)
(* takes away lasts for the retention, less the lag of a late digest: one   *)
(* that arrived before the pause moves last_seen of its session back.       *)
PausesLast ==
  [][\A s \in DOMAIN paused :
       /\ IsFiniteSet(Sessions) /\ Cardinality(Sessions) <= MaxSessions
       /\ restarts' = restarts /\ s \notin DOMAIN paused'
       => paused[s].at < now - AtLeastOne(Retention) + MaxLag]_planes

(* ARCHITECTURE.md: "detect pause state can be resumed explicitly by        *)
(* operator command/API": a paused session is found.                        *)
ResumeFinds == heard.wasPaused => heard.found
================================================================================
