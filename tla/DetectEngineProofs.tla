--------------------------- MODULE DetectEngineProofs ---------------------------
(****************************************************************************)
(* Proofs about DetectEngine, for any sessions and digests, timestamps in   *)
(* any order, every threshold, retention, number of sessions and of events. *)
(****************************************************************************)
EXTENDS ServePlanes, SequenceTheorems, FiniteSetTheorems, TLAPS

EventTypes == {"loop", "burn", "paused", "resumed"}
Events == [session : Sessions, type : EventTypes]

(* A session with an active loop alert was paused by the digest that raised *)
(* it: pause and alert are as old, so they are pruned together.             *)
Agree ==
  \A s \in DOMAIN alerts :
    Pauses /\ IsLoop(alerts[s].by) => s \in DOMAIN paused /\ paused[s].at = alerts[s].at

(* Whoever is paused or alerted without a window is one session.            *)
Sized ==
  /\ IsFiniteSet(DOMAIN windows) /\ Cardinality(DOMAIN windows) <= MaxSessions
  /\ \E q : (DOMAIN paused \cup DOMAIN alerts) \ DOMAIN windows \subseteq {q}

(* In a log, a session that is resumed has been paused since its last       *)
(* resume; one that is paused now has been paused since.                    *)
IsResume(e) == e.type = "resumed"
Between(log, i, j) == \E k \in (i + 1)..(j - 1) : log[k] = Event(log[i].session, "paused")
Alternates(log) ==
  \A i, j \in 1..Len(log) :
    i < j /\ IsResume(log[i]) /\ IsResume(log[j]) /\ log[i].session = log[j].session
    => Between(log, i, j)
PausedSince(log, s) ==
  \A i \in 1..Len(log) :
    IsResume(log[i]) /\ log[i].session = s => Between(log, i, Len(log) + 1)

Logged ==
  /\ events \in Seq(Events) /\ Len(events) <= MaxEvents
  /\ Alternates(events)
  /\ \A s \in DOMAIN paused : PausedSince(events, s)

IInv == Agree /\ AlertsCurrent /\ Sized /\ Logged

--------------------------------------------------------------------------------
(* Operators of the engine.                                                 *)

Alerts == {"tool", "content", "burn"}

LEMMA RaisesType ==
  ASSUME NEW alert \in Alerts, NEW raised
  PROVE  Raises(alert, raised) \in Seq(Alerts)
<1>1. Raises(alert, raised) = <<alert>> \/ Raises(alert, raised) = << >>
  BY Zenon DEF Raises
<1>2. <<alert>> \in Seq(Alerts)
  OBVIOUS
<1>3. << >> \in Seq(Alerts)
  BY EmptySeq
<1> QED
  BY <1>1, <1>2, <1>3, Zenon

(* The first alert that is raised is about a loop when there is one.        *)
LEMMA RaisedShape ==
  ASSUME NEW window, NEW d
  PROVE  /\ Raised(window, d) \in Seq(Alerts)
         /\ Raised(window, d) # << >> /\ IsLoop(Head(Raised(window, d)))
            => Loops(window, d) # << >>
<1> DEFINE tool == ToolLoop(window, d)
           content == ContentLoop(window, d)
           burn == BurnRate(window)
<1> HIDE DEF tool, content, burn
<1>1. Loops(window, d) = Raises("tool", tool) \o Raises("content", content)
  BY DEF Loops, tool, content
<1>2. Raised(window, d) = Loops(window, d) \o Raises("burn", burn)
  BY DEF Raised, burn
<1>3. Raises("tool", tool) \in Seq(Alerts) /\ Raises("content", content) \in Seq(Alerts)
      /\ Raises("burn", burn) \in Seq(Alerts)
  <2>1. "tool" \in Alerts /\ "content" \in Alerts /\ "burn" \in Alerts
    BY DEF Alerts
  <2> QED
    BY <2>1, RaisesType, Zenon
<1>4. Loops(window, d) \in Seq(Alerts) /\ Raised(window, d) \in Seq(Alerts)
  BY <1>1, <1>2, <1>3
<1>5. ASSUME Loops(window, d) = << >>, Raised(window, d) # << >>
      PROVE  ~IsLoop(Head(Raised(window, d)))
  <2>1. Raised(window, d) = Raises("burn", burn)
    BY <1>2, <1>3, <1>5
  <2>2. Raised(window, d) = <<"burn">>
    BY <2>1, <1>5 DEF Raises
  <2> QED
    BY <2>2 DEF IsLoop
<1> QED
  BY <1>4, <1>5

(* The smaller of two numbers.                                              *)
LEMMA MinOfTwo ==
  ASSUME NEW x \in Nat, NEW y \in Nat
  PROVE  Min({x, y}) <= y
<1>1. CASE x <= y
  <2>1. Min({x, y}) = x
    BY <1>1 DEF Min
  <2> QED
    BY <1>1, <2>1
<1>2. CASE y < x
  <2>1. Min({x, y}) = y
    BY <1>2 DEF Min
  <2> QED
    BY <2>1
<1> QED
  BY <1>1, <1>2

(* Of finitely many sessions MaxSessions survive at most.                   *)
LEMMA SurvivorsBounded ==
  ASSUME NEW w, IsFiniteSet(DOMAIN w), NEW kept \in Survivors(w)
  PROVE  /\ kept \subseteq DOMAIN w
         /\ IsFiniteSet(kept) /\ Cardinality(kept) <= MaxSessions
<1>1. kept \subseteq DOMAIN w /\ Cardinality(kept) = Min({Cardinality(DOMAIN w), MaxSessions})
  BY DEF Survivors
<1>2. IsFiniteSet(kept)
  BY <1>1, FS_Subset
<1>3. Cardinality(DOMAIN w) \in Nat /\ MaxSessions \in Nat
  BY FS_CardinalityType, ConfigAssumption
<1> QED
  BY <1>1, <1>2, <1>3, MinOfTwo

--------------------------------------------------------------------------------
(* The log.                                                                 *)

(* u is what is left of t without its oldest entries.                       *)
Trimmed(u, t) ==
  /\ u \in Seq(Events) /\ Len(u) <= Len(t)
  /\ \A i \in 1..Len(u) : u[i] = t[Len(t) - Len(u) + i]

(* A log without its m oldest entries.                                      *)
LEMMA Shifted ==
  ASSUME NEW all \in Seq(Events), NEW m \in 0..Len(all), NEW u \in Seq(Events),
         Len(u) = Len(all) - m, \A i \in 1..(Len(all) - m) : u[i] = all[(m + 1) + i - 1]
  PROVE  Trimmed(u, all)
<1>1. Len(all) \in Nat /\ m \in Nat /\ m <= Len(all)
  BY LenProperties
<1>2. \A i \in 1..(Len(all) - m) : (m + 1) + i - 1 = Len(all) - Len(u) + i
  BY <1>1
<1>3. \A i \in 1..Len(u) : u[i] = all[Len(all) - Len(u) + i]
  BY <1>2
<1> QED
  BY <1>1, <1>3 DEF Trimmed

LEMMA Dropping ==
  ASSUME NEW all \in Seq(Events), NEW m \in 0..Len(all)
  PROVE  Trimmed(SubSeq(all, m + 1, Len(all)), all)
         /\ Len(SubSeq(all, m + 1, Len(all))) = Len(all) - m
<1>1. Len(all) \in Nat /\ m \in Nat /\ m <= Len(all)
  BY LenProperties
<1>2. \A i \in (m + 1)..Len(all) : all[i] \in Events
  BY <1>1, ElementOfSeq
<1>3. m + 1 \in Int /\ Len(all) \in Int
  BY <1>1
<1>4. PICK u : u = SubSeq(all, m + 1, Len(all))
  OBVIOUS
<1>5. /\ u \in Seq(Events)
      /\ Len(u) = IF m + 1 <= Len(all) THEN Len(all) - (m + 1) + 1 ELSE 0
      /\ \A i \in 1..(Len(all) - (m + 1) + 1) : u[i] = all[(m + 1) + i - 1]
  BY <1>2, <1>3, <1>4, SubSeqProperties
<1>6. Len(u) = Len(all) - m /\ Len(all) - (m + 1) + 1 = Len(all) - m
  BY <1>1, <1>5
<1>7. Trimmed(u, all)
  BY <1>5, <1>6, Shifted
<1> QED
  BY <1>4, <1>6, <1>7

(* push_recorded_event keeps the newest entries, at most MaxEvents.         *)
LEMMA Newest ==
  ASSUME NEW all \in Seq(Events), NEW u,
         u = SubSeq(all, Max({Len(all) - MaxEvents, 0}) + 1, Len(all))
  PROVE  Trimmed(u, all) /\ Len(u) <= MaxEvents
<1>1. Len(all) \in Nat /\ MaxEvents \in Nat
  BY LenProperties, ConfigAssumption
<1>2. PICK m \in 0..Len(all) :
        m >= Len(all) - MaxEvents /\ m = Max({Len(all) - MaxEvents, 0})
  <2> DEFINE Bounds(m) == m \in 0..Len(all) /\ m >= Len(all) - MaxEvents
  <2>1. ASSUME Len(all) - MaxEvents >= 0 PROVE Bounds(Max({Len(all) - MaxEvents, 0}))
    <3>1. Max({Len(all) - MaxEvents, 0}) = Len(all) - MaxEvents
      BY <1>1, <2>1 DEF Max
    <3>2. Len(all) - MaxEvents \in 0..Len(all) /\ Len(all) - MaxEvents >= Len(all) - MaxEvents
      BY <1>1, <2>1
    <3> QED
      BY <3>1, <3>2, Zenon
  <2>2. ASSUME Len(all) - MaxEvents < 0 PROVE Bounds(Max({Len(all) - MaxEvents, 0}))
    <3>1. Max({Len(all) - MaxEvents, 0}) = 0
      BY <1>1, <2>2 DEF Max
    <3>2. 0 \in 0..Len(all) /\ 0 >= Len(all) - MaxEvents
      BY <1>1, <2>2
    <3> QED
      BY <3>1, <3>2, Zenon
  <2>3. Len(all) - MaxEvents >= 0 \/ Len(all) - MaxEvents < 0
    BY <1>1
  <2>4. Bounds(Max({Len(all) - MaxEvents, 0}))
    BY <2>1, <2>2, <2>3, Zenon
  <2> QED
    BY <2>4, Zenon
<1>3. Trimmed(u, all) /\ Len(u) = Len(all) - m
  <2>1. u = SubSeq(all, m + 1, Len(all))
    BY <1>2, Zenon
  <2> QED
    BY <2>1, Dropping, Zenon
<1> QED
  BY <1>1, <1>2, <1>3

(* What holds of a log holds without its oldest entries.                    *)
LEMMA SuffixBetween ==
  ASSUME NEW t \in Seq(Events), NEW u, Trimmed(u, t),
         NEW i \in 1..Len(u), NEW j \in 1..(Len(u) + 1),
         Between(t, Len(t) - Len(u) + i, Len(t) - Len(u) + j)
  PROVE  Between(u, i, j)
<1> DEFINE m == Len(t) - Len(u)
<1>1. m \in Nat /\ Len(t) \in Nat /\ Len(u) \in Nat
  BY LenProperties DEF Trimmed
<1>2. PICK k \in (m + i + 1)..(m + j - 1) : t[k] = Event(t[m + i].session, "paused")
  BY DEF Between
<1>3. k - m \in (i + 1)..(j - 1) /\ k - m \in 1..Len(u) /\ m + (k - m) = k
  BY <1>1, <1>2
<1>4. u[k - m] = t[k] /\ u[i] = t[m + i]
  BY <1>3 DEF Trimmed
<1> QED
  BY <1>2, <1>3, <1>4 DEF Between

LEMMA SuffixLog ==
  ASSUME NEW t \in Seq(Events), NEW u, Trimmed(u, t)
  PROVE  /\ Alternates(t) => Alternates(u)
         /\ \A s : PausedSince(t, s) => PausedSince(u, s)
<1> DEFINE m == Len(t) - Len(u)
<1>1. m \in Nat /\ Len(t) \in Nat /\ Len(u) \in Nat /\ Len(t) = m + Len(u)
  BY LenProperties DEF Trimmed
<1>2. \A i \in 1..Len(u) : m + i \in 1..Len(t) /\ u[i] = t[m + i]
  BY <1>1 DEF Trimmed
<1>3. ASSUME Alternates(t), NEW i \in 1..Len(u), NEW j \in 1..Len(u),
             i < j, IsResume(u[i]), IsResume(u[j]), u[i].session = u[j].session
      PROVE  Between(u, i, j)
  <2>1. /\ m + i \in 1..Len(t) /\ u[i] = t[m + i]
        /\ m + j \in 1..Len(t) /\ u[j] = t[m + j]
        /\ m + i < m + j
    BY <1>1, <1>2, <1>3
  <2>2. Between(t, m + i, m + j)
    BY <1>3, <2>1 DEF Alternates
  <2> QED
    BY <1>1, <2>2, SuffixBetween
<1>4. ASSUME NEW s, PausedSince(t, s), NEW i \in 1..Len(u), IsResume(u[i]), u[i].session = s
      PROVE  Between(u, i, Len(u) + 1)
  <2>1. Between(t, m + i, Len(t) + 1)
    BY <1>2, <1>4 DEF PausedSince
  <2>2. Len(t) + 1 = m + (Len(u) + 1) /\ Len(u) + 1 \in 1..(Len(u) + 1)
    BY <1>1
  <2> QED
    BY <1>1, <2>1, <2>2, SuffixBetween
<1> QED
  BY <1>3, <1>4 DEF Alternates, PausedSince

(* Entries that are no resumes leave the log alternating.                   *)
LEMMA LogGrows ==
  ASSUME NEW t \in Seq(Events), NEW new \in Seq(Events),
         \A k \in 1..Len(new) : ~IsResume(new[k])
  PROVE  /\ Alternates(t) => Alternates(t \o new)
         /\ \A s : PausedSince(t, s) => PausedSince(t \o new, s)
         /\ \A s : new # << >> /\ new[Len(new)] = Event(s, "paused") => PausedSince(t \o new, s)
<1> DEFINE u == t \o new
<1>1. /\ Len(t) \in Nat /\ Len(new) \in Nat /\ Len(u) = Len(t) + Len(new)
      /\ \A i \in 1..Len(t) : i \in 1..Len(u) /\ u[i] = t[i]
      /\ \A i \in 1..Len(u) : i <= Len(t) \/ (i - Len(t) \in 1..Len(new) /\ u[i] = new[i - Len(t)])
  BY ConcatProperties, LenProperties
<1> HIDE DEF u
<1>2. \A i \in 1..Len(u) : IsResume(u[i]) => i \in 1..Len(t)
  BY <1>1
<1>3. ASSUME Alternates(t), NEW i \in 1..Len(u), NEW j \in 1..Len(u),
             i < j, IsResume(u[i]), IsResume(u[j]), u[i].session = u[j].session
      PROVE  Between(u, i, j)
  <2>1. i \in 1..Len(t) /\ j \in 1..Len(t) /\ u[i] = t[i] /\ u[j] = t[j]
    BY <1>1, <1>2, <1>3
  <2>2. PICK k \in (i + 1)..(j - 1) : t[k] = Event(t[i].session, "paused")
    BY <1>3, <2>1 DEF Alternates, Between
  <2>3. u[k] = t[k]
    BY <1>1, <2>1, <2>2
  <2> QED
    BY <2>1, <2>2, <2>3 DEF Between
<1>4. ASSUME NEW s, PausedSince(t, s), NEW i \in 1..Len(u), IsResume(u[i]), u[i].session = s
      PROVE  Between(u, i, Len(u) + 1)
  <2>1. i \in 1..Len(t) /\ u[i] = t[i]
    BY <1>1, <1>2, <1>4
  <2>2. PICK k \in (i + 1)..(Len(t) + 1 - 1) : t[k] = Event(t[i].session, "paused")
    BY <1>4, <2>1 DEF PausedSince, Between
  <2>3. u[k] = t[k] /\ k \in (i + 1)..(Len(u) + 1 - 1)
    BY <1>1, <2>1, <2>2
  <2> QED
    BY <2>1, <2>2, <2>3 DEF Between
<1>5. ASSUME NEW s, new # << >>, new[Len(new)] = Event(s, "paused"),
             NEW i \in 1..Len(u), IsResume(u[i]), u[i].session = s
      PROVE  Between(u, i, Len(u) + 1)
  <2>1. i \in 1..Len(t)
    BY <1>2, <1>5
  <2>2. Len(new) \in 1..Len(new)
    BY <1>1, <1>5, EmptySeq
  <2>3. u[Len(u)] = new[Len(new)] /\ Len(u) \in (i + 1)..(Len(u) + 1 - 1)
    BY <1>1, <2>1, <2>2
  <2> QED
    BY <1>5, <2>3 DEF Between
<1> QED
  BY <1>3, <1>4, <1>5 DEF u, Alternates, PausedSince

(* A session that was paused since its last resume may be resumed.          *)
LEMMA LogResumes ==
  ASSUME NEW t \in Seq(Events), NEW s \in Sessions, Alternates(t), PausedSince(t, s)
  PROVE  /\ Alternates(t \o <<Event(s, "resumed")>>)
         /\ \A q : q # s /\ PausedSince(t, q) => PausedSince(t \o <<Event(s, "resumed")>>, q)
<1> DEFINE e == Event(s, "resumed")
           u == t \o <<e>>
<1>1. e \in Events /\ e.session = s
  BY DEF Event, Events, EventTypes
<1>2. /\ Len(t) \in Nat /\ Len(u) = Len(t) + 1 /\ u[Len(u)] = e
      /\ \A i \in 1..Len(t) : i \in 1..Len(u) /\ u[i] = t[i]
  BY <1>1, LenProperties
<1> HIDE DEF u, e
<1>3. \A i \in 1..Len(u) : i \in 1..Len(t) \/ i = Len(t) + 1
  BY <1>2
<1>4. ASSUME NEW i \in 1..Len(t), NEW j \in 1..(Len(t) + 1), Between(t, i, j)
      PROVE  Between(u, i, j)
  <2>1. PICK k \in (i + 1)..(j - 1) : t[k] = Event(t[i].session, "paused")
    BY <1>4 DEF Between
  <2>2. u[k] = t[k] /\ u[i] = t[i]
    BY <1>2, <2>1
  <2> QED
    BY <2>1, <2>2 DEF Between
<1>5. ASSUME NEW i \in 1..Len(u), NEW j \in 1..Len(u),
             i < j, IsResume(u[i]), IsResume(u[j]), u[i].session = u[j].session
      PROVE  Between(u, i, j)
  <2>1. i \in 1..Len(t) /\ u[i] = t[i]
    BY <1>2, <1>5
  <2>2. CASE j \in 1..Len(t)
    <3>1. Between(t, i, j)
      BY <1>2, <1>5, <2>1, <2>2 DEF Alternates
    <3> QED
      BY <1>4, <2>1, <2>2, <3>1, <1>2
  <2>3. CASE j = Len(t) + 1
    <3>1. t[i].session = s
      BY <1>1, <1>2, <1>5, <2>1, <2>3
    <3>2. Between(t, i, Len(t) + 1)
      BY <1>5, <2>1, <3>1 DEF PausedSince
    <3> QED
      BY <1>2, <1>4, <2>1, <2>3, <3>2
  <2> QED
    BY <1>3, <2>2, <2>3
<1>6. ASSUME NEW q, q # s, PausedSince(t, q),
             NEW i \in 1..Len(u), IsResume(u[i]), u[i].session = q
      PROVE  Between(u, i, Len(u) + 1)
  <2>1. i \in 1..Len(t) /\ u[i] = t[i]
    BY <1>1, <1>2, <1>3, <1>6
  <2>2. Between(t, i, Len(t) + 1)
    BY <1>6, <2>1 DEF PausedSince
  <2>3. PICK k \in (i + 1)..(Len(t) + 1 - 1) : t[k] = Event(t[i].session, "paused")
    BY <2>2 DEF Between
  <2>4. u[k] = t[k] /\ k \in (i + 1)..(Len(u) + 1 - 1)
    BY <1>2, <2>1, <2>3
  <2> QED
    BY <2>1, <2>3, <2>4 DEF Between
<1> QED
  BY <1>5, <1>6 DEF u, e, Alternates, PausedSince

--------------------------------------------------------------------------------
(* The initial states and the steps.                                        *)

(* An engine that has seen nothing, at a start or after a restart.          *)
Unused == windows = NoEntries /\ paused = NoEntries /\ alerts = NoEntries /\ events = << >>

LEMMA UnusedInv == Unused => IInv
<1> SUFFICES ASSUME Unused PROVE IInv
  OBVIOUS
<1>1. DOMAIN windows = {} /\ DOMAIN paused = {} /\ DOMAIN alerts = {} /\ events = << >>
  BY DEF Unused, NoEntries
<1>2. Agree /\ AlertsCurrent
  BY <1>1 DEF Agree, AlertsCurrent
<1>3. Sized
  <2>1. MaxSessions \in Nat
    BY ConfigAssumption
  <2>2. IsFiniteSet({}) /\ Cardinality({}) = 0
    BY FS_EmptySet
  <2> QED
    BY <1>1, <2>1, <2>2 DEF Sized
<1>4. Logged
  <2>1. events \in Seq(Events) /\ Len(events) = 0
    BY <1>1
  <2>2. MaxEvents \in Nat
    BY ConfigAssumption
  <2> QED
    BY <1>1, <2>1, <2>2 DEF Logged, Alternates
<1> QED
  BY <1>2, <1>3, <1>4 DEF IInv

(* The log after entries of a digest, or after a resume.                    *)
LEMMA PushKeeps ==
  ASSUME Logged, NEW new \in Seq(Events), Push(new)
  PROVE  /\ events' \in Seq(Events) /\ Len(events') <= MaxEvents
         /\ Alternates(events \o new) => Alternates(events')
         /\ \A s : PausedSince(events \o new, s) => PausedSince(events', s)
<1> DEFINE all == events \o new
<1>1. all \in Seq(Events)
  BY ConcatProperties DEF Logged
<1>2. PICK u : u = events'
  OBVIOUS
<1>3. u = SubSeq(all, Max({Len(all) - MaxEvents, 0}) + 1, Len(all))
  BY <1>2 DEF Push
<1> HIDE DEF all
<1>4. Trimmed(u, all) /\ Len(u) <= MaxEvents
  BY <1>1, <1>3, Newest, Zenon
<1>5. u \in Seq(Events)
  BY <1>4 DEF Trimmed
<1>6. (Alternates(all) => Alternates(u)) /\ \A s : PausedSince(all, s) => PausedSince(u, s)
  BY <1>1, <1>4, SuffixLog, Zenon
<1> QED
  BY <1>2, <1>4, <1>5, <1>6, Zenon DEF all

(* A digest records alerts and then, if it pauses its session, the pause.   *)
LEMMA FeedLog ==
  ASSUME NEW s \in Sessions, NEW raised \in Seq(Alerts), NEW stops, Logged,
         NEW new, new = [k \in DOMAIN raised |->
                           Event(s, IF IsLoop(raised[k]) THEN "loop" ELSE "burn")]
                        \o IF stops = {} THEN << >> ELSE <<Event(s, "paused")>>
  PROVE  /\ new \in Seq(Events)
         /\ Alternates(events \o new)
         /\ \A q : PausedSince(events, q) => PausedSince(events \o new, q)
         /\ stops # {} => PausedSince(events \o new, s)
<1> DEFINE told == [k \in DOMAIN raised |->
                      Event(s, IF IsLoop(raised[k]) THEN "loop" ELSE "burn")]
           stop == IF stops = {} THEN << >> ELSE <<Event(s, "paused")>>
<1>1. DOMAIN raised = 1..Len(raised) /\ Len(raised) \in Nat
  BY LenProperties
<1>2. \A k \in 1..Len(raised) : told[k] \in Events /\ ~IsResume(told[k])
  BY <1>1 DEF Event, Events, EventTypes, IsResume
<1>3. told \in Seq(Events) /\ Len(told) = Len(raised)
  BY <1>1, <1>2
<1>4. Event(s, "paused") \in Events /\ ~IsResume(Event(s, "paused"))
  BY DEF Event, Events, EventTypes, IsResume
<1>5. /\ stop \in Seq(Events) /\ \A k \in 1..Len(stop) : ~IsResume(stop[k])
      /\ stops # {} => Len(stop) = 1 /\ stop[1] = Event(s, "paused")
  <2>1. CASE stops = {}
    BY <2>1
  <2>2. CASE stops # {}
    BY <1>4, <2>2
  <2> QED
    BY <2>1, <2>2
<1>6. new = told \o stop
  OBVIOUS
<1> HIDE DEF told, stop
<1>7. /\ new \in Seq(Events) /\ Len(new) = Len(told) + Len(stop)
      /\ \A k \in 1..Len(new) : ~IsResume(new[k])
  BY <1>1, <1>2, <1>3, <1>5, <1>6
<1>8. stops # {} => new # << >> /\ new[Len(new)] = Event(s, "paused")
  BY <1>1, <1>3, <1>5, <1>6, <1>7
<1> QED
  BY <1>7, <1>8, LogGrows DEF Logged

LEMMA FeedInv ==
  ASSUME IInv, NEW s \in Sessions, NEW d, Feed(s, d)
  PROVE  IInv'
<1> DEFINE live   == Live(d.at)
           before == IF s \in live THEN windows[s].digests ELSE << >>
           window == Within(Append(before, d), d.at)
           raised == Raised(window, d)
           loops  == Loops(window, d)
           stops  == IF Pauses /\ loops # << >> THEN {s} ELSE {}
           warns  == IF raised # << >> THEN {s} ELSE {}
           fed    == [q \in live \cup {s} |->
                        IF q = s THEN [digests |-> window, last |-> d.at] ELSE windows[q]]
           new    == [k \in DOMAIN raised |->
                        Event(s, IF IsLoop(raised[k]) THEN "loop" ELSE "burn")]
                     \o IF stops = {} THEN << >> ELSE <<Event(s, "paused")>>
<1>1. PICK kept \in Survivors(fed) :
        /\ windows' = [q \in kept |-> fed[q]]
        /\ paused'  = [q \in (Recent(paused, d.at) \cap kept) \cup stops |->
                         IF q \in stops THEN [at |-> d.at, by |-> Head(loops)] ELSE paused[q]]
        /\ alerts'  = [q \in StillAlerted(s, d.at, kept) \cup warns |->
                         IF q \in warns THEN [at |-> d.at, by |-> Head(raised)] ELSE alerts[q]]
        /\ Push(new)
  BY Zenon DEF Feed
<1>2. /\ raised \in Seq(Alerts)
      /\ raised # << >> /\ IsLoop(Head(raised)) => loops # << >>
  BY RaisedShape, Zenon
<1> HIDE DEF raised, loops, window
<1>3. DOMAIN fed = live \cup {s} /\ live \subseteq DOMAIN windows
  BY DEF Live
<1>4. IsFiniteSet(DOMAIN fed)
  <2>1. IsFiniteSet(DOMAIN windows)
    BY DEF IInv, Sized
  <2>2. IsFiniteSet(live)
    BY <1>3, <2>1, FS_Subset
  <2> QED
    BY <1>3, <2>2, FS_AddElement
<1>5. kept \subseteq live \cup {s} /\ IsFiniteSet(kept) /\ Cardinality(kept) <= MaxSessions
  <2> HIDE DEF fed
  <2> QED
    BY <1>3, <1>4, SurvivorsBounded, Zenon
<1>6. /\ DOMAIN windows' = kept
      /\ DOMAIN paused' = (Recent(paused, d.at) \cap kept) \cup stops
      /\ DOMAIN alerts' = StillAlerted(s, d.at, kept) \cup warns
  BY <1>1
<1>7. Agree'
  <2> SUFFICES ASSUME NEW q \in DOMAIN alerts', Pauses, IsLoop(alerts'[q].by)
               PROVE  q \in DOMAIN paused' /\ paused'[q].at = alerts'[q].at
    BY DEF Agree
  <2>1. CASE q \in warns
    <3>1. q = s /\ raised # << >>
      BY <2>1
    <3>2. alerts'[s] = [at |-> d.at, by |-> Head(raised)]
      BY <1>1, <2>1, <3>1
    <3>3. s \in stops
      BY <1>2, <3>1, <3>2
    <3>4. paused'[s] = [at |-> d.at, by |-> Head(loops)]
      BY <1>1, <3>3
    <3> QED
      BY <1>6, <3>1, <3>2, <3>3, <3>4
  <2>2. CASE q \notin warns
    <3>1. q \in Recent(alerts, d.at) \cap kept /\ q # s /\ alerts'[q] = alerts[q]
      BY <1>1, <1>6, <2>2 DEF StillAlerted
    <3>2. q \in DOMAIN paused /\ paused[q].at = alerts[q].at
      BY <3>1 DEF IInv, Agree, Recent
    <3>3. q \in Recent(paused, d.at) \cap kept
      BY <3>1, <3>2 DEF Recent
    <3>4. q \in DOMAIN paused' /\ paused'[q] = paused[q]
      BY <1>1, <1>6, <3>1, <3>3
    <3> QED
      BY <3>1, <3>2, <3>4
  <2> QED
    BY <2>1, <2>2
<1>8. AlertsCurrent'
  <2> SUFFICES ASSUME NEW q \in DOMAIN alerts' \cap DOMAIN windows'
               PROVE  alerts'[q].at = windows'[q].last
    BY DEF AlertsCurrent
  <2>1. q \in kept /\ windows'[q] = fed[q]
    BY <1>1, <1>6
  <2>2. CASE q \in warns
    BY <1>1, <1>6, <2>1, <2>2
  <2>3. CASE q \notin warns
    <3>1. q \in DOMAIN alerts \cap DOMAIN windows /\ q \in live /\ q # s
      BY <1>6, <2>3 DEF StillAlerted, Recent, Live
    <3>2. alerts'[q] = alerts[q] /\ fed[q] = windows[q]
      BY <1>1, <1>6, <2>3, <3>1
    <3> QED
      BY <2>1, <3>1, <3>2 DEF IInv, AlertsCurrent
  <2> QED
    BY <2>2, <2>3
<1>9. Sized'
  <2>1. (DOMAIN paused' \cup DOMAIN alerts') \ DOMAIN windows' \subseteq {s}
    BY <1>6 DEF StillAlerted
  <2> QED
    BY <1>5, <1>6, <2>1 DEF Sized
<1>10. Logged'
  <2>1. /\ new \in Seq(Events) /\ Alternates(events \o new)
        /\ \A q : PausedSince(events, q) => PausedSince(events \o new, q)
        /\ stops # {} => PausedSince(events \o new, s)
    <3> HIDE DEF stops
    <3> QED
      BY <1>2, FeedLog DEF IInv
  <2>2. \A q \in DOMAIN paused' : PausedSince(events \o new, q)
    <3>1. \A q \in DOMAIN paused' : q \in DOMAIN paused \/ (q = s /\ stops # {})
      BY <1>6 DEF Recent
    <3> HIDE DEF new, stops
    <3> QED
      BY <2>1, <3>1, Zenon DEF IInv, Logged
  <2> HIDE DEF new
  <2>3. /\ events' \in Seq(Events) /\ Len(events') <= MaxEvents
        /\ Alternates(events')
        /\ \A q : PausedSince(events \o new, q) => PausedSince(events', q)
    BY <1>1, <2>1, PushKeeps, Zenon DEF IInv
  <2> QED
    BY <2>2, <2>3, Zenon DEF Logged
<1> QED
  BY <1>7, <1>8, <1>9, <1>10 DEF IInv

LEMMA ResumeInv ==
  ASSUME IInv, NEW s \in Sessions, Resume(s)
  PROVE  IInv'
<1>1. CASE UNCHANGED engine
  BY <1>1 DEF engine, IInv, Agree, AlertsCurrent, Sized, Logged
<1>2. CASE /\ s \in DOMAIN paused
           /\ paused'  = [q \in DOMAIN paused \ {s} |-> paused[q]]
           /\ windows' = [q \in DOMAIN windows \ {s} |-> windows[q]]
           /\ alerts'  = [q \in DOMAIN alerts \ {s} |-> alerts[q]]
           /\ Push(<<Event(s, "resumed")>>)
  <2>1. Agree' /\ AlertsCurrent'
    BY <1>2 DEF IInv, Agree, AlertsCurrent
  <2>2. Sized'
    <3>1. IsFiniteSet(DOMAIN windows) /\ Cardinality(DOMAIN windows) <= MaxSessions
      BY DEF IInv, Sized
    <3>2. DOMAIN windows' \subseteq DOMAIN windows
      BY <1>2
    <3>3. /\ IsFiniteSet(DOMAIN windows')
          /\ Cardinality(DOMAIN windows') <= Cardinality(DOMAIN windows)
      BY <3>1, <3>2, FS_Subset
    <3>4. /\ Cardinality(DOMAIN windows') \in Nat /\ Cardinality(DOMAIN windows) \in Nat
          /\ MaxSessions \in Nat
      BY <3>1, <3>3, FS_CardinalityType, ConfigAssumption
    <3>5. Cardinality(DOMAIN windows') <= MaxSessions
      BY <3>1, <3>3, <3>4
    <3>6. (DOMAIN paused' \cup DOMAIN alerts') \ DOMAIN windows'
          \subseteq (DOMAIN paused \cup DOMAIN alerts) \ DOMAIN windows
      BY <1>2
    <3>7. PICK q : (DOMAIN paused \cup DOMAIN alerts) \ DOMAIN windows \subseteq {q}
      BY DEF IInv, Sized
    <3>8. (DOMAIN paused' \cup DOMAIN alerts') \ DOMAIN windows' \subseteq {q}
      BY <3>6, <3>7
    <3> QED
      BY <3>3, <3>5, <3>8 DEF Sized
  <2>3. Logged'
    <3> DEFINE new == <<Event(s, "resumed")>>
    <3>1. new \in Seq(Events)
      BY DEF Event, Events, EventTypes
    <3>2. /\ Alternates(events \o new)
          /\ \A q : q # s /\ PausedSince(events, q) => PausedSince(events \o new, q)
      BY <1>2, LogResumes, Zenon DEF IInv, Logged
    <3>3. Push(new)
      BY <1>2
    <3> HIDE DEF new
    <3>4. /\ events' \in Seq(Events) /\ Len(events') <= MaxEvents
          /\ Alternates(events')
          /\ \A q : PausedSince(events \o new, q) => PausedSince(events', q)
      BY <3>1, <3>2, <3>3, PushKeeps, Zenon DEF IInv
    <3>5. \A q \in DOMAIN paused' : q \in DOMAIN paused /\ q # s
      BY <1>2
    <3> QED
      BY <3>2, <3>4, <3>5, Zenon DEF IInv, Logged
  <2> QED
    BY <2>1, <2>2, <2>3 DEF IInv
<1> QED
  BY <1>1, <1>2 DEF Resume

LEMMA NextInv == IInv /\ [Next]_vars => IInv'
<1> SUFFICES ASSUME IInv, [Next]_vars PROVE IInv'
  OBVIOUS
<1>1. CASE UNCHANGED vars
  BY <1>1 DEF vars, engine, IInv, Agree, AlertsCurrent, Sized, Logged
<1>2. CASE Next
  <2>1. PICK s \in Sessions : (\E d \in Digests : Feed(s, d)) \/ Resume(s)
    BY <1>2 DEF Next
  <2> QED
    BY <2>1, FeedInv, ResumeInv
<1> QED
  BY <1>1, <1>2

(* The invariant bounds the sessions that are paused or alerted without a   *)
(* window.                                                                  *)
LEMMA IInvBounds == IInv => MemoryBounded
<1> SUFFICES ASSUME IInv PROVE MemoryBounded
  OBVIOUS
<1> DEFINE rest == (DOMAIN paused \cup DOMAIN alerts) \ DOMAIN windows
<1>1. PICK q : rest \subseteq {q}
  BY DEF IInv, Sized
<1>2. IsFiniteSet({q}) /\ Cardinality({q}) = 1
  BY FS_Singleton
<1>3. Cardinality(rest) <= 1
  BY <1>1, <1>2, FS_Subset
<1> QED
  BY <1>3 DEF IInv, Sized, Logged, MemoryBounded

LEMMA IInvAlternates == IInv => ResumesAlternate
<1> SUFFICES ASSUME IInv PROVE ResumesAlternate
  OBVIOUS
<1>1. DOMAIN events = 1..Len(events) /\ Alternates(events)
  BY LenProperties DEF IInv, Logged
<1> QED
  BY <1>1 DEF ResumesAlternate, Alternates, IsResume, Between

--------------------------------------------------------------------------------
(* The invariant holds in every state.                                      *)
THEOREM Invariance == Spec => []IInv
<1>1. Init => IInv
  BY UnusedInv DEF Init, Unused
<1>2. IInv /\ [Next]_vars => IInv'
  BY NextInv
<1> QED
  BY <1>1, <1>2, PTL DEF Spec

(* Whatever pruning, eviction and resumes do, a session with an active loop *)
(* alert is paused (detect:137-304).                                        *)
THEOREM AlertsPaused == Spec => []LoopAlertMeansPaused
<1>1. IInv => LoopAlertMeansPaused
  BY DEF IInv, Agree, LoopAlertMeansPaused
<1> QED
  BY <1>1, Invariance, PTL

(* The active alert of a session is about its last digest, in whatever      *)
(* order digests are fed (detect:137-264).                                  *)
THEOREM AlertsStayCurrent == Spec => []AlertsCurrent
<1>1. IInv => AlertsCurrent
  BY DEF IInv
<1> QED
  BY <1>1, Invariance, PTL

(* Between two resumes of a session in the log lies a pause, however many   *)
(* entries the log has dropped (detect:277-304, detect:422).                *)
THEOREM ResumesFollowPauses == Spec => []ResumesAlternate
<1>1. IInv => ResumesAlternate
  BY IInvAlternates
<1> QED
  BY <1>1, Invariance, PTL

(* The engine's memory is bounded for every number of sessions that ever    *)
(* call (detect:374-420).                                                   *)
THEOREM MemoryIsBounded == Spec => []MemoryBounded
<1>1. IInv => MemoryBounded
  BY IInvBounds
<1> QED
  BY <1>1, Invariance, PTL

--------------------------------------------------------------------------------
(* The two planes of a process.                                             *)

HasRoom == IsFiniteSet(Sessions) /\ Cardinality(Sessions) <= MaxSessions

(* A digest waits no longer than MaxLag, and with room a paused session has *)
(* a window, whose last digest came MaxLag before the pause at the most.    *)
JobsInv ==
  /\ now \in Int /\ restarts \in Int /\ DOMAIN job = Requests
  /\ \A r \in Requests : job[r] # NoJob =>
       /\ job[r].session \in Sessions
       /\ job[r].digest.at \in Int
       /\ job[r].digest.at <= now /\ now - job[r].digest.at <= MaxLag

PausesInv ==
  HasRoom =>
    /\ DOMAIN paused \subseteq DOMAIN windows /\ DOMAIN windows \subseteq Sessions
    /\ \A s \in DOMAIN windows : windows[s].last \in Int
    /\ \A s \in DOMAIN paused :
         /\ paused[s].at \in Int /\ paused[s].at <= now
         /\ paused[s].at - MaxLag <= windows[s].last

PlanesInv == JobsInv /\ PausesInv

(* With room no session is evicted.                                         *)
LEMMA RoomKeeps ==
  ASSUME HasRoom, NEW w, DOMAIN w \subseteq Sessions, NEW kept \in Survivors(w)
  PROVE  kept = DOMAIN w
<1>1. IsFiniteSet(DOMAIN w) /\ Cardinality(DOMAIN w) <= Cardinality(Sessions)
  BY FS_Subset DEF HasRoom
<1>2. Cardinality(DOMAIN w) \in Nat /\ Cardinality(Sessions) \in Nat /\ MaxSessions \in Nat
  BY <1>1, FS_CardinalityType, ConfigAssumption DEF HasRoom
<1>3. kept \subseteq DOMAIN w /\ Cardinality(kept) = Min({Cardinality(DOMAIN w), MaxSessions})
  BY DEF Survivors
<1>4. Min({Cardinality(DOMAIN w), MaxSessions}) = Cardinality(DOMAIN w)
  BY <1>1, <1>2 DEF Min, HasRoom
<1> QED
  BY <1>1, <1>3, <1>4, FS_Subset

(* What a feed leaves of the windows and the pauses when nothing is evicted.*)
LEMMA RoomyFeed ==
  ASSUME HasRoom, DOMAIN windows \subseteq Sessions,
         NEW s \in Sessions, NEW d, Feed(s, d)
  PROVE  /\ DOMAIN windows' = Live(d.at) \cup {s}
         /\ windows'[s].last = d.at
         /\ \A q \in Live(d.at) \ {s} : windows'[q] = windows[q]
         /\ Recent(paused, d.at) \subseteq DOMAIN paused'
         /\ DOMAIN paused' \subseteq Recent(paused, d.at) \cup {s}
         /\ \A q \in DOMAIN paused' :
              \/ q = s /\ paused'[q].at = d.at
              \/ q \in Recent(paused, d.at) /\ paused'[q] = paused[q]
<1> DEFINE live   == Live(d.at)
           before == IF s \in live THEN windows[s].digests ELSE << >>
           window == Within(Append(before, d), d.at)
           loops  == Loops(window, d)
           stops  == IF Pauses /\ loops # << >> THEN {s} ELSE {}
           recent == Recent(paused, d.at)
           fed    == [q \in live \cup {s} |->
                        IF q = s THEN [digests |-> window, last |-> d.at] ELSE windows[q]]
<1>1. PICK kept \in Survivors(fed) :
        /\ windows' = [q \in kept |-> fed[q]]
        /\ paused' = [q \in (recent \cap kept) \cup stops |->
                         IF q \in stops THEN [at |-> d.at, by |-> Head(loops)] ELSE paused[q]]
  <2> HIDE DEF window, loops
  <2> QED
    BY DEF Feed, window, loops
<1> HIDE DEF window, loops
<1>2. live = Live(d.at) /\ recent = Recent(paused, d.at)
  OBVIOUS
<1>3. live \subseteq Sessions /\ recent \subseteq live
  BY <1>2 DEF Live, Recent
<1>4. kept = live \cup {s}
  <2>1. kept \in Survivors(fed)
    BY <1>1
  <2>2. DOMAIN fed = live \cup {s} /\ DOMAIN fed \subseteq Sessions
    BY <1>3
  <2> HIDE DEF fed
  <2> QED
    BY <2>1, <2>2, RoomKeeps
<1>5. /\ windows' = [q \in live \cup {s} |-> fed[q]]
      /\ \A q \in live \ {s} : fed[q] = windows[q]
      /\ fed[s].last = d.at
  BY <1>1, <1>4
<1>6. /\ stops \subseteq {s}
      /\ DOMAIN paused' = recent \cup stops
      /\ \A q \in recent \cup stops :
           IF q \in stops THEN paused'[q].at = d.at ELSE paused'[q] = paused[q]
  BY <1>1, <1>3, <1>4
<1> QED
  BY <1>2, <1>5, <1>6

(* A digest keeps the invariant and takes no recent pause away.             *)
LEMMA FeedKeepsPauses ==
  ASSUME PlanesInv, MaxLag \in Nat, HasRoom, NEW r \in Requests, RunDetection(r)
  PROVE  /\ PausesInv'
         /\ \A s \in DOMAIN paused \ DOMAIN paused' :
              paused[s].at < now - AtLeastOne(Retention) + MaxLag
<1> DEFINE s == job[r].session
           d == job[r].digest
<1>1. /\ s \in Sessions /\ d.at \in Int /\ now \in Int /\ now' = now
      /\ d.at <= now /\ now - d.at <= MaxLag
      /\ Feed(s, d)
  BY DEF PlanesInv, JobsInv, RunDetection
<1> HIDE DEF s, d
<1>2. /\ DOMAIN windows' = Live(d.at) \cup {s}
      /\ windows'[s].last = d.at
      /\ \A q \in Live(d.at) \ {s} : windows'[q] = windows[q]
      /\ Recent(paused, d.at) \subseteq DOMAIN paused'
      /\ DOMAIN paused' \subseteq Recent(paused, d.at) \cup {s}
      /\ \A q \in DOMAIN paused' :
           \/ q = s /\ paused'[q].at = d.at
           \/ q \in Recent(paused, d.at) /\ paused'[q] = paused[q]
  BY <1>1, RoomyFeed DEF PlanesInv, PausesInv
<1>3. /\ Live(d.at) \subseteq DOMAIN windows
      /\ Recent(paused, d.at) \subseteq Live(d.at) \cap DOMAIN paused
  BY DEF Live, Recent
<1>4. PausesInv'
  <2>1. DOMAIN paused' \subseteq DOMAIN windows' /\ DOMAIN windows' \subseteq Sessions
    BY <1>1, <1>2, <1>3 DEF PlanesInv, PausesInv
  <2>2. \A q \in DOMAIN windows' : windows'[q].last \in Int
    BY <1>1, <1>2, <1>3 DEF PlanesInv, PausesInv
  <2>3. ASSUME NEW q \in DOMAIN paused'
        PROVE  /\ paused'[q].at \in Int /\ paused'[q].at <= now'
               /\ paused'[q].at - MaxLag <= windows'[q].last
    <3>1. paused'[q].at \in Int /\ paused'[q].at <= now
      BY <1>1, <1>2, <1>3 DEF PlanesInv, PausesInv
    <3>2. CASE q = s
      BY <1>1, <1>2, <3>1, <3>2
    <3>3. CASE q # s
      BY <1>1, <1>2, <1>3, <3>3 DEF PlanesInv, PausesInv
    <3> QED
      BY <1>1, <3>1, <3>2, <3>3
  <2> QED
    BY <2>1, <2>2, <2>3 DEF PausesInv
<1>5. ASSUME NEW q \in DOMAIN paused \ DOMAIN paused'
      PROVE  paused[q].at < now - AtLeastOne(Retention) + MaxLag
  <2>1. AtLeastOne(Retention) \in Int
    BY ConfigAssumption DEF AtLeastOne
  <2>2. /\ paused[q].at \in Int /\ windows[q].last \in Int /\ q \in DOMAIN windows
        /\ paused[q].at - MaxLag <= windows[q].last
    BY DEF PlanesInv, PausesInv
  <2>3. windows[q].last < Since(d.at) \/ paused[q].at < Since(d.at)
    BY <1>1, <1>2, <2>1, <2>2 DEF Recent, Live, Since
  <2> QED
    BY <1>1, <2>1, <2>2, <2>3 DEF Since
<1> QED
  BY <1>4, <1>5

(* The other steps of a process: the requests and the clock, and a restart. *)
LEMMA OthersKeepPauses ==
  ASSUME PlanesInv, MaxLag \in Nat, now' \in Int, now <= now',
         UNCHANGED <<windows, paused>>
  PROVE  PausesInv'
<1>1. now \in Int
  BY DEF PlanesInv, JobsInv
<1> QED
  BY <1>1 DEF PlanesInv, PausesInv, HasRoom

LEMMA PlanesKeep ==
  ASSUME PlanesInv, MaxLag \in Nat, [PlanesNext]_planes
  PROVE  /\ PlanesInv'
         /\ \A s \in DOMAIN paused :
              HasRoom /\ restarts' = restarts /\ s \notin DOMAIN paused'
              => paused[s].at < now - AtLeastOne(Retention) + MaxLag
<1> DEFINE NoneLost == \A s \in DOMAIN paused :
              HasRoom /\ restarts' = restarts /\ s \notin DOMAIN paused'
              => paused[s].at < now - AtLeastOne(Retention) + MaxLag
<1>1. now \in Int /\ restarts \in Int /\ DOMAIN job = Requests
  BY DEF PlanesInv, JobsInv
<1>2. ASSUME NEW r \in Requests, NEW s \in Sessions, NEW k \in Kinds, Accept(r, s, k)
      PROVE  PlanesInv' /\ NoneLost
  <2>1. UNCHANGED <<now, restarts, windows, paused>>
    BY <1>2 DEF Accept, engine
  <2>2. /\ DOMAIN job' = Requests
        /\ job'[r].session = s /\ job'[r].digest.at = now
        /\ \A q \in Requests \ {r} : job'[q] = job[q]
    BY <1>1, <1>2 DEF Accept
  <2>3. JobsInv'
    BY <1>1, <2>1, <2>2 DEF PlanesInv, JobsInv, NoJob
  <2> QED
    BY <1>1, <2>1, <2>3, OthersKeepPauses DEF PlanesInv
<1>3. ASSUME NEW r \in Requests, Fail(r) PROVE PlanesInv' /\ NoneLost
  <2>1. UNCHANGED <<now, restarts, windows, paused>>
    BY <1>3 DEF Fail, engine
  <2>2. JobsInv'
    BY <1>1, <1>3, <2>1 DEF PlanesInv, JobsInv, Fail, NoJob
  <2> QED
    BY <1>1, <2>1, <2>2, OthersKeepPauses DEF PlanesInv
<1>4. ASSUME NEW r \in Requests, RunDetection(r) PROVE PlanesInv' /\ NoneLost
  <2>1. JobsInv'
    BY <1>1, <1>4 DEF PlanesInv, JobsInv, RunDetection, NoJob
  <2>2. CASE HasRoom
    BY <1>4, <2>1, <2>2, FeedKeepsPauses DEF PlanesInv
  <2>3. CASE ~HasRoom
    BY <2>1, <2>3 DEF PlanesInv, PausesInv, HasRoom
  <2> QED
    BY <2>2, <2>3
<1>5. ASSUME NEW s \in Sessions, PostDetectResume(s) PROVE PlanesInv' /\ NoneLost
  <2>1. UNCHANGED <<now, job, restarts, windows, paused>>
    BY <1>5 DEF PostDetectResume, engine
  <2>2. JobsInv'
    BY <2>1 DEF PlanesInv, JobsInv, NoJob
  <2> QED
    BY <1>1, <2>1, <2>2, OthersKeepPauses DEF PlanesInv
<1>6. ASSUME Tick PROVE PlanesInv' /\ NoneLost
  <2>1. UNCHANGED <<job, restarts, windows, paused>> /\ now' = now + 1
        /\ \A r \in Requests : job[r] # NoJob => now - job[r].digest.at < MaxLag
    BY <1>6 DEF Tick, engine
  <2>2. JobsInv'
    BY <1>1, <2>1 DEF PlanesInv, JobsInv, NoJob
  <2> QED
    BY <1>1, <2>1, <2>2, OthersKeepPauses DEF PlanesInv
<1>7. ASSUME Restart PROVE PlanesInv' /\ NoneLost
  <2>1. /\ restarts' = restarts + 1 /\ restarts < MaxRestarts /\ now' = now
        /\ DOMAIN windows' = {} /\ DOMAIN paused' = {}
        /\ DOMAIN job' = Requests /\ \A r \in Requests : job'[r] = NoJob
    BY <1>7 DEF Restart, NoEntries
  <2>2. PlanesInv'
    BY <1>1, <2>1 DEF PlanesInv, JobsInv, PausesInv, NoJob
  <2> QED
    BY <2>1, <2>2
<1>8. ASSUME UNCHANGED planes PROVE PlanesInv' /\ NoneLost
  <2>1. UNCHANGED <<now, job, restarts, windows, paused>>
    BY <1>8 DEF planes, engine
  <2>2. JobsInv'
    BY <2>1 DEF PlanesInv, JobsInv, NoJob
  <2> QED
    BY <1>1, <2>1, <2>2, OthersKeepPauses DEF PlanesInv
<1> HIDE DEF NoneLost
<1>9. ASSUME PlanesNext PROVE PlanesInv' /\ NoneLost
  <2>1. ASSUME NEW r \in Requests,
               \/ \E s \in Sessions, k \in Kinds : Accept(r, s, k)
               \/ Fail(r) \/ RunDetection(r)
        PROVE  PlanesInv' /\ NoneLost
    BY <1>2, <1>3, <1>4, <2>1
  <2> QED
    BY <1>5, <1>6, <1>7, <1>9, <2>1 DEF PlanesNext
<1> QED
  BY <1>8, <1>9 DEF NoneLost

(* With room for every session, a pause that no operator and no restart     *)
(* takes away lasts for the retention, less the lag of a late digest, in    *)
(* whatever order digests are fed (detect:374-420, proxy:1765-1838).        *)
THEOREM PausesOutlastDigests == PlanesSpec => PausesLast
<1>1. PlanesInit => PlanesInv
  BY DEF PlanesInit, Init, NoEntries, NoJob, PlanesInv, JobsInv, PausesInv
<1>2. PlanesInv /\ [PlanesNext]_planes => PlanesInv'
  BY PlanesKeep, LagAssumption
<1>3. PlanesInv /\ [PlanesNext]_planes =>
        \A s \in DOMAIN paused :
          /\ IsFiniteSet(Sessions) /\ Cardinality(Sessions) <= MaxSessions
          /\ restarts' = restarts /\ s \notin DOMAIN paused'
          => paused[s].at < now - AtLeastOne(Retention) + MaxLag
  BY PlanesKeep, LagAssumption DEF HasRoom
<1> QED
  BY <1>1, <1>2, <1>3, PTL DEF PlanesSpec, PausesLast

(* The engine of the data plane keeps its invariant though a restart begins *)
(* with an unused one: what it is fed are digests in flight.                *)
LEMMA DataPlaneKeeps ==
  ASSUME PlanesInv, IInv, [PlanesNext]_planes
  PROVE  IInv'
<1>1. CASE UNCHANGED engine
  BY <1>1 DEF engine, IInv, Agree, AlertsCurrent, Sized, Logged
<1>2. ASSUME NEW r \in Requests, RunDetection(r) PROVE IInv'
  BY <1>2, FeedInv DEF RunDetection, PlanesInv, JobsInv
<1>3. CASE Restart
  <2>1. Unused'
    BY <1>3 DEF Restart, Unused, NoEntries
  <2>2. Unused' => IInv'
    BY UnusedInv, PTL
  <2> QED
    BY <2>1, <2>2
<1>4. PlanesNext => \/ UNCHANGED engine \/ Restart
                   \/ \E r \in Requests : RunDetection(r)
  BY Zenon DEF PlanesNext, Accept, Fail, PostDetectResume, Tick
<1>5. UNCHANGED planes => UNCHANGED engine
  BY Zenon DEF planes
<1> QED
  BY <1>1, <1>2, <1>3, <1>4, <1>5

(* In a process, with requests in flight, late digests, and restarts, the   *)
(* data plane's detector is all that it promises alone (proxy:1765-1838,    *)
(* detect:137-264).                                                         *)
THEOREM DataPlaneDetects ==
  PlanesSpec => [](LoopAlertMeansPaused /\ AlertsCurrent /\ ResumesAlternate /\ MemoryBounded)
<1>1. PlanesInit => PlanesInv /\ IInv
  <2>1. PlanesInit => PlanesInv
    BY DEF PlanesInit, Init, NoEntries, NoJob, PlanesInv, JobsInv, PausesInv
  <2> QED
    BY <2>1, UnusedInv DEF PlanesInit, Init, Unused
<1>2. PlanesInv /\ IInv /\ [PlanesNext]_planes => PlanesInv' /\ IInv'
  BY PlanesKeep, DataPlaneKeeps, LagAssumption
<1>3. IInv => LoopAlertMeansPaused /\ AlertsCurrent /\ ResumesAlternate /\ MemoryBounded
  BY IInvBounds, IInvAlternates DEF IInv, Agree, LoopAlertMeansPaused
<1> QED
  BY <1>1, <1>2, <1>3, PTL DEF PlanesSpec
================================================================================
