--------------------------- MODULE StreamRelayProofs ---------------------------
(****************************************************************************)
(* Proofs about StreamRelay, for any number of streams, bodies, threads and *)
(* capacities, whatever lifetime and size the adapter's map has: the map    *)
(* keeps every channel until its handler takes it; the client is sent the   *)
(* lines of the events of the body, in order and once, however the network  *)
(* cuts the bytes; and a stream that is settled as complete is charged what *)
(* its provider reported.                                                   *)
(*                                                                          *)
(* The argument follows the bytes.  The buffer is always what was received  *)
(* of the body behind its first k events; the lines those k events become,  *)
(* cleaned, are the lines at the client, in the channel and at the producer *)
(* in one sequence; every action takes one piece of that from one place to  *)
(* the next.                                                                *)
(****************************************************************************)
EXTENDS StreamRelay, SequenceTheorems, FiniteSetTheorems, WellFoundedInduction, TLAPS

--------------------------------------------------------------------------------
(* Counting up to a number, and joining sequences                           *)

(* A set of naturals has a least member, and so what holds of zero and of   *)
(* every successor up to n holds of all up to n.                            *)
LEMMA LeastNat ==
  ASSUME NEW T, T \subseteq Nat, T # {}
  PROVE  \E x \in T : \A y \in T : x <= y
<1>1. PICK x \in T : \A y \in T : ~(<<y, x>> \in OpToRel(<, Nat))
  BY NatLessThanWellFounded, WFMin
<1>2. \A y \in T : ~(y < x)
  BY <1>1 DEF OpToRel
<1> QED
  BY <1>2

(* What holds of 0, and of the successor of each it holds of, holds up to n.*)
LEMMA CountUp ==
  ASSUME NEW n \in Nat, NEW C, 0 \in C, \A i \in 0..(n - 1) : i \in C => i + 1 \in C
  PROVE  \A i \in 0..n : i \in C
<1> DEFINE T == {i \in 0..n : i \notin C}
<1> SUFFICES ASSUME T # {} PROVE FALSE
  OBVIOUS
<1>1. PICK x \in T : \A y \in T : x <= y
  <2>1. T \subseteq Nat
    OBVIOUS
  <2> HIDE DEF T
  <2> QED
    BY <2>1, LeastNat
<1>2. x - 1 \in 0..(n - 1) /\ x - 1 \notin T
  BY <1>1
<1> QED
  BY <1>2

--------------------------------------------------------------------------------
(* The function by which FlattenSeq concatenates the first parts.           *)
FlattensBy(g, parts, n) ==
  /\ g = [i \in 1..n |-> g[i]]
  /\ \A i \in 1..n : g[i] = IF i = 1 THEN parts[i] ELSE g[i - 1] \o parts[i]

(* That FlattenSeq chooses it by one equation.                              *)
Equation(g, parts, n) ==
  g = [i \in 1..n |-> IF i = 1 THEN parts[i] ELSE g[i - 1] \o parts[i]]

LEMMA FlattenStep ==
  ASSUME NEW parts, NEW n \in Nat, NEW g
  PROVE  FlattensBy(g, parts, n) <=> Equation(g, parts, n)
<1> DEFINE f == [i \in 1..n |-> IF i = 1 THEN parts[i] ELSE g[i - 1] \o parts[i]]
<1>1. \A i \in 1..n : f[i] = IF i = 1 THEN parts[i] ELSE g[i - 1] \o parts[i]
  OBVIOUS
<1>2. f = [i \in 1..n |-> f[i]]
  OBVIOUS
<1>3. FlattensBy(g, parts, n) => g = f
  <2> HIDE DEF f
  <2> QED
    BY <1>1, <1>2 DEF FlattensBy
<1>4. g = f => FlattensBy(g, parts, n)
  <2> HIDE DEF f
  <2> QED
    BY <1>1, <1>2 DEF FlattensBy
<1> QED
  BY <1>3, <1>4 DEF Equation

(* The function exists, and FlattenSeq takes it.                            *)
LEMMA FlattenExists ==
  ASSUME NEW parts, NEW n \in Nat
  PROVE  \E g : FlattensBy(g, parts, n)
<1> DEFINE C == {m \in 0..n : \E g : FlattensBy(g, parts, m)}
<1>1. 0 \in C
  <2> DEFINE g == [i \in 1..0 |-> IF i = 1 THEN parts[i] ELSE parts[i]]
  <2>1. FlattensBy(g, parts, 0)
    BY DEF FlattensBy
  <2> QED
    BY <2>1
<1>2. ASSUME NEW m \in 0..(n - 1), m \in C PROVE m + 1 \in C
  <2>1. PICK g : FlattensBy(g, parts, m)
    BY <1>2
  <2> DEFINE h == [i \in 1..(m + 1) |->
                     IF i = m + 1 THEN IF i = 1 THEN parts[i] ELSE g[m] \o parts[i] ELSE g[i]]
  <2>2. ASSUME NEW i \in 1..(m + 1)
        PROVE  h[i] = IF i = 1 THEN parts[i] ELSE h[i - 1] \o parts[i]
    <3>1. \A j \in 1..m : g[j] = IF j = 1 THEN parts[j] ELSE g[j - 1] \o parts[j]
      BY <2>1 DEF FlattensBy
    <3>2. CASE i = m + 1
      BY <3>2
    <3>3. CASE i # m + 1
      <4>1. i \in 1..m /\ h[i] = g[i] /\ (i # 1 => h[i - 1] = g[i - 1])
        BY <3>3
      <4> QED
        BY <3>1, <4>1
    <3> QED
      BY <3>2, <3>3
  <2>3. h = [i \in 1..(m + 1) |-> h[i]]
    OBVIOUS
  <2>4. FlattensBy(h, parts, m + 1)
    <3> HIDE DEF h
    <3> QED
      BY <2>2, <2>3 DEF FlattensBy
  <2> QED
    BY <2>4
<1>3. \A m \in 0..n : m \in C
  <2> HIDE DEF C
  <2> QED
    BY <1>1, <1>2, CountUp
<1> QED
  BY <1>3

LEMMA FlattenChosen ==
  ASSUME NEW parts, Len(parts) \in Nat, Len(parts) # 0
  PROVE  \E g : FlattensBy(g, parts, Len(parts)) /\ FlattenSeq(parts) = g[Len(parts)]
<1> DEFINE n == Len(parts)
           g == CHOOSE h : Equation(h, parts, n)
<1>1. \E h : Equation(h, parts, n)
  BY FlattenExists, FlattenStep
<1>2. FlattensBy(g, parts, n)
  <2>1. Equation(g, parts, n)
    BY <1>1
  <2> HIDE DEF g
  <2> QED
    BY <2>1, FlattenStep
<1>3. FlattenSeq(parts) = g[n]
  BY DEF FlattenSeq, Equation
<1> QED
  BY <1>2, <1>3

LEMMA FlattenEmpty == FlattenSeq(<< >>) = << >>
BY DEF FlattenSeq

(* Concatenation, part by part.                                             *)
LEMMA FlattenAppend ==
  ASSUME NEW S, NEW parts \in Seq(Seq(S)), NEW x \in Seq(S)
  PROVE  /\ FlattenSeq(parts) \in Seq(S)
         /\ FlattenSeq(Append(parts, x)) = FlattenSeq(parts) \o x
<1> DEFINE n == Len(parts)
           more == Append(parts, x)
<1>1. /\ n \in Nat /\ more \in Seq(Seq(S)) /\ Len(more) = n + 1
      /\ \A i \in 1..n : more[i] = parts[i] /\ parts[i] \in Seq(S)
      /\ more[n + 1] = x
  BY AppendProperties, LenProperties, ElementOfSeq
<1>2. PICK h : FlattensBy(h, more, n + 1) /\ FlattenSeq(more) = h[n + 1]
  <2> HIDE DEF more, n
  <2> QED
    BY <1>1, FlattenChosen
<1>3. CASE n = 0
  <2>1. parts = << >>
    BY <1>3, EmptySeq
  <2>2. FlattenSeq(more) = x
    BY <1>1, <1>2, <1>3 DEF FlattensBy
  <2> QED
    BY <2>1, <2>2, FlattenEmpty, EmptySeq, ConcatEmptySeq
<1>4. CASE n # 0
  <2>1. PICK g : FlattensBy(g, parts, n) /\ FlattenSeq(parts) = g[n]
    BY <1>1, <1>4, FlattenChosen
  <2>2. g[n] = h[n] /\ g[n] \in Seq(S)
    <3> HIDE DEF more, n
    <3> DEFINE C == {i \in 0..n : i # 0 => g[i] = h[i] /\ g[i] \in Seq(S)}
    <3>1. 0 \in C
      BY <1>1
    <3>2. ASSUME NEW i \in 0..(n - 1), i \in C PROVE i + 1 \in C
      <4>1. /\ g[i + 1] = IF i + 1 = 1 THEN parts[i + 1] ELSE g[i] \o parts[i + 1]
            /\ h[i + 1] = IF i + 1 = 1 THEN more[i + 1] ELSE h[i] \o more[i + 1]
        <5>1. i + 1 \in 1..n /\ i + 1 \in 1..(n + 1) /\ (i + 1) - 1 = i
          BY <1>1
        <5> QED
          BY <1>2, <2>1, <5>1 DEF FlattensBy
      <4>2. CASE i = 0
        BY <1>1, <4>1, <4>2
      <4>3. CASE i # 0
        <5>1. g[i] = h[i] /\ g[i] \in Seq(S)
          BY <1>1, <3>2, <4>3
        <5>2. parts[i + 1] = more[i + 1] /\ parts[i + 1] \in Seq(S)
          BY <1>1
        <5>3. g[i + 1] = h[i + 1] /\ g[i + 1] = g[i] \o parts[i + 1]
          <6>1. i + 1 # 1
            BY <4>3
          <6> QED
            BY <4>1, <5>1, <5>2, <6>1
        <5>4. g[i + 1] \in Seq(S)
          BY <5>1, <5>2, <5>3, ConcatProperties
        <5>5. i + 1 \in 0..n
          BY <1>1
        <5> QED
          BY <5>3, <5>4, <5>5, Zenon
      <4> QED
        BY <4>2, <4>3
    <3>3. \A i \in 0..n : i \in C
      <4> HIDE DEF C
      <4> QED
        BY <1>1, <3>1, <3>2, CountUp
    <3> QED
      BY <1>1, <1>4, <3>3
  <2>3. h[n + 1] = h[n] \o x
    <3> HIDE DEF more, n
    <3>1. n + 1 \in 1..(n + 1) /\ (n + 1) - 1 = n /\ n + 1 \in Nat
      BY <1>1
    <3>2. h[n + 1] = IF n + 1 = 1 THEN more[n + 1] ELSE h[(n + 1) - 1] \o more[n + 1]
      BY <1>2, <3>1 DEF FlattensBy
    <3>3. n + 1 # 1
      BY <1>1, <1>4
    <3> QED
      BY <1>1, <3>1, <3>2, <3>3
  <2> QED
    BY <1>2, <2>1, <2>2, <2>3
<1> QED
  BY <1>3, <1>4

(* The first k parts, and one more.                                         *)
FlatTo(parts, k) == FlattenSeq(SubSeq(parts, 1, k))

(* The first parts are joined one after the other.                          *)
LEMMA FlattenUpTo ==
  ASSUME NEW S, NEW parts \in Seq(Seq(S)), NEW i \in 0..Len(parts)
  PROVE  /\ SubSeq(parts, 1, i) \in Seq(Seq(S))
         /\ FlatTo(parts, i) \in Seq(S)
         /\ i < Len(parts) => FlatTo(parts, i + 1) = FlatTo(parts, i) \o parts[i + 1]
<1>1. SubSeq(parts, 1, i) \in Seq(Seq(S))
  BY LenProperties, SubSeqProperties, ElementOfSeq
<1>2. FlattenSeq(SubSeq(parts, 1, i)) \in Seq(S)
  <2>1. << >> \in Seq(S)
    BY EmptySeq
  <2> QED
    BY <1>1, <2>1, FlattenAppend
<1>3. ASSUME i < Len(parts)
      PROVE  FlattenSeq(SubSeq(parts, 1, i + 1))
               = FlattenSeq(SubSeq(parts, 1, i)) \o parts[i + 1]
  <2>1. Len(parts) \in Nat /\ i + 1 \in 1..Len(parts)
    BY <1>3, LenProperties
  <2>2. parts[i + 1] \in Seq(S)
    BY <2>1, ElementOfSeq
  <2>3. SubSeq(parts, 1, i + 1) = SubSeq(parts, 1, i) \o <<parts[i + 1]>>
    <3>1. 1 \in 1..Len(parts) /\ i + 1 \in 1..Len(parts) /\ (i + 1) - 1 = i
      BY <2>1
    <3> QED
      BY <3>1, SubSeqRecursiveSecond
  <2>4. SubSeq(parts, 1, i + 1) = Append(SubSeq(parts, 1, i), parts[i + 1])
    BY <1>1, <2>2, <2>3, AppendIsConcat
  <2> QED
    BY <1>1, <2>2, <2>4, FlattenAppend
<1> QED
  BY <1>1, <1>2, <1>3 DEF FlatTo

LEMMA FlatEnds ==
  ASSUME NEW S, NEW parts \in Seq(Seq(S))
  PROVE  FlatTo(parts, 0) = << >> /\ FlatTo(parts, Len(parts)) = FlattenSeq(parts)
<1>1. SubSeq(parts, 1, 0) = << >>
  <2>1. 1 \in Int /\ 0 \in Int /\ 0 < 1
    OBVIOUS
  <2> QED
    BY <2>1, SubSeqEmpty
<1>2. SubSeq(parts, 1, Len(parts)) = parts
  BY SubSeqFull
<1> QED
  BY <1>1, <1>2, FlattenEmpty DEF FlatTo

(* What the parts behind the first k add, which is nothing if all are empty.*)
LEMMA FlattenSplit ==
  ASSUME NEW S, NEW parts \in Seq(Seq(S)), NEW k \in 0..Len(parts), NEW j \in k..Len(parts)
  PROVE  \E t \in Seq(S) :
           /\ FlatTo(parts, j) = FlatTo(parts, k) \o t
           /\ (\A i \in (k + 1)..j : parts[i] = << >>) => t = << >>
<1> DEFINE Split(m) == \E t \in Seq(S) :
             /\ FlatTo(parts, k + m) = FlatTo(parts, k) \o t
             /\ (\A i \in (k + 1)..(k + m) : parts[i] = << >>) => t = << >>
           C == {m \in 0..(j - k) : Split(m)}
<1>1. Len(parts) \in Nat /\ k \in Nat /\ j \in Nat /\ k <= j /\ j <= Len(parts)
  BY LenProperties
<1>2. FlatTo(parts, k) \in Seq(S)
  BY FlattenUpTo
<1>3. 0 \in C
  <2>1. << >> \in Seq(S) /\ FlatTo(parts, k) \o << >> = FlatTo(parts, k) /\ k + 0 = k
    BY <1>1, <1>2, EmptySeq, ConcatEmptySeq
  <2>2. Split(0)
    BY <2>1
  <2>3. 0 \in 0..(j - k)
    BY <1>1
  <2> HIDE DEF Split
  <2> QED
    BY <2>2, <2>3
<1>4. ASSUME NEW m \in 0..((j - k) - 1), m \in C PROVE m + 1 \in C
  <2>1. PICK t \in Seq(S) :
          /\ FlatTo(parts, k + m) = FlatTo(parts, k) \o t
          /\ (\A i \in (k + 1)..(k + m) : parts[i] = << >>) => t = << >>
    BY <1>4
  <2> DEFINE n == k + m
             x == parts[n + 1]
  <2>2. n \in 0..Len(parts) /\ n < Len(parts) /\ n + 1 \in 1..Len(parts) /\ n + 1 = k + (m + 1)
    BY <1>1
  <2>3. x \in Seq(S)
    BY <2>2, ElementOfSeq
  <2>4. FlatTo(parts, n + 1) = FlatTo(parts, n) \o x
    <3> HIDE DEF n
    <3> QED
      BY <2>2, FlattenUpTo
  <2>5. t \o x \in Seq(S) /\ (FlatTo(parts, k) \o t) \o x = FlatTo(parts, k) \o (t \o x)
    <3> HIDE DEF x
    <3>1. t \o x \in Seq(S)
      BY <2>3, ConcatProperties
    <3> QED
      BY <1>2, <2>3, <3>1, ConcatAssociative
  <2>6. ASSUME \A i \in (k + 1)..(k + (m + 1)) : parts[i] = << >>
        PROVE  t \o x = << >>
    <3>1. t = << >> /\ x = << >>
      BY <1>1, <2>1, <2>2, <2>6
    <3> QED
      BY <3>1
  <2>7. Split(m + 1)
    <3>1. FlatTo(parts, k + (m + 1)) = FlatTo(parts, k) \o (t \o x)
      BY <2>1, <2>2, <2>4, <2>5
    <3> HIDE DEF x
    <3> QED
      BY <2>5, <2>6, <3>1
  <2>8. m + 1 \in 0..(j - k)
    BY <1>1
  <2> HIDE DEF Split
  <2> QED
    BY <2>7, <2>8
<1>5. \A m \in 0..(j - k) : m \in C
  <2> HIDE DEF C
  <2> QED
    BY <1>1, <1>3, <1>4, j - k \in Nat, CountUp
<1>6. Split(j - k) /\ k + (j - k) = j
  <2> HIDE DEF Split
  <2> QED
    BY <1>1, <1>5
<1> QED
  BY <1>6

(* Parts of one element each.                                               *)
LEMMA FlattenSingles ==
  ASSUME NEW S, NEW f \in Seq(S), NEW parts \in Seq(Seq(S)), Len(parts) = Len(f),
         NEW n \in 0..Len(f), \A i \in 1..n : parts[i] = <<f[i]>>
  PROVE  FlatTo(parts, n) = SubSeq(f, 1, n)
<1> DEFINE C == {m \in 0..n : FlatTo(parts, m) = SubSeq(f, 1, m)}
<1>1. Len(f) \in Nat /\ n \in Nat /\ n <= Len(f)
  BY LenProperties
<1>2. 0 \in C
  <2>1. 1 \in Int /\ 0 \in Int /\ 0 < 1
    OBVIOUS
  <2>2. SubSeq(f, 1, 0) = << >>
    BY <2>1, SubSeqEmpty
  <2>3. FlatTo(parts, 0) = << >>
    BY FlatEnds
  <2>4. 0 \in 0..n
    BY <1>1
  <2> QED
    BY <2>2, <2>3, <2>4
<1>3. ASSUME NEW m \in 0..(n - 1), m \in C PROVE m + 1 \in C
  <2>1. m \in 0..Len(parts) /\ m < Len(parts) /\ m + 1 \in 1..n /\ m + 1 \in 0..n
        /\ 1 \in 1..Len(f) /\ m + 1 \in 1..Len(f) /\ (m + 1) - 1 = m
    BY <1>1
  <2>2. FlatTo(parts, m + 1) = FlatTo(parts, m) \o <<f[m + 1]>>
    BY <2>1, FlattenUpTo
  <2>3. SubSeq(f, 1, m + 1) = SubSeq(f, 1, m) \o <<f[m + 1]>>
    BY <2>1, SubSeqRecursiveSecond
  <2> QED
    BY <1>3, <2>1, <2>2, <2>3
<1>4. \A m \in 0..n : m \in C
  <2> HIDE DEF C
  <2> QED
    BY <1>1, <1>2, <1>3, CountUp
<1>5. n \in 0..n
  BY <1>1
<1> QED
  BY <1>4, <1>5
--------------------------------------------------------------------------------
(* The adapter's map                                                        *)

Opened == {s \in Streams : handler[s] = "opened"}

(* The map has the streams that are opened and not taken, no more than      *)
(* there are threads, and none of them is old.                              *)
MapInv ==
  /\ handler = [s \in Streams |-> handler[s]]
  /\ DOMAIN pending = Opened
  /\ IsFiniteSet(Opened) /\ Cardinality(Opened) <= Threads
  /\ \A s \in Opened : pending[s] \in Int /\ pending[s] <= MaxLag

IInv == MapInv /\ OpenedIsFound

(* What is not old stays, and a map that is not too large stays whole.      *)
LEMMA FreshKeeps ==
  ASSUME NEW entries, \A s \in DOMAIN entries : entries[s] \in Int /\ entries[s] <= MaxLag
  PROVE  DOMAIN Fresh(entries) = DOMAIN entries
         /\ \A s \in DOMAIN entries : Fresh(entries)[s] = entries[s]
<1>1. {s \in DOMAIN entries : entries[s] <= Ttl} = DOMAIN entries
  BY PendingAssumption
<1> QED
  BY <1>1 DEF Fresh, Restrict

LEMMA SmallStays ==
  ASSUME NEW entries, Cardinality(DOMAIN entries) \in Nat,
         Cardinality(DOMAIN entries) <= Threads
  PROVE  PruneOverflow(entries) = {entries}
BY PendingAssumption DEF PruneOverflow

(* A handler that does not come to or leave "opened", and a map that stays. *)
LEMMA OthersKeep ==
  ASSUME IInv, UNCHANGED pending, NEW s \in Streams, NEW at,
         handler[s] # "opened", at \notin {"opened", "refused"}, Goto(s, at)
  PROVE  IInv'
<1>1. /\ handler' = [t \in Streams |-> handler'[t]]
      /\ \A t \in Streams : handler'[t] = IF t = s THEN at ELSE handler[t]
  BY DEF Goto, IInv, MapInv
<1>2. Opened' = Opened
  BY <1>1 DEF Opened
<1> QED
  BY <1>1, <1>2 DEF IInv, MapInv, OpenedIsFound

(* There is room for one more stream: each has a thread.                    *)
LEMMA OpenKeeps ==
  ASSUME IInv, NEW s \in Streams, NEW answer, Open(s, answer)
  PROVE  IInv'
<1> DEFINE live == Fresh(pending)
           more == Insert(live, s)
<1>1. /\ handler' = [t \in Streams |-> handler'[t]]
      /\ \A t \in Streams : handler'[t] = IF t = s THEN "opened" ELSE handler[t]
  BY DEF Open, Goto, IInv, MapInv
<1>2. Opened' = Opened \cup {s} /\ s \notin Opened
  BY <1>1 DEF Open, Opened
<1>3. /\ IsFiniteSet(Opened') /\ Cardinality(Opened') = Cardinality(Opened) + 1
      /\ Cardinality(Opened) \in Nat
  BY <1>2, FS_AddElement, FS_CardinalityType DEF IInv, MapInv
<1>4. Cardinality(Opened') <= Threads /\ Cardinality(Opened') \in Nat
  BY <1>3, PendingAssumption DEF Open, Opened
<1>5. DOMAIN live = Opened /\ \A t \in Opened : live[t] = pending[t]
  BY FreshKeeps DEF IInv, MapInv
<1>6. DOMAIN more = Opened' /\ \A t \in Opened' : more[t] = IF t = s THEN 0 ELSE pending[t]
  BY <1>2, <1>5 DEF Insert
<1>7. pending' = more
  <2>1. PruneOverflow(more) = {more}
    BY <1>4, <1>6, SmallStays
  <2> QED
    BY <2>1 DEF Open
<1>8. \A t \in Opened' : pending'[t] \in Int /\ pending'[t] <= MaxLag
  BY <1>2, <1>6, <1>7, PendingAssumption DEF IInv, MapInv
<1> QED
  BY <1>1, <1>3, <1>4, <1>6, <1>7, <1>8 DEF IInv, MapInv, OpenedIsFound

(* No entry is too old, so the stream is there.                             *)
LEMMA TakeKeeps ==
  ASSUME IInv, NEW s \in Streams, Take(s)
  PROVE  IInv'
<1> DEFINE live == Fresh(pending)
<1>1. DOMAIN live = Opened /\ \A t \in Opened : live[t] = pending[t]
  BY FreshKeeps DEF IInv, MapInv
<1>2. s \in Opened
  BY DEF Take, Opened
<1>3. /\ handler' = [t \in Streams |-> handler'[t]]
      /\ \A t \in Streams : handler'[t] = IF t = s THEN "relayed" ELSE handler[t]
  BY <1>1, <1>2 DEF Take, Goto, IInv, MapInv
<1>4. Opened' = Opened \ {s}
  BY <1>3 DEF Opened
<1>5. IsFiniteSet(Opened') /\ Cardinality(Opened') <= Threads
  <2>1. IsFiniteSet(Opened') /\ Cardinality(Opened') = Cardinality(Opened) - 1
        /\ Cardinality(Opened) \in Nat
    BY <1>2, <1>4, FS_RemoveElement, FS_CardinalityType DEF IInv, MapInv
  <2> QED
    BY <2>1, PendingAssumption DEF IInv, MapInv
<1>6. DOMAIN pending' = Opened' /\ \A t \in Opened' : pending'[t] = pending[t]
  BY <1>1, <1>4 DEF Take, Restrict
<1> QED
  BY <1>3, <1>4, <1>5, <1>6 DEF IInv, MapInv, OpenedIsFound

LEMMA AgeKeeps == ASSUME IInv, Age PROVE IInv'
<1>1. Opened' = Opened
  BY DEF Age, Opened
<1>2. DOMAIN pending' = Opened /\ \A s \in Opened : pending'[s] = pending[s] + 1
  BY DEF Age, IInv, MapInv
<1>3. \A s \in Opened : pending'[s] \in Int /\ pending'[s] <= MaxLag
  BY <1>2, PendingAssumption DEF Age, IInv, MapInv
<1> QED
  BY <1>1, <1>2, <1>3 DEF Age, IInv, MapInv, OpenedIsFound

LEMMA NextKeeps == ASSUME IInv, [Next]_vars PROVE IInv'
<1>1. ASSUME NEW s \in Streams, NEW answer, Open(s, answer) PROVE IInv'
  BY <1>1, OpenKeeps
<1>2. ASSUME NEW s \in Streams, NEW path, OpenMock(s, path) PROVE IInv'
  BY <1>2, OthersKeep DEF OpenMock
<1>3. ASSUME NEW s \in Streams, Take(s) PROVE IInv'
  BY <1>3, TakeKeeps
<1>4. ASSUME NEW s \in Streams, NEW r, Settle(s, r), handler[s] = "relayed", UNCHANGED pending
      PROVE  IInv'
  BY <1>4, OthersKeep DEF Settle
<1>5. CASE UNCHANGED <<handler, pending>>
  BY <1>5 DEF IInv, MapInv, OpenedIsFound, Opened
<1>6. ASSUME NEW s \in Streams,
             \/ ReceiveChunk(s) \/ TakeEvent(s) \/ SendLine(s) \/ BodyEnds(s)
             \/ ClientReads(s) \/ ClientLeaves(s)
      PROVE  IInv'
  BY <1>5, <1>6 DEF ReceiveChunk, TakeEvent, SendLine, BodyEnds, ClientReads,
                    ClientLeaves
<1>7. ASSUME NEW s \in Streams, RelayLine(s) \/ RelayEnds(s) PROVE IInv'
  BY <1>4, <1>5, <1>7 DEF RelayLine, RelayEnds
<1>8. CASE Age
  BY <1>8, AgeKeeps
<1>9. CASE UNCHANGED vars
  BY <1>5, <1>9 DEF vars
<1> QED
  BY <1>1, <1>2, <1>3, <1>6, <1>7, <1>8, <1>9 DEF Next

LEMMA InitMap == ASSUME Init PROVE IInv
<1>1. Opened = {} /\ DOMAIN pending = {}
  BY DEF Init, Opened
<1>2. IsFiniteSet({}) /\ Cardinality({}) = 0
  BY FS_EmptySet
<1> QED
  BY <1>1, <1>2, PendingAssumption DEF Init, IInv, MapInv, OpenedIsFound

(* insert_stream and take_stream: no handler misses the channel of a stream *)
(* that it opened, whatever other streams are opened and taken between.     *)
THEOREM ChannelsFound == Spec => []OpenedIsFound
<1>1. Init => IInv
  BY InitMap
<1>2. IInv /\ [Next]_vars => IInv'
  BY NextKeeps
<1>3. IInv => OpenedIsFound
  BY DEF IInv
<1> QED
  BY <1>1, <1>2, <1>3, PTL DEF Spec
--------------------------------------------------------------------------------
(* The symbols of a body on the wire, and its delimiters                    *)

WireSymbols == Events \cup {"cr", "lf"}
Wire(body) == [i \in DOMAIN body |-> Symbols(body[i])]
Whole(body) == \A i \in DOMAIN body : body[i].sep = "cut" => i = Len(body)

LEMMA SeparatorShape ==
  /\ DOMAIN Separators = {"lf", "crlf", "cut"}
  /\ Separators["lf"] = <<"lf", "lf">> /\ Separators["crlf"] = <<"cr", "lf", "cr", "lf">>
  /\ Separators["cut"] = << >>
BY DEF Separators

(* An item on the wire: its event, then the symbols of its separator.       *)
LEMMA SymbolsShape ==
  ASSUME NEW item \in Items
  PROVE  /\ item.sep \in {"lf", "crlf", "cut"} /\ item.event \in Events
         /\ Symbols(item) \in Seq(WireSymbols)
         /\ Symbols(item)[1] = item.event
         /\ item.sep = "lf" => Len(Symbols(item)) = 3
                               /\ Symbols(item)[2] = "lf" /\ Symbols(item)[3] = "lf"
         /\ item.sep = "crlf" => Len(Symbols(item)) = 5
                               /\ Symbols(item)[2] = "cr" /\ Symbols(item)[3] = "lf"
                               /\ Symbols(item)[4] = "cr" /\ Symbols(item)[5] = "lf"
         /\ item.sep = "cut" => Len(Symbols(item)) = 1
<1> DEFINE head == <<item.event>>
           sep == Separators[item.sep]
<1>1. item.sep \in {"lf", "crlf", "cut"} /\ item.event \in Events
  BY SeparatorShape DEF Items
<1>2. head \in Seq(WireSymbols) /\ Len(head) = 1 /\ head[1] = item.event
  BY <1>1 DEF WireSymbols
<1>3. /\ sep \in Seq(WireSymbols)
      /\ item.sep = "lf" => Len(sep) = 2 /\ sep[1] = "lf" /\ sep[2] = "lf"
      /\ item.sep = "crlf" => Len(sep) = 4 /\ sep[1] = "cr" /\ sep[2] = "lf"
                                           /\ sep[3] = "cr" /\ sep[4] = "lf"
      /\ item.sep = "cut" => Len(sep) = 0
  <2>1. "cr" \in WireSymbols /\ "lf" \in WireSymbols
    BY DEF WireSymbols
  <2>2. CASE item.sep = "lf"
    BY <2>1, <2>2, SeparatorShape
  <2>3. CASE item.sep = "crlf"
    BY <2>1, <2>3, SeparatorShape
  <2>4. CASE item.sep = "cut"
    BY <2>4, SeparatorShape, EmptySeq
  <2> QED
    BY <1>1, <2>2, <2>3, <2>4
<1>4. Symbols(item) = head \o sep
  BY DEF Symbols
<1> HIDE DEF head, sep
<1>5. /\ head \o sep \in Seq(WireSymbols) /\ Len(head \o sep) = 1 + Len(sep)
      /\ \A i \in 1..(1 + Len(sep)) :
           (head \o sep)[i] = IF i <= 1 THEN head[i] ELSE sep[i - 1]
  <2>1. sep \in Seq(WireSymbols) /\ Len(sep) \in Nat
    BY <1>3, LenProperties
  <2> QED
    BY <1>2, <2>1, ConcatProperties
<1>6. (head \o sep)[1] = item.event
  <2>1. 1 \in 1..(1 + Len(sep))
    BY <1>3, LenProperties
  <2> QED
    BY <1>2, <1>5, <2>1
<1>7. CASE item.sep = "lf"
  <2>1. Len(sep) = 2 /\ 2 \in 1..(1 + Len(sep)) /\ 3 \in 1..(1 + Len(sep))
    BY <1>3, <1>7
  <2> QED
    BY <1>1, <1>3, <1>4, <1>5, <1>6, <1>7, <2>1
<1>8. CASE item.sep = "crlf"
  <2>1. Len(sep) = 4
    BY <1>3, <1>8
  <2>2. /\ (head \o sep)[2] = sep[1] /\ (head \o sep)[3] = sep[2]
        /\ (head \o sep)[4] = sep[3] /\ (head \o sep)[5] = sep[4]
    <3>1. ASSUME NEW i \in 2..5 PROVE (head \o sep)[i] = sep[i - 1]
      <4>1. i \in 1..(1 + Len(sep)) /\ ~(i <= 1)
        BY <2>1
      <4> QED
        BY <1>5, <4>1
    <3>2. /\ 2 \in 2..5 /\ 3 \in 2..5 /\ 4 \in 2..5 /\ 5 \in 2..5
          /\ 2 - 1 = 1 /\ 3 - 1 = 2 /\ 4 - 1 = 3 /\ 5 - 1 = 4
      OBVIOUS
    <3>3. (head \o sep)[2] = sep[2 - 1] /\ (head \o sep)[3] = sep[3 - 1]
          /\ (head \o sep)[4] = sep[4 - 1] /\ (head \o sep)[5] = sep[5 - 1]
      BY <3>1, <3>2
    <3> QED
      BY <3>2, <3>3
  <2> QED
    BY <1>1, <1>3, <1>4, <1>5, <1>6, <1>8, <2>1, <2>2
<1>9. CASE item.sep = "cut"
  BY <1>1, <1>3, <1>4, <1>5, <1>6, <1>9
<1> QED
  BY <1>1, <1>7, <1>8, <1>9

(* The types of a body and of its symbols.                                  *)
LEMMA WireType ==
  ASSUME NEW body \in Seq(Items)
  PROVE  /\ Wire(body) \in Seq(Seq(WireSymbols)) /\ Len(Wire(body)) = Len(body)
         /\ DOMAIN body = 1..Len(body) /\ Len(body) \in Nat
         /\ \A i \in 1..Len(body) : body[i] \in Items /\ Wire(body)[i] = Symbols(body[i])
<1>1. DOMAIN body = 1..Len(body) /\ Len(body) \in Nat /\ \A i \in 1..Len(body) : body[i] \in Items
  BY LenProperties, ElementOfSeq
<1>2. Wire(body) = [i \in 1..Len(body) |-> Symbols(body[i])]
  BY <1>1 DEF Wire
<1>3. \A i \in 1..Len(body) : Symbols(body[i]) \in Seq(WireSymbols)
  BY <1>1, SymbolsShape
<1>4. Wire(body) \in Seq(Seq(WireSymbols)) /\ Len(Wire(body)) = Len(body)
  BY <1>1, <1>2, <1>3
<1> QED
  BY <1>1, <1>2, <1>4

(* The bytes are the symbols of the items, joined.                          *)
LEMMA BytesOf ==
  ASSUME NEW body \in Seq(Items)
  PROVE  /\ Bytes(body) \in Seq(WireSymbols) /\ Bytes(body) = FlattenSeq(Wire(body))
         /\ \A k \in 0..Len(body) : SymbolsThrough(body, k) = Len(FlatTo(Wire(body), k))
<1>1. Bytes(body) = FlattenSeq(Wire(body))
  BY DEF Bytes, Wire
<1>2. ASSUME NEW k \in 0..Len(body)
      PROVE  SymbolsThrough(body, k) = Len(FlatTo(Wire(body), k))
  <2>1. DOMAIN SubSeq(body, 1, k) = 1..k /\ \A i \in 1..k : SubSeq(body, 1, k)[i] = body[i]
    BY WireType
  <2>2. [i \in DOMAIN SubSeq(body, 1, k) |-> Symbols(SubSeq(body, 1, k)[i])]
          = [i \in 1..k |-> Symbols(body[i])]
    BY <2>1
  <2>3. SubSeq(Wire(body), 1, k) = [i \in 1..k |-> Symbols(body[i])]
    BY WireType
  <2> QED
    BY <2>2, <2>3 DEF SymbolsThrough, Bytes, FlatTo
<1>3. Bytes(body) \in Seq(WireSymbols)
  BY <1>1, WireType, FlatEnds, FlattenUpTo
<1> QED
  BY <1>1, <1>2, <1>3

(* Where the events of a body are among its bytes.                          *)
LEMMA Offsets ==
  ASSUME NEW body \in Seq(Items), NEW k \in 0..Len(body)
  PROVE  /\ SymbolsThrough(body, k) \in 0..Len(Bytes(body))
         /\ SymbolsThrough(body, 0) = 0
         /\ SymbolsThrough(body, Len(body)) = Len(Bytes(body))
         /\ \A j \in k..Len(body) : SymbolsThrough(body, k) <= SymbolsThrough(body, j)
         /\ k < Len(body) =>
              /\ SymbolsThrough(body, k + 1)
                   = SymbolsThrough(body, k) + Len(Symbols(body[k + 1]))
              /\ \A j \in 1..Len(Symbols(body[k + 1])) :
                   Bytes(body)[SymbolsThrough(body, k) + j] = Symbols(body[k + 1])[j]
<1> DEFINE parts == Wire(body)
           bytes == Bytes(body)
           L(i) == SymbolsThrough(body, i)
<1>1. /\ parts \in Seq(Seq(WireSymbols)) /\ Len(parts) = Len(body) /\ Len(body) \in Nat
      /\ \A i \in 1..Len(body) : body[i] \in Items /\ parts[i] = Symbols(body[i])
  BY WireType
<1>2. /\ \A i \in 0..Len(body) : L(i) = Len(FlatTo(parts, i))
      /\ bytes = FlatTo(parts, Len(body)) /\ bytes \in Seq(WireSymbols)
  BY <1>1, BytesOf, FlatEnds
<1>3. \A i \in 0..Len(body) : FlatTo(parts, i) \in Seq(WireSymbols) /\ L(i) \in Nat
  BY <1>1, <1>2, FlattenUpTo, LenProperties
<1>4. ASSUME NEW i \in 0..Len(body), NEW j \in i..Len(body)
      PROVE  L(i) <= L(j) /\ \A x \in 1..L(i) : FlatTo(parts, j)[x] = FlatTo(parts, i)[x]
  <2>1. PICK t \in Seq(WireSymbols) :
          /\ FlatTo(parts, j) = FlatTo(parts, i) \o t
          /\ (\A x \in (i + 1)..j : parts[x] = << >>) => t = << >>
    <3>1. i \in 0..Len(parts) /\ j \in i..Len(parts)
      BY <1>1
    <3> HIDE DEF parts
    <3> QED
      BY <1>1, <3>1, FlattenSplit, Zenon
  <2>2. j \in 0..Len(body) /\ Len(t) \in Nat /\ FlatTo(parts, i) \in Seq(WireSymbols)
    BY <1>1, <1>3, LenProperties
  <2>3. L(j) = L(i) + Len(t)
        /\ \A x \in 1..L(i) : FlatTo(parts, j)[x] = FlatTo(parts, i)[x]
    <3> HIDE DEF parts
    <3> QED
      BY <1>2, <1>3, <2>1, <2>2, ConcatProperties
  <2> HIDE DEF L
  <2> QED
    BY <1>3, <2>2, <2>3
<1>5. L(0) = 0
  <2>1. FlatTo(parts, 0) = << >> /\ 0 \in 0..Len(body)
    BY <1>1, FlatEnds
  <2> QED
    BY <1>2, <2>1
<1>6. Len(body) \in k..Len(body) /\ Len(body) \in 0..Len(body) /\ L(Len(body)) = Len(bytes)
  BY <1>1, <1>2
<1>7. ASSUME k < Len(body)
      PROVE  /\ L(k + 1) = L(k) + Len(Symbols(body[k + 1]))
             /\ \A j \in 1..Len(Symbols(body[k + 1])) : bytes[L(k) + j] = Symbols(body[k + 1])[j]
  <2> DEFINE x == Symbols(body[k + 1])
  <2>1. k + 1 \in 1..Len(body) /\ k + 1 \in 0..Len(body) /\ Len(body) \in (k + 1)..Len(body)
    BY <1>1, <1>7
  <2>2. parts[k + 1] = x /\ x \in Seq(WireSymbols) /\ Len(x) \in Nat
    BY <1>1, <2>1, ElementOfSeq, LenProperties
  <2>3. FlatTo(parts, k + 1) = FlatTo(parts, k) \o x
    BY <1>1, <1>7, <2>2, FlattenUpTo
  <2>4. L(k + 1) = L(k) + Len(x)
        /\ \A j \in 1..Len(x) : FlatTo(parts, k + 1)[L(k) + j] = x[j]
    <3> HIDE DEF x, parts
    <3> QED
      BY <1>2, <1>3, <2>1, <2>2, <2>3, ConcatProperties
  <2>5. \A y \in 1..L(k + 1) : bytes[y] = FlatTo(parts, k + 1)[y]
    BY <1>2, <1>4, <2>1
  <2>6. \A j \in 1..Len(x) : L(k) + j \in 1..L(k + 1)
    <3> HIDE DEF x, L
    <3> QED
      BY <1>3, <2>1, <2>2, <2>4
  <2> HIDE DEF x, L, bytes
  <2>7. \A j \in 1..Len(x) : bytes[L(k) + j] = x[j]
    BY <2>4, <2>5, <2>6
  <2> QED
    BY <2>4, <2>7 DEF x
<1> HIDE DEF L, bytes
<1>8. L(k) \in 0..Len(bytes)
  BY <1>3, <1>4, <1>6
<1> QED
  BY <1>4, <1>5, <1>6, <1>7, <1>8 DEF L, bytes

--------------------------------------------------------------------------------
(* Where separators are in a buffer.                                        *)
LEMMA IsAtMeans ==
  ASSUME NEW S, NEW buffer \in Seq(S), NEW i \in 1..Len(buffer)
  PROVE  /\ IsAt(Separators["lf"], buffer, i) <=>
              i + 1 <= Len(buffer) /\ buffer[i] = "lf" /\ buffer[i + 1] = "lf"
         /\ IsAt(Separators["crlf"], buffer, i) <=>
              /\ i + 3 <= Len(buffer)
              /\ buffer[i] = "cr" /\ buffer[i + 1] = "lf"
              /\ buffer[i + 2] = "cr" /\ buffer[i + 3] = "lf"
<1>1. Len(buffer) \in Nat /\ i \in Nat
  BY LenProperties
<1>2. IsAt(Separators["lf"], buffer, i) <=>
        i + 1 <= Len(buffer) /\ buffer[i] = "lf" /\ buffer[i + 1] = "lf"
  <2> DEFINE sub == SubSeq(buffer, i, i + 1)
             sep == <<"lf", "lf">>
  <2>1. Len(sep) = 2 /\ i + Len(sep) - 1 = i + 1
    BY <1>1
  <2>2. IsAt(Separators["lf"], buffer, i) <=> i + 1 <= Len(buffer) /\ sub = sep
    BY <2>1, SeparatorShape DEF IsAt
  <2>3. sub = [j \in 1..2 |-> buffer[i + j - 1]]
    BY <1>1
  <2>4. sub = sep <=> buffer[i] = "lf" /\ buffer[i + 1] = "lf"
    <3>1. sep = [j \in 1..2 |-> sep[j]] /\ sep[1] = "lf" /\ sep[2] = "lf"
      OBVIOUS
    <3>2. sub[1] = buffer[i] /\ sub[2] = buffer[i + 1] /\ sub = [j \in 1..2 |-> sub[j]]
      <4>1. i + 1 - 1 = i /\ i + 2 - 1 = i + 1 /\ 1 \in 1..2 /\ 2 \in 1..2
        BY <1>1
      <4>2. /\ \A j \in 1..2 : sub[j] = buffer[i + j - 1]
            /\ sub = [j \in 1..2 |-> sub[j]]
        BY <2>3
      <4> HIDE DEF sub
      <4>3. sub[1] = buffer[i + 1 - 1] /\ sub[2] = buffer[i + 2 - 1]
        BY <4>1, <4>2
      <4> QED
        BY <4>1, <4>2, <4>3
    <3>3. ASSUME sub[1] = sep[1], sub[2] = sep[2] PROVE sub = sep
      <4>1. \A j \in 1..2 : sub[j] = sep[j]
        BY <3>3
      <4> HIDE DEF sub, sep
      <4> QED
        BY <3>1, <3>2, <4>1
    <3> HIDE DEF sub, sep
    <3> QED
      BY <3>1, <3>2, <3>3
  <2> QED
    BY <2>2, <2>4
<1>3. IsAt(Separators["crlf"], buffer, i) <=>
        /\ i + 3 <= Len(buffer)
        /\ buffer[i] = "cr" /\ buffer[i + 1] = "lf"
        /\ buffer[i + 2] = "cr" /\ buffer[i + 3] = "lf"
  <2> DEFINE sub == SubSeq(buffer, i, i + 3)
             sep == <<"cr", "lf", "cr", "lf">>
  <2>1. Len(sep) = 4 /\ i + Len(sep) - 1 = i + 3
    BY <1>1
  <2>2. IsAt(Separators["crlf"], buffer, i) <=> i + 3 <= Len(buffer) /\ sub = sep
    BY <2>1, SeparatorShape DEF IsAt
  <2>3. sub = [j \in 1..4 |-> buffer[i + j - 1]]
    BY <1>1
  <2>4. sub = sep <=> /\ buffer[i] = "cr" /\ buffer[i + 1] = "lf"
                      /\ buffer[i + 2] = "cr" /\ buffer[i + 3] = "lf"
    <3>1. sep = [j \in 1..4 |-> sep[j]]
          /\ sep[1] = "cr" /\ sep[2] = "lf" /\ sep[3] = "cr" /\ sep[4] = "lf"
      OBVIOUS
    <3>2. /\ sub[1] = buffer[i] /\ sub[2] = buffer[i + 1]
          /\ sub[3] = buffer[i + 2] /\ sub[4] = buffer[i + 3]
          /\ sub = [j \in 1..4 |-> sub[j]]
      <4>1. /\ i + 1 - 1 = i /\ i + 2 - 1 = i + 1 /\ i + 3 - 1 = i + 2 /\ i + 4 - 1 = i + 3
            /\ 1 \in 1..4 /\ 2 \in 1..4 /\ 3 \in 1..4 /\ 4 \in 1..4
        BY <1>1
      <4>2. /\ \A j \in 1..4 : sub[j] = buffer[i + j - 1]
            /\ sub = [j \in 1..4 |-> sub[j]]
        BY <2>3
      <4> HIDE DEF sub
      <4>3. /\ sub[1] = buffer[i + 1 - 1] /\ sub[2] = buffer[i + 2 - 1]
            /\ sub[3] = buffer[i + 3 - 1] /\ sub[4] = buffer[i + 4 - 1]
        BY <4>1, <4>2
      <4> QED
        BY <4>1, <4>2, <4>3
    <3>3. ASSUME sub[1] = sep[1], sub[2] = sep[2], sub[3] = sep[3], sub[4] = sep[4]
          PROVE  sub = sep
      <4>1. \A j \in 1..4 : sub[j] = sep[j]
        BY <3>3
      <4> HIDE DEF sub, sep
      <4> QED
        BY <3>1, <3>2, <4>1
    <3> HIDE DEF sub, sep
    <3> QED
      BY <3>1, <3>2, <3>3
  <2> QED
    BY <2>2, <2>4
<1> QED
  BY <1>2, <1>3

(* A delimiter is two line feeds, or two pairs with carriage returns.       *)
LEMMA DelimitersAre ==
  ASSUME NEW S, NEW buffer \in Seq(S), NEW d
  PROVE  d \in Delimiters(buffer) <=>
           \E i \in 1..Len(buffer) :
             \/ /\ d = <<i, "lf">> /\ i + 1 <= Len(buffer)
                /\ buffer[i] = "lf" /\ buffer[i + 1] = "lf"
             \/ /\ d = <<i, "crlf">> /\ i + 3 <= Len(buffer)
                /\ buffer[i] = "cr" /\ buffer[i + 1] = "lf"
                /\ buffer[i + 2] = "cr" /\ buffer[i + 3] = "lf"
<1>1. d \in Delimiters(buffer) <=>
        \E i \in 1..Len(buffer), x \in {"lf", "crlf"} :
          d = <<i, x>> /\ IsAt(Separators[x], buffer, i)
  BY DEF Delimiters
<1>2. d \in Delimiters(buffer) <=>
        \E i \in 1..Len(buffer) :
          \/ d = <<i, "lf">> /\ IsAt(Separators["lf"], buffer, i)
          \/ d = <<i, "crlf">> /\ IsAt(Separators["crlf"], buffer, i)
  BY <1>1
<1> QED
  BY <1>2, IsAtMeans

LEMMA FirstOnly ==
  ASSUME NEW S, NEW buffer \in Seq(S), 1 \in 1..Len(buffer)
  PROVE  SubSeq(buffer, 1, 1) = <<buffer[1]>>
<1> DEFINE sub == SubSeq(buffer, 1, 1)
<1>1. sub = [j \in 1..1 |-> buffer[j]] /\ buffer[1] \in S
  BY ElementOfSeq
<1>2. sub \in Seq(S) /\ Len(sub) = 1 /\ sub[1] = buffer[1]
  BY <1>1
<1> DEFINE one == <<buffer[1]>>
<1>3. one \in Seq(S) /\ Len(one) = 1 /\ one[1] = buffer[1]
  BY <1>1
<1> HIDE DEF sub, one
<1>4. \A j \in 1..Len(sub) : sub[j] = one[j]
  BY <1>2, <1>3
<1>5. sub = one
  BY <1>2, <1>3, <1>4, SeqEqual
<1> QED
  BY <1>5 DEF sub, one

LEMMA EventSymbols == Events \cap {"cr", "lf"} = {} /\ Events \subseteq WireSymbols
BY DEF Events, WireSymbols

(* What an event with its separator looks like.                             *)
Framed(x, event, sep) ==
  /\ event \in Events /\ sep \in {"lf", "crlf", "cut"} /\ x[1] = event
  /\ sep = "lf" => Len(x) = 3 /\ x[2] = "lf" /\ x[3] = "lf"
  /\ sep = "crlf" => Len(x) = 5 /\ x[2] = "cr" /\ x[3] = "lf" /\ x[4] = "cr" /\ x[5] = "lf"
  /\ sep = "cut" => Len(x) = 1

(* A buffer that begins with it, as far as it goes.                         *)
Begins(buffer, x) ==
  /\ buffer \in Seq(WireSymbols) /\ Len(buffer) \in Nat
  /\ \A j \in 1..Len(buffer) : j <= Len(x) => buffer[j] = x[j]

(* What a buffer has of the event it begins with.                           *)
LEMMA BufferBegins ==
  ASSUME NEW buffer, NEW x, NEW event, NEW sep,
         Begins(buffer, x), Framed(x, event, sep), sep # "cut", Len(x) <= Len(buffer)
  PROVE  /\ buffer[1] = event /\ Len(x) \in Nat /\ 1 \in 1..Len(buffer) /\ 2 \in 1..Len(buffer)
         /\ \/ /\ sep = "lf" /\ Len(x) = 3
               /\ 3 <= Len(buffer) /\ buffer[2] = "lf" /\ buffer[3] = "lf"
            \/ /\ sep = "crlf" /\ Len(x) = 5
               /\ 5 <= Len(buffer) /\ buffer[2] = "cr" /\ buffer[3] = "lf"
               /\ buffer[4] = "cr" /\ buffer[5] = "lf"
<1>1. Len(buffer) \in Nat /\ \A j \in 1..Len(buffer) : j <= Len(x) => buffer[j] = x[j]
  BY DEF Begins
<1>2. CASE sep = "lf"
  <2>1. Len(x) = 3 /\ x[1] = event /\ x[2] = "lf" /\ x[3] = "lf"
    BY <1>2 DEF Framed
  <2>2. 1 \in 1..Len(buffer) /\ 2 \in 1..Len(buffer) /\ 3 \in 1..Len(buffer)
    BY <1>1, <2>1
  <2> QED
    BY <1>1, <1>2, <2>1, <2>2
<1>3. CASE sep = "crlf"
  <2>1. /\ Len(x) = 5 /\ x[1] = event
        /\ x[2] = "cr" /\ x[3] = "lf" /\ x[4] = "cr" /\ x[5] = "lf"
    BY <1>3 DEF Framed
  <2>2. 1 \in 1..Len(buffer) /\ 2 \in 1..Len(buffer) /\ 3 \in 1..Len(buffer)
        /\ 4 \in 1..Len(buffer) /\ 5 \in 1..Len(buffer)
    BY <1>1, <2>1
  <2> QED
    BY <1>1, <1>3, <2>1, <2>2
<1> QED
  BY <1>2, <1>3 DEF Framed

(* An event that is complete ends at the first delimiter.                   *)
LEMMA FirstDelimiter ==
  ASSUME NEW buffer, NEW x, NEW event, NEW sep,
         Begins(buffer, x), Framed(x, event, sep), sep # "cut", Len(x) <= Len(buffer)
  PROVE  /\ FirstOf(Delimiters(buffer)) = {<<2, sep>>}
         /\ Before(buffer, <<2, sep>>) = <<event>>
         /\ Behind(buffer, <<2, sep>>) = SubSeq(buffer, Len(x) + 1, Len(buffer))
<1> DEFINE first == <<2, sep>>
<1>1. /\ buffer[1] = event /\ Len(x) \in Nat /\ 1 \in 1..Len(buffer) /\ 2 \in 1..Len(buffer)
      /\ \/ /\ sep = "lf" /\ Len(x) = 3
            /\ 3 <= Len(buffer) /\ buffer[2] = "lf" /\ buffer[3] = "lf"
         \/ /\ sep = "crlf" /\ Len(x) = 5
            /\ 5 <= Len(buffer) /\ buffer[2] = "cr" /\ buffer[3] = "lf"
            /\ buffer[4] = "cr" /\ buffer[5] = "lf"
  BY BufferBegins
<1>2. buffer \in Seq(WireSymbols) /\ Len(buffer) \in Nat /\ event # "cr" /\ event # "lf"
  BY EventSymbols DEF Begins, Framed
<1>3. first \in Delimiters(buffer) /\ first[1] = 2
  <2>1. 2 + 1 = 3 /\ 2 + 2 = 4 /\ 2 + 3 = 5
    OBVIOUS
  <2>2. \E i \in 1..Len(buffer) :
             \/ /\ first = <<i, "lf">> /\ i + 1 <= Len(buffer)
                /\ buffer[i] = "lf" /\ buffer[i + 1] = "lf"
             \/ /\ first = <<i, "crlf">> /\ i + 3 <= Len(buffer)
                /\ buffer[i] = "cr" /\ buffer[i + 1] = "lf"
                /\ buffer[i + 2] = "cr" /\ buffer[i + 3] = "lf"
    BY <1>1, <2>1
  <2> QED
    BY <1>2, <2>2, DelimitersAre
<1>4. ASSUME NEW d \in Delimiters(buffer)
      PROVE  d[1] \in Nat /\ 2 <= d[1] /\ (d[1] = 2 => d = first)
  <2>1. PICK i \in 1..Len(buffer) :
             \/ /\ d = <<i, "lf">> /\ i + 1 <= Len(buffer)
                /\ buffer[i] = "lf" /\ buffer[i + 1] = "lf"
             \/ /\ d = <<i, "crlf">> /\ i + 3 <= Len(buffer)
                /\ buffer[i] = "cr" /\ buffer[i + 1] = "lf"
                /\ buffer[i + 2] = "cr" /\ buffer[i + 3] = "lf"
    BY <1>2, DelimitersAre
  <2>2. d[1] = i /\ i \in Nat /\ i >= 1
    BY <1>2, <2>1
  <2>3. i # 1
    BY <1>1, <1>2, <2>1
  <2>4. ASSUME i = 2 PROVE d = first
    BY <1>1, <2>1, <2>4
  <2> QED
    BY <2>2, <2>3, <2>4
<1> HIDE DEF first
<1>5. FirstOf(Delimiters(buffer)) = {first}
  BY <1>3, <1>4 DEF FirstOf
<1>6. SubSeq(buffer, 1, 1) = <<buffer[1]>>
  BY <1>1, <1>2, FirstOnly
<1>7. Before(buffer, first) = SubSeq(buffer, 1, 1)
  BY <1>3 DEF Before
<1>8. Behind(buffer, first) = SubSeq(buffer, Len(x) + 1, Len(buffer))
  <2>1. first[2] = sep
    BY DEF first
  <2>2. 2 + Len(Separators[sep]) = Len(x) + 1
    <3>1. CASE sep = "lf"
      <4>1. Len(Separators[sep]) = 2 /\ Len(x) = 3
        BY <1>1, <3>1, SeparatorShape
      <4> QED
        BY <4>1
    <3>2. CASE sep = "crlf"
      <4>1. Len(Separators[sep]) = 4 /\ Len(x) = 5
        BY <1>1, <3>2, SeparatorShape
      <4> QED
        BY <4>1
    <3> QED
      BY <1>1, <3>1, <3>2
  <2> QED
    BY <1>3, <2>1, <2>2 DEF Behind
<1> QED
  BY <1>1, <1>5, <1>6, <1>7, <1>8 DEF first

(* An event with what is there of its separator is trimmed to the event.    *)
LEMMA TrimEmpty == Trim(<< >>) = << >>
BY DEF Trim

LEMMA TrimOne ==
  ASSUME NEW buffer \in Seq(WireSymbols), NEW event \in Events,
         Len(buffer) \in Nat, Len(buffer) # 0,
         buffer[1] = event, \A j \in 2..Len(buffer) : buffer[j] \in {"cr", "lf"}
  PROVE  Trim(buffer) = <<event>>
<1> DEFINE kept == {i \in DOMAIN buffer : buffer[i] \notin {"cr", "lf"}}
<1>1. DOMAIN buffer = 1..Len(buffer)
  BY LenProperties
<1>2. event \notin {"cr", "lf"}
  BY EventSymbols
<1>3. kept = {1}
  BY <1>1, <1>2
<1>4. Min({1}) = 1 /\ Max({1}) = 1
  <2>1. Min({1}) \in {1}
    BY DEF Min
  <2>2. Max({1}) \in {1}
    BY DEF Max
  <2> QED
    BY <2>1, <2>2
<1>5. Trim(buffer) = SubSeq(buffer, 1, 1)
  BY <1>3, <1>4 DEF Trim
<1>6. SubSeq(buffer, 1, 1) = <<buffer[1]>>
  <2>1. 1 \in 1..Len(buffer)
    OBVIOUS
  <2> QED
    BY <2>1, FirstOnly
<1> QED
  BY <1>5, <1>6

LEMMA TrimEvent == ASSUME NEW event \in Events PROVE Trim(<<event>>) = <<event>>
<1> DEFINE buffer == <<event>>
<1>1. buffer \in Seq(WireSymbols) /\ Len(buffer) = 1 /\ buffer[1] = event
  BY EventSymbols
<1>2. \A j \in 2..Len(buffer) : buffer[j] \in {"cr", "lf"}
  BY <1>1
<1> HIDE DEF buffer
<1>3. Trim(buffer) = <<event>>
  BY <1>1, <1>2, TrimOne
<1> QED
  BY <1>3 DEF buffer

(* Before its separator is complete, nothing ends in the buffer, and what   *)
(* is left of it when the body breaks off is the event.                     *)
LEMMA NoDelimiter ==
  ASSUME NEW buffer, NEW x, NEW event, NEW sep,
         Begins(buffer, x), Framed(x, event, sep), Len(buffer) # 0,
         IF sep = "cut" THEN Len(buffer) <= 1 ELSE Len(buffer) < Len(x)
  PROVE  Delimiters(buffer) = {} /\ Trim(buffer) = <<event>>
<1>1. buffer \in Seq(WireSymbols) /\ Len(buffer) \in Nat /\ event \in Events
      /\ event # "cr" /\ event # "lf"
  BY EventSymbols DEF Begins, Framed
<1>2. buffer[1] = event
  <2>1. 1 \in 1..Len(buffer) /\ 1 <= Len(x)
    BY DEF Begins, Framed
  <2> QED
    BY <2>1 DEF Begins, Framed
<1>3. ASSUME NEW j \in 2..Len(buffer)
      PROVE  \/ /\ sep = "lf" /\ j = 2 /\ buffer[j] = "lf"
             \/ /\ sep = "crlf"
                /\ \/ j = 2 /\ buffer[j] = "cr"
                   \/ j = 3 /\ buffer[j] = "lf"
                   \/ j = 4 /\ buffer[j] = "cr"
  <2>1. j \in 1..Len(buffer) /\ j \in Nat /\ sep # "cut"
    BY <1>1
  <2>2. CASE sep = "lf"
    <3>1. Len(x) = 3 /\ x[2] = "lf" /\ Len(buffer) < Len(x)
      BY <2>2 DEF Framed
    <3>2. j = 2 /\ j <= Len(x)
      BY <1>1, <2>1, <3>1
    <3>3. buffer[j] = x[j]
      BY <2>1, <3>2 DEF Begins
    <3> QED
      BY <2>2, <3>1, <3>2, <3>3
  <2>3. CASE sep = "crlf"
    <3>1. Len(x) = 5 /\ x[2] = "cr" /\ x[3] = "lf" /\ x[4] = "cr" /\ Len(buffer) < Len(x)
      BY <2>3 DEF Framed
    <3>2. (j = 2 \/ j = 3 \/ j = 4) /\ j <= Len(x)
      BY <1>1, <2>1, <3>1
    <3>3. buffer[j] = x[j]
      BY <2>1, <3>2 DEF Begins
    <3> QED
      BY <2>3, <3>1, <3>2, <3>3
  <2> QED
    BY <2>1, <2>2, <2>3 DEF Framed
<1>4. Delimiters(buffer) = {}
  <2> SUFFICES ASSUME NEW d \in Delimiters(buffer) PROVE FALSE
    OBVIOUS
  <2>1. PICK i \in 1..Len(buffer) :
           \/ /\ d = <<i, "lf">> /\ i + 1 <= Len(buffer)
              /\ buffer[i] = "lf" /\ buffer[i + 1] = "lf"
           \/ /\ d = <<i, "crlf">> /\ i + 3 <= Len(buffer)
              /\ buffer[i] = "cr" /\ buffer[i + 1] = "lf"
              /\ buffer[i + 2] = "cr" /\ buffer[i + 3] = "lf"
    BY <1>1, DelimitersAre
  <2>2. i # 1
    BY <1>1, <1>2, <2>1
  <2>3. i \in 2..Len(buffer) /\ i + 1 \in 2..Len(buffer) /\ i + 1 >= 3
    BY <1>1, <2>1, <2>2
  <2>4. sep = "crlf" /\ (i = 2 \/ i = 3 \/ i = 4)
    <3>1. sep # "lf"
      BY <1>3, <2>3
    <3> QED
      BY <1>3, <2>3, <3>1
  <2>5. CASE buffer[i] = "lf" /\ buffer[i + 1] = "lf"
    <3>1. i = 3 /\ i + 1 = 4 /\ buffer[i + 1] = "cr"
      BY <1>3, <2>3, <2>4, <2>5
    <3> QED
      BY <2>5, <3>1
  <2>6. CASE i + 3 <= Len(buffer)
    <3>1. i + 3 \in 2..Len(buffer) /\ i + 3 >= 5
      BY <1>1, <2>3, <2>6
    <3> QED
      BY <1>3, <3>1
  <2> QED
    BY <2>1, <2>5, <2>6
<1>5. \A j \in 2..Len(buffer) : buffer[j] \in {"cr", "lf"}
  BY <1>3
<1> QED
  BY <1>1, <1>2, <1>4, <1>5, TrimOne
--------------------------------------------------------------------------------
(* The bytes received behind the first k events                             *)

(* The bytes received of a body whose first k events are taken.             *)
Received(body, k, pos) == SubSeq(Bytes(body), SymbolsThrough(body, k) + 1, pos)

(* A piece of a sequence, and a piece of a piece.                           *)
LEMMA Piece ==
  ASSUME NEW S, NEW s \in Seq(S), NEW a \in Nat, NEW pos \in Nat, a <= pos, pos <= Len(s)
  PROVE  /\ SubSeq(s, a + 1, pos) \in Seq(S) /\ Len(SubSeq(s, a + 1, pos)) = pos - a
         /\ pos - a \in Nat
         /\ \A j \in 1..(pos - a) : SubSeq(s, a + 1, pos)[j] = s[a + j]
<1>1. Len(s) \in Nat
  BY LenProperties
<1>2. \A i \in (a + 1)..pos : s[i] \in S
  <2>1. \A i \in (a + 1)..pos : i \in 1..Len(s)
    BY <1>1
  <2> QED
    BY <2>1, ElementOfSeq
<1>3. a + 1 \in Int /\ pos \in Int /\ pos - (a + 1) + 1 = pos - a
  OBVIOUS
<1>4. /\ SubSeq(s, a + 1, pos) \in Seq(S)
      /\ Len(SubSeq(s, a + 1, pos)) = IF a + 1 <= pos THEN pos - (a + 1) + 1 ELSE 0
      /\ \A j \in 1..(pos - (a + 1) + 1) : SubSeq(s, a + 1, pos)[j] = s[a + 1 + j - 1]
  BY <1>2, <1>3, SubSeqProperties
<1>5. PICK sub : sub = SubSeq(s, a + 1, pos)
  OBVIOUS
<1>6. sub \in Seq(S) /\ Len(sub) = pos - a
  <2>1. (IF a + 1 <= pos THEN pos - (a + 1) + 1 ELSE 0) = pos - a
    OBVIOUS
  <2> QED
    BY <1>4, <1>5, <2>1
<1>7. ASSUME NEW j \in 1..(pos - a) PROVE sub[j] = s[a + j]
  <2>1. j \in 1..(pos - (a + 1) + 1) /\ a + 1 + j - 1 = a + j
    OBVIOUS
  <2> QED
    BY <1>4, <1>5, <2>1
<1> QED
  BY <1>5, <1>6, <1>7

LEMMA PieceOfPiece ==
  ASSUME NEW S, NEW s \in Seq(S), NEW a \in Nat, NEW pos \in Nat, NEW n \in Nat,
         a + n <= pos, pos <= Len(s)
  PROVE  SubSeq(SubSeq(s, a + 1, pos), n + 1, pos - a) = SubSeq(s, a + n + 1, pos)
<1> DEFINE sub == SubSeq(s, a + 1, pos)
           left == SubSeq(sub, n + 1, pos - a)
           right == SubSeq(s, a + n + 1, pos)
<1>1. a <= pos /\ pos - a \in Nat /\ n <= pos - a /\ a + n \in Nat
  OBVIOUS
<1>2. /\ sub \in Seq(S) /\ Len(sub) = pos - a
      /\ \A j \in 1..(pos - a) : sub[j] = s[a + j]
  BY <1>1, Piece
<1>3. /\ right \in Seq(S) /\ Len(right) = pos - (a + n)
      /\ \A j \in 1..(pos - (a + n)) : right[j] = s[a + n + j]
  BY <1>1, Piece
<1> HIDE DEF sub
<1>4. /\ left \in Seq(S) /\ Len(left) = pos - a - n
      /\ \A j \in 1..(pos - a - n) : left[j] = sub[n + j]
  BY <1>1, <1>2, Piece
<1> HIDE DEF left, right
<1>5. \A j \in 1..(pos - a - n) : n + j \in 1..(pos - a) /\ a + (n + j) = a + n + j
  BY <1>1
<1>6. pos - a - n = pos - (a + n)
  OBVIOUS
<1>7. \A j \in 1..Len(left) : left[j] = right[j]
  BY <1>2, <1>3, <1>4, <1>5, <1>6
<1>8. left = right
  BY <1>3, <1>4, <1>6, <1>7, SeqEqual
<1> QED
  BY <1>8 DEF left, right, sub

LEMMA ItemFramed ==
  ASSUME NEW item \in Items PROVE Framed(Symbols(item), item.event, item.sep)
BY SymbolsShape DEF Framed

(* The buffer, symbol by symbol.                                            *)
LEMMA ReceivedShape ==
  ASSUME NEW body \in Seq(Items), NEW k \in 0..Len(body),
         NEW pos \in SymbolsThrough(body, k)..Len(Bytes(body))
  PROVE  /\ SymbolsThrough(body, k) \in Nat /\ pos \in Nat
         /\ Received(body, k, pos) \in Seq(WireSymbols)
         /\ Len(Received(body, k, pos)) = pos - SymbolsThrough(body, k)
         /\ pos - SymbolsThrough(body, k) \in Nat
         /\ \A j \in 1..(pos - SymbolsThrough(body, k)) :
              Received(body, k, pos)[j] = Bytes(body)[SymbolsThrough(body, k) + j]
<1> DEFINE a == SymbolsThrough(body, k)
           bytes == Bytes(body)
<1>1. bytes \in Seq(WireSymbols) /\ a \in 0..Len(bytes) /\ Len(bytes) \in Nat
  BY Offsets, BytesOf, LenProperties
<1>2. a \in Nat /\ pos \in Nat /\ a <= pos /\ pos <= Len(bytes)
  BY <1>1
<1> HIDE DEF a, bytes
<1>3. /\ SubSeq(bytes, a + 1, pos) \in Seq(WireSymbols)
      /\ Len(SubSeq(bytes, a + 1, pos)) = pos - a /\ pos - a \in Nat
      /\ \A j \in 1..(pos - a) : SubSeq(bytes, a + 1, pos)[j] = bytes[a + j]
  BY <1>1, <1>2, Piece
<1> QED
  BY <1>2, <1>3 DEF Received, a, bytes

(* It begins with the next event.                                           *)
LEMMA ReceivedBegins ==
  ASSUME NEW body \in Seq(Items), NEW k \in 0..Len(body), k < Len(body),
         NEW pos \in SymbolsThrough(body, k)..Len(Bytes(body))
  PROVE  /\ Begins(Received(body, k, pos), Symbols(body[k + 1]))
         /\ Framed(Symbols(body[k + 1]), body[k + 1].event, body[k + 1].sep)
         /\ Len(Symbols(body[k + 1])) \in Nat
         /\ SymbolsThrough(body, k + 1) <= pos
              <=> Len(Symbols(body[k + 1])) <= Len(Received(body, k, pos))
         /\ SymbolsThrough(body, k + 1) = SymbolsThrough(body, k) + Len(Symbols(body[k + 1]))
         /\ SymbolsThrough(body, k + 1) \in Nat
<1> DEFINE a == SymbolsThrough(body, k)
           x == Symbols(body[k + 1])
           buffer == Received(body, k, pos)
           bytes == Bytes(body)
           b == SymbolsThrough(body, k + 1)
<1>1. body[k + 1] \in Items
  BY WireType
<1>2. x \in Seq(WireSymbols) /\ Len(x) \in Nat
  BY <1>1, SymbolsShape, LenProperties
<1>3. b = a + Len(x) /\ \A j \in 1..Len(x) : bytes[a + j] = x[j]
  BY Offsets
<1>4. /\ a \in Nat /\ pos \in Nat /\ Len(buffer) = pos - a /\ buffer \in Seq(WireSymbols)
      /\ pos - a \in Nat
      /\ \A j \in 1..(pos - a) : buffer[j] = bytes[a + j]
  BY ReceivedShape
<1>5. Framed(x, body[k + 1].event, body[k + 1].sep)
  BY <1>1, ItemFramed
<1> HIDE DEF a, x, buffer, bytes, b
<1>6. Begins(buffer, x)
  <2>1. ASSUME NEW j \in 1..Len(buffer), j <= Len(x) PROVE buffer[j] = x[j]
    <3>1. j \in 1..Len(x) /\ j \in 1..(pos - a)
      BY <1>2, <1>4, <2>1
    <3> QED
      BY <1>3, <1>4, <3>1
  <2> QED
    BY <1>4, <2>1 DEF Begins
<1>7. (b <= pos <=> Len(x) <= Len(buffer)) /\ b \in Nat
  BY <1>2, <1>3, <1>4
<1> QED
  BY <1>2, <1>3, <1>5, <1>6, <1>7 DEF a, x, buffer, b

(* drain_sse_events finds the next event once it is complete.               *)
LEMMA NextEvent ==
  ASSUME NEW body \in Seq(Items), NEW k \in 0..Len(body), k < Len(body),
         NEW pos \in SymbolsThrough(body, k)..Len(Bytes(body)),
         body[k + 1].sep # "cut", SymbolsThrough(body, k + 1) <= pos
  PROVE  /\ FirstOf(Delimiters(Received(body, k, pos))) = {<<2, body[k + 1].sep>>}
         /\ Before(Received(body, k, pos), <<2, body[k + 1].sep>>) = <<body[k + 1].event>>
         /\ Behind(Received(body, k, pos), <<2, body[k + 1].sep>>) = Received(body, k + 1, pos)
<1> DEFINE a == SymbolsThrough(body, k)
           x == Symbols(body[k + 1])
           buffer == Received(body, k, pos)
           bytes == Bytes(body)
           d == <<2, body[k + 1].sep>>
<1>1. /\ Begins(buffer, x) /\ Framed(x, body[k + 1].event, body[k + 1].sep)
      /\ Len(x) <= Len(buffer) /\ Len(x) \in Nat
      /\ SymbolsThrough(body, k + 1) = a + Len(x)
  BY ReceivedBegins
<1>2. /\ FirstOf(Delimiters(buffer)) = {d}
      /\ Before(buffer, d) = <<body[k + 1].event>>
      /\ Behind(buffer, d) = SubSeq(buffer, Len(x) + 1, Len(buffer))
  <2> HIDE DEF x, buffer
  <2> QED
    BY <1>1, FirstDelimiter
<1>3. SubSeq(buffer, Len(x) + 1, Len(buffer)) = SubSeq(bytes, a + Len(x) + 1, pos)
  <2>1. /\ a \in Nat /\ pos \in Nat /\ Len(buffer) = pos - a /\ bytes \in Seq(WireSymbols)
        /\ Len(bytes) \in Nat /\ pos <= Len(bytes) /\ buffer = SubSeq(bytes, a + 1, pos)
    <3>1. a \in Nat /\ pos \in Nat /\ Len(buffer) = pos - a
      BY ReceivedShape
    <3>2. bytes \in Seq(WireSymbols) /\ Len(bytes) \in Nat
      BY BytesOf, LenProperties
    <3>3. pos <= Len(bytes)
      BY <3>1, <3>2
    <3> QED
      BY <3>1, <3>2, <3>3 DEF Received
  <2> HIDE DEF x, buffer, bytes, a
  <2>2. a + Len(x) <= pos
    BY <1>1, <2>1
  <2>3. SubSeq(SubSeq(bytes, a + 1, pos), Len(x) + 1, pos - a) = SubSeq(bytes, a + Len(x) + 1, pos)
    <3>1. Len(x) \in Nat
      BY <1>1
    <3> QED
      BY <2>1, <2>2, <3>1, PieceOfPiece
  <2> QED
    BY <2>1, <2>3
<1>4. Received(body, k + 1, pos) = SubSeq(bytes, a + Len(x) + 1, pos)
  BY <1>1 DEF Received
<1> QED
  BY <1>2, <1>3, <1>4

(* Until then it finds nothing, and the rest is that event or nothing.      *)
LEMMA NothingEnds ==
  ASSUME NEW body \in Seq(Items), Whole(body), NEW k \in 0..Len(body),
         NEW pos \in SymbolsThrough(body, k)..Len(Bytes(body)),
         k < Len(body) => body[k + 1].sep = "cut" \/ ~(SymbolsThrough(body, k + 1) <= pos)
  PROVE  /\ Delimiters(Received(body, k, pos)) = {}
         /\ pos = SymbolsThrough(body, k) => Trim(Received(body, k, pos)) = << >>
         /\ pos # SymbolsThrough(body, k) =>
              k < Len(body) /\ Trim(Received(body, k, pos)) = <<body[k + 1].event>>
<1> DEFINE a == SymbolsThrough(body, k)
           buffer == Received(body, k, pos)
<1>1. /\ a \in Nat /\ pos \in Nat /\ buffer \in Seq(WireSymbols)
      /\ Len(buffer) = pos - a /\ Len(buffer) \in Nat
  BY ReceivedShape
<1>2. ASSUME pos = a PROVE Delimiters(buffer) = {} /\ Trim(buffer) = << >>
  <2> HIDE DEF buffer, a
  <2>1. Len(buffer) = 0 /\ 1..Len(buffer) = {}
    BY <1>1, <1>2
  <2>2. buffer = << >>
    BY <1>1, <2>1, EmptySeq
  <2>3. Delimiters(buffer) = {}
    BY <2>1 DEF Delimiters
  <2> QED
    BY <2>2, <2>3, TrimEmpty
<1>3. ASSUME pos # a
      PROVE  Delimiters(buffer) = {} /\ k < Len(body) /\ Trim(buffer) = <<body[k + 1].event>>
  <2> DEFINE x == Symbols(body[k + 1])
             event == body[k + 1].event
             sep == body[k + 1].sep
             bytes == Bytes(body)
             b == SymbolsThrough(body, k + 1)
  <2>1. Len(body) \in Nat /\ k \in Nat /\ Len(bytes) \in Nat /\ pos <= Len(bytes)
    BY <1>1, WireType, BytesOf, LenProperties
  <2>2. k < Len(body)
    <3>1. SymbolsThrough(body, Len(body)) = Len(bytes)
      BY Offsets
    <3>2. k # Len(body)
      BY <1>1, <1>3, <2>1, <3>1
    <3> QED
      BY <2>1, <3>2
  <2>3. /\ Begins(buffer, x) /\ Framed(x, event, sep) /\ Len(x) \in Nat
        /\ b <= pos <=> Len(x) <= Len(buffer)
        /\ b = a + Len(x)
    BY <2>2, ReceivedBegins
  <2>4. ASSUME sep = "cut" PROVE Len(buffer) <= 1
    <3>1. k + 1 = Len(body)
      BY <2>1, <2>2, <2>4, WireType DEF Whole
    <3>2. b = Len(bytes) /\ Len(x) = 1
      <4>1. b = Len(bytes)
        BY <3>1, Offsets
      <4> HIDE DEF x, event, sep
      <4> QED
        BY <2>3, <2>4, <4>1 DEF Framed
    <3> HIDE DEF x, b, bytes, a, buffer
    <3> QED
      BY <1>1, <2>1, <2>3, <3>2
  <2>5. ASSUME sep # "cut" PROVE Len(buffer) < Len(x)
    <3>1. ~(b <= pos)
      BY <2>2, <2>5
    <3> HIDE DEF x, b, bytes, a, buffer
    <3> QED
      BY <1>1, <2>3, <3>1
  <2>6. Len(buffer) # 0
    BY <1>1, <1>3
  <2> HIDE DEF x, event, sep, buffer
  <2>7. Delimiters(buffer) = {} /\ Trim(buffer) = <<event>>
    <3>1. IF sep = "cut" THEN Len(buffer) <= 1 ELSE Len(buffer) < Len(x)
      BY <2>4, <2>5
    <3> QED
      BY <2>3, <2>6, <3>1, NoDelimiter
  <2> QED
    BY <2>2, <2>7 DEF event
<1> QED
  BY <1>2, <1>3
--------------------------------------------------------------------------------
(* The invariant of a stream                                                *)

Paths == [provider : {"openai", "anthropic", "mock"}, ingress : {"openai", "anthropic"}]
Words == Events \cup {"role", "final"}
Lines == [text : {<<e>> : e \in Words}, tokens : {None, 0, 1, 3}]

(* The type of a stream that was opened.                                    *)
Stages ==
  [path : Paths, body : Seq(Items), pos : Nat, buffer : Seq(WireSymbols), role : BOOLEAN,
   done : BOOLEAN, tokens : {None, 1, 3}, out : Seq(Lines), producer : {"reading", "gone"},
   channel : Seq(Lines), lines : Seq(Lines), sawDone : BOOLEAN, client : {"reading", "gone"},
   unread : Nat, usage : Int]

(* What the first k events of a body leave in the producer's variables, and *)
(* the lines, already cleaned, that its i-th event becomes.                 *)
Seen(body, k, event) == \E i \in 1..k : body[i].event = event
CountAfter(body, k) ==
  IF Seen(body, k, "usage") THEN 3 ELSE IF Seen(body, k, "start") THEN 1 ELSE None
Part(path, body, i) ==
  LET event == body[i].event IN
  IF ~IsTranslated(path) THEN <<Line(<<Plain(path, event)>>, Counts(path, event))>>
  ELSE CASE event = "start" /\ ~Seen(body, i - 1, "start") -> <<Line(<<"role">>, None)>>
         [] event \in {"delta", "ansi"} -> <<Line(<<Plain(path, event)>>, None)>>
         [] event = "stop" ->
              <<Line(<<"final">>, IF CountAfter(body, i - 1) = None THEN 0
                                 ELSE CountAfter(body, i - 1)),
                Line(<<"stop">>, None)>>
         [] OTHER -> << >>
Emitted(r, k) == FlatTo([i \in DOMAIN r.body |-> Part(r.path, r.body, i)], k)

(* The producer has taken k events: none of them the last, or the last of   *)
(* them, which ended the body or is what was left of it when it broke off.  *)
Ended(r, k) == /\ r.body[k].sep # "cut" /\ r.body[k].event = "stop"
               /\ SymbolsThrough(r.body, k) <= r.pos
Broke(r, k) == /\ r.path.provider = "openai" /\ SymbolsThrough(r.body, k - 1) < r.pos
               /\ r.body[k].sep = "cut" \/ ~(SymbolsThrough(r.body, k) <= r.pos)
Taken(r, k) ==
  /\ \A i \in 1..k : (r.done => i # k) => r.body[i].sep # "cut" /\ r.body[i].event # "stop"
  /\ IF r.done THEN k # 0 /\ (Ended(r, k) \/ Broke(r, k))
     ELSE /\ SymbolsThrough(r.body, k) <= r.pos
          /\ r.buffer = Received(r.body, k, r.pos)
          /\ IsTranslated(r.path) => /\ r.role <=> Seen(r.body, k, "start")
                                     /\ r.tokens = CountAfter(r.body, k)

(* Of the lines F, some are sent; the others wait in the channel and at the *)
(* producer, in that order, and nothing else does.                          *)
Sent(r, F) ==
  Len(r.lines) <= Len(F) /\ \A p \in 1..Len(r.lines) : r.lines[p] = F[p]
Waiting(r, F) ==
  /\ Len(F) = Len(r.lines) + Len(r.channel) + Len(r.out)
  /\ \A p \in 1..Len(r.channel) : Cleaned(r.path, r.channel[p]) = F[Len(r.lines) + p]
  /\ \A p \in 1..Len(r.out) :
       Cleaned(r.path, r.out[p]) = F[Len(r.lines) + Len(r.channel) + p]

(* What holds of an opened stream beside that, and the invariant of one.    *)
Kept(at, r) ==
  /\ r \in Stages /\ WellFormed(r.path, r.body) /\ r.pos <= Len(Bytes(r.body))
  /\ r.done /\ r.out = << >> => r.producer = "gone"
  /\ r.sawDone => r.lines # << >> /\ IsTerminal(r.path, r.lines[Len(r.lines)])
  /\ at = "settled" => r.usage = Usage(r.path, r.lines)
Progress(at, r, k) ==
  Taken(r, k) /\ Sent(r, Emitted(r, k)) /\ (at # "settled" => Waiting(r, Emitted(r, k)))
StreamOk(at, r) ==
  IF at = "idle" THEN r = Unopened
  ELSE Kept(at, r) /\ \E k \in 0..Len(r.body) : Progress(at, r, k)
--------------------------------------------------------------------------------
(* The lines of an event                                                    *)

(* A text of one word.                                                      *)
LEMMA OneWord ==
  ASSUME NEW e, NEW f
  PROVE  /\ Len(<<e>>) = 1 /\ DOMAIN <<e>> = 1..1 /\ <<e>>[1] = e
         /\ Last(<<e>>) = e
         /\ <<e>> = <<f>> <=> e = f
         /\ [i \in DOMAIN <<e>> |-> f] = <<f>>
<1>1. Len(<<e>>) = 1 /\ DOMAIN <<e>> = 1..1 /\ <<e>>[1] = e
  OBVIOUS
<1>2. Last(<<e>>) = e
  BY DEF Last
<1>3. <<e>> = <<f>> <=> e = f
  OBVIOUS
<1>4. [i \in DOMAIN <<e>> |-> f] = <<f>>
  <2>1. [i \in 1..1 |-> f] \in Seq({f}) /\ Len([i \in 1..1 |-> f]) = 1 /\ [i \in 1..1 |-> f][1] = f
    OBVIOUS
  <2>2. <<f>> \in Seq({f}) /\ Len(<<f>>) = 1 /\ <<f>>[1] = f
    OBVIOUS
  <2>3. \A j \in 1..1 : [i \in 1..1 |-> f][j] = <<f>>[j]
    BY <2>1, <2>2
  <2>4. [i \in 1..1 |-> f] = <<f>>
    BY <2>1, <2>2, <2>3, SeqEqual
  <2> QED
    BY <1>1, <2>4
<1> QED
  BY <1>1, <1>2, <1>3, <1>4

(* Cleaning changes no word but one.                                        *)
LEMMA PlainIs ==
  ASSUME NEW path, NEW e \in Words
  PROVE  /\ Plain(path, e) \in Words /\ (e \in Events => Plain(path, e) \in Events)
         /\ Plain(path, e) = "stop" <=> e = "stop"
         /\ Plain(path, e) = "start" <=> e = "start"
         /\ e \in {"role", "final", "stop", "start", "usage", "ping", "delta"} => Plain(path, e) = e
BY DEF Plain, Words, Events

(* Cleaning a line is cleaning its text.                                    *)
LEMMA CleanedIs ==
  ASSUME NEW path \in Paths, NEW e \in Words, NEW n
  PROVE  Cleaned(path, Line(<<e>>, n)) = Line(<<Plain(path, e)>>, n)
<1> DEFINE f == IF e = "ansi" THEN "delta" ELSE e
           line == Line(<<e>>, n)
<1>1. line.text = <<e>> /\ line.tokens = n
  BY DEF Line
<1>2. [i \in DOMAIN line.text |-> IF line.text[i] = "ansi" THEN "delta" ELSE line.text[i]] = <<f>>
  <2>1. \A i \in DOMAIN <<e>> : <<e>>[i] = e
    BY OneWord
  <2>2. [i \in DOMAIN <<e>> |-> IF <<e>>[i] = "ansi" THEN "delta" ELSE <<e>>[i]]
          = [i \in DOMAIN <<e>> |-> f]
    BY <2>1
  <2> QED
    BY <1>1, <2>2, OneWord
<1>3. [line EXCEPT !.text = <<f>>] = Line(<<f>>, n)
  BY DEF Line
<1>4. Cleaned(path, line)
        = IF StripAnsi /\ (IsTranslated(path) \/ Shape(path) = "openai")
          THEN Line(<<f>>, n) ELSE line
  BY <1>2, <1>3 DEF Cleaned
<1>5. (IsTranslated(path) \/ Shape(path) = "openai")
        <=> (path.provider = "openai" \/ path.ingress = "openai")
  BY DEF IsTranslated, Shape, Paths
<1>6. Plain(path, e) = IF StripAnsi /\ (IsTranslated(path) \/ Shape(path) = "openai") THEN f ELSE e
  BY <1>5 DEF Plain
<1> QED
  BY <1>4, <1>6

Quiet == {line \in Lines : line.text # <<"stop">>}

(* A line of one word, and a count of an event.                             *)
LEMMA LineTyped ==
  ASSUME NEW e \in Words, NEW n \in {None, 0, 1, 3}
  PROVE  /\ Line(<<e>>, n) \in Lines /\ Line(<<e>>, n).text = <<e>> /\ Line(<<e>>, n).tokens = n
         /\ e # "stop" => Line(<<e>>, n) \in Quiet
<1>1. Line(<<e>>, n) \in Lines /\ Line(<<e>>, n).text = <<e>> /\ Line(<<e>>, n).tokens = n
  BY DEF Line, Lines
<1>2. e # "stop" => <<e>> # <<"stop">>
  BY OneWord
<1> QED
  BY <1>1, <1>2 DEF Quiet

LEMMA CountsIs ==
  ASSUME NEW path \in Paths, NEW e
  PROVE  /\ Counts(path, e) \in {None, 1, 3}
         /\ Counts(path, e) # None => e \in {"start", "usage"}
         /\ Counts(path, e) = 3 <=> e = "usage"
         /\ Counts(path, e) = 1 <=> e = "start" /\ Shape(path) = "anthropic"
<1>1. None # 1 /\ None # 3
  BY DEF None
<1>2. CASE e = "start" /\ Shape(path) = "anthropic"
  BY <1>1, <1>2 DEF Counts
<1>3. CASE e = "usage"
  BY <1>1, <1>3 DEF Counts
<1>4. CASE ~(e = "start" /\ Shape(path) = "anthropic") /\ e # "usage"
  <2>1. Counts(path, e) = None
    BY <1>4 DEF Counts
  <2> QED
    BY <1>1, <1>4, <2>1
<1> QED
  BY <1>2, <1>3, <1>4

LEMMA OneInSeq == ASSUME NEW S, NEW x \in S PROVE <<x>> \in Seq(S) /\ Len(<<x>>) = 1 /\ <<x>>[1] = x
OBVIOUS

LEMMA TwoInSeq ==
  ASSUME NEW S, NEW x \in S, NEW y \in S
  PROVE  <<x, y>> \in Seq(S) /\ Len(<<x, y>>) = 2 /\ <<x, y>>[1] = x /\ <<x, y>>[2] = y
OBVIOUS

LEMMA CountAfterIs ==
  ASSUME NEW body, NEW k
  PROVE  CountAfter(body, k) \in {None, 1, 3}
BY DEF CountAfter

(* Of the lines of an event, only those of a stop say stop.                 *)
LEMMA PartShape ==
  ASSUME NEW path \in Paths, NEW body \in Seq(Items), NEW i \in 1..Len(body)
  PROVE  /\ Part(path, body, i) \in Seq(Lines)
         /\ body[i].event # "stop" => Part(path, body, i) \in Seq(Quiet)
<1> DEFINE event == body[i].event
<1>1. event \in Events /\ event \in Words
  BY WireType, SymbolsShape DEF Words
<1>2. Plain(path, event) \in Words /\ (Plain(path, event) = "stop" <=> event = "stop")
  BY <1>1, PlainIs
<1>3. Counts(path, event) \in {None, 0, 1, 3}
  BY CountsIs
<1>4. None \in {None, 0, 1, 3} /\ "role" \in Words /\ "final" \in Words /\ "stop" \in Words
  BY DEF Words, Events
<1>5. CASE ~IsTranslated(path)
  <2> DEFINE line == Line(<<Plain(path, event)>>, Counts(path, event))
  <2>1. line \in Lines /\ (event # "stop" => line \in Quiet)
    <3> HIDE DEF event
    <3> QED
      BY <1>2, <1>3, LineTyped
  <2>2. Part(path, body, i) = <<line>>
    BY <1>5 DEF Part
  <2> HIDE DEF line
  <2> QED
    BY <2>1, <2>2, OneInSeq
<1>6. CASE IsTranslated(path)
  <2>1. CASE event = "start" /\ ~Seen(body, i - 1, "start")
    <3> DEFINE line == Line(<<"role">>, None)
    <3>1. line \in Quiet /\ line \in Lines
      BY <1>4, LineTyped
    <3>2. Part(path, body, i) = <<line>>
      BY <1>6, <2>1 DEF Part
    <3> HIDE DEF line
    <3> QED
      BY <3>1, <3>2, OneInSeq
  <2>2. CASE event \in {"delta", "ansi"}
    <3> DEFINE line == Line(<<Plain(path, event)>>, None)
    <3>1. line \in Quiet /\ line \in Lines
      <4>1. event # "stop"
        BY <2>2
      <4> HIDE DEF event
      <4> QED
        BY <1>2, <1>4, <4>1, LineTyped
    <3>2. Part(path, body, i) = <<line>>
      BY <1>6, <2>2 DEF Part
    <3> HIDE DEF line
    <3> QED
      BY <3>1, <3>2, OneInSeq
  <2>3. CASE event = "stop"
    <3> DEFINE n == IF CountAfter(body, i - 1) = None THEN 0 ELSE CountAfter(body, i - 1)
               line == Line(<<"final">>, n)
               last == Line(<<"stop">>, None)
    <3>1. n \in {None, 0, 1, 3}
      BY CountAfterIs
    <3>2. line \in Lines /\ last \in Lines
      <4> HIDE DEF n
      <4> QED
        BY <1>4, <3>1, LineTyped
    <3>3. Part(path, body, i) = <<line, last>>
      BY <1>6, <2>3 DEF Part
    <3> HIDE DEF line, last
    <3>4. Part(path, body, i) \in Seq(Lines)
      BY <3>2, <3>3, TwoInSeq
    <3> QED
      BY <2>3, <3>4
  <2>4. CASE /\ ~(event = "start" /\ ~Seen(body, i - 1, "start"))
             /\ event \notin {"delta", "ansi"} /\ event # "stop"
    <3>1. Part(path, body, i) = << >>
      BY <1>6, <2>4 DEF Part
    <3> QED
      BY <3>1
  <2> QED
    BY <2>1, <2>2, <2>3, <2>4
<1> QED
  BY <1>5, <1>6

(* One event more.                                                          *)
LEMMA SeenNext ==
  ASSUME NEW body, NEW k \in Nat, NEW event
  PROVE  Seen(body, k + 1, event) <=> Seen(body, k, event) \/ body[k + 1].event = event
<1>1. 1..(k + 1) = 1..k \cup {k + 1}
  OBVIOUS
<1> QED
  BY <1>1 DEF Seen

(* A count is the latest one: no start follows the count at the end.        *)
LEMMA CountNext ==
  ASSUME NEW path, NEW body, WellFormed(path, body), IsTranslated(path),
         NEW k \in 0..Len(body), k < Len(body)
  PROVE  CountAfter(body, k + 1) = IF Counts(path, body[k + 1].event) = None
                                   THEN CountAfter(body, k)
                                   ELSE Counts(path, body[k + 1].event)
<1> DEFINE event == body[k + 1].event
<1>1. body \in Seq(Items) /\ Len(body) \in Nat /\ DOMAIN body = 1..Len(body) /\ k \in Nat
      /\ path \in Paths /\ Shape(path) = "anthropic" /\ path.provider = "anthropic"
  BY WireType DEF WellFormed, Paths, IsTranslated, Shape
<1>2. /\ Seen(body, k + 1, "usage") <=> Seen(body, k, "usage") \/ event = "usage"
      /\ Seen(body, k + 1, "start") <=> Seen(body, k, "start") \/ event = "start"
  BY <1>1, SeenNext
<1>3. ASSUME event = "start" PROVE ~Seen(body, k, "usage")
  <2> SUFFICES ASSUME NEW j \in 1..k, body[j].event = "usage" PROVE FALSE
    BY DEF Seen
  <2>1. j \in DOMAIN body /\ k + 1 \in j..Len(body)
    BY <1>1
  <2> QED
    BY <1>1, <1>3, <2>1 DEF WellFormed
<1>4. /\ event = "usage" => Counts(path, event) = 3
      /\ event = "start" => Counts(path, event) = 1
      /\ event \notin {"usage", "start"} => Counts(path, event) = None
  BY <1>1, CountsIs
<1>5. None # 3 /\ None # 1
  BY DEF None
<1> HIDE DEF event
<1> QED
  BY <1>2, <1>3, <1>4, <1>5 DEF CountAfter, event

(* Nothing but the lines to send and the producer's own state differs.      *)
SameButEmitted(r, e) ==
  /\ e.path = r.path /\ e.body = r.body /\ e.pos = r.pos /\ e.buffer = r.buffer
  /\ e.producer = r.producer /\ e.channel = r.channel /\ e.lines = r.lines
  /\ e.sawDone = r.sawDone /\ e.client = r.client /\ e.unread = r.unread /\ e.usage = r.usage

(* Lines that are cleaned one by one.                                       *)
CleanedTo(path, lines, cleaned) ==
  Len(lines) = Len(cleaned) /\ \A p \in 1..Len(lines) : Cleaned(path, lines[p]) = cleaned[p]

(* The lines an event can have: one, two, or none.                          *)
LEMMA CleanedOne ==
  ASSUME NEW path \in Paths, NEW e \in Words, NEW n \in {None, 0, 1, 3}
  PROVE  /\ CleanedTo(path, <<Line(<<e>>, n)>>, <<Line(<<Plain(path, e)>>, n)>>)
         /\ <<Line(<<e>>, n)>> \in Seq(Lines)
<1> DEFINE x == Line(<<e>>, n)
           y == Line(<<Plain(path, e)>>, n)
<1>1. Cleaned(path, x) = y /\ x \in Lines
  BY CleanedIs, LineTyped
<1>2. Len(<<x>>) = 1 /\ Len(<<y>>) = 1 /\ <<x>>[1] = x /\ <<y>>[1] = y
  BY OneWord
<1> HIDE DEF x, y
<1>3. CleanedTo(path, <<x>>, <<y>>)
  BY <1>1, <1>2 DEF CleanedTo
<1>4. <<x>> \in Seq(Lines)
  BY <1>1
<1> QED
  BY <1>3, <1>4 DEF x, y

LEMMA CleanedTwo ==
  ASSUME NEW path \in Paths, NEW e \in Words, NEW n \in {None, 0, 1, 3},
         NEW f \in Words, NEW m \in {None, 0, 1, 3}
  PROVE  /\ CleanedTo(path, <<Line(<<e>>, n), Line(<<f>>, m)>>,
                      <<Line(<<Plain(path, e)>>, n), Line(<<Plain(path, f)>>, m)>>)
         /\ <<Line(<<e>>, n), Line(<<f>>, m)>> \in Seq(Lines)
<1> DEFINE x == Line(<<e>>, n)
           y == Line(<<Plain(path, e)>>, n)
           z == Line(<<f>>, m)
           w == Line(<<Plain(path, f)>>, m)
<1>1. Cleaned(path, x) = y /\ x \in Lines /\ Cleaned(path, z) = w /\ z \in Lines
  BY CleanedIs, LineTyped
<1> HIDE DEF x, y, z, w
<1>2. /\ Len(<<x, z>>) = 2 /\ Len(<<y, w>>) = 2
      /\ <<x, z>>[1] = x /\ <<x, z>>[2] = z /\ <<y, w>>[1] = y /\ <<y, w>>[2] = w
  OBVIOUS
<1>3. CleanedTo(path, <<x, z>>, <<y, w>>)
  <2>1. ASSUME NEW p \in 1..2 PROVE Cleaned(path, <<x, z>>[p]) = <<y, w>>[p]
    <3>1. p = 1 \/ p = 2
      OBVIOUS
    <3> QED
      BY <1>1, <1>2, <3>1
  <2> QED
    BY <1>2, <2>1 DEF CleanedTo
<1>4. <<x, z>> \in Seq(Lines)
  BY <1>1
<1> QED
  BY <1>3, <1>4 DEF x, y, z, w

LEMMA CleanedNone ==
  ASSUME NEW path PROVE CleanedTo(path, << >>, << >>) /\ << >> \in Seq(Lines)
<1>1. Len(<< >>) = 0
  OBVIOUS
<1> QED
  BY <1>1 DEF CleanedTo

(* map_stream_event and the tasks that pass events on: the lines of one     *)
(* event, and what the producer remembers of it.                            *)
LEMMA EmitIs ==
  ASSUME NEW r \in Stages, WellFormed(r.path, r.body), r.out = << >>, ~r.done,
         NEW k \in 0..Len(r.body), k < Len(r.body),
         IsTranslated(r.path) => (r.role <=> Seen(r.body, k, "start"))
                                 /\ r.tokens = CountAfter(r.body, k)
  PROVE  LET event == r.body[k + 1].event
             e == Emit(r, <<event>>)
         IN  /\ e \in Stages /\ SameButEmitted(r, e)
             /\ e.done <=> event = "stop"
             /\ IsTranslated(r.path) => (e.role <=> Seen(r.body, k + 1, "start"))
                                        /\ e.tokens = CountAfter(r.body, k + 1)
             /\ CleanedTo(r.path, e.out, Part(r.path, r.body, k + 1))
             /\ e.done => e.out # << >>
<1> DEFINE event == r.body[k + 1].event
           path == r.path
           body == r.body
           e == Emit(r, <<event>>)
           part == Part(path, body, k + 1)
<1>1. /\ path \in Paths /\ body \in Seq(Items) /\ k \in Nat /\ Len(body) \in Nat
      /\ k + 1 \in 1..Len(body) /\ k + 1 - 1 = k
      /\ event \in Events /\ event \in Words
  <2>1. path \in Paths /\ body \in Seq(Items)
    BY DEF Stages
  <2>2. Len(body) \in Nat /\ k \in Nat /\ k + 1 \in 1..Len(body) /\ k + 1 - 1 = k
    BY <2>1, WireType
  <2>3. body[k + 1] \in Items
    BY <2>1, <2>2, WireType
  <2> QED
    BY <2>1, <2>2, <2>3, SymbolsShape DEF Words
<1>2. Trim(<<event>>) = <<event>> /\ Last(<<event>>) = event
  <2> HIDE DEF event
  <2> QED
    BY <1>1, TrimEvent, OneWord
<1>3. None \in {None, 0, 1, 3} /\ "role" \in Words /\ "final" \in Words /\ "stop" \in Words
  BY DEF Words, Events
<1>4. CASE ~IsTranslated(path)
  <2> DEFINE n == Counts(path, event)
             line == Line(<<event>>, n)
  <2>1. Forwarded(path, <<event>>) = line
    BY <1>2 DEF Forwarded
  <2>2. n \in {None, 0, 1, 3}
    BY <1>1, CountsIs
  <2>3. /\ CleanedTo(path, <<line>>, <<Line(<<Plain(path, event)>>, n)>>)
        /\ <<line>> \in Seq(Lines)
    <3> HIDE DEF event, n, path
    <3> QED
      BY <1>1, <2>2, CleanedOne
  <2>4. part = <<Line(<<Plain(path, event)>>, n)>>
    BY <1>4 DEF Part
  <2>5. e = [r EXCEPT !.out = Append(@, line), !.done = event = "stop"]
    <3>1. Trim(<<event>>) = <<"stop">> <=> event = "stop"
      BY <1>2, OneWord
    <3> QED
      BY <1>4, <2>1, <3>1 DEF Emit
  <2> HIDE DEF event, line, n, e
  <2>6. Append(r.out, line) = <<line>>
    OBVIOUS
  <2>7. e = [r EXCEPT !.out = <<line>>, !.done = event = "stop"]
    BY <2>5, <2>6
  <2>8. e \in Stages /\ SameButEmitted(r, e) /\ e.out = <<line>> /\ (e.done <=> event = "stop")
    BY <2>3, <2>7 DEF Stages, SameButEmitted
  <2>9. <<line>> # << >>
    OBVIOUS
  <2>10. CleanedTo(path, e.out, part)
    BY <2>3, <2>4, <2>8 DEF event
  <2> QED
    BY <1>4, <2>8, <2>9, <2>10 DEF e, event
<1>5. CASE IsTranslated(path)
  <2> DEFINE lines == CASE event = "start" /\ ~r.role -> <<Line(<<"role">>, None)>>
                        [] event \in {"delta", "ansi"} -> <<Line(<<event>>, None)>>
                        [] event = "stop" ->
                             <<Line(<<"final">>, IF r.tokens = None THEN 0 ELSE r.tokens),
                               Line(<<"stop">>, None)>>
                        [] OTHER -> << >>
             counted == Counts(path, event)
             tokens == IF counted = None THEN r.tokens ELSE counted
             role == r.role \/ event = "start"
             n == IF r.tokens = None THEN 0 ELSE r.tokens
  <2>1. e = [r EXCEPT !.tokens = tokens, !.out = r.out \o lines, !.role = role,
                      !.done = event = "stop"]
    BY <1>2, <1>5 DEF Emit, Translate
  <2>2. tokens = CountAfter(body, k + 1)
    <3>1. CountAfter(body, k + 1) = IF counted = None THEN CountAfter(body, k) ELSE counted
      BY <1>5, CountNext
    <3> QED
      BY <1>5, <3>1
  <2>3. role <=> Seen(body, k + 1, "start")
    BY <1>1, <1>5, SeenNext
  <2>4. tokens \in {None, 1, 3} /\ role \in BOOLEAN /\ r.tokens \in {None, 1, 3}
        /\ n \in {None, 0, 1, 3}
    BY <2>2, CountAfterIs DEF Stages
  <2>5. CleanedTo(path, lines, part) /\ lines \in Seq(Lines) /\ (event = "stop" => lines # << >>)
    <3>1. CASE event = "start" /\ ~r.role
      <4>1. lines = <<Line(<<"role">>, None)>>
        BY <3>1
      <4>2. Plain(path, "role") = "role"
        BY <1>3, PlainIs
      <4>3. part = <<Line(<<Plain(path, "role")>>, None)>>
        BY <1>1, <1>5, <3>1, <4>2 DEF Part
      <4>4. CleanedTo(path, <<Line(<<"role">>, None)>>, <<Line(<<Plain(path, "role")>>, None)>>)
            /\ <<Line(<<"role">>, None)>> \in Seq(Lines)
        BY <1>1, <1>3, CleanedOne
      <4> QED
        BY <3>1, <4>1, <4>3, <4>4
    <3>2. CASE event \in {"delta", "ansi"}
      <4>1. lines = <<Line(<<event>>, None)>>
        BY <3>2
      <4>2. part = <<Line(<<Plain(path, event)>>, None)>>
        BY <1>5, <3>2 DEF Part
      <4>3. event # "stop"
        BY <3>2
      <4>4. CleanedTo(path, <<Line(<<event>>, None)>>, <<Line(<<Plain(path, event)>>, None)>>)
            /\ <<Line(<<event>>, None)>> \in Seq(Lines)
        <5> HIDE DEF event, path
        <5> QED
          BY <1>1, <1>3, CleanedOne
      <4> QED
        BY <4>1, <4>2, <4>3, <4>4
    <3>3. CASE event = "stop"
      <4>1. lines = <<Line(<<"final">>, n), Line(<<"stop">>, None)>>
        BY <3>3
      <4>2. Plain(path, "final") = "final" /\ Plain(path, "stop") = "stop"
        BY <1>3, PlainIs
      <4>3. n = IF CountAfter(body, k) = None THEN 0 ELSE CountAfter(body, k)
        BY <1>5
      <4>4. part = <<Line(<<"final">>, n), Line(<<"stop">>, None)>>
        BY <1>1, <1>5, <3>3, <4>3 DEF Part
      <4>5. CleanedTo(path, lines, <<Line(<<Plain(path, "final")>>, n),
                                     Line(<<Plain(path, "stop")>>, None)>>)
            /\ lines \in Seq(Lines)
        <5> HIDE DEF n, lines, path
        <5> QED
          BY <1>1, <1>3, <2>4, <4>1, CleanedTwo
      <4>6. lines # << >>
        <5> HIDE DEF lines
        <5> QED
          BY <4>1
      <4> QED
        BY <4>2, <4>4, <4>5, <4>6
    <3>4. CASE /\ ~(event = "start" /\ ~r.role)
               /\ event \notin {"delta", "ansi"} /\ event # "stop"
      <4>1. lines = << >>
        BY <3>4
      <4>2. part = << >>
        BY <1>1, <1>5, <3>4 DEF Part
      <4> QED
        BY <3>4, <4>1, <4>2, CleanedNone
    <3> QED
      BY <3>1, <3>2, <3>3, <3>4
  <2> HIDE DEF event, lines, tokens, role, e
  <2>6. r.out \o lines = lines
    BY <2>5
  <2>7. e = [r EXCEPT !.tokens = tokens, !.out = lines, !.role = role, !.done = event = "stop"]
    BY <2>1, <2>6
  <2>8. /\ e \in Stages /\ SameButEmitted(r, e) /\ e.out = lines /\ (e.done <=> event = "stop")
        /\ e.role = role /\ e.tokens = tokens
    BY <2>4, <2>5, <2>7 DEF Stages, SameButEmitted
  <2> QED
    BY <2>2, <2>3, <2>5, <2>8 DEF e, event
<1> QED
  BY <1>4, <1>5
--------------------------------------------------------------------------------
(* The producer's steps                                                     *)

(* The lines of the first k events, and of one more.                        *)
LEMMA EmittedIs ==
  ASSUME NEW r, r.path \in Paths, r.body \in Seq(Items), NEW k \in 0..Len(r.body)
  PROVE  /\ Emitted(r, k) \in Seq(Lines) /\ Len(Emitted(r, k)) \in Nat
         /\ Emitted(r, 0) = << >>
         /\ k < Len(r.body) =>
              /\ Emitted(r, k + 1) = Emitted(r, k) \o Part(r.path, r.body, k + 1)
              /\ Part(r.path, r.body, k + 1) \in Seq(Lines)
<1> DEFINE parts == [i \in DOMAIN r.body |-> Part(r.path, r.body, i)]
<1>1. DOMAIN r.body = 1..Len(r.body) /\ Len(r.body) \in Nat
  BY WireType
<1>2. \A i \in 1..Len(r.body) : Part(r.path, r.body, i) \in Seq(Lines)
  BY PartShape
<1>3. parts = [i \in 1..Len(r.body) |-> Part(r.path, r.body, i)]
  BY <1>1
<1>4. /\ parts \in Seq(Seq(Lines)) /\ Len(parts) = Len(r.body)
      /\ \A i \in 1..Len(r.body) : parts[i] = Part(r.path, r.body, i)
  BY <1>1, <1>2, <1>3
<1>5. \A i \in 0..Len(r.body) : Emitted(r, i) = FlatTo(parts, i)
  BY DEF Emitted
<1> HIDE DEF parts
<1>6. /\ FlatTo(parts, k) \in Seq(Lines)
      /\ k < Len(parts) => FlatTo(parts, k + 1) = FlatTo(parts, k) \o parts[k + 1]
  BY <1>4, FlattenUpTo
<1>7. FlatTo(parts, 0) = << >> /\ 0 \in 0..Len(r.body)
  BY <1>1, <1>4, FlatEnds
<1>8. k < Len(r.body) => k + 1 \in 1..Len(r.body) /\ k + 1 \in 0..Len(r.body)
  BY <1>1
<1> QED
  BY <1>2, <1>4, <1>5, <1>6, <1>7, <1>8, LenProperties

(* The parts of a stream's type.                                            *)
LEMMA StageTypes ==
  ASSUME NEW r \in Stages
  PROVE  /\ r.path \in Paths /\ r.body \in Seq(Items) /\ r.pos \in Nat
         /\ r.buffer \in Seq(WireSymbols) /\ r.role \in BOOLEAN /\ r.done \in BOOLEAN
         /\ r.out \in Seq(Lines) /\ r.channel \in Seq(Lines) /\ r.lines \in Seq(Lines)
         /\ Len(r.out) \in Nat /\ Len(r.channel) \in Nat /\ Len(r.lines) \in Nat
         /\ Len(r.body) \in Nat /\ DOMAIN r.body = 1..Len(r.body)
         /\ Bytes(r.body) \in Seq(WireSymbols) /\ Len(Bytes(r.body)) \in Nat
<1>1. /\ r.path \in Paths /\ r.body \in Seq(Items) /\ r.pos \in Nat
      /\ r.buffer \in Seq(WireSymbols) /\ r.role \in BOOLEAN /\ r.done \in BOOLEAN
      /\ r.out \in Seq(Lines) /\ r.channel \in Seq(Lines) /\ r.lines \in Seq(Lines)
  BY DEF Stages
<1> QED
  BY <1>1, BytesOf, WireType, LenProperties

(* What the producer's place among the events depends on, and the lines'.   *)
LEMMA SamePlace ==
  ASSUME NEW r, NEW e, NEW k, e.path = r.path, e.body = r.body, e.pos = r.pos,
         e.done = r.done, e.buffer = r.buffer, e.role = r.role, e.tokens = r.tokens
  PROVE  (Taken(e, k) <=> Taken(r, k)) /\ Emitted(e, k) = Emitted(r, k)
BY DEF Taken, Ended, Broke, Emitted

(* Of a body that is well formed, the lemmas on the wire hold.              *)
LEMMA WholeBody ==
  ASSUME NEW path, NEW body, WellFormed(path, body)
  PROVE  body \in Seq(Items) /\ Whole(body) /\ path \in Paths
BY DEF WellFormed, Whole, Paths

(* Two pieces, one behind the other, are one.                               *)
LEMMA PieceGrows ==
  ASSUME NEW S, NEW s \in Seq(S), NEW a \in Nat, NEW pos \in Nat, NEW n \in Nat,
         a <= pos, pos + n <= Len(s)
  PROVE  SubSeq(s, a + 1, pos) \o SubSeq(s, pos + 1, pos + n) = SubSeq(s, a + 1, pos + n)
<1> DEFINE left == SubSeq(s, a + 1, pos)
           more == SubSeq(s, pos + 1, pos + n)
           whole == SubSeq(s, a + 1, pos + n)
<1>1. Len(s) \in Nat /\ pos <= pos + n /\ a <= pos + n /\ pos <= Len(s) /\ pos + n \in Nat
      /\ pos + n - pos = n
  BY LenProperties
<1>2. /\ left \in Seq(S) /\ Len(left) = pos - a /\ pos - a \in Nat
      /\ \A j \in 1..(pos - a) : left[j] = s[a + j]
  BY <1>1, Piece
<1>3. /\ more \in Seq(S) /\ Len(more) = pos + n - pos
      /\ \A j \in 1..(pos + n - pos) : more[j] = s[pos + j]
  BY <1>1, Piece
<1>4. /\ whole \in Seq(S) /\ Len(whole) = pos + n - a
      /\ \A j \in 1..(pos + n - a) : whole[j] = s[a + j]
  BY <1>1, Piece
<1> HIDE DEF left, more, whole
<1>5. /\ left \o more \in Seq(S) /\ Len(left \o more) = Len(left) + Len(more)
      /\ \A j \in 1..(Len(left) + Len(more)) :
           (left \o more)[j] = IF j <= Len(left) THEN left[j] ELSE more[j - Len(left)]
  BY <1>2, <1>3, ConcatProperties
<1>6. Len(left) + Len(more) = pos + n - a
  BY <1>1, <1>2, <1>3
<1>7. ASSUME NEW j \in 1..(pos + n - a) PROVE (left \o more)[j] = whole[j]
  <2>1. CASE j <= pos - a
    <3>1. j \in 1..(pos - a) /\ j \in 1..(Len(left) + Len(more))
      BY <1>6, <2>1
    <3> QED
      BY <1>2, <1>4, <1>5, <2>1, <3>1
  <2>2. CASE ~(j <= pos - a)
    <3>1. j - (pos - a) \in 1..n /\ pos + (j - (pos - a)) = a + j
      BY <2>2
    <3> QED
      BY <1>1, <1>2, <1>3, <1>4, <1>5, <1>6, <2>2, <3>1
  <2> QED
    BY <2>1, <2>2
<1>8. left \o more = whole
  BY <1>4, <1>5, <1>6, <1>7, SeqEqual
<1> QED
  BY <1>8 DEF left, more, whole

(* So what is received is joined to the buffer.                             *)
LEMMA ReceivedGrows ==
  ASSUME NEW body \in Seq(Items), NEW k \in 0..Len(body), NEW pos \in Nat, NEW n \in Nat,
         SymbolsThrough(body, k) <= pos, pos + n <= Len(Bytes(body))
  PROVE  Received(body, k, pos) \o SubSeq(Bytes(body), pos + 1, pos + n)
           = Received(body, k, pos + n)
<1> DEFINE bytes == Bytes(body)
           a == SymbolsThrough(body, k)
<1>1. bytes \in Seq(WireSymbols) /\ a \in Nat
  BY BytesOf, Offsets
<1> HIDE DEF bytes, a
<1>2. a <= pos /\ pos + n <= Len(bytes)
  BY DEF bytes, a
<1>3. SubSeq(bytes, a + 1, pos) \o SubSeq(bytes, pos + 1, pos + n) = SubSeq(bytes, a + 1, pos + n)
  BY <1>1, <1>2, PieceGrows
<1> QED
  BY <1>3 DEF Received, bytes, a

LEMMA WithinRest ==
  ASSUME NEW p \in Nat, NEW l \in Nat, NEW n \in 1..(l - p)
  PROVE  n \in Nat /\ p + n <= l /\ p + n \in Nat
OBVIOUS

(* bytes_stream: however much arrives, the buffer has what is not taken.    *)
LEMMA ReceiveOk ==
  ASSUME NEW at, at # "idle", NEW r, StreamOk(at, r), r.producer = "reading", r.out = << >>,
         NEW n \in 1..(Len(Bytes(r.body)) - r.pos), NEW e,
         e = [r EXCEPT !.pos = r.pos + n,
                       !.buffer = r.buffer \o SubSeq(Bytes(r.body), r.pos + 1, r.pos + n)]
  PROVE  StreamOk(at, e)
<1> DEFINE bytes == Bytes(r.body)
           chunk == SubSeq(bytes, r.pos + 1, r.pos + n)
<1>1. Kept(at, r)
  BY DEF StreamOk
<1>2. PICK k \in 0..Len(r.body) : Progress(at, r, k)
  BY DEF StreamOk
<1>3. r \in Stages /\ ~r.done /\ r.pos <= Len(bytes) /\ WellFormed(r.path, r.body)
  BY <1>1 DEF Kept
<1>4. /\ r.pos \in Nat /\ n \in Nat /\ bytes \in Seq(WireSymbols) /\ Len(bytes) \in Nat
      /\ r.pos + n <= Len(bytes) /\ r.pos + n \in Nat /\ r.buffer \in Seq(WireSymbols)
  <2>1. r.pos \in Nat /\ bytes \in Seq(WireSymbols) /\ Len(bytes) \in Nat
        /\ r.buffer \in Seq(WireSymbols)
    BY <1>3, StageTypes
  <2>2. n \in 1..(Len(bytes) - r.pos)
    OBVIOUS
  <2> HIDE DEF bytes
  <2>3. n \in Nat /\ r.pos + n <= Len(bytes) /\ r.pos + n \in Nat
    BY <2>1, <2>2, WithinRest
  <2> QED
    BY <2>1, <2>3
<1>5. chunk \in Seq(WireSymbols)
  <2>1. r.pos <= r.pos + n
    BY <1>4
  <2> HIDE DEF bytes
  <2> QED
    BY <1>4, <2>1, Piece
<1>6. r.buffer \o chunk \in Seq(WireSymbols)
  <2> HIDE DEF chunk
  <2> QED
    BY <1>4, <1>5, ConcatProperties
<1>7. /\ SymbolsThrough(r.body, k) <= r.pos /\ SymbolsThrough(r.body, k) \in Nat
      /\ r.buffer = Received(r.body, k, r.pos)
  <2>1. SymbolsThrough(r.body, k) <= r.pos /\ r.buffer = Received(r.body, k, r.pos)
    BY <1>2, <1>3 DEF Progress, Taken
  <2>2. r.body \in Seq(Items)
    BY <1>3, StageTypes
  <2> QED
    BY <2>1, <2>2, Offsets
<1>8. r.buffer \o chunk = Received(r.body, k, r.pos + n)
  <2>1. r.body \in Seq(Items)
    BY <1>3, StageTypes
  <2>2. SymbolsThrough(r.body, k) <= r.pos /\ r.pos \in Nat /\ n \in Nat
        /\ r.pos + n <= Len(Bytes(r.body))
    BY <1>4, <1>7
  <2>3. Received(r.body, k, r.pos) \o SubSeq(Bytes(r.body), r.pos + 1, r.pos + n)
          = Received(r.body, k, r.pos + n)
    BY <2>1, <2>2, ReceivedGrows
  <2> QED
    BY <1>7, <2>3
<1> HIDE DEF bytes, chunk
<1>9. /\ e \in Stages
      /\ e.path = r.path /\ e.body = r.body /\ e.pos = r.pos + n /\ e.buffer = r.buffer \o chunk
      /\ e.role = r.role /\ e.done = r.done /\ e.tokens = r.tokens /\ e.out = r.out
      /\ e.producer = r.producer /\ e.channel = r.channel /\ e.lines = r.lines
      /\ e.sawDone = r.sawDone /\ e.usage = r.usage
  BY <1>3, <1>4, <1>6 DEF Stages, chunk, bytes
<1>10. Kept(at, e)
  BY <1>1, <1>4, <1>9 DEF Kept, bytes
<1>11. Emitted(e, k) = Emitted(r, k)
  BY <1>9 DEF Emitted
<1>12. Taken(e, k)
  <2>1. SymbolsThrough(r.body, k) <= r.pos + n
    BY <1>4, <1>7
  <2> QED
    BY <1>2, <1>3, <1>8, <1>9, <2>1 DEF Progress, Taken
<1>13. Progress(at, e, k)
  BY <1>2, <1>9, <1>11, <1>12 DEF Progress, Sent, Waiting
<1> QED
  BY <1>9, <1>10, <1>13 DEF StreamOk

(* New lines wait behind those that are on their way.                       *)
LEMMA LinesGrow ==
  ASSUME NEW r \in Stages, NEW e, NEW F \in Seq(Lines), NEW G \in Seq(Lines),
         e.path = r.path, e.lines = r.lines, e.channel = r.channel, r.out = << >>,
         CleanedTo(e.path, e.out, G), Sent(r, F)
  PROVE  Sent(e, F \o G) /\ (Waiting(r, F) => Waiting(e, F \o G))
<1>1. /\ Len(F) \in Nat /\ Len(G) \in Nat /\ Len(F \o G) = Len(F) + Len(G)
      /\ \A j \in 1..(Len(F) + Len(G)) :
           (F \o G)[j] = IF j <= Len(F) THEN F[j] ELSE G[j - Len(F)]
  BY ConcatProperties, LenProperties
<1>2. Len(r.lines) \in Nat /\ Len(r.channel) \in Nat /\ Len(r.out) = 0
  BY StageTypes
<1>3. Sent(e, F \o G)
  <2>1. Len(r.lines) <= Len(F)
    BY DEF Sent
  <2>2. \A p \in 1..Len(r.lines) : p <= Len(F) /\ p \in 1..(Len(F) + Len(G))
    BY <1>1, <1>2, <2>1
  <2>3. \A p \in 1..Len(r.lines) : r.lines[p] = (F \o G)[p]
    BY <1>1, <2>2 DEF Sent
  <2>4. Len(r.lines) <= Len(F \o G)
    BY <1>1, <1>2, <2>1
  <2> QED
    BY <2>3, <2>4 DEF Sent
<1>4. ASSUME Waiting(r, F) PROVE Waiting(e, F \o G)
  <2> DEFINE n == Len(r.lines)
             m == Len(r.channel)
  <2>1. Len(F) = n + m /\ Len(e.out) = Len(G)
    BY <1>1, <1>2, <1>4 DEF Waiting, CleanedTo
  <2>2. Len(F \o G) = Len(e.lines) + Len(e.channel) + Len(e.out)
    BY <1>1, <2>1
  <2>5. n \in Nat /\ m \in Nat /\ Len(F) \in Nat /\ Len(G) \in Nat
    BY <1>1, <1>2
  <2>3. \A p \in 1..m : Cleaned(e.path, e.channel[p]) = (F \o G)[n + p]
    <3>1. ASSUME NEW p \in 1..m PROVE n + p \in 1..(Len(F) + Len(G)) /\ n + p <= Len(F)
      <4> HIDE DEF n, m
      <4> QED
        BY <2>1, <2>5
    <3> QED
      BY <1>1, <1>4, <3>1 DEF Waiting
  <2>4. \A p \in 1..Len(G) : Cleaned(e.path, e.out[p]) = (F \o G)[n + m + p]
    <3>1. ASSUME NEW p \in 1..Len(G) PROVE Cleaned(e.path, e.out[p]) = (F \o G)[n + m + p]
      <4>1. PICK q : q = n + m + p
        OBVIOUS
      <4>2. (F \o G)[q] = G[p]
        <5> HIDE DEF n, m
        <5>1. q \in 1..(Len(F) + Len(G)) /\ ~(q <= Len(F)) /\ q - Len(F) = p
          BY <2>1, <2>5, <4>1
        <5> QED
          BY <1>1, <5>1
      <4>3. Cleaned(e.path, e.out[p]) = G[p]
        BY <2>1 DEF CleanedTo
      <4> QED
        BY <4>1, <4>2, <4>3
    <3> QED
      BY <3>1
  <2> QED
    BY <2>1, <2>2, <2>3, <2>4 DEF Waiting
<1> QED
  BY <1>3, <1>4

(* A producer that reads on: where it is in the body.                       *)
LEMMA Reading ==
  ASSUME NEW at, at # "idle", NEW r, StreamOk(at, r), r.producer = "reading", r.out = << >>
  PROVE  /\ Kept(at, r) /\ r \in Stages /\ ~r.done /\ WellFormed(r.path, r.body)
         /\ r.body \in Seq(Items) /\ Whole(r.body)
         /\ \E k \in 0..Len(r.body) :
              /\ Progress(at, r, k)
              /\ \A i \in 1..k : r.body[i].sep # "cut" /\ r.body[i].event # "stop"
              /\ r.pos \in SymbolsThrough(r.body, k)..Len(Bytes(r.body))
              /\ r.buffer = Received(r.body, k, r.pos)
              /\ IsTranslated(r.path) => (r.role <=> Seen(r.body, k, "start"))
                                         /\ r.tokens = CountAfter(r.body, k)
<1>1. Kept(at, r)
  BY DEF StreamOk
<1>2. r \in Stages /\ ~r.done /\ r.pos <= Len(Bytes(r.body)) /\ WellFormed(r.path, r.body)
  BY <1>1 DEF Kept
<1>3. r.body \in Seq(Items) /\ Whole(r.body)
  BY <1>2, WholeBody
<1>4. PICK k \in 0..Len(r.body) : Progress(at, r, k)
  BY DEF StreamOk
<1>5. /\ SymbolsThrough(r.body, k) <= r.pos /\ r.buffer = Received(r.body, k, r.pos)
      /\ \A i \in 1..k : r.body[i].sep # "cut" /\ r.body[i].event # "stop"
      /\ IsTranslated(r.path) => (r.role <=> Seen(r.body, k, "start"))
                                 /\ r.tokens = CountAfter(r.body, k)
  BY <1>2, <1>4 DEF Progress, Taken
<1>6. r.pos \in SymbolsThrough(r.body, k)..Len(Bytes(r.body))
  <2>1. SymbolsThrough(r.body, k) \in Nat /\ r.pos \in Nat /\ Len(Bytes(r.body)) \in Nat
    BY <1>2, <1>3, Offsets, StageTypes
  <2> QED
    BY <1>2, <1>5, <2>1
<1> QED
  BY <1>1, <1>2, <1>3, <1>4, <1>5, <1>6

(* drain_sse_events: the first complete event becomes its lines.            *)
LEMMA TakeEventOk ==
  ASSUME NEW at, at # "idle", NEW r, StreamOk(at, r), r.producer = "reading", r.out = << >>,
         NEW d \in FirstOf(Delimiters(r.buffer)),
         NEW taken, taken = [r EXCEPT !.buffer = Behind(r.buffer, d)],
         NEW e, e = IF Trim(Before(r.buffer, d)) = << >> THEN taken
                    ELSE Emit(taken, Before(r.buffer, d))
  PROVE  StreamOk(at, e)
<1>1. /\ Kept(at, r) /\ r \in Stages /\ ~r.done /\ WellFormed(r.path, r.body)
      /\ r.body \in Seq(Items) /\ Whole(r.body)
  BY Reading
<1>2. PICK k \in 0..Len(r.body) :
        /\ Progress(at, r, k)
        /\ \A i \in 1..k : r.body[i].sep # "cut" /\ r.body[i].event # "stop"
        /\ r.pos \in SymbolsThrough(r.body, k)..Len(Bytes(r.body))
        /\ r.buffer = Received(r.body, k, r.pos)
        /\ IsTranslated(r.path) => (r.role <=> Seen(r.body, k, "start"))
                                   /\ r.tokens = CountAfter(r.body, k)
  BY Reading
<1> DEFINE item == r.body[k + 1]
           event == item.event
<1>3. k < Len(r.body) /\ item.sep # "cut" /\ SymbolsThrough(r.body, k + 1) <= r.pos
  <2>1. Delimiters(r.buffer) # {}
    BY DEF FirstOf
  <2>2. ~(k < Len(r.body) => item.sep = "cut" \/ ~(SymbolsThrough(r.body, k + 1) <= r.pos))
    BY <1>1, <1>2, <2>1, NothingEnds
  <2> QED
    BY <2>2
<1>4. d = <<2, item.sep>> /\ Before(r.buffer, d) = <<event>>
      /\ Behind(r.buffer, d) = Received(r.body, k + 1, r.pos)
  <2>1. /\ FirstOf(Delimiters(Received(r.body, k, r.pos))) = {<<2, item.sep>>}
        /\ Before(Received(r.body, k, r.pos), <<2, item.sep>>) = <<event>>
        /\ Behind(Received(r.body, k, r.pos), <<2, item.sep>>) = Received(r.body, k + 1, r.pos)
    BY <1>1, <1>2, <1>3, NextEvent
  <2>2. d = <<2, item.sep>>
    BY <1>2, <2>1
  <2> QED
    BY <1>2, <2>1, <2>2
<1>5. /\ k \in Nat /\ k + 1 \in 0..Len(r.body) /\ k + 1 \in 1..Len(r.body) /\ event \in Events
      /\ Len(r.body) \in Nat
  <2>1. k + 1 \in 1..Len(r.body) /\ Len(r.body) \in Nat /\ k \in Nat
    BY <1>1, <1>3, WireType
  <2>2. r.body[k + 1] \in Items
    BY <1>1, <2>1, WireType
  <2> QED
    BY <2>1, <2>2, SymbolsShape
<1>6. Received(r.body, k + 1, r.pos) \in Seq(WireSymbols)
  <2>1. SymbolsThrough(r.body, k + 1) \in Nat /\ r.pos \in Nat /\ Len(Bytes(r.body)) \in Nat
        /\ r.pos <= Len(Bytes(r.body))
    BY <1>1, <1>5, Offsets, StageTypes DEF Kept
  <2>2. r.pos \in SymbolsThrough(r.body, k + 1)..Len(Bytes(r.body))
    BY <1>3, <2>1
  <2> QED
    BY <1>1, <1>5, <2>2, ReceivedShape
<1> DEFINE buffer == Received(r.body, k + 1, r.pos)
<1>7. taken = [r EXCEPT !.buffer = buffer]
  BY <1>4
<1>8. e = Emit(taken, <<event>>)
  <2>1. Trim(<<event>>) # << >>
    <3>1. Trim(<<event>>) = <<event>>
      BY <1>5, TrimEvent
    <3>2. <<event>> # << >>
      <4> HIDE DEF event
      <4> QED
        OBVIOUS
    <3> QED
      BY <3>1, <3>2
  <2> QED
    BY <1>4, <2>1
<1> HIDE DEF item, event, buffer
<1>9. /\ taken \in Stages /\ taken.buffer = buffer
      /\ SameButEmitted([taken EXCEPT !.buffer = r.buffer], r)
      /\ taken.path = r.path /\ taken.body = r.body /\ taken.pos = r.pos
      /\ taken.role = r.role /\ taken.done = r.done /\ taken.tokens = r.tokens
      /\ taken.out = r.out /\ taken.producer = r.producer /\ taken.channel = r.channel
      /\ taken.lines = r.lines /\ taken.sawDone = r.sawDone /\ taken.usage = r.usage
  BY <1>1, <1>6, <1>7 DEF Stages, SameButEmitted, buffer
<1>10. /\ e \in Stages /\ SameButEmitted(taken, e) /\ (e.done <=> event = "stop")
       /\ IsTranslated(r.path) => (e.role <=> Seen(r.body, k + 1, "start"))
                                  /\ e.tokens = CountAfter(r.body, k + 1)
       /\ CleanedTo(r.path, e.out, Part(r.path, r.body, k + 1))
       /\ e.done => e.out # << >>
  <2>1. /\ WellFormed(taken.path, taken.body) /\ taken.out = << >> /\ ~taken.done
        /\ k \in 0..Len(taken.body) /\ k < Len(taken.body)
        /\ IsTranslated(taken.path) => (taken.role <=> Seen(taken.body, k, "start"))
                                       /\ taken.tokens = CountAfter(taken.body, k)
    BY <1>1, <1>2, <1>3, <1>9
  <2>2. taken.body[k + 1].event = event
    BY <1>9 DEF event, item
  <2>3. LET w == taken.body[k + 1].event
            x == Emit(taken, <<w>>)
        IN  /\ x \in Stages /\ SameButEmitted(taken, x)
            /\ x.done <=> w = "stop"
            /\ IsTranslated(taken.path) => (x.role <=> Seen(taken.body, k + 1, "start"))
                                           /\ x.tokens = CountAfter(taken.body, k + 1)
            /\ CleanedTo(taken.path, x.out, Part(taken.path, taken.body, k + 1))
            /\ x.done => x.out # << >>
    BY <1>9, <2>1, EmitIs
  <2> QED
    BY <1>8, <1>9, <2>2, <2>3
<1>11. /\ e.path = r.path /\ e.body = r.body /\ e.pos = r.pos /\ e.buffer = buffer
       /\ e.producer = r.producer /\ e.channel = r.channel /\ e.lines = r.lines
       /\ e.sawDone = r.sawDone /\ e.usage = r.usage
  BY <1>9, <1>10 DEF SameButEmitted
<1>12. Kept(at, e)
  BY <1>1, <1>10, <1>11 DEF Kept
<1>13. Taken(e, k + 1)
  <2>1. ASSUME NEW i \in 1..(k + 1), e.done => i # k + 1
        PROVE  e.body[i].sep # "cut" /\ e.body[i].event # "stop"
    <3>1. CASE i = k + 1
      BY <1>3, <1>10, <1>11, <2>1, <3>1 DEF item, event
    <3>2. CASE i # k + 1
      <4>1. i \in 1..k
        BY <1>5, <3>2
      <4> QED
        BY <1>2, <1>11, <4>1
    <3> QED
      BY <3>1, <3>2
  <2>2. CASE e.done
    <3>1. Ended(e, k + 1)
      BY <1>3, <1>10, <1>11, <2>2 DEF Ended, item, event
    <3>2. k + 1 # 0
      BY <1>5
    <3> QED
      BY <2>1, <2>2, <3>1, <3>2 DEF Taken
  <2>3. CASE ~e.done
    BY <1>3, <1>10, <1>11, <2>1, <2>3 DEF Taken, buffer
  <2> QED
    BY <2>2, <2>3
<1>14. Progress(at, e, k + 1)
  <2> DEFINE F == Emitted(r, k)
             G == Part(r.path, r.body, k + 1)
  <2>1. F \in Seq(Lines) /\ G \in Seq(Lines) /\ Emitted(r, k + 1) = F \o G
    BY <1>1, <1>3, EmittedIs, StageTypes
  <2>2. Emitted(e, k + 1) = Emitted(r, k + 1)
    BY <1>11 DEF Emitted
  <2>3. Sent(r, F) /\ (at # "settled" => Waiting(r, F))
    BY <1>2 DEF Progress
  <2>4. CleanedTo(e.path, e.out, G)
    BY <1>10, <1>11
  <2> HIDE DEF F, G
  <2>5. Sent(e, F \o G) /\ (Waiting(r, F) => Waiting(e, F \o G))
    BY <1>1, <1>11, <2>1, <2>3, <2>4, LinesGrow
  <2> QED
    BY <1>13, <2>1, <2>2, <2>3, <2>5 DEF Progress
<1> QED
  BY <1>5, <1>11, <1>12, <1>14 DEF StreamOk

(* The task returns.                                                        *)
LEMMA StageIsGone ==
  ASSUME NEW r \in Stages, NEW e, e = [r EXCEPT !.producer = "gone"]
  PROVE  /\ e \in Stages /\ e.out = r.out /\ e.done = r.done /\ e.buffer = r.buffer
         /\ e.role = r.role /\ e.tokens = r.tokens
         /\ e.path = r.path /\ e.body = r.body /\ e.pos = r.pos
         /\ e.producer = "gone" /\ e.channel = r.channel /\ e.lines = r.lines
         /\ e.sawDone = r.sawDone /\ e.usage = r.usage
BY DEF Stages

(* The body breaks off: what is left is one event, which OpenAI's task sends.*)
LEMMA RestOk ==
  ASSUME NEW at, at # "idle", NEW r, StreamOk(at, r), r.producer = "reading", r.out = << >>,
         Delimiters(r.buffer) = {}, r.path.provider = "openai", Trim(r.buffer) # << >>,
         NEW e, e = [r EXCEPT !.buffer = << >>, !.out = <<Forwarded(r.path, Trim(r.buffer))>>,
                              !.done = TRUE]
  PROVE  StreamOk(at, e)
<1>1. /\ Kept(at, r) /\ r \in Stages /\ ~r.done /\ WellFormed(r.path, r.body)
      /\ r.body \in Seq(Items) /\ Whole(r.body)
  BY Reading
<1>2. PICK k \in 0..Len(r.body) :
        /\ Progress(at, r, k)
        /\ \A i \in 1..k : r.body[i].sep # "cut" /\ r.body[i].event # "stop"
        /\ r.pos \in SymbolsThrough(r.body, k)..Len(Bytes(r.body))
        /\ r.buffer = Received(r.body, k, r.pos)
        /\ IsTranslated(r.path) => (r.role <=> Seen(r.body, k, "start"))
                                   /\ r.tokens = CountAfter(r.body, k)
  BY Reading
<1> DEFINE item == r.body[k + 1]
           event == item.event
           n == Counts(r.path, event)
           line == Line(<<event>>, n)
           G == <<Line(<<Plain(r.path, event)>>, n)>>
<1>3. k < Len(r.body) => item.sep = "cut" \/ ~(SymbolsThrough(r.body, k + 1) <= r.pos)
  <2> SUFFICES ASSUME k < Len(r.body), item.sep # "cut",
                      SymbolsThrough(r.body, k + 1) <= r.pos
               PROVE  FALSE
    OBVIOUS
  <2>1. FirstOf(Delimiters(Received(r.body, k, r.pos))) = {<<2, item.sep>>}
    BY <1>1, <1>2, NextEvent
  <2>2. FirstOf({}) = {}
    BY DEF FirstOf
  <2> QED
    BY <1>2, <2>1, <2>2
<1>4. /\ r.pos # SymbolsThrough(r.body, k) /\ k < Len(r.body)
      /\ Trim(r.buffer) = <<event>>
  <2>1. /\ r.pos = SymbolsThrough(r.body, k) => Trim(r.buffer) = << >>
        /\ r.pos # SymbolsThrough(r.body, k) => k < Len(r.body) /\ Trim(r.buffer) = <<event>>
    BY <1>1, <1>2, <1>3, NothingEnds
  <2> QED
    BY <2>1
<1>5. /\ k \in Nat /\ k + 1 \in 0..Len(r.body) /\ k + 1 # 0 /\ k + 1 - 1 = k
      /\ event \in Events /\ event \in Words /\ r.path \in Paths
      /\ Len(r.body) \in Nat
  <2>1. k + 1 \in 1..Len(r.body) /\ Len(r.body) \in Nat /\ k \in Nat
    BY <1>1, <1>4, WireType
  <2>2. r.body[k + 1] \in Items
    BY <1>1, <2>1, WireType
  <2>3. event \in Events
    BY <2>2, SymbolsShape
  <2> HIDE DEF event, item
  <2> QED
    BY <1>1, <2>1, <2>3, StageTypes DEF Words
<1>6. SymbolsThrough(r.body, k) < r.pos
  <2>1. SymbolsThrough(r.body, k) \in Nat /\ r.pos \in Nat
    BY <1>1, <1>2, ReceivedShape
  <2> QED
    BY <1>2, <1>4, <2>1
<1>7. Forwarded(r.path, Trim(r.buffer)) = line
  <2>1. Trim(<<event>>) = <<event>> /\ Last(<<event>>) = event
    <3> HIDE DEF event
    <3> QED
      BY <1>5, TrimEvent, OneWord
  <2> QED
    BY <1>4, <2>1 DEF Forwarded
<1>8. CleanedTo(r.path, <<line>>, G) /\ <<line>> \in Seq(Lines) /\ <<line>> # << >>
  <2>1. n \in {None, 0, 1, 3}
    BY <1>5, CountsIs
  <2> HIDE DEF n, event
  <2>2. CleanedTo(r.path, <<line>>, G) /\ <<line>> \in Seq(Lines)
    BY <1>5, <2>1, CleanedOne
  <2> QED
    BY <2>2
<1>9. G = Part(r.path, r.body, k + 1)
  <2>1. ~IsTranslated(r.path)
    BY  DEF IsTranslated
  <2> QED
    BY <2>1 DEF Part
<1> HIDE DEF item, event, n, line, G
<1>10. e = [r EXCEPT !.buffer = << >>, !.out = <<line>>, !.done = TRUE]
  BY <1>7
<1>11. /\ e \in Stages /\ e.out = <<line>> /\ e.done
      /\ e.path = r.path /\ e.body = r.body /\ e.pos = r.pos
      /\ e.producer = r.producer /\ e.channel = r.channel /\ e.lines = r.lines
      /\ e.sawDone = r.sawDone /\ e.usage = r.usage
  <2>1. << >> \in Seq(WireSymbols)
    OBVIOUS
  <2>2. e \in Stages
    BY <1>1, <1>8, <1>10, <2>1 DEF Stages
  <2> QED
    BY <1>1, <1>10, <2>2 DEF Stages
<1>12. Kept(at, e)
  BY <1>1, <1>8, <1>11 DEF Kept
<1>13. Taken(e, k + 1)
  <2>1. \A i \in 1..(k + 1) : i # k + 1 => i \in 1..k
    BY <1>5
  <2>2. Broke(e, k + 1)
    BY <1>3, <1>4, <1>5, <1>6, <1>11 DEF Broke, item
  <2> QED
    BY <1>2, <1>5, <1>11, <2>1, <2>2 DEF Taken
<1>14. Progress(at, e, k + 1)
  <2> DEFINE F == Emitted(r, k)
  <2>1. F \in Seq(Lines) /\ G \in Seq(Lines) /\ Emitted(r, k + 1) = F \o G
    BY <1>1, <1>4, <1>9, EmittedIs, StageTypes
  <2>2. Emitted(e, k + 1) = Emitted(r, k + 1)
    BY <1>11 DEF Emitted
  <2>3. Sent(r, F) /\ (at # "settled" => Waiting(r, F))
    BY <1>2 DEF Progress
  <2>4. CleanedTo(e.path, e.out, G)
    BY <1>8, <1>11
  <2> HIDE DEF F
  <2>5. Sent(e, F \o G) /\ (Waiting(r, F) => Waiting(e, F \o G))
    BY <1>1, <1>11, <2>1, <2>3, <2>4, LinesGrow
  <2> QED
    BY <1>13, <2>1, <2>2, <2>3, <2>5 DEF Progress
<1> QED
  BY <1>5, <1>11, <1>12, <1>14 DEF StreamOk

(* A task that ends leaves everything else as it is, and so do the lines    *)
(* that its receiver is no longer there to take.                            *)
LEMMA GoneOk ==
  ASSUME NEW at, at # "idle", NEW r, StreamOk(at, r),
         NEW e, e = [r EXCEPT !.producer = "gone"]
  PROVE  StreamOk(at, e)
<1>1. Kept(at, r) /\ r \in Stages
  BY DEF StreamOk, Kept
<1>2. PICK k \in 0..Len(r.body) : Progress(at, r, k)
  BY DEF StreamOk
<1>3. /\ e \in Stages /\ e.out = r.out /\ e.done = r.done /\ e.buffer = r.buffer
      /\ e.role = r.role /\ e.tokens = r.tokens
      /\ e.path = r.path /\ e.body = r.body /\ e.pos = r.pos
      /\ e.producer = "gone" /\ e.channel = r.channel /\ e.lines = r.lines
      /\ e.sawDone = r.sawDone /\ e.usage = r.usage
  BY <1>1, StageIsGone
<1>4. Kept(at, e)
  BY <1>1, <1>3 DEF Kept
<1>5. Taken(e, k) /\ Emitted(e, k) = Emitted(r, k)
  BY <1>2, <1>3, SamePlace DEF Progress
<1>6. Progress(at, e, k)
  BY <1>2, <1>3, <1>5 DEF Progress, Sent, Waiting
<1> QED
  BY <1>3, <1>4, <1>6 DEF StreamOk

(* One element leaves a sequence, and one joins it.                         *)
LEMMA HeadAndTail ==
  ASSUME NEW S, NEW s \in Seq(S), s # << >>
  PROVE  /\ Head(s) = s[1] /\ Head(s) \in S /\ Tail(s) \in Seq(S)
         /\ Len(s) \in Nat /\ Len(s) >= 1 /\ Len(Tail(s)) = Len(s) - 1
         /\ \A p \in 1..(Len(s) - 1) : Tail(s)[p] = s[p + 1]
         /\ Tail(s) = << >> <=> Len(s) = 1
<1>1. Len(s) \in Nat /\ Len(s) # 0
  BY LenProperties, EmptySeq
<1>2. /\ Head(s) = s[1] /\ Head(s) \in S /\ Tail(s) \in Seq(S)
      /\ Len(Tail(s)) = Len(s) - 1
      /\ \A p \in 1..(Len(s) - 1) : Tail(s)[p] = s[p + 1]
  BY <1>1
<1>3. Tail(s) = << >> <=> Len(Tail(s)) = 0
  BY <1>2, EmptySeq
<1> QED
  BY <1>1, <1>2, <1>3

LEMMA AppendOne ==
  ASSUME NEW S, NEW s \in Seq(S), NEW x \in S
  PROVE  /\ Append(s, x) \in Seq(S) /\ Len(Append(s, x)) = Len(s) + 1 /\ Len(s) \in Nat
         /\ \A p \in 1..Len(s) : Append(s, x)[p] = s[p]
         /\ Append(s, x)[Len(s) + 1] = x
OBVIOUS

(* tx.send: a line that goes into the channel keeps its place.              *)
LEMMA LineIntoChannel ==
  ASSUME NEW r \in Stages, NEW e, NEW F, r.out # << >>, Waiting(r, F),
         e.path = r.path, e.lines = r.lines,
         e.channel = Append(r.channel, Head(r.out)), e.out = Tail(r.out)
  PROVE  Waiting(e, F)
<1> DEFINE n == Len(r.lines)
           m == Len(r.channel)
           l == Len(r.out)
<1>1. /\ n \in Nat /\ m \in Nat /\ l \in Nat
      /\ r.out \in Seq(Lines) /\ r.channel \in Seq(Lines)
  BY StageTypes
<1>2. /\ Head(r.out) = r.out[1] /\ Head(r.out) \in Lines /\ l >= 1 /\ Len(e.out) = l - 1
      /\ \A p \in 1..(l - 1) : e.out[p] = r.out[p + 1]
  BY <1>1, HeadAndTail
<1>3. /\ Len(e.channel) = m + 1
      /\ \A p \in 1..m : e.channel[p] = r.channel[p]
      /\ e.channel[m + 1] = r.out[1]
  BY <1>1, <1>2, AppendOne
<1>4. /\ Len(F) = n + m + l
      /\ \A p \in 1..m : Cleaned(e.path, r.channel[p]) = F[n + p]
      /\ \A p \in 1..l : Cleaned(e.path, r.out[p]) = F[n + m + p]
  BY DEF Waiting
<1> HIDE DEF n, m, l
<1>5. Len(F) = n + Len(e.channel) + Len(e.out)
  <2>1. PICK a, b : a = Len(e.channel) /\ b = Len(e.out)
    OBVIOUS
  <2>2. a = m + 1 /\ b = l - 1
    BY <1>2, <1>3, <2>1
  <2>3. n + a + b = n + m + l
    BY <1>1, <2>2
  <2> QED
    BY <1>4, <2>1, <2>3
<1>6. ASSUME NEW p \in 1..(m + 1) PROVE Cleaned(e.path, e.channel[p]) = F[n + p]
  <2>1. CASE p \in 1..m
    BY <1>3, <1>4, <2>1
  <2>2. CASE p = m + 1
    <3>1. 1 \in 1..l /\ n + (m + 1) = n + m + 1
      BY <1>1, <1>2
    <3>2. Cleaned(e.path, r.out[1]) = F[n + m + 1]
      BY <1>4, <3>1
    <3>3. e.channel[p] = r.out[1]
      BY <1>3, <2>2
    <3>4. n + p = n + m + 1
      BY <2>2, <3>1
    <3> QED
      BY <3>2, <3>3, <3>4
  <2>3. m \in Nat
    BY <1>1
  <2>4. p \in 1..m \/ p = m + 1
    BY <2>3
  <2> QED
    BY <2>1, <2>2, <2>4
<1>7. ASSUME NEW p \in 1..(l - 1) PROVE Cleaned(e.path, e.out[p]) = F[n + (m + 1) + p]
  <2>1. p + 1 \in 1..l /\ n + m + (p + 1) = n + (m + 1) + p
    BY <1>1
  <2>2. Cleaned(e.path, r.out[p + 1]) = F[n + m + (p + 1)]
    BY <1>4, <2>1
  <2> QED
    BY <1>2, <2>1, <2>2
<1> QED
  BY <1>2, <1>3, <1>5, <1>6, <1>7 DEF Waiting, n

(* What a line's way into the channel changes.                              *)
SendFields(r, e, channel, out, producer) ==
  /\ e \in Stages /\ e.out = out /\ e.channel = channel /\ e.producer = producer
  /\ e.done = r.done /\ e.buffer = r.buffer /\ e.role = r.role /\ e.tokens = r.tokens
  /\ e.path = r.path /\ e.body = r.body /\ e.pos = r.pos /\ e.lines = r.lines
  /\ e.sawDone = r.sawDone /\ e.usage = r.usage

LEMMA SendStage ==
  ASSUME NEW r \in Stages, NEW channel \in Seq(Lines), NEW out \in Seq(Lines),
         NEW producer \in {"reading", "gone"}
  PROVE  SendFields(r, [r EXCEPT !.channel = channel, !.out = out, !.producer = producer],
                    channel, out, producer)
BY DEF Stages, SendFields

(* tx.send, while the receiver is there.                                    *)
LEMMA SentOk ==
  ASSUME NEW at, at # "idle", NEW r, StreamOk(at, r), r.out # << >>,
         NEW e, e \in Stages, e.out = Tail(r.out), e.channel = Append(r.channel, Head(r.out)),
         r.done /\ Len(r.out) = 1 => e.producer = "gone",
         e.done = r.done, e.buffer = r.buffer, e.role = r.role, e.tokens = r.tokens,
         e.path = r.path, e.body = r.body, e.pos = r.pos, e.lines = r.lines,
         e.sawDone = r.sawDone, e.usage = r.usage
  PROVE  StreamOk(at, e)
<1>1. Kept(at, r) /\ r \in Stages
  BY DEF StreamOk, Kept
<1>2. PICK k \in 0..Len(r.body) : Progress(at, r, k)
  BY DEF StreamOk
<1>3. Tail(r.out) = << >> <=> Len(r.out) = 1
  BY <1>1, HeadAndTail, StageTypes
<1>4. Kept(at, e)
  BY <1>1, <1>3 DEF Kept
<1>5. Taken(e, k) /\ Emitted(e, k) = Emitted(r, k)
  BY <1>2, SamePlace DEF Progress
<1>6. Sent(e, Emitted(e, k))
  BY <1>2, <1>5 DEF Progress, Sent
<1>7. ASSUME at # "settled" PROVE Waiting(e, Emitted(e, k))
  <2>1. Waiting(r, Emitted(r, k))
    BY <1>2, <1>7 DEF Progress
  <2> QED
    BY <1>1, <1>5, <2>1, LineIntoChannel
<1> QED
  BY <1>4, <1>5, <1>6, <1>7 DEF StreamOk, Progress

LEMMA SendOk ==
  ASSUME NEW at, at # "idle", NEW r, StreamOk(at, r), r.out # << >>
  PROVE  StreamOk(at, [r EXCEPT !.channel = Append(@, Head(r.out)), !.out = Tail(@),
                                !.producer = IF r.done /\ Len(r.out) = 1 THEN "gone" ELSE @])
<1> DEFINE channel == Append(r.channel, Head(r.out))
           out == Tail(r.out)
           producer == IF r.done /\ Len(r.out) = 1 THEN "gone" ELSE r.producer
           e == [r EXCEPT !.channel = channel, !.out = out, !.producer = producer]
<1>1. r \in Stages
  BY DEF StreamOk, Kept
<1>2. out \in Seq(Lines) /\ Head(r.out) \in Lines
  BY <1>1, HeadAndTail, StageTypes
<1>3. channel \in Seq(Lines) /\ producer \in {"reading", "gone"}
  <2>1. r.producer \in {"reading", "gone"}
    BY <1>1 DEF Stages
  <2> QED
    BY <1>1, <1>2, <2>1, AppendOne, StageTypes
<1>4. r.done /\ Len(r.out) = 1 => producer = "gone"
  OBVIOUS
<1> HIDE DEF channel, out, producer
<1>5. SendFields(r, e, channel, out, producer)
  BY <1>1, <1>2, <1>3, SendStage, Zenon
<1> HIDE DEF e
<1>6. StreamOk(at, e)
  BY <1>4, <1>5, SentOk DEF SendFields, channel, out
<1> QED
  BY <1>6 DEF e, channel, out, producer

(* Without a receiver a line is lost; only a stream that is settled has     *)
(* none.                                                                    *)
LEMMA LostOk ==
  ASSUME NEW r, StreamOk("settled", r),
         NEW e, e = [r EXCEPT !.producer = "gone", !.out = << >>]
  PROVE  StreamOk("settled", e)
<1>1. Kept("settled", r) /\ r \in Stages
  BY DEF StreamOk, Kept
<1>2. PICK k \in 0..Len(r.body) : Progress("settled", r, k)
  BY DEF StreamOk
<1>3. << >> \in Seq(Lines)
  OBVIOUS
<1>4. e \in Stages
  BY <1>1, <1>3 DEF Stages
<1>5. /\ e.out = << >> /\ e.done = r.done /\ e.buffer = r.buffer
      /\ e.role = r.role /\ e.tokens = r.tokens
      /\ e.path = r.path /\ e.body = r.body /\ e.pos = r.pos
      /\ e.producer = "gone" /\ e.channel = r.channel /\ e.lines = r.lines
      /\ e.sawDone = r.sawDone /\ e.usage = r.usage
  BY <1>1 DEF Stages
<1>6. Kept("settled", e)
  BY <1>1, <1>4, <1>5 DEF Kept
<1>7. Taken(e, k) /\ Emitted(e, k) = Emitted(r, k)
  BY <1>2, <1>5, SamePlace DEF Progress
<1>8. Progress("settled", e, k)
  BY <1>2, <1>5, <1>7 DEF Progress, Sent
<1> QED
  BY <1>5, <1>6, <1>8 DEF StreamOk
--------------------------------------------------------------------------------
(* The usage that lines report, and the steps of the proxy's task           *)

(* A set of places has a first and a last.                                  *)
LEMMA LeastOf ==
  ASSUME NEW n \in Nat, NEW T, T \subseteq 1..n, T # {}
  PROVE  Min(T) \in T /\ \A y \in T : Min(T) <= y
<1>1. T \subseteq Nat
  OBVIOUS
<1>2. \E x \in T : \A y \in T : x <= y
  BY <1>1, LeastNat
<1> QED
  BY <1>2 DEF Min

LEMMA GreatestOf ==
  ASSUME NEW n \in Nat, NEW T, T \subseteq 1..n, T # {}
  PROVE  Max(T) \in T /\ \A y \in T : y <= Max(T)
<1> DEFINE D == {d \in 0..n : n - d \in T}
<1>1. PICK x \in T : TRUE
  OBVIOUS
<1>2. n - x \in D
  <2>1. x \in 1..n /\ n - x \in 0..n /\ n - (n - x) = x
    BY <1>1
  <2> QED
    BY <1>1, <2>1
<1>3. PICK d \in D : \A y \in D : d <= y
  <2>1. D \subseteq Nat
    OBVIOUS
  <2> HIDE DEF D
  <2>2. D # {}
    BY <1>2
  <2>3. \E d \in D : \A y \in D : d <= y
    BY <2>1, <2>2, LeastNat, Zenon
  <2> QED
    BY <2>3
<1>4. \A y \in T : y <= n - d
  <2> SUFFICES ASSUME NEW y \in T PROVE y <= n - d
    OBVIOUS
  <2>1. y \in 1..n /\ n - y \in 0..n /\ n - (n - y) = y
    OBVIOUS
  <2>2. n - y \in D
    BY <2>1
  <2>3. d <= n - y
    <3> HIDE DEF D
    <3> QED
      BY <1>3, <2>2
  <2>4. d \in Nat
    BY <1>3
  <2> QED
    BY <2>1, <2>3, <2>4
<1>5. n - d \in T /\ \A y \in T : n - d >= y
  <2>1. d \in Nat /\ n - d \in T
    BY <1>3
  <2>2. \A y \in T : y \in Nat
    OBVIOUS
  <2> QED
    BY <1>4, <2>1, <2>2
<1>6. \E z \in T : \A y \in T : z >= y
  BY <1>5
<1>7. Max(T) \in T /\ \A y \in T : Max(T) >= y
  BY <1>6 DEF Max
<1>8. T \subseteq Nat
  OBVIOUS
<1> QED
  BY <1>7, <1>8

(* Native streams have a line for every event.                              *)
LEMMA EmittedSingles ==
  ASSUME NEW r, r.path \in Paths, r.body \in Seq(Items), ~IsTranslated(r.path),
         NEW k \in 0..Len(r.body)
  PROVE  /\ Len(Emitted(r, k)) = k
         /\ \A p \in 1..k : Emitted(r, k)[p] = Line(<<Plain(r.path, r.body[p].event)>>,
                                                    Counts(r.path, r.body[p].event))
<1> DEFINE parts == [i \in DOMAIN r.body |-> Part(r.path, r.body, i)]
           line(i) == Line(<<Plain(r.path, r.body[i].event)>>, Counts(r.path, r.body[i].event))
           f == [i \in 1..Len(r.body) |-> line(i)]
<1>1. DOMAIN r.body = 1..Len(r.body) /\ Len(r.body) \in Nat
  BY WireType
<1>2. \A i \in 1..Len(r.body) : Part(r.path, r.body, i) = <<line(i)>>
  BY DEF Part
<1>3. \A i \in 1..Len(r.body) : line(i) \in Lines /\ <<line(i)>> \in Seq(Lines)
  <2> SUFFICES ASSUME NEW i \in 1..Len(r.body) PROVE line(i) \in Lines /\ <<line(i)>> \in Seq(Lines)
    OBVIOUS
  <2> DEFINE e == r.body[i].event
             n == Counts(r.path, e)
             w == Plain(r.path, e)
  <2>1. r.body[i] \in Items
    BY WireType
  <2>2. e \in Words
    BY <2>1, SymbolsShape DEF Words
  <2>3. w \in Words
    <3> HIDE DEF e
    <3> QED
      BY <2>2, PlainIs
  <2>4. n \in {None, 0, 1, 3}
    BY CountsIs
  <2>5. Line(<<w>>, n) \in Lines
    <3> HIDE DEF w, n
    <3> QED
      BY <2>3, <2>4, LineTyped
  <2> HIDE DEF line
  <2>6. line(i) \in Lines
    BY <2>5 DEF line
  <2> QED
    BY <2>6, OneInSeq
<1>4. f \in Seq(Lines) /\ Len(f) = Len(r.body) /\ \A i \in 1..Len(r.body) : f[i] = line(i)
  <2> HIDE DEF line
  <2> QED
    BY <1>1, <1>3
<1>5. /\ parts \in Seq(Seq(Lines)) /\ Len(parts) = Len(r.body)
      /\ \A i \in 1..Len(r.body) : parts[i] = <<f[i]>>
  <2>1. parts = [i \in 1..Len(r.body) |-> <<line(i)>>]
    BY <1>1, <1>2
  <2> DEFINE one(i) == <<line(i)>>
  <2>2. \A i \in 1..Len(r.body) : one(i) \in Seq(Lines)
    BY <1>3
  <2>3. parts = [i \in 1..Len(r.body) |-> one(i)]
    BY <2>1
  <2> HIDE DEF parts, line, f, one
  <2>4. parts \in Seq(Seq(Lines)) /\ Len(parts) = Len(r.body)
        /\ \A i \in 1..Len(r.body) : parts[i] = one(i)
    BY <1>1, <2>2, <2>3
  <2>5. \A i \in 1..Len(r.body) : parts[i] = <<line(i)>>
    BY <2>4 DEF one
  <2> QED
    BY <1>4, <2>4, <2>5
<1>6. Emitted(r, k) = FlatTo(parts, k)
  BY DEF Emitted
<1> HIDE DEF parts, f, line
<1>7. FlatTo(parts, k) = SubSeq(f, 1, k)
  <2>1. k \in 0..Len(f) /\ \A i \in 1..k : parts[i] = <<f[i]>>
    BY <1>1, <1>4, <1>5
  <2> QED
    BY <1>4, <1>5, <2>1, FlattenSingles
<1>8. Len(SubSeq(f, 1, k)) = k /\ \A p \in 1..k : SubSeq(f, 1, k)[p] = f[p]
  BY <1>1, <1>4
<1>9. \A p \in 1..k : Emitted(r, k)[p] = line(p)
  BY <1>1, <1>4, <1>6, <1>7, <1>8
<1> QED
  BY <1>6, <1>7, <1>8, <1>9 DEF line

(* The places of the lines that count.                                      *)
LEMMA CountedIn ==
  ASSUME NEW lines \in Seq(Lines)
  PROVE  /\ Counted(lines) \subseteq 1..Len(lines) /\ Len(lines) \in Nat
         /\ \A i \in Counted(lines) : lines[i].tokens \in {0, 1, 3}
<1>1. /\ Len(lines) \in Nat /\ DOMAIN lines = 1..Len(lines)
      /\ \A i \in 1..Len(lines) : lines[i] \in Lines
  BY LenProperties, ElementOfSeq
<1>2. Counted(lines) = {i \in 1..Len(lines) : lines[i].tokens # None}
  BY <1>1 DEF Counted
<1>3. \A i \in 1..Len(lines) : lines[i].tokens \in {None, 0, 1, 3}
  BY <1>1 DEF Lines
<1> QED
  BY <1>1, <1>2, <1>3

(* What the lines report is one of their counts, or nothing.                *)
LEMMA UsageTyped ==
  ASSUME NEW path \in Paths, NEW lines \in Seq(Lines),
         path.ingress # "openai" /\ Shape(path) = "anthropic"
           /\ (\E i \in DOMAIN lines : lines[i].text = <<"start">>) => Counted(lines) # {}
  PROVE  Usage(path, lines) \in {None, 0, 1, 3}
<1>1. Counted(lines) # {} => lines[Min(Counted(lines))].tokens \in {0, 1, 3}
                            /\ lines[Max(Counted(lines))].tokens \in {0, 1, 3}
  BY CountedIn, LeastOf, GreatestOf
<1> QED
  BY <1>1 DEF Usage

(* A line that says start counts, so there is a last count after it.        *)
LEMMA UsageOf ==
  ASSUME NEW r \in Stages, NEW k \in 0..Len(r.body), Sent(r, Emitted(r, k))
  PROVE  Usage(r.path, r.lines) \in Int
<1>1. /\ r.path \in Paths /\ r.body \in Seq(Items) /\ r.lines \in Seq(Lines)
      /\ Len(r.lines) \in Nat /\ DOMAIN r.lines = 1..Len(r.lines) /\ Len(r.body) \in Nat
  BY StageTypes, WireType, LenProperties
<1>2. ASSUME r.path.ingress # "openai" /\ Shape(r.path) = "anthropic",
             NEW i \in DOMAIN r.lines, r.lines[i].text = <<"start">>
      PROVE  Counted(r.lines) # {}
  <2> DEFINE event == r.body[i].event
  <2>1. ~IsTranslated(r.path)
    BY <1>2 DEF IsTranslated
  <2>2. /\ Len(Emitted(r, k)) = k
        /\ \A p \in 1..k : Emitted(r, k)[p] = Line(<<Plain(r.path, r.body[p].event)>>,
                                                   Counts(r.path, r.body[p].event))
    BY <1>1, <2>1, EmittedSingles
  <2>3. i \in 1..k /\ i \in 1..Len(r.body)
    BY <1>1, <1>2, <2>2 DEF Sent
  <2>4. r.lines[i] = Line(<<Plain(r.path, event)>>, Counts(r.path, event))
    BY <1>1, <1>2, <2>2, <2>3 DEF Sent
  <2>5. event \in Words
    BY <1>1, <2>3, WireType, SymbolsShape DEF Words
  <2> HIDE DEF event
  <2>6. r.lines[i].text = <<Plain(r.path, event)>> /\ r.lines[i].tokens = Counts(r.path, event)
    BY <2>4 DEF Line
  <2>7. Plain(r.path, event) = "start"
    BY <1>2, <2>6, OneWord
  <2>8. event = "start"
    BY <2>5, <2>7, PlainIs
  <2>9. r.lines[i].tokens = 1
    BY <1>1, <1>2, <2>6, <2>8, CountsIs
  <2>10. r.lines[i].tokens # None
    BY <2>9 DEF None
  <2> QED
    BY <1>2, <2>10 DEF Counted
<1>3. Usage(r.path, r.lines) \in {None, 0, 1, 3}
  BY <1>1, <1>2, UsageTyped
<1> QED
  BY <1>3 DEF None

(* What the settlement of a stream changes.                                 *)
SettleFields(r, e, usage) ==
  /\ e \in Stages /\ e.out = r.out /\ e.channel = << >> /\ e.producer = r.producer
  /\ e.done = r.done /\ e.buffer = r.buffer /\ e.role = r.role /\ e.tokens = r.tokens
  /\ e.path = r.path /\ e.body = r.body /\ e.pos = r.pos /\ e.lines = r.lines
  /\ e.sawDone = r.sawDone /\ e.usage = usage

LEMMA SettleStage ==
  ASSUME NEW r \in Stages, NEW usage \in Int
  PROVE  SettleFields(r, [r EXCEPT !.channel = << >>, !.usage = usage], usage)
<1>1. << >> \in Seq(Lines)
  OBVIOUS
<1> QED
  BY <1>1 DEF Stages, SettleFields

(* A settled stream keeps the lines it sent; the channel is dropped.        *)
LEMMA SettledOk ==
  ASSUME NEW at, at # "idle", NEW r, StreamOk(at, r),
         NEW usage, usage = Usage(r.path, r.lines)
  PROVE  StreamOk("settled", [r EXCEPT !.channel = << >>, !.usage = usage])
<1> DEFINE e == [r EXCEPT !.channel = << >>, !.usage = usage]
<1>1. Kept(at, r) /\ r \in Stages
  BY DEF StreamOk, Kept
<1>2. PICK k \in 0..Len(r.body) : Progress(at, r, k)
  BY DEF StreamOk
<1>3. usage \in Int
  BY <1>1, <1>2, UsageOf DEF Progress
<1>4. SettleFields(r, e, usage)
  BY <1>1, <1>3, SettleStage, Zenon
<1> HIDE DEF e
<1>5. Kept("settled", e)
  BY <1>1, <1>4 DEF Kept, SettleFields
<1>6. Taken(e, k) /\ Emitted(e, k) = Emitted(r, k)
  BY <1>2, <1>4, SamePlace DEF Progress, SettleFields
<1>7. Progress("settled", e, k)
  BY <1>2, <1>4, <1>6 DEF Progress, Sent, SettleFields
<1>8. StreamOk("settled", e)
  BY <1>4, <1>5, <1>7 DEF StreamOk, SettleFields
<1> QED
  BY <1>8 DEF e

(* A line that leaves the channel is the next one that is sent.             *)
LEMMA LineOutOfChannel ==
  ASSUME NEW r \in Stages, NEW e, NEW F \in Seq(Lines), r.channel # << >>,
         Sent(r, F), Waiting(r, F),
         e.path = r.path, e.out = r.out, e.channel = Tail(r.channel),
         e.lines = Append(r.lines, Cleaned(r.path, Head(r.channel)))
  PROVE  /\ Sent(e, F) /\ Waiting(e, F) /\ Cleaned(r.path, Head(r.channel)) \in Lines
         /\ e.lines \in Seq(Lines) /\ e.lines # << >>
         /\ e.lines[Len(e.lines)] = Cleaned(r.path, Head(r.channel))
<1> DEFINE n == Len(r.lines)
           m == Len(r.channel)
           l == Len(r.out)
           x == Cleaned(r.path, Head(r.channel))
<1>1. /\ n \in Nat /\ m \in Nat /\ l \in Nat
      /\ r.lines \in Seq(Lines) /\ r.channel \in Seq(Lines)
  BY StageTypes
<1>2. /\ Head(r.channel) = r.channel[1] /\ m >= 1 /\ Len(e.channel) = m - 1
      /\ \A p \in 1..(m - 1) : e.channel[p] = r.channel[p + 1]
  BY <1>1, HeadAndTail
<1>3. /\ Len(F) = n + m + l
      /\ \A p \in 1..m : Cleaned(e.path, r.channel[p]) = F[n + p]
      /\ \A p \in 1..l : Cleaned(e.path, r.out[p]) = F[n + m + p]
  BY DEF Waiting
<1>4. n + 1 \in 1..Len(F) /\ x = F[n + 1]
  <2>1. 1 \in 1..m /\ n + 1 \in 1..(n + m + l)
    <3>1. n \in Nat /\ m \in Nat /\ l \in Nat /\ m >= 1
      BY <1>1, <1>2
    <3> HIDE DEF n, m, l, x
    <3> QED
      BY <3>1
  <2>2. Cleaned(e.path, r.channel[1]) = F[n + 1]
    BY <1>3, <2>1
  <2>3. n + 1 \in 1..Len(F)
    BY <1>3, <2>1
  <2> QED
    BY <1>2, <2>2, <2>3
<1>5. x \in Lines
  BY <1>4, ElementOfSeq
<1> HIDE DEF x
<1>6. /\ e.lines \in Seq(Lines) /\ Len(e.lines) = n + 1
      /\ \A p \in 1..n : e.lines[p] = r.lines[p]
      /\ e.lines[n + 1] = x
  BY <1>1, <1>5, AppendOne DEF x
<1>7. e.lines # << >>
  <2>1. n + 1 # 0
    BY <1>1
  <2> HIDE DEF n
  <2> QED
    BY <1>6, <2>1, EmptySeq
<1> HIDE DEF n, m, l
<1>8. ASSUME NEW p \in 1..(n + 1) PROVE e.lines[p] = F[p]
  <2>1. CASE p \in 1..n
    <3>1. r.lines[p] = F[p]
      BY <2>1 DEF Sent, n
    <3> QED
      BY <1>6, <2>1, <3>1
  <2>2. CASE p = n + 1
    BY <1>4, <1>6, <2>2
  <2>3. p \in 1..n \/ p = n + 1
    BY <1>1
  <2> QED
    BY <2>1, <2>2, <2>3
<1>9. Sent(e, F)
  <2>1. Len(F) \in Nat
    BY LenProperties
  <2> QED
    BY <1>4, <1>6, <1>8, <2>1 DEF Sent
<1>10. Len(F) = (n + 1) + Len(e.channel) + l
  <2>1. PICK b : b = Len(e.channel)
    OBVIOUS
  <2>2. b = m - 1
    BY <1>2, <2>1
  <2>3. (n + 1) + b + l = n + m + l
    BY <1>1, <2>2
  <2> QED
    BY <1>3, <2>1, <2>3
<1>11. ASSUME NEW p \in 1..(m - 1) PROVE Cleaned(e.path, e.channel[p]) = F[(n + 1) + p]
  <2>1. p + 1 \in 1..m /\ n + (p + 1) = (n + 1) + p
    BY <1>1
  <2>2. Cleaned(e.path, r.channel[p + 1]) = F[n + (p + 1)]
    BY <1>3, <2>1
  <2> QED
    BY <1>2, <2>1, <2>2
<1>12. ASSUME NEW p \in 1..l PROVE Cleaned(e.path, e.out[p]) = F[(n + 1) + (m - 1) + p]
  <2>1. n + m + p = (n + 1) + (m - 1) + p
    BY <1>1
  <2> QED
    BY <1>3, <2>1
<1>13. Waiting(e, F)
  BY <1>2, <1>6, <1>10, <1>11, <1>12 DEF Waiting, l
<1> QED
  BY <1>5, <1>6, <1>7, <1>9, <1>13 DEF x

(* What a line's way to the client changes.                                 *)
ReadFields(r, e, channel, lines, sawDone) ==
  /\ e \in Stages /\ e.out = r.out /\ e.channel = channel /\ e.producer = r.producer
  /\ e.done = r.done /\ e.buffer = r.buffer /\ e.role = r.role /\ e.tokens = r.tokens
  /\ e.path = r.path /\ e.body = r.body /\ e.pos = r.pos /\ e.lines = lines
  /\ e.sawDone = sawDone /\ e.usage = r.usage

LEMMA ReadStage ==
  ASSUME NEW r \in Stages, NEW channel \in Seq(Lines), NEW lines \in Seq(Lines),
         NEW sawDone \in BOOLEAN
  PROVE  LET read == [r EXCEPT !.channel = channel, !.lines = lines, !.sawDone = sawDone]
         IN  /\ ReadFields(r, read, channel, lines, sawDone)
             /\ ReadFields(r, [read EXCEPT !.unread = @ + 1], channel, lines, sawDone)
<1> DEFINE read == [r EXCEPT !.channel = channel, !.lines = lines, !.sawDone = sawDone]
<1>1. ReadFields(r, read, channel, lines, sawDone) /\ read.unread \in Nat
  BY DEF Stages, ReadFields
<1>2. read \in Stages
  BY <1>1 DEF ReadFields
<1> HIDE DEF read
<1>3. read.unread + 1 \in Nat
  BY <1>1
<1>4. ReadFields(read, [read EXCEPT !.unread = @ + 1], read.channel, read.lines, read.sawDone)
  BY <1>2, <1>3 DEF Stages, ReadFields
<1>5. ReadFields(r, [read EXCEPT !.unread = @ + 1], channel, lines, sawDone)
  BY <1>1, <1>4 DEF ReadFields
<1> QED
  BY <1>1, <1>5 DEF read

(* The line is the next of those to be sent.                                *)
LEMMA ReadOk ==
  ASSUME NEW r, StreamOk("relayed", r), r.channel # << >>,
         NEW line, line = Cleaned(r.path, Head(r.channel)),
         NEW e, ReadFields(r, e, Tail(r.channel), Append(r.lines, line), IsTerminal(r.path, line))
  PROVE  StreamOk("relayed", e)
<1>1. Kept("relayed", r) /\ r \in Stages
  BY DEF StreamOk, Kept
<1>2. PICK k \in 0..Len(r.body) : Progress("relayed", r, k)
  BY DEF StreamOk
<1>3. Emitted(r, k) \in Seq(Lines)
  BY <1>1, EmittedIs, StageTypes
<1>4. Taken(e, k) /\ Emitted(e, k) = Emitted(r, k)
  BY <1>2, SamePlace DEF Progress, ReadFields
<1>5. Sent(r, Emitted(r, k)) /\ Waiting(r, Emitted(r, k))
  BY <1>2 DEF Progress
<1>6. /\ Sent(e, Emitted(r, k)) /\ Waiting(e, Emitted(r, k)) /\ e.lines # << >>
      /\ e.lines[Len(e.lines)] = line
  BY <1>1, <1>3, <1>5, LineOutOfChannel DEF ReadFields
<1>7. Kept("relayed", e)
  BY <1>1, <1>6 DEF Kept, ReadFields
<1> QED
  BY <1>4, <1>6, <1>7 DEF StreamOk, Progress, ReadFields

(* What the proxy's task does with a line, up to the settlement.            *)
LEMMA RelayOk ==
  ASSUME NEW r, StreamOk("relayed", r), r.channel # << >>
  PROVE  LET line == Cleaned(r.path, Head(r.channel))
             read == [r EXCEPT !.channel = Tail(@), !.lines = Append(@, line),
                               !.sawDone = IsTerminal(r.path, line)]
             sent == [read EXCEPT !.unread = @ + 1]
         IN  StreamOk("relayed", read) /\ StreamOk("relayed", sent)
<1> DEFINE line == Cleaned(r.path, Head(r.channel))
           channel == Tail(r.channel)
           lines == Append(r.lines, line)
           sawDone == IsTerminal(r.path, line)
           read == [r EXCEPT !.channel = channel, !.lines = lines, !.sawDone = sawDone]
           sent == [read EXCEPT !.unread = @ + 1]
<1>1. r \in Stages /\ Kept("relayed", r)
  BY DEF StreamOk, Kept
<1>2. PICK k \in 0..Len(r.body) : Progress("relayed", r, k)
  BY DEF StreamOk
<1>3. Sent(r, Emitted(r, k)) /\ Waiting(r, Emitted(r, k)) /\ Emitted(r, k) \in Seq(Lines)
  BY <1>1, <1>2, EmittedIs, StageTypes DEF Progress
<1>4. line \in Lines
  <2> DEFINE e == [path |-> r.path, out |-> r.out, channel |-> channel, lines |-> lines]
  <2>1. e.path = r.path /\ e.out = r.out /\ e.channel = channel /\ e.lines = lines
    OBVIOUS
  <2> HIDE DEF e
  <2> QED
    BY <1>1, <1>3, <2>1, LineOutOfChannel
<1>5. channel \in Seq(Lines)
  BY <1>1, HeadAndTail, StageTypes
<1> HIDE DEF line
<1>6. lines \in Seq(Lines)
  BY <1>1, <1>4, AppendOne, StageTypes
<1>7. sawDone \in BOOLEAN
  BY DEF IsTerminal
<1> HIDE DEF channel, lines, sawDone
<1>8. ReadFields(r, read, channel, lines, sawDone) /\ ReadFields(r, sent, channel, lines, sawDone)
  BY <1>1, <1>5, <1>6, <1>7, ReadStage, Zenon
<1> HIDE DEF read, sent
<1>9. StreamOk("relayed", read) /\ StreamOk("relayed", sent)
  BY <1>8, ReadOk DEF channel, lines, sawDone, line
<1> QED
  BY <1>9 DEF read, sent, channel, lines, sawDone, line

(* What the client changes.                                                 *)
ClientFields(r, e) ==
  /\ e \in Stages /\ e.out = r.out /\ e.channel = r.channel /\ e.producer = r.producer
  /\ e.done = r.done /\ e.buffer = r.buffer /\ e.role = r.role /\ e.tokens = r.tokens
  /\ e.path = r.path /\ e.body = r.body /\ e.pos = r.pos /\ e.lines = r.lines
  /\ e.sawDone = r.sawDone /\ e.usage = r.usage

LEMMA ClientStage ==
  ASSUME NEW r \in Stages
  PROVE  /\ r.unread > 0 => ClientFields(r, [r EXCEPT !.unread = @ - 1])
         /\ ClientFields(r, [r EXCEPT !.client = "gone", !.unread = 0])
<1>1. r.unread \in Nat
  BY DEF Stages
<1>2. ASSUME r.unread > 0 PROVE ClientFields(r, [r EXCEPT !.unread = @ - 1])
  <2>1. r.unread - 1 \in Nat
    BY <1>1, <1>2
  <2> QED
    BY <2>1 DEF Stages, ClientFields
<1>3. ClientFields(r, [r EXCEPT !.client = "gone", !.unread = 0])
  BY DEF Stages, ClientFields
<1> QED
  BY <1>2, <1>3

LEMMA ClientFieldsOk ==
  ASSUME NEW at, at # "idle", NEW r, StreamOk(at, r), NEW e, ClientFields(r, e)
  PROVE  StreamOk(at, e)
<1>1. Kept(at, r) /\ r \in Stages
  BY DEF StreamOk, Kept
<1>2. PICK k \in 0..Len(r.body) : Progress(at, r, k)
  BY DEF StreamOk
<1>3. Kept(at, e)
  BY <1>1 DEF Kept, ClientFields
<1>4. Taken(e, k) /\ Emitted(e, k) = Emitted(r, k)
  BY <1>2, SamePlace DEF Progress, ClientFields
<1>5. Progress(at, e, k)
  BY <1>2, <1>4 DEF Progress, Sent, Waiting, ClientFields
<1> QED
  BY <1>3, <1>5 DEF StreamOk, ClientFields

(* The client reads or leaves; nothing else moves.                          *)
LEMMA ClientOk ==
  ASSUME NEW at, at # "idle", NEW r, StreamOk(at, r)
  PROVE  /\ r.unread > 0 => StreamOk(at, [r EXCEPT !.unread = @ - 1])
         /\ StreamOk(at, [r EXCEPT !.client = "gone", !.unread = 0])
<1>1. r \in Stages
  BY DEF StreamOk, Kept
<1> QED
  BY <1>1, ClientStage, ClientFieldsOk, Zenon

(* The state in which a stream starts.                                      *)
StartFields(e, path, body, pos, out, done) ==
  /\ e \in Stages /\ e.path = path /\ e.body = body /\ e.pos = pos /\ e.out = out
  /\ e.done = done /\ e.buffer = << >> /\ e.role = FALSE /\ e.tokens = None
  /\ e.channel = << >> /\ e.lines = << >> /\ e.sawDone = FALSE /\ e.producer = "reading"

LEMMA StartStage ==
  ASSUME NEW path \in Paths, NEW body \in Seq(Items), NEW pos \in Nat, NEW out \in Seq(Lines)
  PROVE  /\ StartFields([Unopened EXCEPT !.path = path, !.body = body, !.producer = "reading"],
                        path, body, 0, << >>, FALSE)
         /\ StartFields([Unopened EXCEPT !.path = path, !.body = body, !.pos = pos,
                                         !.producer = "reading", !.done = TRUE, !.out = out],
                        path, body, pos, out, TRUE)
<1>1. << >> \in Seq(Lines) /\ << >> \in Seq(WireSymbols) /\ None \in {None, 1, 3} /\ None \in Int
  BY DEF None
<1> QED
  BY <1>1 DEF Unopened, Stages, StartFields

LEMMA NothingReceived ==
  ASSUME NEW body \in Seq(Items)
  PROVE  Received(body, 0, 0) = << >> /\ SymbolsThrough(body, 0) = 0 /\ Len(Bytes(body)) \in Nat
<1>1. Len(body) \in Nat /\ 0 \in 0..Len(body)
  BY WireType
<1>2. SymbolsThrough(body, 0) = 0 /\ Bytes(body) \in Seq(WireSymbols)
  BY <1>1, Offsets, BytesOf
<1>3. Len(Bytes(body)) \in Nat /\ 0 \in SymbolsThrough(body, 0)..Len(Bytes(body))
  BY <1>2, LenProperties
<1>4. Received(body, 0, 0) \in Seq(WireSymbols) /\ Len(Received(body, 0, 0)) = 0
  BY <1>1, <1>2, <1>3, ReceivedShape
<1> QED
  BY <1>2, <1>3, <1>4, EmptySeq

(* send: nothing has been received yet.                                     *)
LEMMA OpenOk ==
  ASSUME NEW path, NEW body, WellFormed(path, body)
  PROVE  StreamOk("opened", [Unopened EXCEPT !.path = path, !.body = body,
                                             !.producer = "reading"])
<1> DEFINE e == [Unopened EXCEPT !.path = path, !.body = body, !.producer = "reading"]
<1>1. path \in Paths /\ body \in Seq(Items) /\ Len(body) \in Nat /\ 0 \in 0..Len(body)
  BY WholeBody, WireType
<1>2. << >> \in Seq(Lines) /\ Len(<< >>) = 0
  OBVIOUS
<1>3. StartFields(e, path, body, 0, << >>, FALSE)
  BY <1>1, <1>2, StartStage, Zenon
<1> HIDE DEF e
<1>4. Emitted(e, 0) = << >>
  BY <1>1, <1>3, EmittedIs DEF StartFields
<1>5. Kept("opened", e)
  BY <1>1, <1>3, NothingReceived DEF Kept, StartFields
<1>6. ~Seen(body, 0, "start") /\ ~Seen(body, 0, "usage")
  BY DEF Seen
<1>7. CountAfter(body, 0) = None
  BY <1>6 DEF CountAfter
<1>8. Taken(e, 0)
  BY <1>1, <1>3, <1>6, <1>7, NothingReceived DEF Taken, StartFields
<1>9. Sent(e, << >>) /\ Waiting(e, << >>)
  BY <1>2, <1>3 DEF Sent, Waiting, StartFields
<1>10. Progress("opened", e, 0)
  BY <1>4, <1>8, <1>9 DEF Progress
<1>11. StreamOk("opened", e)
  BY <1>1, <1>3, <1>5, <1>10 DEF StreamOk, StartFields
<1> QED
  BY <1>11 DEF e

(* The body of the mock is well formed and ends with its only stop.         *)
LEMMA MockBodyIs ==
  ASSUME NEW ingress \in {"openai", "anthropic"}
  PROVE  /\ MockBody(ingress) \in Seq(Items) /\ Len(MockBody(ingress)) \in {4, 6}
         /\ DOMAIN MockBody(ingress) = 1..Len(MockBody(ingress))
         /\ \A i \in 1..Len(MockBody(ingress)) :
              /\ MockBody(ingress)[i].sep = "lf"
              /\ MockBody(ingress)[i].event = "stop" <=> i = Len(MockBody(ingress))
         /\ ingress = "anthropic" =>
              \A j \in 1..Len(MockBody(ingress)) : MockBody(ingress)[j].event = "usage" =>
                /\ \E i \in 1..j : MockBody(ingress)[i].event = "start"
                /\ \A i \in j..Len(MockBody(ingress)) : MockBody(ingress)[i].event # "start"
<1> DEFINE body == MockBody(ingress)
           rows(e) == [i \in DOMAIN e |-> [event |-> e[i], sep |-> "lf"]]
<1>1. ASSUME NEW e, NEW n \in Nat, e \in Seq(Events), Len(e) = n
      PROVE  /\ rows(e) \in Seq(Items) /\ Len(rows(e)) = n /\ DOMAIN rows(e) = 1..n
             /\ \A i \in 1..n : rows(e)[i].sep = "lf" /\ rows(e)[i].event = e[i]
  <2>1. DOMAIN e = 1..n /\ \A i \in 1..n : e[i] \in Events
    BY <1>1
  <2>2. \A i \in 1..n : [event |-> e[i], sep |-> "lf"] \in Items
    BY <2>1, SeparatorShape DEF Items
  <2>3. rows(e) = [i \in 1..n |-> [event |-> e[i], sep |-> "lf"]]
    BY <2>1
  <2> DEFINE row(i) == [event |-> e[i], sep |-> "lf"]
  <2>4. rows(e) = [i \in 1..n |-> row(i)] /\ \A i \in 1..n : row(i) \in Items
    BY <2>2, <2>3
  <2> HIDE DEF row, rows
  <2>5. rows(e) \in Seq(Items) /\ Len(rows(e)) = n /\ DOMAIN rows(e) = 1..n
        /\ \A i \in 1..n : rows(e)[i] = row(i)
    BY <1>1, <2>4
  <2> QED
    BY <2>5 DEF row
<1>2. CASE ingress = "anthropic"
  <2> DEFINE e == <<"start", "ping", "delta", "ping", "usage", "stop">>
  <2>1. e \in Seq(Events) /\ Len(e) = 6
    BY DEF Events
  <2>2. \A i \in 1..6 : (e[i] = "stop" <=> i = 6) /\ (e[i] = "usage" <=> i = 5)
                         /\ (e[i] = "start" <=> i = 1)
    OBVIOUS
  <2>3. body = rows(e)
    BY <1>2 DEF MockBody
  <2> HIDE DEF e, rows, body
  <2>4. /\ body \in Seq(Items) /\ Len(body) = 6 /\ DOMAIN body = 1..6
        /\ \A i \in 1..6 : body[i].sep = "lf" /\ body[i].event = e[i]
    BY <1>1, <2>1, <2>3
  <2>5. Len(body) \in {4, 6} /\ \A i \in 1..6 : body[i].event = "stop" <=> i = 6
    BY <2>2, <2>4
  <2>6. ASSUME NEW j \in 1..6, body[j].event = "usage"
        PROVE  /\ \E i \in 1..j : body[i].event = "start"
               /\ \A i \in j..6 : body[i].event # "start"
    <3>1. j = 5 /\ body[1].event = "start" /\ 1 \in 1..j
      BY <2>2, <2>4, <2>6
    <3>2. \A i \in j..6 : i \in 1..6 /\ i # 1
      BY <3>1
    <3> QED
      BY <2>2, <2>4, <3>1, <3>2
  <2> QED
    BY <2>4, <2>5, <2>6 DEF body
<1>3. CASE ingress = "openai"
  <2> DEFINE e == <<"start", "delta", "usage", "stop">>
  <2>1. e \in Seq(Events) /\ Len(e) = 4
    BY DEF Events
  <2>2. \A i \in 1..4 : e[i] = "stop" <=> i = 4
    OBVIOUS
  <2>3. body = rows(e)
    BY <1>3 DEF MockBody
  <2> HIDE DEF e, rows, body
  <2>4. /\ body \in Seq(Items) /\ Len(body) = 4 /\ DOMAIN body = 1..4
        /\ \A i \in 1..4 : body[i].sep = "lf" /\ body[i].event = e[i]
    BY <1>1, <2>1, <2>3
  <2>5. Len(body) \in {4, 6} /\ \A i \in 1..4 : body[i].event = "stop" <=> i = 4
    BY <2>2, <2>4
  <2> QED
    BY <1>3, <2>4, <2>5 DEF body
<1> QED
  BY <1>2, <1>3

(* MockProvider: all the lines of the body are there.                       *)
LEMMA OpenMockOk ==
  ASSUME NEW path \in Paths, path.provider = "mock"
  PROVE  LET body == MockBody(path.ingress)
         IN  StreamOk("relayed", [Unopened EXCEPT !.path = path, !.body = body,
                !.pos = Len(Bytes(body)), !.producer = "reading", !.done = TRUE,
                !.out = [i \in DOMAIN body |-> Forwarded(path, <<body[i].event>>)]])
<1> DEFINE body == MockBody(path.ingress)
           n == Len(body)
           pos == Len(Bytes(body))
           line(i) == Forwarded(path, <<body[i].event>>)
           out == [i \in DOMAIN body |-> line(i)]
           e == [Unopened EXCEPT !.path = path, !.body = body, !.pos = pos,
                                 !.producer = "reading", !.done = TRUE, !.out = out]
<1>1. /\ path.ingress \in {"openai", "anthropic"} /\ ~IsTranslated(path)
      /\ path.provider # "openai" /\ path.provider # "anthropic"
  BY DEF Paths, IsTranslated
<1>2. /\ body \in Seq(Items) /\ n \in {4, 6} /\ DOMAIN body = 1..n
      /\ \A i \in 1..n : body[i].sep = "lf" /\ (body[i].event = "stop" <=> i = n)
  BY <1>1, MockBodyIs
<1> HIDE DEF body
<1>3. n \in Nat /\ n >= 1 /\ n # 0 /\ n \in 0..n /\ n \in 1..n
  <2> HIDE DEF n
  <2> QED
    BY <1>2
<1>4. ASSUME NEW i \in 1..n
      PROVE  /\ line(i) = Line(<<body[i].event>>, Counts(path, body[i].event))
             /\ line(i) \in Lines
             /\ Cleaned(path, line(i))
                  = Line(<<Plain(path, body[i].event)>>, Counts(path, body[i].event))
  <2> DEFINE event == body[i].event
  <2>1. event \in Events /\ event \in Words
    BY <1>2, WireType, SymbolsShape DEF Words
  <2>2. line(i) = Forwarded(path, <<event>>)
    OBVIOUS
  <2> HIDE DEF event, line
  <2>3. Trim(<<event>>) = <<event>> /\ Last(<<event>>) = event
    BY <2>1, TrimEvent, OneWord
  <2>4. line(i) = Line(<<event>>, Counts(path, event))
    BY <1>1, <2>2, <2>3 DEF Forwarded
  <2>5. Counts(path, event) \in {None, 0, 1, 3}
    BY CountsIs
  <2>6. line(i) \in Lines
    BY <2>1, <2>4, <2>5, LineTyped
  <2>7. Cleaned(path, line(i)) = Line(<<Plain(path, event)>>, Counts(path, event))
    BY <2>1, <2>4, CleanedIs
  <2> QED
    BY <2>4, <2>6, <2>7 DEF event
<1>5. out \in Seq(Lines) /\ Len(out) = n /\ \A i \in 1..n : out[i] = line(i)
  <2>1. out = [i \in 1..n |-> line(i)]
    BY <1>2
  <2>2. \A i \in 1..n : line(i) \in Lines
    BY <1>4
  <2> HIDE DEF line, out, n
  <2> QED
    BY <1>3, <2>1, <2>2
<1>6. pos \in Nat
  BY <1>2, NothingReceived
<1> HIDE DEF line, out, pos
<1>7. StartFields(e, path, body, pos, out, TRUE)
  BY <1>2, <1>5, <1>6, StartStage, Zenon
<1> HIDE DEF e
<1>8. WellFormed(path, body)
  <2>1. path \in [provider : {"openai", "anthropic", "mock"}, ingress : {"openai", "anthropic"}]
    BY DEF Paths
  <2>2. \A i \in DOMAIN body : body[i].sep = "cut" => i = Len(body)
    BY <1>2
  <2>3. Shape(path) = path.ingress
    BY DEF Shape
  <2>4. path.ingress = "anthropic" =>
          \A j \in 1..n : body[j].event = "usage" =>
            /\ \E i \in 1..j : body[i].event = "start"
            /\ \A i \in j..n : body[i].event # "start"
    BY <1>1, MockBodyIs DEF body
  <2> QED
    BY <1>2, <2>1, <2>2, <2>3, <2>4 DEF WellFormed
<1>9. out # << >>
  BY <1>3, <1>5, EmptySeq
<1>10. Kept("relayed", e)
  <2>1. pos <= pos
    BY <1>6
  <2> QED
    BY <1>7, <1>8, <1>9, <2>1 DEF Kept, StartFields, pos
<1>11. Ended(e, n)
  <2>1. SymbolsThrough(body, n) = pos
    BY <1>2, <1>3, Offsets DEF pos
  <2>2. body[n].sep # "cut" /\ body[n].event = "stop"
    BY <1>2, <1>3
  <2>3. pos <= pos
    BY <1>6
  <2> QED
    BY <1>7, <2>1, <2>2, <2>3 DEF Ended, StartFields
<1>12. Taken(e, n)
  <2>1. ASSUME NEW i \in 1..n, i # n PROVE body[i].sep # "cut" /\ body[i].event # "stop"
    BY <1>2, <2>1
  <2>2. e.done = TRUE /\ e.body = body
    BY <1>7 DEF StartFields
  <2> HIDE DEF n
  <2>3. n # 0 /\ (Ended(e, n) \/ Broke(e, n))
    BY <1>3, <1>11
  <2>4. \A i \in 1..n : (e.done => i # n) => e.body[i].sep # "cut" /\ e.body[i].event # "stop"
    BY <2>1, <2>2
  <2> QED
    BY <2>2, <2>3, <2>4, Zenon DEF Taken
<1>13. /\ Len(Emitted(e, n)) = n
       /\ \A p \in 1..n : Emitted(e, n)[p] = Line(<<Plain(path, body[p].event)>>,
                                                  Counts(path, body[p].event))
  <2>1. e.path = path /\ e.body = body /\ n \in 0..Len(body)
    BY <1>3, <1>7 DEF StartFields
  <2> HIDE DEF n
  <2> QED
    BY <1>1, <1>2, <2>1, EmittedSingles
<1>14. /\ e.lines = << >> /\ e.channel = << >> /\ e.out = out /\ e.path = path /\ Len(<< >>) = 0
  BY <1>7 DEF StartFields
<1> HIDE DEF n
<1>15. Sent(e, Emitted(e, n))
  <2>1. 0 <= n
    BY <1>3
  <2> QED
    BY <1>13, <1>14, <2>1 DEF Sent
<1>16. Waiting(e, Emitted(e, n))
  <2>1. n = 0 + 0 + n /\ \A p \in 1..n : 0 + 0 + p = p
    BY <1>3
  <2>2. ASSUME NEW p \in 1..n PROVE Cleaned(path, out[p]) = Emitted(e, n)[0 + 0 + p]
    BY <1>4, <1>5, <1>13, <2>1
  <2>3. Len(Emitted(e, n)) = 0 + 0 + Len(out)
    BY <1>5, <1>13, <2>1
  <2> QED
    BY <1>5, <1>14, <2>2, <2>3 DEF Waiting
<1>17. StreamOk("relayed", e)
  <2>1. Progress("relayed", e, n)
    BY <1>12, <1>15, <1>16 DEF Progress
  <2>2. n \in 0..Len(e.body)
    BY <1>3, <1>7 DEF StartFields, n
  <2> QED
    BY <1>10, <2>1, <2>2 DEF StreamOk
<1> QED
  BY <1>17, Zenon DEF e, out, line, pos, body
--------------------------------------------------------------------------------
(* Every step keeps the invariant of every stream                           *)

(* Every stream is as the invariant of one says, at the place of its        *)
(* handler.                                                                 *)
RelayInv ==
  /\ stream = [s \in Streams |-> stream[s]]
  /\ \A s \in Streams : StreamOk(handler[s], stream[s])

LEMMA InitRelays == ASSUME Init PROVE RelayInv
<1>1. stream = [s \in Streams |-> Unopened] /\ handler = [s \in Streams |-> "idle"]
  BY DEF Init
<1>2. stream = [s \in Streams |-> stream[s]]
  BY <1>1
<1>3. ASSUME NEW s \in Streams PROVE StreamOk(handler[s], stream[s])
  BY <1>1 DEF StreamOk
<1> QED
  BY <1>2, <1>3 DEF RelayInv

(* A step that moves one stream, with or without its handler.               *)
LEMMA OneStream ==
  ASSUME IInv, RelayInv, NEW s \in Streams, NEW at, NEW e, Set(s, e), StreamOk(at, e),
         Goto(s, at) \/ (UNCHANGED handler /\ at = handler[s])
  PROVE  RelayInv'
<1>1. /\ stream' = [t \in Streams |-> stream'[t]]
      /\ \A t \in Streams : stream'[t] = IF t = s THEN e ELSE stream[t]
  BY DEF Set, RelayInv
<1>2. \A t \in Streams : handler'[t] = IF t = s THEN at ELSE handler[t]
  BY DEF Goto, IInv, MapInv
<1>3. \A t \in Streams : StreamOk(handler'[t], stream'[t])
  BY <1>1, <1>2 DEF RelayInv
<1> QED
  BY <1>1, <1>3 DEF RelayInv

(* A stream with a task or with unread lines was opened.                    *)
LEMMA NotIdle ==
  ASSUME NEW at, NEW r, StreamOk(at, r),
         r.producer = "reading" \/ r.unread > 0
  PROVE  at # "idle"
<1>1. Unopened.producer = "none" /\ Unopened.unread = 0
  BY DEF Unopened
<1> QED
  BY <1>1 DEF StreamOk

(* take_stream_receiver: what the stream is does not change.                *)
LEMMA TakeRelays == ASSUME IInv, RelayInv, NEW s \in Streams, Take(s) PROVE RelayInv'
<1> DEFINE live == Fresh(pending)
<1>1. s \in DOMAIN live
  <2>1. DOMAIN live = Opened
    BY FreshKeeps DEF IInv, MapInv
  <2> QED
    BY <2>1 DEF Take, Opened
<1>2. \A t \in Streams : handler'[t] = IF t = s THEN "relayed" ELSE handler[t]
  BY <1>1 DEF Take, Goto, IInv, MapInv
<1>3. stream' = stream /\ handler[s] = "opened" /\ StreamOk("opened", stream[s])
  BY DEF Take, RelayInv
<1>4. StreamOk("relayed", stream[s])
  BY <1>3 DEF StreamOk, Kept, Progress
<1>5. \A t \in Streams : StreamOk(handler'[t], stream'[t])
  BY <1>2, <1>3, <1>4 DEF RelayInv
<1> QED
  BY <1>3, <1>5 DEF RelayInv

LEMMA OpenRelays ==
  ASSUME IInv, RelayInv, NEW s \in Streams, NEW answer \in Answers[s],
         Open(s, answer) \/ OpenMock(s, answer.path)
  PROVE  RelayInv'
<1>1. WellFormed(answer.path, answer.body)
  BY AnswersAssumption
<1>2. CASE Open(s, answer)
  <2> DEFINE e == [Unopened EXCEPT !.path = answer.path, !.body = answer.body,
                                   !.producer = "reading"]
  <2>1. StreamOk("opened", e)
    BY <1>1, OpenOk
  <2>2. Goto(s, "opened") /\ Set(s, e)
    BY <1>2 DEF Open
  <2> HIDE DEF e
  <2> QED
    BY <2>1, <2>2, OneStream
<1>3. CASE OpenMock(s, answer.path)
  <2> DEFINE path == answer.path
             body == MockBody(path.ingress)
             e == [Unopened EXCEPT !.path = path, !.body = body,
                !.pos = Len(Bytes(body)), !.producer = "reading", !.done = TRUE,
                !.out = [i \in DOMAIN body |-> Forwarded(path, <<body[i].event>>)]]
  <2>1. path \in Paths /\ path.provider = "mock"
    BY <1>1, <1>3, WholeBody DEF OpenMock
  <2>2. StreamOk("relayed", e)
    <3> HIDE DEF path
    <3> QED
      BY <2>1, OpenMockOk, Zenon
  <2>3. Goto(s, "relayed") /\ Set(s, e)
    BY <1>3, Zenon DEF OpenMock
  <2> HIDE DEF e
  <2> QED
    BY <2>2, <2>3, OneStream
<1> QED
  BY <1>2, <1>3

LEMMA ReceiveRelays == ASSUME IInv, RelayInv, NEW s \in Streams, ReceiveChunk(s) PROVE RelayInv'
<1> DEFINE r == stream[s]
           at == handler[s]
           bytes == Bytes(r.body)
<1>1. StreamOk(at, r) /\ r.producer = "reading" /\ r.out = << >> /\ UNCHANGED handler
  BY DEF RelayInv, ReceiveChunk
<1>2. at # "idle"
  BY <1>1, NotIdle
<1>3. PICK n \in 1..(Len(bytes) - r.pos) :
        Set(s, [r EXCEPT !.pos = @ + n, !.buffer = @ \o SubSeq(bytes, r.pos + 1, r.pos + n)])
  BY DEF ReceiveChunk
<1> DEFINE e == [r EXCEPT !.pos = r.pos + n,
                          !.buffer = r.buffer \o SubSeq(bytes, r.pos + 1, r.pos + n)]
<1>4. Set(s, e)
  BY <1>3
<1>5. StreamOk(at, e)
  <2> HIDE DEF r, at
  <2> QED
    BY <1>1, <1>2, ReceiveOk
<1> HIDE DEF e
<1> QED
  BY <1>1, <1>4, <1>5, OneStream

LEMMA EventRelays == ASSUME IInv, RelayInv, NEW s \in Streams, TakeEvent(s) PROVE RelayInv'
<1> DEFINE r == stream[s]
           at == handler[s]
<1>1. StreamOk(at, r) /\ r.producer = "reading" /\ r.out = << >> /\ UNCHANGED handler
  BY DEF RelayInv, TakeEvent
<1>2. at # "idle"
  BY <1>1, NotIdle
<1>3. PICK d \in FirstOf(Delimiters(r.buffer)) :
        LET raw == Before(r.buffer, d)
            taken == [r EXCEPT !.buffer = Behind(@, d)]
        IN  Set(s, IF Trim(raw) = << >> THEN taken ELSE Emit(taken, raw))
  BY Zenon DEF TakeEvent
<1> DEFINE raw == Before(r.buffer, d)
           taken == [r EXCEPT !.buffer = Behind(r.buffer, d)]
           e == IF Trim(raw) = << >> THEN taken ELSE Emit(taken, raw)
<1>4. Set(s, e)
  BY <1>3
<1>5. StreamOk(at, e)
  <2> HIDE DEF r, at
  <2> QED
    BY <1>1, <1>2, TakeEventOk
<1> HIDE DEF e
<1> QED
  BY <1>1, <1>4, <1>5, OneStream

(* Only a stream that is settled has no receiver.                           *)
LEMMA SendRelays == ASSUME IInv, RelayInv, NEW s \in Streams, SendLine(s) PROVE RelayInv'
<1> DEFINE r == stream[s]
           at == handler[s]
<1>1. StreamOk(at, r) /\ r.producer = "reading" /\ r.out # << >> /\ UNCHANGED handler
  BY DEF RelayInv, SendLine
<1>2. at # "idle"
  BY <1>1, NotIdle
<1>3. CASE Dropped(s) /\ Set(s, [r EXCEPT !.producer = "gone", !.out = << >>])
  <2>1. at = "settled"
    BY <1>3 DEF Dropped, IInv, MapInv, Opened, OpenedIsFound
  <2> DEFINE e == [r EXCEPT !.producer = "gone", !.out = << >>]
  <2>2. StreamOk(at, e)
    <3> HIDE DEF r, at
    <3> QED
      BY <1>1, <2>1, LostOk
  <2>3. Set(s, e)
    BY <1>3
  <2> HIDE DEF e
  <2> QED
    BY <1>1, <2>2, <2>3, OneStream
<1>4. CASE Set(s, [r EXCEPT !.channel = Append(@, Head(r.out)), !.out = Tail(@),
                            !.producer = IF r.done /\ Len(r.out) = 1 THEN "gone" ELSE @])
  <2> DEFINE e == [r EXCEPT !.channel = Append(@, Head(r.out)), !.out = Tail(@),
                            !.producer = IF r.done /\ Len(r.out) = 1 THEN "gone" ELSE @]
  <2>1. StreamOk(at, e)
    <3> HIDE DEF r, at
    <3> QED
      BY <1>1, <1>2, SendOk, Zenon
  <2>2. Set(s, e)
    BY <1>4
  <2> HIDE DEF e
  <2> QED
    BY <1>1, <2>1, <2>2, OneStream
<1> QED
  BY <1>3, <1>4 DEF SendLine

LEMMA BodyRelays == ASSUME IInv, RelayInv, NEW s \in Streams, BodyEnds(s) PROVE RelayInv'
<1> DEFINE r == stream[s]
           at == handler[s]
           rest == Trim(r.buffer)
           last == [r EXCEPT !.buffer = << >>, !.out = <<Forwarded(r.path, rest)>>, !.done = TRUE]
           gone == [r EXCEPT !.producer = "gone"]
<1>1. /\ StreamOk(at, r) /\ r.producer = "reading" /\ r.out = << >>
      /\ Delimiters(r.buffer) = {} /\ UNCHANGED handler
  BY DEF RelayInv, BodyEnds
<1>2. at # "idle"
  BY <1>1, NotIdle
<1>3. /\ r.path.provider = "openai" /\ rest # << >> => StreamOk(at, last)
      /\ StreamOk(at, gone)
  <2> HIDE DEF r, at
  <2> QED
    BY <1>1, <1>2, RestOk, GoneOk
<1>4. Set(s, IF r.path.provider = "openai" /\ rest # << >> THEN last ELSE gone)
  BY DEF BodyEnds
<1> HIDE DEF last, gone
<1>5. Set(s, gone) \/ (Set(s, last) /\ r.path.provider = "openai" /\ rest # << >>)
  BY <1>4
<1> QED
  BY <1>1, <1>3, <1>5, OneStream

LEMMA LineRelays == ASSUME IInv, RelayInv, NEW s \in Streams, RelayLine(s) PROVE RelayInv'
<1> DEFINE r == stream[s]
           line == Cleaned(r.path, Head(r.channel))
           read == [r EXCEPT !.channel = Tail(@), !.lines = Append(@, line),
                             !.sawDone = IsTerminal(r.path, line)]
           sent == [read EXCEPT !.unread = @ + 1]
<1>1. StreamOk("relayed", r) /\ r.channel # << >> /\ handler[s] = "relayed"
  BY DEF RelayInv, RelayLine
<1>2. StreamOk("relayed", read) /\ StreamOk("relayed", sent)
  <2> HIDE DEF r
  <2> QED
    BY <1>1, RelayOk, Zenon
<1>3. Settle(s, read) \/ Settle(s, sent) \/ (Set(s, sent) /\ UNCHANGED handler)
  BY Zenon DEF RelayLine
<1> HIDE DEF read, sent
<1>4. ASSUME NEW x, StreamOk("relayed", x), Settle(s, x) PROVE RelayInv'
  <2> DEFINE e == [x EXCEPT !.channel = << >>, !.usage = Usage(x.path, x.lines)]
  <2>1. StreamOk("settled", e)
    BY <1>4, SettledOk
  <2>2. Goto(s, "settled") /\ Set(s, e)
    BY <1>4 DEF Settle
  <2> HIDE DEF e
  <2> QED
    BY <2>1, <2>2, OneStream
<1>5. ASSUME Set(s, sent), UNCHANGED handler PROVE RelayInv'
  BY <1>1, <1>2, <1>5, OneStream
<1> QED
  BY <1>2, <1>3, <1>4, <1>5

LEMMA EndRelays == ASSUME IInv, RelayInv, NEW s \in Streams, RelayEnds(s) PROVE RelayInv'
<1> DEFINE r == stream[s]
           e == [r EXCEPT !.channel = << >>, !.usage = Usage(r.path, r.lines)]
<1>1. StreamOk("relayed", r) /\ Goto(s, "settled") /\ Set(s, e)
  BY DEF RelayInv, RelayEnds, Settle
<1>2. StreamOk("settled", e)
  <2> HIDE DEF r
  <2> QED
    BY <1>1, SettledOk
<1> HIDE DEF e
<1> QED
  BY <1>1, <1>2, OneStream

LEMMA ClientRelays ==
  ASSUME IInv, RelayInv, NEW s \in Streams, ClientReads(s) \/ ClientLeaves(s)
  PROVE  RelayInv'
<1> DEFINE r == stream[s]
           at == handler[s]
           less == [r EXCEPT !.unread = @ - 1]
           left == [r EXCEPT !.client = "gone", !.unread = 0]
<1>1. /\ StreamOk(at, r) /\ UNCHANGED handler
      /\ (r.unread > 0 /\ Set(s, less)) \/ (at # "idle" /\ Set(s, left))
  BY DEF RelayInv, ClientReads, ClientLeaves
<1>2. at # "idle"
  BY <1>1, NotIdle
<1>3. (r.unread > 0 => StreamOk(at, less)) /\ StreamOk(at, left)
  <2> HIDE DEF r, at
  <2> QED
    BY <1>1, <1>2, ClientOk, Zenon
<1> HIDE DEF less, left
<1> QED
  BY <1>1, <1>3, OneStream

(* Each action keeps the invariant.                                         *)
LEMMA NextRelays == ASSUME IInv, RelayInv, [Next]_vars PROVE RelayInv'
<1>1. ASSUME NEW s \in Streams, NEW answer \in Answers[s],
             Open(s, answer) \/ OpenMock(s, answer.path)
      PROVE  RelayInv'
  BY <1>1, OpenRelays
<1>2. ASSUME NEW s \in Streams, Take(s) PROVE RelayInv'
  BY <1>2, TakeRelays
<1>3. ASSUME NEW s \in Streams, ReceiveChunk(s) PROVE RelayInv'
  BY <1>3, ReceiveRelays
<1>4. ASSUME NEW s \in Streams, TakeEvent(s) PROVE RelayInv'
  BY <1>4, EventRelays
<1>5. ASSUME NEW s \in Streams, SendLine(s) PROVE RelayInv'
  BY <1>5, SendRelays
<1>6. ASSUME NEW s \in Streams, BodyEnds(s) PROVE RelayInv'
  BY <1>6, BodyRelays
<1>7. ASSUME NEW s \in Streams, RelayLine(s) PROVE RelayInv'
  BY <1>7, LineRelays
<1>8. ASSUME NEW s \in Streams, RelayEnds(s) PROVE RelayInv'
  BY <1>8, EndRelays
<1>9. ASSUME NEW s \in Streams, ClientReads(s) \/ ClientLeaves(s) PROVE RelayInv'
  BY <1>9, ClientRelays
<1>10. CASE UNCHANGED <<handler, stream>>
  BY <1>10 DEF RelayInv
<1>11. CASE Age
  BY <1>10, <1>11 DEF Age
<1>12. CASE UNCHANGED vars
  BY <1>10, <1>12 DEF vars
<1> QED
  BY <1>1, <1>2, <1>3, <1>4, <1>5, <1>6, <1>7, <1>8, <1>9, <1>11, <1>12 DEF Next
--------------------------------------------------------------------------------
(* What a reader of the whole body would forward                            *)

(* The events whose lines the client is owed, and those lines.              *)
Passed(r) == Complete(r) \cup CutOff(r)
PassedOn(r, i) == IF i \in Passed(r) THEN Rendered(r, i) ELSE << >>
Texts(r) == [i \in DOMAIN r.body |-> PassedOn(r, i)]

(* Later events end later.                                                  *)
LEMMA ThroughGrows ==
  ASSUME NEW body \in Seq(Items), NEW i \in Nat, NEW k \in 0..Len(body), i <= k
  PROVE  /\ SymbolsThrough(body, i) <= SymbolsThrough(body, k)
         /\ SymbolsThrough(body, i) \in Nat /\ SymbolsThrough(body, k) \in Nat
<1>1. Len(body) \in Nat /\ i \in 0..Len(body) /\ k \in i..Len(body)
  BY WireType
<1>2. Len(Bytes(body)) \in Nat
  BY NothingReceived
<1> QED
  BY <1>1, <1>2, Offsets

(* What the producer took are the events that a reader of the whole body    *)
(* would pass on, and after the last of them there are no more.             *)
LEMMA TakenArePassed ==
  ASSUME NEW r \in Stages, NEW k \in 0..Len(r.body), Taken(r, k)
  PROVE  /\ 1..k \subseteq Passed(r)
         /\ r.done /\ r.body[k].event = "stop" => Passed(r) = 1..k
<1> DEFINE body == r.body
           L(i) == SymbolsThrough(body, i)
<1>1. /\ body \in Seq(Items) /\ Len(body) \in Nat /\ DOMAIN body = 1..Len(body) /\ k \in Nat
      /\ r.pos \in Nat /\ k \in 0..Len(body)
  BY StageTypes
<1>2. \A i \in 1..k : i \in Nat /\ i <= k /\ i - 1 \in Nat /\ i \in 1..Len(body)
  BY <1>1
<1>3. ASSUME NEW i \in 1..k, (r.done => i # k) PROVE i \in Complete(r)
  <2>1. body[i].sep # "cut" /\ body[i].event # "stop"
    BY <1>3 DEF Taken
  <2>2. \A j \in 1..Len(body) : body[j].event = "stop" => i <= j
    <3> SUFFICES ASSUME NEW j \in 1..Len(body), body[j].event = "stop", ~(i <= j) PROVE FALSE
      OBVIOUS
    <3>1. j \in 1..k /\ j # k
      BY <1>1, <1>2
    <3> QED
      BY <3>1 DEF Taken
  <2>3. L(i) <= r.pos
    <3>1. CASE ~r.done
      <4>1. L(k) <= r.pos
        BY <3>1 DEF Taken
      <4>2. L(i) <= L(k) /\ L(i) \in Nat /\ L(k) \in Nat
        BY <1>1, <1>2, ThroughGrows
      <4> HIDE DEF L
      <4> QED
        BY <1>1, <4>1, <4>2
    <3>2. CASE r.done /\ Ended(r, k)
      <4>1. L(k) <= r.pos
        BY <3>2 DEF Ended
      <4>2. L(i) <= L(k) /\ L(i) \in Nat /\ L(k) \in Nat
        BY <1>1, <1>2, ThroughGrows
      <4> HIDE DEF L
      <4> QED
        BY <1>1, <4>1, <4>2
    <3>3. CASE r.done /\ Broke(r, k)
      <4>1. L(k - 1) < r.pos
        BY <3>3 DEF Broke
      <4>2. i \in Nat /\ k - 1 \in 0..Len(body) /\ i <= k - 1
        BY <1>1, <1>2, <1>3, <3>3
      <4>3. L(i) <= L(k - 1) /\ L(i) \in Nat /\ L(k - 1) \in Nat
        BY <1>1, <4>2, ThroughGrows
      <4> HIDE DEF L
      <4> QED
        BY <1>1, <4>1, <4>3
    <3> QED
      BY <3>1, <3>2, <3>3 DEF Taken
  <2> QED
    BY <1>1, <1>2, <2>1, <2>2, <2>3 DEF Complete
<1>4. ASSUME r.done PROVE k \in Passed(r) /\ k \in 1..Len(body)
  <2>1. k \in 1..Len(body) /\ k - 1 \in Nat
    BY <1>1, <1>4 DEF Taken
  <2>2. \A j \in 1..(k - 1) : j \in 1..k /\ j # k
    BY <1>1
  <2>3. \A j \in 1..(k - 1) : j \in Complete(r) /\ body[j].event # "stop"
    BY <1>3, <2>2 DEF Taken
  <2>4. \A j \in 1..Len(body) : body[j].event = "stop" => k <= j
    <3> SUFFICES ASSUME NEW j \in 1..Len(body), body[j].event = "stop", ~(k <= j) PROVE FALSE
      OBVIOUS
    <3>1. j \in 1..(k - 1)
      BY <1>1
    <3> QED
      BY <2>3, <3>1
  <2>5. CASE Ended(r, k)
    <3>1. k \in Complete(r)
      BY <1>1, <2>1, <2>4, <2>5 DEF Ended, Complete
    <3> QED
      BY <2>1, <3>1 DEF Passed
  <2>6. CASE Broke(r, k) /\ k \notin Complete(r)
    <3>1. k \in CutOff(r)
      BY <1>1, <2>1, <2>3, <2>6 DEF Broke, CutOff
    <3> QED
      BY <2>1, <3>1 DEF Passed
  <2>7. CASE k \in Complete(r)
    BY <2>1, <2>7 DEF Passed
  <2> QED
    BY <1>4, <2>5, <2>6, <2>7 DEF Taken
<1>5. 1..k \subseteq Passed(r)
  BY <1>3, <1>4 DEF Passed
<1>6. ASSUME r.done, body[k].event = "stop", NEW i \in Passed(r) PROVE i \in 1..k
  <2>1. k \in 1..Len(body)
    BY <1>4, <1>6
  <2>2. i \in 1..Len(body)
    BY <1>1, <1>6 DEF Passed, Complete, CutOff
  <2>3. CASE i \in Complete(r)
    <3>1. i <= k
      BY <1>1, <1>6, <2>1, <2>3 DEF Complete
    <3> QED
      BY <1>1, <2>2, <3>1
  <2>4. CASE i \in CutOff(r)
    <3>1. \A j \in 1..(i - 1) : body[j].event # "stop"
      BY <2>4 DEF CutOff
    <3>2. k \notin 1..(i - 1)
      BY <1>6, <3>1
    <3> QED
      BY <2>1, <2>2, <3>2
  <2> QED
    BY <1>6, <2>3, <2>4 DEF Passed
<1> QED
  BY <1>5, <1>6

(* Texts are those of the lines, and so are texts joined to texts.          *)
TextsOf(texts, lines) ==
  Len(texts) = Len(lines) /\ \A p \in 1..Len(lines) : texts[p] = lines[p].text

LEMMA TextsJoin ==
  ASSUME NEW S, NEW a \in Seq(S), NEW b \in Seq(S), NEW x \in Seq(Lines), NEW y \in Seq(Lines),
         TextsOf(a, x), TextsOf(b, y)
  PROVE  TextsOf(a \o b, x \o y)
<1> DEFINE n == Len(x)
           m == Len(y)
<1>1. /\ n \in Nat /\ m \in Nat /\ Len(a) = n /\ Len(b) = m
      /\ Len(x \o y) = n + m /\ Len(a \o b) = n + m
      /\ \A p \in 1..(n + m) : (x \o y)[p] = IF p <= n THEN x[p] ELSE y[p - n]
      /\ \A p \in 1..(n + m) : (a \o b)[p] = IF p <= n THEN a[p] ELSE b[p - n]
  <2>1. n \in Nat /\ m \in Nat /\ Len(a) = n /\ Len(b) = m
    BY LenProperties DEF TextsOf
  <2>2. /\ Len(x \o y) = n + m
        /\ \A p \in 1..(n + m) : (x \o y)[p] = IF p <= n THEN x[p] ELSE y[p - n]
    BY ConcatProperties
  <2>3. /\ Len(a \o b) = Len(a) + Len(b)
        /\ \A p \in 1..(Len(a) + Len(b)) : (a \o b)[p] = IF p <= Len(a) THEN a[p] ELSE b[p - Len(a)]
    BY ConcatProperties
  <2> HIDE DEF n, m
  <2> QED
    BY <2>1, <2>2, <2>3
<1>2. /\ \A p \in 1..n : a[p] = x[p].text
      /\ \A p \in 1..m : b[p] = y[p].text
  BY DEF TextsOf
<1> HIDE DEF n, m
<1>3. ASSUME NEW p \in 1..(n + m) PROVE (a \o b)[p] = (x \o y)[p].text
  <2>1. CASE p <= n
    <3>1. p \in 1..n
      BY <1>1, <2>1
    <3> QED
      BY <1>1, <1>2, <2>1, <3>1
  <2>2. CASE ~(p <= n)
    <3>1. p - n \in 1..m
      BY <1>1, <2>2
    <3> QED
      BY <1>1, <1>2, <2>2, <3>1
  <2> QED
    BY <2>1, <2>2
<1> QED
  BY <1>1, <1>3 DEF TextsOf

(* A line's text is what the reader of the whole body would make of it.     *)
LEMMA RenderedIs ==
  ASSUME NEW r \in Stages, NEW i \in 1..Len(r.body)
  PROVE  /\ Rendered(r, i) \in Seq({<<e>> : e \in Words})
         /\ TextsOf(Rendered(r, i), Part(r.path, r.body, i))
<1> DEFINE path == r.path
           body == r.body
           event == body[i].event
           S == {<<e>> : e \in Words}
<1>1. /\ path \in Paths /\ body \in Seq(Items) /\ event \in Events /\ event \in Words
  <2>1. path \in Paths /\ body \in Seq(Items)
    BY StageTypes
  <2> QED
    BY <2>1, WireType, SymbolsShape DEF Words
<1>2. Plain(path, event) \in Words
  BY <1>1, PlainIs
<1>3. "role" \in Words /\ "final" \in Words /\ "stop" \in Words
  BY DEF Words, Events
<1>4. ASSUME NEW e \in Words, NEW n
      PROVE  << <<e>> >> \in Seq(S) /\ TextsOf(<< <<e>> >>, <<Line(<<e>>, n)>>)
  <2> DEFINE x == <<e>>
             y == Line(x, n)
  <2>1. x \in S /\ y.text = x
    BY DEF Line
  <2> HIDE DEF x, y
  <2>2. /\ Len(<<x>>) = 1 /\ Len(<<y>>) = 1 /\ <<x>>[1] = x /\ <<y>>[1] = y
    OBVIOUS
  <2>3. TextsOf(<<x>>, <<y>>)
    BY <2>1, <2>2 DEF TextsOf
  <2>4. <<x>> \in Seq(S)
    BY <2>1, OneInSeq
  <2> QED
    BY <2>3, <2>4 DEF x, y
<1>5. CASE ~IsTranslated(path)
  <2>1. Rendered(r, i) = << <<Plain(path, event)>> >>
        /\ Part(path, body, i) = <<Line(<<Plain(path, event)>>, Counts(path, event))>>
    BY <1>5 DEF Rendered, Part
  <2> HIDE DEF event, path, body, S
  <2> QED
    BY <1>2, <1>4, <2>1 DEF path, body, S
<1>6. CASE IsTranslated(path)
  <2>1. CASE event = "start" /\ ~Seen(body, i - 1, "start")
    <3>1. \A j \in 1..(i - 1) : body[j].event # "start"
      BY <2>1 DEF Seen
    <3>2. Rendered(r, i) = << <<"role">> >> /\ Part(path, body, i) = <<Line(<<"role">>, None)>>
      BY <1>6, <2>1, <3>1 DEF Rendered, Part
    <3> QED
      BY <1>3, <1>4, <3>2
  <2>2. CASE event \in {"delta", "ansi"}
    <3>1. Rendered(r, i) = << <<Plain(path, event)>> >>
          /\ Part(path, body, i) = <<Line(<<Plain(path, event)>>, None)>>
      BY <1>6, <2>2 DEF Rendered, Part
    <3> HIDE DEF event, path, body, S
    <3> QED
      BY <1>2, <1>4, <3>1 DEF path, body, S
  <2>3. CASE event = "stop"
    <3> DEFINE n == IF CountAfter(body, i - 1) = None THEN 0 ELSE CountAfter(body, i - 1)
               a == <<"final">>
               b == <<"stop">>
               x == Line(a, n)
               y == Line(b, None)
    <3>1. Rendered(r, i) = << a, b >> /\ Part(path, body, i) = << x, y >>
      BY <1>6, <2>3 DEF Rendered, Part
    <3>2. a \in S /\ b \in S /\ x.text = a /\ y.text = b
      BY <1>3 DEF Line
    <3> HIDE DEF a, b, x, y, S
    <3>3. /\ Len(<<a, b>>) = 2 /\ Len(<<x, y>>) = 2
          /\ <<a, b>>[1] = a /\ <<a, b>>[2] = b /\ <<x, y>>[1] = x /\ <<x, y>>[2] = y
      OBVIOUS
    <3>4. ASSUME NEW p \in 1..2 PROVE <<a, b>>[p] = <<x, y>>[p].text
      <4>1. p = 1 \/ p = 2
        OBVIOUS
      <4> QED
        BY <3>2, <3>3, <4>1
    <3>5. TextsOf(<<a, b>>, <<x, y>>)
      BY <3>3, <3>4 DEF TextsOf
    <3>6. <<a, b>> \in Seq(S)
      BY <3>2, TwoInSeq
    <3> QED
      BY <3>1, <3>5, <3>6 DEF S
  <2>4. CASE /\ ~(event = "start" /\ ~Seen(body, i - 1, "start"))
             /\ event \notin {"delta", "ansi"} /\ event # "stop"
    <3>1. ~(event = "start" /\ \A j \in 1..(i - 1) : body[j].event # "start")
      BY <2>4 DEF Seen
    <3>2. Rendered(r, i) = << >> /\ Part(path, body, i) = << >>
      BY <1>6, <2>4, <3>1 DEF Rendered, Part
    <3>3. Len(<< >>) = 0 /\ << >> \in Seq(S)
      OBVIOUS
    <3> QED
      BY <3>2, <3>3 DEF TextsOf
  <2> QED
    BY <2>1, <2>2, <2>3, <2>4
<1> QED
  BY <1>5, <1>6

TextOf == {<<e>> : e \in Words}

LEMMA TextsType ==
  ASSUME NEW r \in Stages
  PROVE  /\ Texts(r) \in Seq(Seq(TextOf)) /\ Len(Texts(r)) = Len(r.body) /\ Len(r.body) \in Nat
         /\ \A i \in 1..Len(r.body) : Texts(r)[i] = PassedOn(r, i)
         /\ Forwardable(r) = FlattenSeq(Texts(r))
<1>1. DOMAIN r.body = 1..Len(r.body) /\ Len(r.body) \in Nat
  BY StageTypes
<1>2. Texts(r) = [i \in 1..Len(r.body) |-> PassedOn(r, i)]
  BY <1>1 DEF Texts
<1>3. \A i \in 1..Len(r.body) : PassedOn(r, i) \in Seq(TextOf)
  <2>1. << >> \in Seq(TextOf)
    OBVIOUS
  <2>2. \A i \in 1..Len(r.body) : Rendered(r, i) \in Seq(TextOf)
    BY RenderedIs DEF TextOf
  <2> QED
    BY <2>1, <2>2 DEF PassedOn
<1>4. Forwardable(r) = FlattenSeq(Texts(r))
  BY DEF Forwardable, Texts, PassedOn, Passed
<1>5. /\ Texts(r) \in Seq(Seq(TextOf)) /\ Len(Texts(r)) = Len(r.body)
      /\ \A i \in 1..Len(r.body) : Texts(r)[i] = PassedOn(r, i)
  BY <1>1, <1>2, <1>3
<1> QED
  BY <1>1, <1>4, <1>5

(* The texts of the first k events are those of the lines emitted.          *)
LEMMA TextsOfEmitted ==
  ASSUME NEW r \in Stages, NEW k \in 0..Len(r.body), 1..k \subseteq Passed(r)
  PROVE  TextsOf(FlatTo(Texts(r), k), Emitted(r, k))
<1> DEFINE C == {j \in 0..k : TextsOf(FlatTo(Texts(r), j), Emitted(r, j))}
<1>1. /\ Texts(r) \in Seq(Seq(TextOf)) /\ Len(Texts(r)) = Len(r.body) /\ Len(r.body) \in Nat
      /\ \A i \in 1..Len(r.body) : Texts(r)[i] = PassedOn(r, i)
      /\ k \in Nat /\ r.path \in Paths /\ r.body \in Seq(Items)
  BY TextsType, StageTypes
<1>2. 0 \in C
  <2>1. FlatTo(Texts(r), 0) = << >>
    BY <1>1, FlatEnds
  <2>2. Emitted(r, 0) = << >>
    BY <1>1, EmittedIs
  <2>3. TextsOf(<< >>, << >>)
    <3>1. Len(<< >>) = 0
      OBVIOUS
    <3> QED
      BY <3>1 DEF TextsOf
  <2> QED
    BY <1>1, <2>1, <2>2, <2>3
<1>3. ASSUME NEW j \in 0..(k - 1), j \in C PROVE j + 1 \in C
  <2>1. /\ j \in 0..Len(r.body) /\ j < Len(r.body) /\ j + 1 \in 1..Len(r.body)
        /\ j + 1 \in 1..k /\ j + 1 \in 0..k
    BY <1>1
  <2>2. /\ FlatTo(Texts(r), j) \in Seq(TextOf)
        /\ FlatTo(Texts(r), j + 1) = FlatTo(Texts(r), j) \o Texts(r)[j + 1]
    BY <1>1, <2>1, FlattenUpTo
  <2>3. /\ Emitted(r, j) \in Seq(Lines) /\ Part(r.path, r.body, j + 1) \in Seq(Lines)
        /\ Emitted(r, j + 1) = Emitted(r, j) \o Part(r.path, r.body, j + 1)
    BY <1>1, <2>1, EmittedIs
  <2>4. Texts(r)[j + 1] = Rendered(r, j + 1)
    BY <1>1, <2>1 DEF PassedOn
  <2>5. Rendered(r, j + 1) \in Seq(TextOf)
        /\ TextsOf(Rendered(r, j + 1), Part(r.path, r.body, j + 1))
    BY <2>1, RenderedIs DEF TextOf
  <2>6. TextsOf(FlatTo(Texts(r), j), Emitted(r, j))
    BY <1>3
  <2>7. TextsOf(FlatTo(Texts(r), j) \o Rendered(r, j + 1),
                Emitted(r, j) \o Part(r.path, r.body, j + 1))
    BY <2>2, <2>3, <2>5, <2>6, TextsJoin
  <2> QED
    BY <2>1, <2>2, <2>3, <2>4, <2>7
<1>4. k \in C
  <2> HIDE DEF C
  <2>1. k \in 0..k
    BY <1>1
  <2> QED
    BY <1>1, <1>2, <1>3, <2>1, CountUp
<1> QED
  BY <1>4

(* The reader of the whole body forwards what was emitted, and more only    *)
(* where the body goes on.                                                  *)
LEMMA ForwardableIs ==
  ASSUME NEW r \in Stages, NEW k \in 0..Len(r.body), Taken(r, k)
  PROVE  \E g \in Seq(TextOf), t \in Seq(TextOf) :
           /\ Forwardable(r) = g \o t /\ TextsOf(g, Emitted(r, k))
           /\ r.done /\ r.body[k].event = "stop" => t = << >>
<1> DEFINE n == Len(r.body)
<1>1. /\ Texts(r) \in Seq(Seq(TextOf)) /\ Len(Texts(r)) = n /\ n \in Nat
      /\ \A i \in 1..n : Texts(r)[i] = PassedOn(r, i)
      /\ Forwardable(r) = FlattenSeq(Texts(r)) /\ k \in 0..n /\ n \in k..n
  BY TextsType
<1>2. /\ 1..k \subseteq Passed(r)
      /\ r.done /\ r.body[k].event = "stop" => Passed(r) = 1..k
  BY TakenArePassed
<1>3. TextsOf(FlatTo(Texts(r), k), Emitted(r, k))
  BY <1>2, TextsOfEmitted
<1> HIDE DEF n
<1>4. FlatTo(Texts(r), k) \in Seq(TextOf)
  BY <1>1, FlattenUpTo
<1>5. PICK t \in Seq(TextOf) :
        /\ FlatTo(Texts(r), n) = FlatTo(Texts(r), k) \o t
        /\ (\A i \in (k + 1)..n : Texts(r)[i] = << >>) => t = << >>
  BY <1>1, FlattenSplit
<1>6. Forwardable(r) = FlatTo(Texts(r), k) \o t
  BY <1>1, <1>5, FlatEnds
<1>7. ASSUME r.done, r.body[k].event = "stop" PROVE t = << >>
  <2>1. \A i \in (k + 1)..n : i \in 1..n /\ i \notin 1..k
    BY <1>1
  <2>2. \A i \in (k + 1)..n : Texts(r)[i] = << >>
    BY <1>1, <1>2, <1>7, <2>1 DEF PassedOn
  <2> QED
    BY <1>5, <2>2
<1> QED
  BY <1>3, <1>4, <1>6, <1>7

(* A sequence that agrees with a longer one is its prefix.                  *)
LEMMA PrefixIs ==
  ASSUME NEW S, NEW u \in Seq(S), NEW w \in Seq(S), Len(u) <= Len(w),
         \A p \in 1..Len(u) : u[p] = w[p]
  PROVE  IsPrefix(u, w)
<1> DEFINE n == Len(u)
<1>1. n \in Nat /\ Len(w) \in Nat /\ n <= Len(w)
  BY LenProperties
<1> HIDE DEF n
<1>2. /\ SubSeq(u, 1, n) \in Seq(S) /\ Len(SubSeq(u, 1, n)) = n
      /\ \A p \in 1..n : SubSeq(u, 1, n)[p] = u[p]
  BY <1>1 DEF n
<1>3. /\ SubSeq(w, 1, n) \in Seq(S) /\ Len(SubSeq(w, 1, n)) = n
      /\ \A p \in 1..n : SubSeq(w, 1, n)[p] = w[p]
  BY <1>1
<1>4. \A p \in 1..n : SubSeq(u, 1, n)[p] = SubSeq(w, 1, n)[p]
  BY <1>2, <1>3 DEF n
<1>5. SubSeq(u, 1, n) = SubSeq(w, 1, n)
  BY <1>2, <1>3, <1>4, SeqEqual
<1> QED
  BY <1>1, <1>5 DEF IsPrefix, n

(* The lines at the client are the first ones that are forwarded.           *)
LEMMA StreamInOrder ==
  ASSUME NEW at, NEW r, StreamOk(at, r)
  PROVE  IsPrefix([i \in DOMAIN r.lines |-> r.lines[i].text], Forwardable(r))
<1> DEFINE u == [i \in DOMAIN r.lines |-> r.lines[i].text]
           n == Len(r.lines)
<1>1. CASE at = "idle"
  <2>1. r.lines = << >> /\ r.body = << >>
    BY <1>1 DEF StreamOk, Unopened
  <2>2. DOMAIN << >> = {} /\ << >> \in Seq(TextOf) /\ Len(<< >>) = 0
    OBVIOUS
  <2>3. u = << >>
    BY <2>1, <2>2
  <2>4. Texts(r) = << >>
    BY <2>1, <2>2 DEF Texts
  <2>5. Forwardable(r) = << >>
    BY <2>4, FlattenEmpty DEF Forwardable, Texts, PassedOn, Passed
  <2>6. IsPrefix(<< >>, << >>)
    BY <2>2 DEF IsPrefix
  <2> QED
    BY <2>3, <2>5, <2>6
<1>2. CASE at # "idle"
  <2>1. Kept(at, r) /\ r \in Stages
    BY <1>2 DEF StreamOk, Kept
  <2>2. PICK k \in 0..Len(r.body) : Progress(at, r, k)
    BY <1>2 DEF StreamOk
  <2>3. PICK g \in Seq(TextOf), t \in Seq(TextOf) :
          Forwardable(r) = g \o t /\ TextsOf(g, Emitted(r, k))
    BY <2>1, <2>2, ForwardableIs DEF Progress
  <2>4. /\ n \in Nat /\ r.lines \in Seq(Lines) /\ DOMAIN r.lines = 1..n
    BY <2>1, StageTypes, LenProperties
  <2>5. /\ u \in Seq(TextOf) /\ Len(u) = n /\ \A p \in 1..n : u[p] = r.lines[p].text
    <3>1. \A p \in 1..n : r.lines[p] \in Lines
      BY <2>4, ElementOfSeq
    <3>2. \A p \in 1..n : r.lines[p].text \in TextOf
      BY <3>1 DEF Lines, TextOf
    <3>3. u = [p \in 1..n |-> r.lines[p].text]
      BY <2>4
    <3> HIDE DEF u, n
    <3> QED
      BY <2>4, <3>2, <3>3
  <2>6. /\ n <= Len(g) /\ \A p \in 1..n : u[p] = g[p]
    <3>1. /\ n <= Len(Emitted(r, k)) /\ \A p \in 1..n : r.lines[p] = Emitted(r, k)[p]
      BY <2>2 DEF Progress, Sent
    <3>2. Len(g) = Len(Emitted(r, k)) /\ Len(g) \in Nat
      BY <2>3, LenProperties DEF TextsOf
    <3>3. \A p \in 1..n : p \in 1..Len(Emitted(r, k))
      BY <2>4, <3>1, <3>2
    <3>4. \A p \in 1..n : g[p] = Emitted(r, k)[p].text
      BY <2>3, <3>3 DEF TextsOf
    <3> QED
      BY <2>5, <3>1, <3>2, <3>4
  <2> HIDE DEF u, n
  <2>7. /\ g \o t \in Seq(TextOf) /\ Len(g \o t) = Len(g) + Len(t)
        /\ Len(g) \in Nat /\ Len(t) \in Nat
        /\ \A p \in 1..Len(g) : (g \o t)[p] = g[p]
    <3>1. /\ Len(g \o t) = Len(g) + Len(t) /\ g \o t \in Seq(TextOf)
          /\ \A p \in 1..(Len(g) + Len(t)) :
               (g \o t)[p] = IF p <= Len(g) THEN g[p] ELSE t[p - Len(g)]
      BY ConcatProperties
    <3>2. Len(g) \in Nat /\ Len(t) \in Nat
      BY LenProperties
    <3>3. \A p \in 1..Len(g) : p \in 1..(Len(g) + Len(t)) /\ p <= Len(g)
      BY <3>2
    <3> QED
      BY <3>1, <3>2, <3>3
  <2>8. n <= Len(g \o t) /\ \A p \in 1..n : u[p] = (g \o t)[p]
    <3>1. n <= Len(g) + Len(t) /\ \A p \in 1..n : p \in 1..Len(g)
      BY <2>4, <2>6, <2>7
    <3> QED
      BY <2>6, <2>7, <3>1
  <2>9. IsPrefix(u, g \o t)
    BY <2>5, <2>7, <2>8, PrefixIs
  <2> QED
    BY <2>3, <2>9 DEF u
<1> QED
  BY <1>1, <1>2

(* bytes_stream, drain_sse_events, map_stream_event, the channel and        *)
(* stream_passthrough_response: whatever pieces the bytes arrive in and     *)
(* wherever the body breaks off, the client has been sent a beginning of    *)
(* the lines of its events, each cleaned, in order and once.                *)
THEOREM SentInOrder == Spec => []RelayedInOrder
<1>1. Init => IInv /\ RelayInv
  BY InitMap, InitRelays
<1>2. IInv /\ RelayInv /\ [Next]_vars => IInv' /\ RelayInv'
  BY NextKeeps, NextRelays
<1>3. RelayInv => RelayedInOrder
  BY StreamInOrder DEF RelayInv, RelayedInOrder
<1> QED
  BY <1>1, <1>2, <1>3, PTL DEF Spec

--------------------------------------------------------------------------------
(* What a complete stream is charged                                        *)

(* Lines that count nothing, and do not say stop.                           *)
Silent == {line \in Quiet : line.tokens = None}

(* If each event has lines of a kind, all lines are of that kind.           *)
LEMMA EmittedFrom ==
  ASSUME NEW S, NEW r, r.path \in Paths, r.body \in Seq(Items), NEW k \in 0..Len(r.body),
         \A i \in 1..k : Part(r.path, r.body, i) \in Seq(S)
  PROVE  Emitted(r, k) \in Seq(S)
<1> DEFINE C == {j \in 0..k : Emitted(r, j) \in Seq(S)}
<1>1. Len(r.body) \in Nat /\ k \in Nat
  BY WireType
<1>2. 0 \in C
  <2>1. Emitted(r, 0) = << >>
    <3>1. 0 \in 0..Len(r.body)
      BY <1>1
    <3> HIDE DEF C
    <3> QED
      BY <3>1, EmittedIs
  <2>2. << >> \in Seq(S)
    OBVIOUS
  <2>3. Emitted(r, 0) \in Seq(S)
    BY <2>1, <2>2
  <2>4. 0 \in 0..k
    BY <1>1
  <2> QED
    BY <2>3, <2>4
<1>3. ASSUME NEW j \in 0..(k - 1), j \in C PROVE j + 1 \in C
  <2>1. j \in 0..Len(r.body) /\ j < Len(r.body) /\ j + 1 \in 1..k /\ j + 1 \in 0..k
    BY <1>1
  <2>2. Emitted(r, j + 1) = Emitted(r, j) \o Part(r.path, r.body, j + 1)
    BY <2>1, EmittedIs
  <2>3. Emitted(r, j) \in Seq(S) /\ Part(r.path, r.body, j + 1) \in Seq(S)
    BY <1>3, <2>1
  <2>4. Emitted(r, j) \o Part(r.path, r.body, j + 1) \in Seq(S)
    BY <2>3, ConcatProperties
  <2> QED
    BY <2>1, <2>2, <2>4
<1>4. k \in C
  <2> HIDE DEF C
  <2>1. k \in 0..k
    BY <1>1
  <2> QED
    BY <1>1, <1>2, <1>3, <2>1, CountUp
<1> QED
  BY <1>4

(* The lines of a translated stream, up to its stop, count nothing.         *)
LEMMA PartSilent ==
  ASSUME NEW path \in Paths, NEW body \in Seq(Items), NEW i \in 1..Len(body),
         IsTranslated(path), body[i].event # "stop"
  PROVE  Part(path, body, i) \in Seq(Silent)
<1> DEFINE event == body[i].event
<1>1. event \in Events /\ event \in Words
  BY WireType, SymbolsShape DEF Words
<1>2. Plain(path, event) \in Words /\ (Plain(path, event) = "stop" <=> event = "stop")
  BY <1>1, PlainIs
<1>3. "role" \in Words /\ None \in {None, 0, 1, 3}
  BY DEF Words
<1>4. ASSUME NEW e \in Words, e # "stop" PROVE <<Line(<<e>>, None)>> \in Seq(Silent)
  <2> DEFINE line == Line(<<e>>, None)
  <2>1. line \in Quiet /\ line.tokens = None
    BY <1>3, <1>4, LineTyped
  <2> HIDE DEF line
  <2>2. line \in Silent
    BY <2>1 DEF Silent
  <2> QED
    BY <2>2, OneInSeq DEF line
<1>5. CASE event = "start" /\ ~Seen(body, i - 1, "start")
  <2>1. Part(path, body, i) = <<Line(<<"role">>, None)>>
    BY <1>5 DEF Part
  <2> QED
    BY <1>3, <1>4, <2>1
<1>6. CASE event \in {"delta", "ansi"}
  <2>1. Part(path, body, i) = <<Line(<<Plain(path, event)>>, None)>> /\ event # "stop"
    BY <1>6 DEF Part
  <2> HIDE DEF event
  <2> QED
    BY <1>2, <1>4, <2>1
<1>7. CASE ~(event = "start" /\ ~Seen(body, i - 1, "start")) /\ event \notin {"delta", "ansi"}
  <2>1. Part(path, body, i) = << >>
    BY <1>7 DEF Part
  <2>2. << >> \in Seq(Silent)
    OBVIOUS
  <2> QED
    BY <2>1, <2>2
<1> QED
  BY <1>5, <1>6, <1>7

(* The lines before the stop do not say stop, and a translated stream       *)
(* counts in none of them.                                                  *)
LEMMA QuietBefore ==
  ASSUME NEW r \in Stages, NEW k \in 0..Len(r.body), \A i \in 1..k : r.body[i].event # "stop"
  PROVE  /\ Emitted(r, k) \in Seq(Quiet)
         /\ IsTranslated(r.path) => Emitted(r, k) \in Seq(Silent)
<1>1. r.path \in Paths /\ r.body \in Seq(Items) /\ Len(r.body) \in Nat
  BY StageTypes
<1>2. \A i \in 1..k : i \in 1..Len(r.body)
  BY <1>1
<1>3. \A i \in 1..k : Part(r.path, r.body, i) \in Seq(Quiet)
  BY <1>1, <1>2, PartShape
<1>4. ASSUME IsTranslated(r.path) PROVE \A i \in 1..k : Part(r.path, r.body, i) \in Seq(Silent)
  BY <1>1, <1>2, <1>4, PartSilent
<1> QED
  BY <1>1, <1>3, <1>4, EmittedFrom

(* Where the elements of two sequences are in both joined.                  *)
LEMMA ConcatAt ==
  ASSUME NEW S, NEW T, NEW a \in Seq(S), NEW b \in Seq(T)
  PROVE  /\ Len(a) \in Nat /\ Len(b) \in Nat /\ Len(a \o b) = Len(a) + Len(b)
         /\ \A p \in 1..Len(a) : (a \o b)[p] = a[p]
         /\ \A p \in 1..Len(b) : (a \o b)[Len(a) + p] = b[p]
<1>1. Len(a) \in Nat /\ Len(b) \in Nat
  BY LenProperties
<1>2. a \in Seq(S \cup T) /\ b \in Seq(S \cup T)
  OBVIOUS
<1>3. /\ Len(a \o b) = Len(a) + Len(b)
      /\ \A p \in 1..(Len(a) + Len(b)) : (a \o b)[p] = IF p <= Len(a) THEN a[p] ELSE b[p - Len(a)]
  BY <1>2, ConcatProperties
<1>4. \A p \in 1..Len(a) : p \in 1..(Len(a) + Len(b)) /\ p <= Len(a)
  BY <1>1
<1>5. \A p \in 1..Len(b) : /\ Len(a) + p \in 1..(Len(a) + Len(b)) /\ ~(Len(a) + p <= Len(a))
                           /\ Len(a) + p - Len(a) = p
  BY <1>1
<1> QED
  BY <1>1, <1>3, <1>4, <1>5

(* A terminal line is the last of the lines of the body's last event.       *)
LEMMA TerminalIsLast ==
  ASSUME NEW r \in Stages, NEW k \in 0..Len(r.body), Taken(r, k), Sent(r, Emitted(r, k)),
         r.lines # << >>, IsTerminal(r.path, r.lines[Len(r.lines)])
  PROVE  /\ k \in 1..Len(r.body) /\ r.body[k].event = "stop" /\ r.done
         /\ r.lines = Emitted(r, k)
         /\ \A i \in 1..(k - 1) : r.body[i].event # "stop"
<1> DEFINE n == Len(r.lines)
           L == Len(Emitted(r, k - 1))
           part == Part(r.path, r.body, k)
<1>1. /\ r.path \in Paths /\ r.body \in Seq(Items) /\ Len(r.body) \in Nat /\ k \in Nat
      /\ r.lines \in Seq(Lines) /\ n \in Nat /\ n # 0
  BY StageTypes, EmptySeq
<1>2. /\ Emitted(r, k) \in Seq(Lines) /\ n <= Len(Emitted(r, k)) /\ n \in 1..n
      /\ Len(Emitted(r, k)) \in Nat /\ \A p \in 1..n : r.lines[p] = Emitted(r, k)[p]
  BY <1>1, EmittedIs DEF Sent
<1>3. r.lines[n].text = <<"stop">> /\ r.lines[n] = Emitted(r, k)[n] /\ r.lines[n] \in Lines
  <2>1. r.lines[n] \in Lines /\ Last(r.lines[n].text) = "stop" /\ r.lines[n] = Emitted(r, k)[n]
    BY <1>1, <1>2, ElementOfSeq DEF IsTerminal
  <2>2. PICK e \in Words : r.lines[n].text = <<e>>
    BY <2>1 DEF Lines
  <2>3. Last(<<e>>) = e
    BY OneWord
  <2> QED
    BY <2>1, <2>2, <2>3
<1>4. r.lines[n] \notin Quiet
  BY <1>3 DEF Quiet
<1> HIDE DEF n
<1>5. \A i \in 1..(k - 1) : r.body[i].event # "stop"
  <2>1. \A i \in 1..(k - 1) : i \in 1..k /\ i # k
    BY <1>1
  <2> QED
    BY <2>1 DEF Taken
<1>6. k # 0 /\ r.body[k].event = "stop"
  <2> SUFFICES ASSUME k = 0 \/ r.body[k].event # "stop" PROVE FALSE
    OBVIOUS
  <2>1. \A i \in 1..k : i \in 1..(k - 1) \/ i = k
    BY <1>1
  <2>2. \A i \in 1..k : r.body[i].event # "stop"
    BY <1>1, <1>5, <2>1
  <2>3. Emitted(r, k) \in Seq(Quiet)
    BY <2>2, QuietBefore
  <2>4. n \in 1..Len(Emitted(r, k))
    BY <1>1, <1>2
  <2>5. Emitted(r, k)[n] \in Quiet
    BY <2>3, <2>4, ElementOfSeq
  <2> QED
    BY <1>3, <1>4, <2>5
<1>7. k \in 1..Len(r.body) /\ k \in 1..k /\ k - 1 \in 0..Len(r.body) /\ k - 1 < Len(r.body)
      /\ k - 1 + 1 = k
  BY <1>1, <1>6
<1>8. r.done
  BY <1>6, <1>7 DEF Taken
<1>9. /\ Emitted(r, k - 1) \in Seq(Quiet) /\ part \in Seq(Lines)
      /\ Emitted(r, k) = Emitted(r, k - 1) \o part
  <2>1. Emitted(r, k - 1) \in Seq(Quiet)
    BY <1>5, <1>7, QuietBefore
  <2>2. /\ Emitted(r, k - 1 + 1) = Emitted(r, k - 1) \o Part(r.path, r.body, k - 1 + 1)
        /\ Part(r.path, r.body, k - 1 + 1) \in Seq(Lines)
    BY <1>1, <1>7, EmittedIs
  <2> QED
    BY <1>7, <2>1, <2>2
<1>10. /\ L \in Nat /\ Len(part) \in Nat /\ Len(Emitted(r, k)) = L + Len(part)
       /\ \A p \in 1..L : Emitted(r, k)[p] = Emitted(r, k - 1)[p]
       /\ \A p \in 1..Len(part) : Emitted(r, k)[L + p] = part[p]
  BY <1>9, ConcatAt
<1>11. n > L
  <2> SUFFICES ASSUME n <= L PROVE FALSE
    BY <1>1, <1>10
  <2>1. n \in 1..L
    BY <1>1, <1>10
  <2>2. Emitted(r, k - 1)[n] \in Quiet
    BY <1>9, <2>1, ElementOfSeq
  <2> QED
    BY <1>3, <1>4, <1>10, <2>1, <2>2
<1>12. n = L + Len(part)
  <2>1. CASE ~IsTranslated(r.path)
    <3>1. part = <<Line(<<Plain(r.path, r.body[k].event)>>, Counts(r.path, r.body[k].event))>>
      BY <2>1 DEF Part
    <3>2. Len(part) = 1
      BY <3>1
    <3> HIDE DEF L, part
    <3> QED
      BY <1>1, <1>2, <1>10, <1>11, <3>2
  <2>2. CASE IsTranslated(r.path)
    <3> DEFINE c == IF CountAfter(r.body, k - 1) = None THEN 0 ELSE CountAfter(r.body, k - 1)
               x == Line(<<"final">>, c)
               y == Line(<<"stop">>, None)
    <3>1. part = <<x, y>>
      BY <1>6, <2>2 DEF Part
    <3>2. x.text = <<"final">>
      BY DEF Line
    <3> HIDE DEF x, y
    <3>3. Len(part) = 2 /\ part[1] = x
      BY <3>1
    <3>4. n # L + 1
      <4>1. 1 \in 1..Len(part)
        BY <3>3
      <4>2. Emitted(r, k)[L + 1] = x
        BY <1>10, <3>3, <4>1
      <4>3. <<"final">> # <<"stop">>
        BY OneWord
      <4> QED
        BY <1>3, <3>2, <4>2, <4>3
    <3> HIDE DEF L, part
    <3> QED
      BY <1>1, <1>2, <1>10, <1>11, <3>3, <3>4
  <2> QED
    BY <2>1, <2>2
<1>13. r.lines = Emitted(r, k)
  <2>1. Len(Emitted(r, k)) = n
    BY <1>10, <1>12
  <2> QED
    BY <1>1, <1>2, <2>1, SeqEqual DEF n
<1> QED
  BY <1>5, <1>6, <1>7, <1>8, <1>13

(* A stream whose lines have a line for every event.                        *)
LEMMA NativeCharged ==
  ASSUME NEW r \in Stages, NEW k \in 1..Len(r.body), WellFormed(r.path, r.body),
         ~IsTranslated(r.path), ~(r.path.provider = "openai" /\ r.path.ingress = "anthropic"),
         r.lines = Emitted(r, k), Passed(r) = 1..k
  PROVE  Usage(r.path, r.lines) = Reported(r)
<1> DEFINE path == r.path
           body == r.body
           T == Counted(r.lines)
           events == {body[i].event : i \in Passed(r)}
<1>1. path \in Paths /\ body \in Seq(Items) /\ Len(body) \in Nat /\ k \in Nat /\ k \in 0..Len(body)
      /\ DOMAIN body = 1..Len(body)
  BY StageTypes
<1>2. /\ Len(r.lines) = k /\ r.lines \in Seq(Lines) /\ DOMAIN r.lines = 1..k
      /\ \A p \in 1..k : r.lines[p] = Line(<<Plain(path, body[p].event)>>,
                                           Counts(path, body[p].event))
  <2>1. /\ Len(Emitted(r, k)) = k
        /\ \A p \in 1..k : Emitted(r, k)[p] = Line(<<Plain(path, body[p].event)>>,
                                                   Counts(path, body[p].event))
    BY <1>1, EmittedSingles
  <2>2. r.lines \in Seq(Lines)
    BY StageTypes
  <2> QED
    BY <2>1, <2>2, LenProperties
<1>3. ASSUME NEW p \in 1..k
      PROVE  /\ r.lines[p].tokens = Counts(path, body[p].event)
             /\ r.lines[p].text = <<"start">> <=> body[p].event = "start"
  <2> DEFINE event == body[p].event
  <2>1. event \in Words
    <3>1. p \in 1..Len(body)
      BY <1>1
    <3> QED
      BY <1>1, <3>1, WireType, SymbolsShape DEF Words
  <2>2. r.lines[p] = Line(<<Plain(path, event)>>, Counts(path, event))
    BY <1>2
  <2> HIDE DEF event, path
  <2>3. r.lines[p].tokens = Counts(path, event) /\ r.lines[p].text = <<Plain(path, event)>>
    BY <2>2 DEF Line
  <2>4. r.lines[p].text = <<"start">> <=> Plain(path, event) = "start"
    BY <2>3, OneWord
  <2>5. Plain(path, event) = "start" <=> event = "start"
    BY <2>1, PlainIs
  <2> QED
    BY <2>3, <2>4, <2>5 DEF event
<1>4. T = {p \in 1..k : Counts(path, body[p].event) # None} /\ T \subseteq 1..k
  BY <1>2, <1>3 DEF Counted
<1>5. /\ "usage" \in events <=> \E p \in 1..k : body[p].event = "usage"
      /\ "start" \in events <=> \E p \in 1..k : body[p].event = "start"
  OBVIOUS
<1>6. Reported(r) = IF "usage" \in events THEN 3
                    ELSE IF Shape(path) = "anthropic" /\ "start" \in events THEN 1 ELSE None
  BY DEF Reported, Passed
<1>7. Shape(path) \in {"openai", "anthropic"}
      /\ (Shape(path) = "openai" => path.ingress = "openai")
      /\ (Shape(path) = "anthropic" => path.ingress = "anthropic")
  BY <1>1 DEF Shape, Paths, IsTranslated
<1>8. T # {} => /\ Min(T) \in T /\ Max(T) \in T
                /\ \A y \in T : y <= Max(T)
  BY <1>1, <1>4, LeastOf, GreatestOf
<1> HIDE DEF path, body, events, T
<1>9. CASE Shape(path) = "openai"
  <2>1. \A p \in 1..k : Counts(path, body[p].event) # None <=> body[p].event = "usage"
    BY <1>1, <1>9, CountsIs DEF None
  <2>2. \A p \in T : r.lines[p].tokens = 3
    <3>1. \A p \in T : p \in 1..k /\ body[p].event = "usage"
      BY <1>4, <2>1
    <3> QED
      BY <1>1, <1>3, <3>1, CountsIs
  <2>3. T = {} <=> "usage" \notin events
    BY <1>4, <1>5, <2>1
  <2>4. Usage(path, r.lines) = IF T = {} THEN None ELSE r.lines[Min(T)].tokens
    BY <1>7, <1>9 DEF Usage, T
  <2>5. Usage(path, r.lines) = IF "usage" \in events THEN 3 ELSE None
    BY <1>8, <2>2, <2>3, <2>4
  <2>6. Reported(r) = IF "usage" \in events THEN 3 ELSE None
    BY <1>6, <1>9
  <2> QED
    BY <2>5, <2>6 DEF path
<1>10. CASE Shape(path) = "anthropic"
  <2>1. \A p \in 1..k : Counts(path, body[p].event) # None <=> body[p].event \in {"start", "usage"}
    BY <1>1, <1>10, CountsIs DEF None
  <2>2. Usage(path, r.lines) = IF \E i \in 1..k : body[i].event = "start"
                               THEN r.lines[Max(T)].tokens ELSE None
    <3>1. (\E i \in DOMAIN r.lines : r.lines[i].text = <<"start">>)
            <=> \E i \in 1..k : body[i].event = "start"
      BY <1>2, <1>3
    <3>2. path.ingress # "openai"
      BY <1>7, <1>10
    <3> QED
      BY <1>10, <3>1, <3>2 DEF Usage, T
  <2>3. CASE \E j \in 1..k : body[j].event = "usage"
    <3>1. PICK j \in 1..k : body[j].event = "usage"
      BY <2>3
    <3>2. /\ \E i \in 1..j : body[i].event = "start"
          /\ \A i \in j..Len(body) : body[i].event # "start"
      <4>1. j \in DOMAIN body
        BY <1>1
      <4> QED
        BY <1>10, <3>1, <4>1 DEF WellFormed, path, body
    <3>3. \E i \in 1..k : body[i].event = "start"
      <4>1. \A i \in 1..j : i \in 1..k
        BY <1>1
      <4> QED
        BY <3>2, <4>1
    <3>4. j \in T
      BY <1>4, <2>1, <3>1
    <3>5. Max(T) \in 1..k /\ j <= Max(T) /\ body[Max(T)].event \in {"start", "usage"}
      BY <1>4, <1>8, <2>1, <3>4
    <3>6. Max(T) \in j..Len(body)
      BY <1>1, <3>5
    <3>7. body[Max(T)].event = "usage"
      BY <3>2, <3>5, <3>6
    <3>8. r.lines[Max(T)].tokens = 3
      BY <1>1, <1>3, <3>5, <3>7, CountsIs
    <3>9. Reported(r) = 3
      BY <1>5, <1>6, <1>10, <2>3
    <3> QED
      BY <2>2, <3>3, <3>8, <3>9 DEF path
  <2>4. CASE /\ ~\E j \in 1..k : body[j].event = "usage"
             /\ \E j \in 1..k : body[j].event = "start"
    <3>1. PICK j \in 1..k : body[j].event = "start"
      BY <2>4
    <3>2. j \in T
      BY <1>4, <2>1, <3>1
    <3>3. Max(T) \in 1..k /\ body[Max(T)].event = "start"
      BY <1>4, <1>8, <2>1, <2>4, <3>2
    <3>4. r.lines[Max(T)].tokens = 1
      BY <1>1, <1>3, <1>10, <3>3, CountsIs
    <3>5. Reported(r) = 1
      BY <1>5, <1>6, <1>10, <2>4
    <3> QED
      BY <2>2, <2>4, <3>4, <3>5 DEF path
  <2>5. CASE /\ ~\E j \in 1..k : body[j].event = "usage"
             /\ ~\E j \in 1..k : body[j].event = "start"
    <3>1. Reported(r) = None
      BY <1>5, <1>6, <1>10, <2>5
    <3> QED
      BY <2>2, <2>5, <3>1 DEF path
  <2> QED
    BY <2>3, <2>4, <2>5
<1> QED
  BY <1>7, <1>9, <1>10

(* A translated stream reports its count in the line before the last.       *)
LEMMA TranslatedCharged ==
  ASSUME NEW r \in Stages, NEW k \in 1..Len(r.body), IsTranslated(r.path),
         r.lines = Emitted(r, k), Passed(r) = 1..k, r.body[k].event = "stop",
         \A i \in 1..(k - 1) : r.body[i].event # "stop"
  PROVE  Usage(r.path, r.lines) = Reported(r)
<1> DEFINE path == r.path
           body == r.body
           before == Emitted(r, k - 1)
           L == Len(before)
           c == IF CountAfter(body, k - 1) = None THEN 0 ELSE CountAfter(body, k - 1)
           x == Line(<<"final">>, c)
           y == Line(<<"stop">>, None)
           T == Counted(r.lines)
           events == {body[i].event : i \in Passed(r)}
<1>1. /\ path \in Paths /\ body \in Seq(Items) /\ Len(body) \in Nat /\ k \in Nat
      /\ k - 1 \in 0..Len(body) /\ k - 1 < Len(body) /\ k - 1 + 1 = k /\ k - 1 \in Nat
      /\ r.lines \in Seq(Lines)
  BY StageTypes
<1>2. before \in Seq(Silent)
  BY <1>1, QuietBefore
<1>3. r.lines = before \o <<x, y>>
  <2>1. Emitted(r, k - 1 + 1) = before \o Part(path, body, k - 1 + 1)
    BY <1>1, EmittedIs
  <2>2. Part(path, body, k) = <<x, y>>
    BY DEF Part
  <2> QED
    BY <1>1, <2>1, <2>2
<1>4. x.tokens = c /\ y.tokens = None /\ c # None /\ c \in {0, 1, 3}
  BY CountAfterIs DEF Line, None
<1> HIDE DEF x, y, before
<1>5. /\ L \in Nat /\ Len(r.lines) = L + 2 /\ DOMAIN r.lines = 1..(L + 2)
      /\ \A p \in 1..L : r.lines[p] = before[p]
      /\ r.lines[L + 1] = x /\ r.lines[L + 2] = y
  <2>1. <<x, y>> \in Seq({x, y}) /\ Len(<<x, y>>) = 2 /\ <<x, y>>[1] = x /\ <<x, y>>[2] = y
    BY TwoInSeq
  <2>2. /\ L \in Nat /\ Len(before \o <<x, y>>) = L + Len(<<x, y>>)
        /\ \A p \in 1..L : (before \o <<x, y>>)[p] = before[p]
        /\ \A p \in 1..Len(<<x, y>>) : (before \o <<x, y>>)[L + p] = <<x, y>>[p]
    BY <1>2, <2>1, ConcatAt
  <2>3. 1 \in 1..2 /\ 2 \in 1..2
    OBVIOUS
  <2>4. Len(r.lines) = L + 2 /\ r.lines[L + 1] = x /\ r.lines[L + 2] = y
    BY <1>3, <2>1, <2>2, <2>3
  <2>5. DOMAIN r.lines = 1..Len(r.lines)
    BY <1>1, LenProperties
  <2> QED
    BY <1>3, <2>2, <2>4, <2>5
<1>6. \A p \in 1..L : r.lines[p].tokens = None
  <2>1. \A p \in 1..L : before[p] \in Silent
    BY <1>2, ElementOfSeq
  <2> QED
    BY <1>5, <2>1 DEF Silent
<1> HIDE DEF L, c
<1>7. T = {L + 1}
  <2>1. ASSUME NEW p \in T PROVE p = L + 1
    <3>1. p \in 1..(L + 2) /\ r.lines[p].tokens # None
      BY <1>5 DEF Counted
    <3>2. p \in 1..L \/ p = L + 1 \/ p = L + 2
      BY <1>5, <3>1
    <3> QED
      BY <1>4, <1>5, <1>6, <3>1, <3>2
  <2>2. L + 1 \in 1..(L + 2)
    BY <1>5
  <2>3. L + 1 \in T
    BY <1>4, <1>5, <2>2 DEF Counted
  <2> QED
    BY <2>1, <2>3
<1>8. Usage(path, r.lines) = c
  <2>1. path.ingress = "openai"
    BY DEF IsTranslated
  <2> HIDE DEF T
  <2>2. T \subseteq 1..(L + 1) /\ T # {} /\ L + 1 \in Nat
    BY <1>5, <1>7
  <2>3. Min(T) = L + 1
    BY <1>7, <2>2, LeastOf
  <2> QED
    BY <1>4, <1>5, <1>7, <2>1, <2>2, <2>3 DEF Usage, T
<1>9. /\ "usage" \in events <=> Seen(body, k - 1, "usage")
      /\ "start" \in events <=> Seen(body, k - 1, "start")
  <2>1. 1..k = 1..(k - 1) \cup {k}
    BY <1>1
  <2> QED
    BY <2>1 DEF Seen
<1>10. Reported(r) = IF "usage" \in events THEN 3 ELSE IF "start" \in events THEN 1 ELSE 0
  <2>1. Shape(path) = "anthropic"
    BY DEF Shape, IsTranslated
  <2> QED
    BY <2>1 DEF Reported, Passed
<1>11. c = IF "usage" \in events THEN 3 ELSE IF "start" \in events THEN 1 ELSE 0
  <2> HIDE DEF events
  <2> QED
    BY <1>9 DEF c, CountAfter, None
<1> QED
  BY <1>8, <1>10, <1>11

(* A settled stream that saw its terminal line.                             *)
LEMMA StreamCharged ==
  ASSUME NEW r, StreamOk("settled", r), r.sawDone
  PROVE  Len(r.lines) = Len(Forwardable(r)) /\ r.usage = Reported(r)
<1>1. /\ Kept("settled", r) /\ r \in Stages /\ WellFormed(r.path, r.body)
      /\ r.lines # << >> /\ IsTerminal(r.path, r.lines[Len(r.lines)])
      /\ r.usage = Usage(r.path, r.lines)
  BY DEF StreamOk, Kept
<1>2. PICK k \in 0..Len(r.body) : Progress("settled", r, k)
  BY DEF StreamOk
<1>3. Taken(r, k) /\ Sent(r, Emitted(r, k))
  BY <1>2 DEF Progress
<1>4. /\ k \in 1..Len(r.body) /\ r.body[k].event = "stop" /\ r.done
      /\ r.lines = Emitted(r, k)
      /\ \A i \in 1..(k - 1) : r.body[i].event # "stop"
  BY <1>1, <1>3, TerminalIsLast
<1>5. Passed(r) = 1..k
  BY <1>1, <1>3, <1>4, TakenArePassed
<1>6. Len(r.lines) = Len(Forwardable(r))
  <2>1. PICK g \in Seq(TextOf), t \in Seq(TextOf) :
          /\ Forwardable(r) = g \o t /\ TextsOf(g, Emitted(r, k))
          /\ r.done /\ r.body[k].event = "stop" => t = << >>
    BY <1>1, <1>3, ForwardableIs
  <2>2. Forwardable(r) = g
    BY <1>4, <2>1, ConcatEmptySeq
  <2> QED
    BY <1>4, <2>1, <2>2 DEF TextsOf
<1>7. Usage(r.path, r.lines) = Reported(r)
  <2>1. CASE IsTranslated(r.path)
    BY <1>1, <1>4, <1>5, <2>1, TranslatedCharged
  <2>2. CASE ~IsTranslated(r.path)
    BY <1>1, <1>4, <1>5, <2>2, NativeCharged DEF IsTerminal
  <2> QED
    BY <2>1, <2>2
<1> QED
  BY <1>1, <1>6, <1>7

(* provider_usage_from_sse_lines and the settlement: a stream whose last    *)
(* line was the terminal one has forwarded every line of its body, and the  *)
(* usage it is settled to is what the provider reported for all of it,      *)
(* whichever of the two protocols either side speaks.                       *)
THEOREM CompleteStreamsCharged == Spec => []CompleteIsCharged
<1>1. Init => IInv /\ RelayInv
  BY InitMap, InitRelays
<1>2. IInv /\ RelayInv /\ [Next]_vars => IInv' /\ RelayInv'
  BY NextKeeps, NextRelays
<1>3. RelayInv => CompleteIsCharged
  BY StreamCharged DEF RelayInv, CompleteIsCharged
<1> QED
  BY <1>1, <1>2, <1>3, PTL DEF Spec
================================================================================
