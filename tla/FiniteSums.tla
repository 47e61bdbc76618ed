-------------------------------- MODULE FiniteSums --------------------------------
(****************************************************************************)
(* Sums over finite sets, as MapThenSumSet defines them, and the maximum of *)
(* a finite set of integers.  The proofs are by induction over the subsets  *)
(* of a finite set.                                                         *)
(****************************************************************************)
EXTENDS Integers, FiniteSetsExt, FiniteSetTheorems, TLAPS

(* The member MapThenSumSet takes first.                                    *)
AnyOf(s) == CHOOSE x \in s : TRUE

(* The sum of f[x] over the members x of S.                                 *)
SumOver(f, S) == MapThenSumSet(LAMBDA x : f[x], S)

(* The function g on the subsets of S is the sum of f over each.            *)
SumsBy(g, f, S) ==
  g = [s \in SUBSET S |-> IF s = {} THEN 0 ELSE f[AnyOf(s)] + g[s \ {AnyOf(s)}]]

(* MapThenSumSet chooses a function on the subsets that sums by taking one  *)
(* member after the other; what follows is about any such function.         *)
LEMMA SumChosen ==
  ASSUME NEW f, NEW S, NEW g, SumsBy(g, f, S)
  PROVE  \E h : SumsBy(h, f, S) /\ SumOver(f, S) = h[S]
<1>1. SumsBy((CHOOSE h : SumsBy(h, f, S)), f, S)
  OBVIOUS
<1>2. SumOver(f, S) = (CHOOSE h : SumsBy(h, f, S))[S]
  BY DEF SumOver, MapThenSumSet, MapThenFoldSet, SumsBy, AnyOf
<1> QED
  BY <1>1, <1>2

(* A set of subsets of S has one without smaller ones (the library's well-  *)
(* founded ordering of finite subsets).                                     *)
LEMMA SmallestSubset ==
  ASSUME NEW S, NEW T, T \subseteq FiniteSubsetsOf(S), T # {}
  PROVE  \E s \in T : \A u \in T : u \subseteq s => u = s
<1>1. PICK s \in T : \A u \in T : ~(<<u, s>> \in StrictSubsetOrdering(S))
  BY FS_StrictSubsetOrderingWellFounded, WFMin
<1>2. ASSUME NEW u \in T, u \subseteq s, u # s
      PROVE  FALSE
  <2>1. u \in SUBSET S /\ s \in SUBSET S
    BY DEF FiniteSubsetsOf
  <2>2. <<u, s>> \in StrictSubsetOrdering(S)
    BY <1>2, <2>1 DEF StrictSubsetOrdering
  <2> QED
    BY <1>1, <2>2
<1> QED
  BY <1>2

(* A property of the subsets of a finite set, given as the set C of those   *)
(* that have it, holds of all of them when it holds of each whose strict    *)
(* subsets have it.                                                         *)
LEMMA SubsetInduction ==
  ASSUME NEW S, IsFiniteSet(S), NEW C,
         \A s \in SUBSET S : (\A u \in SUBSET s : u # s => u \in C) => s \in C
  PROVE  \A s \in SUBSET S : s \in C
<1> DEFINE T == {s \in SUBSET S : s \notin C}
<1>1. T \subseteq FiniteSubsetsOf(S)
  BY FS_FiniteSubsetsOfFinite
<1>2. SUFFICES ASSUME T # {} PROVE FALSE
  OBVIOUS
<1>3. PICK s \in T : \A u \in T : u \subseteq s => u = s
  <2> HIDE DEF T
  <2> QED
    BY <1>1, <1>2, SmallestSubset
<1>4. \A u \in SUBSET s : u # s => u \in C
  BY <1>3
<1> QED
  BY <1>4

(* Two such functions agree where both are defined.                         *)
LEMMA SumsAgree ==
  ASSUME NEW f, NEW U, NEW V, NEW g, NEW h, SumsBy(g, f, U), SumsBy(h, f, V),
         NEW s, s \subseteq U, s \subseteq V, IsFiniteSet(s)
  PROVE  g[s] = h[s]
<1> DEFINE C == {u \in SUBSET s : g[u] = h[u]}
<1>1. ASSUME NEW u \in SUBSET s, \A v \in SUBSET u : v # u => v \in C
      PROVE  u \in C
  <2>1. u \in SUBSET U /\ u \in SUBSET V
    OBVIOUS
  <2>2. CASE u = {}
    BY <2>1, <2>2 DEF SumsBy
  <2>3. CASE u # {}
    <3>1. AnyOf(u) \in u
      BY <2>3 DEF AnyOf
    <3>2. g[u \ {AnyOf(u)}] = h[u \ {AnyOf(u)}]
      BY <1>1, <3>1
    <3> QED
      BY <2>1, <2>3, <3>2 DEF SumsBy
  <2> QED
    BY <2>2, <2>3
<1>2. \A u \in SUBSET s : u \in C
  <2> HIDE DEF C
  <2> QED
    BY <1>1, SubsetInduction
<1> QED
  BY <1>2

(* There is one for every finite set.                                       *)
LEMMA SumExists ==
  ASSUME NEW f, NEW S, IsFiniteSet(S)
  PROVE  \E g : SumsBy(g, f, S)
<1> DEFINE h(u) == CHOOSE g : SumsBy(g, f, u)
           C == {u \in SUBSET S : SumsBy(h(u), f, u)}
<1>1. ASSUME NEW u \in SUBSET S, \A v \in SUBSET u : v # u => v \in C
      PROVE  u \in C
  <2> DEFINE rest(s) == s \ {AnyOf(s)}
             G == [s \in SUBSET u |-> IF s = {} THEN 0 ELSE f[AnyOf(s)] + h(rest(s))[rest(s)]]
  <2>1. ASSUME NEW s \in SUBSET u, s # {}
        PROVE  G[rest(s)] = h(rest(s))[rest(s)]
    <3> DEFINE v == rest(s)
    <3>1. v \in SUBSET u /\ v # u
      BY <2>1 DEF AnyOf
    <3>2. SumsBy(h(v), f, v)
      BY <1>1, <3>1
    <3>3. CASE v = {}
      BY <3>1, <3>2, <3>3 DEF SumsBy
    <3>4. CASE v # {}
      <4>1. AnyOf(v) \in v
        BY <3>4 DEF AnyOf
      <4>2. rest(v) \in SUBSET v /\ rest(v) # u /\ rest(v) \in SUBSET u
        BY <3>1, <4>1
      <4>3. SumsBy(h(rest(v)), f, rest(v))
        BY <1>1, <4>2
      <4>4. IsFiniteSet(rest(v))
        BY <4>2, FS_Subset
      <4>5. h(v)[rest(v)] = h(rest(v))[rest(v)]
        <5> HIDE DEF h, v, rest
        <5> QED
          BY <3>2, <4>2, <4>3, <4>4, SumsAgree
      <4>6. h(v)[v] = f[AnyOf(v)] + h(v)[rest(v)]
        BY <3>2, <3>4 DEF SumsBy
      <4>7. G[v] = f[AnyOf(v)] + h(rest(v))[rest(v)]
        BY <3>1, <3>4
      <4> QED
        BY <4>5, <4>6, <4>7
    <3> QED
      BY <3>3, <3>4
  <2>2. SumsBy(G, f, u)
    <3>1. ASSUME NEW s \in SUBSET u
          PROVE  G[s] = IF s = {} THEN 0 ELSE f[AnyOf(s)] + G[rest(s)]
      <4>1. G[s] = IF s = {} THEN 0 ELSE f[AnyOf(s)] + h(rest(s))[rest(s)]
        OBVIOUS
      <4> HIDE DEF G, h, rest
      <4> QED
        BY <2>1, <4>1
    <3>2. G = [s \in SUBSET u |-> G[s]]
      OBVIOUS
    <3> HIDE DEF G
    <3> QED
      BY <3>1, <3>2 DEF SumsBy
  <2> HIDE DEF G
  <2>3. SumsBy(h(u), f, u)
    BY <2>2
  <2> QED
    BY <2>3
<1>2. S \in C
  <2> HIDE DEF C
  <2> QED
    BY <1>1, SubsetInduction
<1> QED
  BY <1>2

(* A sum is the value of one member plus the sum over the others.           *)
LEMMA SumDef ==
  ASSUME NEW f, NEW S, IsFiniteSet(S)
  PROVE  SumOver(f, S) = IF S = {} THEN 0 ELSE f[AnyOf(S)] + SumOver(f, S \ {AnyOf(S)})
<1>1. PICK g : SumsBy(g, f, S) /\ SumOver(f, S) = g[S]
  BY SumExists, SumChosen
<1> DEFINE U == S \ {AnyOf(S)}
<1>2. IsFiniteSet(U) /\ U \subseteq S
  BY FS_Subset
<1>3. PICK h : SumsBy(h, f, U) /\ SumOver(f, U) = h[U]
  <2> HIDE DEF U
  <2> QED
    BY <1>2, SumExists, SumChosen
<1>4. g[U] = h[U]
  <2> HIDE DEF U
  <2> QED
    BY <1>1, <1>2, <1>3, SumsAgree
<1>5. g[S] = IF S = {} THEN 0 ELSE f[AnyOf(S)] + g[U]
  BY <1>1 DEF SumsBy
<1> QED
  BY <1>1, <1>3, <1>4, <1>5

(* A sum of integers is an integer, of naturals a natural.                  *)
LEMMA SumInt ==
  ASSUME NEW f, NEW S, IsFiniteSet(S), \A x \in S : f[x] \in Int
  PROVE  /\ SumOver(f, S) \in Int
         /\ (\A x \in S : f[x] >= 0) => SumOver(f, S) >= 0
<1> DEFINE C == {u \in SUBSET S : /\ SumOver(f, u) \in Int
                                  /\ (\A x \in u : f[x] >= 0) => SumOver(f, u) >= 0}
<1>1. ASSUME NEW u \in SUBSET S, \A v \in SUBSET u : v # u => v \in C
      PROVE  u \in C
  <2>1. IsFiniteSet(u)
    BY FS_Subset
  <2>2. CASE u = {}
    <3>1. SumOver(f, u) = 0
      BY <2>1, <2>2, SumDef
    <3> QED
      BY <3>1
  <2>3. CASE u # {}
    <3>1. AnyOf(u) \in u /\ u \ {AnyOf(u)} \in C
      BY <1>1, <2>3 DEF AnyOf
    <3>2. SumOver(f, u) = f[AnyOf(u)] + SumOver(f, u \ {AnyOf(u)})
      BY <2>1, <2>3, SumDef
    <3> QED
      BY <3>1, <3>2
  <2> QED
    BY <2>2, <2>3
<1>2. S \in C
  <2> HIDE DEF C
  <2> QED
    BY <1>1, SubsetInduction
<1> QED
  BY <1>2

(* Any member may be taken first.                                           *)
LEMMA SumTake ==
  ASSUME NEW f, NEW S, IsFiniteSet(S), \A x \in S : f[x] \in Int, NEW x \in S
  PROVE  SumOver(f, S) = f[x] + SumOver(f, S \ {x})
<1> DEFINE C == {u \in SUBSET S : \A y \in u : SumOver(f, u) = f[y] + SumOver(f, u \ {y})}
<1>1. ASSUME NEW u \in SUBSET S, \A v \in SUBSET u : v # u => v \in C, NEW y \in u
      PROVE  SumOver(f, u) = f[y] + SumOver(f, u \ {y})
  <2> DEFINE p == AnyOf(u)
             up == u \ {p}
             uy == u \ {y}
             rest == up \ {y}
  <2>1. IsFiniteSet(u) /\ IsFiniteSet(uy) /\ IsFiniteSet(rest) /\ p \in u
    BY FS_Subset DEF AnyOf
  <2>2. SumOver(f, u) = f[p] + SumOver(f, up)
    BY <2>1, SumDef
  <2>3. CASE p = y
    BY <2>2, <2>3
  <2>4. CASE p # y
    <3>1. up \in C /\ uy \in C /\ y \in up /\ p \in uy
      BY <1>1, <2>1, <2>4
    <3>2. SumOver(f, up) = f[y] + SumOver(f, rest)
      BY <3>1
    <3>3. SumOver(f, uy) = f[p] + SumOver(f, rest)
      <4>1. SumOver(f, uy) = f[p] + SumOver(f, uy \ {p})
        BY <3>1
      <4>2. uy \ {p} = rest
        OBVIOUS
      <4> QED
        BY <4>1, <4>2
    <3>4. f[p] \in Int /\ f[y] \in Int /\ SumOver(f, rest) \in Int
      <4> HIDE DEF C
      <4> QED
        BY <2>1, SumInt
    <3> HIDE DEF p, up, uy, rest, C
    <3>5. SumOver(f, u) = f[y] + SumOver(f, uy)
      BY <2>2, <3>2, <3>3, <3>4
    <3> QED
      BY <3>5 DEF uy
  <2> QED
    BY <2>3, <2>4
<1>2. S \in C
  <2>1. \A u \in SUBSET S : (\A v \in SUBSET u : v # u => v \in C) => u \in C
    BY <1>1
  <2> HIDE DEF C
  <2> QED
    BY <2>1, SubsetInduction
<1> QED
  BY <1>2

(* The sum depends on the values at the members only.                       *)
LEMMA SumSame ==
  ASSUME NEW f, NEW g, NEW S, IsFiniteSet(S), \A x \in S : f[x] = g[x]
  PROVE  SumOver(f, S) = SumOver(g, S)
<1> DEFINE C == {u \in SUBSET S : SumOver(f, u) = SumOver(g, u)}
<1>1. ASSUME NEW u \in SUBSET S, \A v \in SUBSET u : v # u => v \in C
      PROVE  u \in C
  <2>1. IsFiniteSet(u)
    BY FS_Subset
  <2>2. CASE u = {}
    BY <2>1, <2>2, SumDef
  <2>3. CASE u # {}
    <3>1. AnyOf(u) \in u /\ u \ {AnyOf(u)} \in C
      BY <1>1, <2>3 DEF AnyOf
    <3> QED
      BY <2>1, <2>3, <3>1, SumDef
  <2> QED
    BY <2>2, <2>3
<1>2. S \in C
  <2> HIDE DEF C
  <2> QED
    BY <1>1, SubsetInduction
<1> QED
  BY <1>2

(* A finite set of integers that has a member has a largest one.            *)
LEMMA LargestOf ==
  ASSUME NEW S \in SUBSET Int, IsFiniteSet(S), S # {}
  PROVE  \E m \in S : \A j \in S : j <= m
<1> DEFINE C == {u \in SUBSET S : u # {} => \E m \in u : \A j \in u : j <= m}
<1>1. ASSUME NEW u \in SUBSET S, \A v \in SUBSET u : v # u => v \in C
      PROVE  u \in C
  <2> SUFFICES ASSUME NEW x \in u
               PROVE  \E m \in u : \A j \in u : j <= m
    OBVIOUS
  <2>1. u \ {x} \in C
    BY <1>1
  <2>2. CASE u \ {x} = {}
    <3>1. u = {x} /\ x \in Int
      BY <2>2
    <3> QED
      BY <3>1
  <2>3. CASE u \ {x} # {}
    <3>1. PICK m \in u \ {x} : \A j \in u \ {x} : j <= m
      BY <2>1, <2>3
    <3>2. x \in Int /\ m \in Int /\ u \subseteq Int
      OBVIOUS
    <3>3. CASE x <= m
      BY <3>1, <3>3
    <3>4. CASE m <= x
      BY <3>1, <3>2, <3>4
    <3> QED
      BY <3>2, <3>3, <3>4
  <2> QED
    BY <2>2, <2>3
<1>2. S \in C
  <2> HIDE DEF C
  <2> QED
    BY <1>1, SubsetInduction
<1> QED
  BY <1>2

(* The sum over a part is no more than that over the whole, where nothing   *)
(* is negative.                                                             *)
LEMMA SumOfPart ==
  ASSUME NEW f, NEW S, IsFiniteSet(S), \A x \in S : f[x] \in Nat, NEW U \in SUBSET S
  PROVE  SumOver(f, U) <= SumOver(f, S)
<1> DEFINE rest == S \ U
           C == {u \in SUBSET rest : SumOver(f, U) <= SumOver(f, U \cup u)}
<1>1. IsFiniteSet(rest) /\ \A u \in SUBSET rest : IsFiniteSet(U \cup u) /\ U \cup u \in SUBSET S
  BY FS_Subset
<1>2. \A u \in SUBSET S : IsFiniteSet(u) => SumOver(f, u) \in Int
  BY SumInt
<1>3. ASSUME NEW u \in SUBSET rest, \A v \in SUBSET u : v # u => v \in C
      PROVE  u \in C
  <2>1. CASE u = {}
    <3>1. U \cup u = U
      BY <2>1
    <3>2. SumOver(f, U) \in Int
      BY <1>2, FS_Subset
    <3> QED
      BY <3>1, <3>2
  <2>2. ASSUME NEW x \in u PROVE u \in C
    <3> DEFINE v == u \ {x}
    <3>1. v \in C
      BY <1>3
    <3>2. (U \cup u) \ {x} = U \cup v
      OBVIOUS
    <3>3. IsFiniteSet(U \cup u) /\ (\A y \in U \cup u : f[y] \in Int) /\ x \in U \cup u
      BY <1>1
    <3>4. SumOver(f, U \cup u) = f[x] + SumOver(f, U \cup v)
      <4>1. SumOver(f, U \cup u) = f[x] + SumOver(f, (U \cup u) \ {x})
        BY <3>3, SumTake
      <4> QED
        BY <3>2, <4>1
    <3>5. SumOver(f, U) \in Int /\ SumOver(f, U \cup v) \in Int /\ f[x] \in Nat
      <4>1. U \in SUBSET S /\ IsFiniteSet(U) /\ U \cup v \in SUBSET S /\ IsFiniteSet(U \cup v)
        BY <1>1, FS_Subset
      <4> QED
        BY <1>2, <4>1
    <3>6. SumOver(f, U) <= SumOver(f, U \cup v)
      BY <3>1
    <3> HIDE DEF v
    <3>7. SumOver(f, U) <= SumOver(f, U \cup u)
      BY <3>4, <3>5, <3>6
    <3> QED
      BY <3>7
  <2> QED
    BY <2>1, <2>2
<1> HIDE DEF C
<1>4. rest \in C
  <2>1. \A u \in SUBSET rest : (\A v \in SUBSET u : v # u => v \in C) => u \in C
    BY <1>3
  <2> HIDE DEF rest
  <2> QED
    BY <1>1, <2>1, SubsetInduction
<1>5. U \cup rest = S
  OBVIOUS
<1> QED
  BY <1>4, <1>5 DEF C

(* The values of a function on a finite set are finitely many.              *)
LEMMA ImageFinite ==
  ASSUME NEW f, NEW S, IsFiniteSet(S)
  PROVE  IsFiniteSet({f[x] : x \in S})
<1> DEFINE T == {f[x] : x \in S}
           g == [x \in S |-> f[x]]
<1>1. g \in Surjection(S, T)
  BY DEF Surjection
<1> HIDE DEF T, g
<1>2. IsFiniteSet(T)
  BY <1>1, FS_Surjection
<1> QED
  BY <1>2 DEF T
==================================================================================
