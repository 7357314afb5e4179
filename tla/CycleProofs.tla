------------------------------ MODULE CycleProofs ------------------------------
(***************************************************************************)
(* Theorems of Cycle, for every number of participants: check_cyclic does  *)
(* not depend on where it starts, distance_from_leader gives everybody a   *)
(* distance of its own that grows by one along target, and the loops of    *)
(* both end with these answers within their bounds.                        *)
(***************************************************************************)
EXTENDS Cycle, Integers, FiniteSetTheorems, TLAPS

-----------------------------------------------------------------------------
(* Induction on the natural numbers in terms of sets, which needs no       *)
(* operator to be instantiated: strict inclusion of finite sets is well    *)
(* founded.                                                                *)

\* A set of natural numbers has a least one.
LEMMA Least ==
    ASSUME NEW S \in SUBSET Nat, S # {}
    PROVE  \E n \in S : \A m \in S : n <= m
<1> DEFINE T == {0 .. n : n \in S}
<1>1. IsWellFoundedOn(StrictSubsetOrdering(Nat), FiniteSubsetsOf(Nat))
  BY FS_StrictSubsetOrderingWellFounded
<1>2. T \subseteq FiniteSubsetsOf(Nat)
  <2>1. ASSUME NEW n \in S PROVE 0 .. n \in FiniteSubsetsOf(Nat)
    <3>1. IsFiniteSet(0 .. n)
      BY FS_Interval
    <3>2. 0 .. n \in SUBSET Nat
      OBVIOUS
    <3>3. QED
      BY <3>1, <3>2 DEF FiniteSubsetsOf
  <2>2. QED
    BY <2>1
<1>3. T # {}
  OBVIOUS
<1>4. PICK I \in T : \A J \in T : <<J, I>> \notin StrictSubsetOrdering(Nat)
  BY <1>1, <1>2, <1>3, WFMin, Zenon
<1>5. PICK n \in S : I = 0 .. n
  OBVIOUS
<1>6. ASSUME NEW m \in S, m < n PROVE FALSE
  <2>1. <<0 .. m, 0 .. n>> \in StrictSubsetOrdering(Nat)
    <3>1. 0 .. m \subseteq 0 .. n /\ n \in 0 .. n /\ n \notin 0 .. m
      BY <1>6
    <3>2. 0 .. m \subseteq Nat /\ 0 .. n \subseteq Nat
      OBVIOUS
    <3>3. QED
      BY <3>1, <3>2 DEF StrictSubsetOrdering
  <2>2. 0 .. m \in T
    OBVIOUS
  <2>3. QED
    BY <1>4, <1>5, <2>1, <2>2
<1>7. QED
  BY <1>6

\* What holds of 0, and of n + 1 if it does of n, holds of every number.
LEMMA Induct ==
    ASSUME NEW S, 0 \in S, \A n \in Nat : n \in S => n + 1 \in S
    PROVE  Nat \subseteq S
<1> DEFINE T == Nat \ S
<1> SUFFICES ASSUME T # {} PROVE FALSE
  OBVIOUS
<1>1. PICK n \in T : \A m \in T : n <= m
  BY Least
<1>2. n # 0 /\ n - 1 \in Nat
  OBVIOUS
<1>3. n - 1 \in S
  BY <1>1, <1>2
<1>4. QED
  BY <1>2, <1>3

-----------------------------------------------------------------------------
(* The walk.                                                               *)

\* The function that Walk defines recursively exists.
LEMMA WalkExists ==
    ASSUME NEW target, NEW start
    PROVE  \E f : f = [n \in Nat |-> IF n = 0 THEN start ELSE target[f[n - 1]]]
<1> DEFINE Prefix(n, g) ==
        g = [i \in 0 .. n |-> IF i = 0 THEN start ELSE target[g[i - 1]]]
<1>1. \A n \in Nat : \E g : Prefix(n, g)
  <2> DEFINE S == {n \in Nat : \E g : Prefix(n, g)}
  <2>1. 0 \in S
    <3>1. Prefix(0, [i \in 0 .. 0 |-> start])
      OBVIOUS
    <3>2. QED
      BY <3>1
  <2>2. ASSUME NEW n \in Nat, n \in S PROVE n + 1 \in S
    <3>1. PICK g : Prefix(n, g)
      BY <2>2
    <3> DEFINE h == [i \in 0 .. n + 1 |-> IF i = n + 1 THEN target[g[n]] ELSE g[i]]
    <3>2. ASSUME NEW i \in 0 .. n + 1
          PROVE  h[i] = IF i = 0 THEN start ELSE target[h[i - 1]]
      <4>1. CASE i = n + 1
        BY <4>1
      <4>2. CASE i # n + 1
        <5>1. i \in 0 .. n /\ i - 1 # n + 1 /\ (i # 0 => i - 1 \in 0 .. n)
          BY <4>2
        <5>2. g[i] = IF i = 0 THEN start ELSE target[g[i - 1]]
          BY <3>1, <5>1
        <5>3. QED
          BY <5>1, <5>2
      <4>3. QED
        BY <4>1, <4>2
    <3>3. Prefix(n + 1, h)
      BY <3>2
    <3> HIDE DEF h, Prefix
    <3>4. QED
      BY <3>3
  <2>3. QED
    BY <2>1, <2>2, Induct
<1>2. ASSUME NEW m \in Nat, NEW n \in Nat, NEW g, NEW h, Prefix(m, g), Prefix(n, h)
      PROVE  \A i \in (0 .. m) \cap (0 .. n) : g[i] = h[i]
  <2> DEFINE S == {i \in Nat : i <= m /\ i <= n => g[i] = h[i]}
  <2>1. 0 \in S
    BY <1>2
  <2>2. ASSUME NEW i \in Nat, i \in S PROVE i + 1 \in S
    <3> SUFFICES ASSUME i + 1 <= m, i + 1 <= n PROVE g[i + 1] = h[i + 1]
      OBVIOUS
    <3>1. g[i + 1] = target[g[i]] /\ h[i + 1] = target[h[i]]
      BY <1>2
    <3>2. g[i] = h[i]
      BY <2>2
    <3>3. QED
      BY <3>1, <3>2
  <2>3. Nat \subseteq S
    BY <2>1, <2>2, Induct
  <2>4. QED
    BY <2>3
<1> DEFINE G(n) == CHOOSE g : Prefix(n, g)
           f == [n \in Nat |-> G(n)[n]]
<1>3. \A n \in Nat : Prefix(n, G(n))
  BY <1>1
<1> HIDE DEF G
<1>4. ASSUME NEW n \in Nat
      PROVE  f[n] = IF n = 0 THEN start ELSE target[f[n - 1]]
  <2>1. G(n)[n] = IF n = 0 THEN start ELSE target[G(n)[n - 1]]
    BY <1>3
  <2>2. n # 0 => n - 1 \in Nat /\ G(n)[n - 1] = G(n - 1)[n - 1]
    <3> SUFFICES ASSUME n # 0 PROVE n - 1 \in Nat /\ G(n)[n - 1] = G(n - 1)[n - 1]
      OBVIOUS
    <3>1. n - 1 \in Nat /\ n - 1 \in (0 .. n) \cap (0 .. n - 1)
      OBVIOUS
    <3> HIDE DEF Prefix
    <3>2. QED
      BY <1>2, <1>3, <3>1
  <2>3. QED
    BY <2>1, <2>2
<1>5. f = [n \in Nat |-> IF n = 0 THEN start ELSE target[f[n - 1]]]
  BY <1>4
<1>6. QED
  BY <1>5

LEMMA WalkStep ==
    ASSUME NEW target, NEW start
    PROVE  /\ Walk(target, start)[0] = start
           /\ \A n \in Nat :
                 Walk(target, start)[n + 1] = target[Walk(target, start)[n]]
<1> DEFINE f == Walk(target, start)
<1>1. f = [n \in Nat |-> IF n = 0 THEN start ELSE target[f[n - 1]]]
  BY WalkExists DEF Walk
<1> HIDE DEF f
<1>2. f[0] = start /\ \A n \in Nat : f[n + 1] = target[f[n]]
  BY <1>1
<1>3. QED
  BY <1>2 DEF f

LEMMA WalkInside ==
    ASSUME NEW participants, NEW target, NEW start \in participants,
           \A p \in participants : target[p] \in participants
    PROVE  \A n \in Nat : Walk(target, start)[n] \in participants
<1> DEFINE W == Walk(target, start)
           S == {n \in Nat : W[n] \in participants}
<1>1. W[0] = start /\ \A n \in Nat : W[n + 1] = target[W[n]]
  BY WalkStep
<1> HIDE DEF W
<1>2. 0 \in S /\ \A n \in Nat : n \in S => n + 1 \in S
  BY <1>1
<1>3. Nat \subseteq S
  BY <1>2, Induct
<1>4. QED
  BY <1>3 DEF W

\* A walk goes on from where it has got to as if it started there.
LEMMA WalkGoesOn ==
    ASSUME NEW target, NEW start
    PROVE  \A m \in Nat : \A n \in Nat :
              Walk(target, start)[m + n] = Walk(target, Walk(target, start)[m])[n]
<1> SUFFICES ASSUME NEW m \in Nat
             PROVE  \A n \in Nat :
                Walk(target, start)[m + n] = Walk(target, Walk(target, start)[m])[n]
  OBVIOUS
<1> DEFINE W == Walk(target, start)
           V == Walk(target, W[m])
           S == {n \in Nat : W[m + n] = V[n]}
<1>1. W[0] = start /\ \A n \in Nat : W[n + 1] = target[W[n]]
  BY WalkStep
<1>2. V[0] = W[m] /\ \A n \in Nat : V[n + 1] = target[V[n]]
  BY WalkStep
<1> HIDE DEF W, V
<1>3. 0 \in S
  BY <1>2
<1>4. ASSUME NEW n \in Nat, n \in S PROVE n + 1 \in S
  <2>1. W[m + n + 1] = target[W[m + n]]
    BY <1>1
  <2>2. m + (n + 1) = m + n + 1
    OBVIOUS
  <2>3. W[m + (n + 1)] = V[n + 1]
    BY <1>2, <1>4, <2>1, <2>2
  <2>4. QED
    BY <2>3
<1>5. Nat \subseteq S
  BY <1>3, <1>4, Induct
<1>6. QED
  BY <1>5 DEF W, V

\* The walk that check_cyclic accepts visits everybody once and comes round.
LEMMA WalkComesRound ==
    ASSUME NEW participants, IsFiniteSet(participants), NEW target,
           \A p \in participants : target[p] \in participants,
           NEW start \in participants,
           {n \in 1 .. Cardinality(participants) : Walk(target, start)[n] = start}
               = {Cardinality(participants)}
    PROVE  LET N == Cardinality(participants)
               W == Walk(target, start)
           IN  /\ N \in Nat \ {0}
               /\ W[N] = start
               /\ \A i, j \in 0 .. N - 1 : W[i] = W[j] => i = j
               /\ \A p \in participants : \E i \in 0 .. N - 1 : W[i] = p
<1> DEFINE N == Cardinality(participants)
           W == Walk(target, start)
<1>1. N \in Nat
  BY FS_CardinalityType
<1>2. N \in 1 .. N /\ W[N] = start
  OBVIOUS
<1>3. N \in Nat \ {0}
  BY <1>1, <1>2
<1>4. \A n \in 1 .. N : W[n] = start => n = N
  OBVIOUS
<1>5. ASSUME NEW i \in 0 .. N - 1, NEW j \in 0 .. N - 1, i < j, W[i] = W[j]
      PROVE  FALSE
  <2>1. \A m \in Nat : \A n \in Nat : W[m + n] = Walk(target, W[m])[n]
    BY WalkGoesOn
  <2> HIDE DEF N, W
  <2>2. /\ W[i + (N - j)] = Walk(target, W[i])[N - j]
        /\ W[j + (N - j)] = Walk(target, W[j])[N - j]
    BY <1>1, <2>1
  <2>3. j + (N - j) = N /\ i + (N - j) \in 1 .. N /\ i + (N - j) # N
    BY <1>1, <1>5
  <2>4. W[i + (N - j)] = start
    BY <1>2, <1>5, <2>2, <2>3
  <2>5. QED
    BY <1>4, <2>3, <2>4
<1>6. \A n \in Nat : W[n] \in participants
  BY WalkInside
<1> HIDE DEF W, N
<1>7. \A i, j \in 0 .. N - 1 : W[i] = W[j] => i = j
  <2> SUFFICES ASSUME NEW i \in 0 .. N - 1, NEW j \in 0 .. N - 1, W[i] = W[j], i # j
               PROVE  FALSE
    OBVIOUS
  <2>1. i < j \/ j < i
    BY <1>1
  <2>2. QED
    BY <1>5, <2>1
<1>8. \A p \in participants : \E i \in 0 .. N - 1 : W[i] = p
  <2> DEFINE f == [i \in 0 .. N - 1 |-> W[i]]
  <2>1. f \in Injection(0 .. N - 1, participants)
    BY <1>1, <1>6, <1>7 DEF Injection, IsInjective
  <2>2. IsFiniteSet(0 .. N - 1) /\ Cardinality(0 .. N - 1) = N
    BY <1>3, FS_Interval
  <2>3. f \in Surjection(0 .. N - 1, participants)
    BY <2>1, <2>2, FS_Injection DEF N
  <2>4. QED
    BY <2>3 DEF Surjection
<1>9. QED
  BY <1>2, <1>3, <1>7, <1>8 DEF N, W

-----------------------------------------------------------------------------
(* The cycle, seen from anybody.                                           *)

\* From the leader, too, the walk visits everybody once, the leader last.
LEMMA LeaderWalk ==
    ASSUME NEW participants, IsFiniteSet(participants), NEW target,
           CheckCyclic(participants, target), NEW leader \in participants
    PROVE  LET N == Cardinality(participants)
               L == Walk(target, leader)
           IN  /\ N \in Nat \ {0}
               /\ L[N] = leader
               /\ \A i, j \in 1 .. N : L[i] = L[j] => i = j
               /\ \A p \in participants : \E i \in 1 .. N : L[i] = p
               /\ \A n \in Nat : L[n + 1] = target[L[n]]
<1> DEFINE N == Cardinality(participants)
           L == Walk(target, leader)
<1>1. PICK start \in participants :
          {n \in 1 .. N : Walk(target, start)[n] = start} = {N}
  BY DEF CheckCyclic
<1> DEFINE W == Walk(target, start)
<1>2. /\ N \in Nat \ {0}
      /\ W[N] = start
      /\ \A i, j \in 0 .. N - 1 : W[i] = W[j] => i = j
      /\ \A p \in participants : \E i \in 0 .. N - 1 : W[i] = p
  BY <1>1, WalkComesRound DEF CheckCyclic
<1>3. PICK l \in 0 .. N - 1 : W[l] = leader
  BY <1>2
<1> HIDE DEF N
<1>4. \A n \in Nat : W[l + n] = L[n]
  <2>1. \A m \in Nat : \A n \in Nat : W[m + n] = Walk(target, W[m])[n]
    BY WalkGoesOn
  <2>2. l \in Nat
    BY <1>2
  <2>3. \A n \in Nat : W[l + n] = Walk(target, W[l])[n]
    BY <2>1, <2>2
  <2>4. QED
    BY <1>3, <2>3
<1>5. \A n \in Nat : W[N + n] = W[n]
  <2>1. \A m \in Nat : \A n \in Nat : W[m + n] = Walk(target, W[m])[n]
    BY WalkGoesOn
  <2>2. \A n \in Nat : W[N + n] = Walk(target, W[N])[n]
    BY <1>2, <2>1
  <2>3. QED
    BY <1>2, <2>2
<1>6. \A n \in Nat : L[n + 1] = target[L[n]]
  BY WalkStep
<1> HIDE DEF W, L
\* The places on the walk from start that the walk from the leader takes.
<1> DEFINE At(n) == IF l + n < N THEN l + n ELSE l + n - N
<1>7. ASSUME NEW n \in 1 .. N
      PROVE  At(n) \in 0 .. N - 1 /\ L[n] = W[At(n)]
  <2>1. CASE l + n < N
    BY <1>2, <1>4, <2>1
  <2>2. CASE ~(l + n < N)
    <3>1. l + n - N \in 0 .. N - 1 /\ l + n = N + (l + n - N)
      BY <1>2, <2>2
    <3>2. W[N + (l + n - N)] = W[l + n - N]
      BY <1>5, <3>1
    <3>3. QED
      BY <1>4, <2>2, <3>1, <3>2
  <2>3. QED
    BY <2>1, <2>2
<1>8. L[N] = leader
  <2>1. N \in 1 .. N /\ At(N) = l
    BY <1>2
  <2>2. QED
    BY <1>3, <1>7, <2>1
<1>9. ASSUME NEW i \in 1 .. N, NEW j \in 1 .. N, L[i] = L[j] PROVE i = j
  <2>1. At(i) = At(j)
    <3> HIDE DEF At
    <3>1. QED
      BY <1>2, <1>7, <1>9
  <2>2. QED
    BY <1>2, <2>1
<1>10. ASSUME NEW p \in participants PROVE \E i \in 1 .. N : L[i] = p
  <2>1. PICK k \in 0 .. N - 1 : W[k] = p
    BY <1>2
  <2> DEFINE n == IF l < k THEN k - l ELSE k - l + N
  <2>2. n \in 1 .. N /\ At(n) = k
    BY <1>2
  <2>3. QED
    BY <1>7, <2>1, <2>2
<1>11. QED
  BY <1>2, <1>6, <1>8, <1>9, <1>10 DEF N, L

\* utils.rs:411: the walk starts at the smallest key, and whether a graph is
\* accepted does not depend on which key that is.
THEOREM AnyStart ==
    ASSUME NEW participants, IsFiniteSet(participants), NEW target,
           CheckCyclic(participants, target), NEW start \in participants
    PROVE  {n \in 1 .. Cardinality(participants) : Walk(target, start)[n] = start}
               = {Cardinality(participants)}
<1> DEFINE N == Cardinality(participants)
           L == Walk(target, start)
<1>1. /\ N \in Nat \ {0}
      /\ L[N] = start
      /\ \A i, j \in 1 .. N : L[i] = L[j] => i = j
  BY LeaderWalk
<1> HIDE DEF N, L
<1>2. {n \in 1 .. N : L[n] = start} = {N}
  BY <1>1
<1>3. QED
  BY <1>2 DEF N, L

\* utils.rs:585: distance_from_leader finds everybody, at a distance of its
\* own, the leader last, its target first and the target of everybody else one
\* hop further.
THEOREM HopByHop ==
    ASSUME NEW participants, IsFiniteSet(participants), NEW target,
           CheckCyclic(participants, target), NEW leader \in participants
    PROVE  LET Distance(p) == DistanceFromLeader(participants, target, p, leader)
           IN  /\ Distance(leader) = Cardinality(participants)
               /\ Distance(target[leader]) = 1
               /\ \A p \in participants : Distance(p) \in 1 .. Cardinality(participants)
               /\ \A p, q \in participants : Distance(p) = Distance(q) => p = q
               /\ \A p \in participants \ {leader} :
                     Distance(target[p]) = Distance(p) + 1
<1> DEFINE N == Cardinality(participants)
           L == Walk(target, leader)
           Distance(p) == DistanceFromLeader(participants, target, p, leader)
<1>1. /\ N \in Nat \ {0}
      /\ L[N] = leader
      /\ \A i, j \in 1 .. N : L[i] = L[j] => i = j
      /\ \A p \in participants : \E i \in 1 .. N : L[i] = p
      /\ \A n \in Nat : L[n + 1] = target[L[n]]
  BY LeaderWalk
<1>2. ASSUME NEW p, NEW i \in 1 .. N, L[i] = p
      PROVE  Distance(p) = i
  <2> DEFINE reached == {n \in 1 .. N : L[n] = p}
  <2>1. Distance(p) = CHOOSE n \in reached : \A m \in reached : n <= m
    BY DEF DistanceFromLeader
  <2> HIDE DEF N, L, Distance
  <2>2. reached = {i}
    BY <1>1, <1>2
  <2> HIDE DEF reached
  <2>3. QED
    BY <1>1, <2>1, <2>2
<1>3. \A p \in participants : target[p] \in participants
  BY DEF CheckCyclic
<1> HIDE DEF N, L, Distance
<1>4. \A p \in participants : Distance(p) \in 1 .. N /\ L[Distance(p)] = p
  BY <1>1, <1>2
<1>5. Distance(leader) = N
  BY <1>1, <1>2
<1>6. ASSUME NEW p \in participants \ {leader}
      PROVE  Distance(target[p]) = Distance(p) + 1
  <2>1. Distance(p) # N
    BY <1>1, <1>4
  <2>2. Distance(p) \in Nat /\ Distance(p) + 1 \in 1 .. N
    BY <1>1, <1>4, <2>1
  <2>3. L[Distance(p) + 1] = target[p]
    BY <1>1, <1>4, <2>2
  <2>4. QED
    BY <1>2, <2>2, <2>3
<1>7. Distance(target[leader]) = 1
  <2>1. L[0] = leader /\ L[0 + 1] = target[L[0]]
    BY <1>1, WalkStep DEF L
  <2>2. 1 \in 1 .. N
    BY <1>1
  <2>3. QED
    BY <1>2, <2>1, <2>2
<1>8. QED
  BY <1>4, <1>5, <1>6, <1>7 DEF N, Distance

\* Everybody is the target of somebody.
LEMMA EveryoneTargeted ==
    ASSUME NEW participants, IsFiniteSet(participants), NEW target,
           CheckCyclic(participants, target), NEW q \in participants
    PROVE  \E p \in participants : target[p] = q
<1> DEFINE N == Cardinality(participants)
           L == Walk(target, q)
<1>1. /\ N \in Nat \ {0} /\ L[N] = q
      /\ \A n \in Nat : L[n + 1] = target[L[n]]
  BY LeaderWalk
<1>2. \A n \in Nat : L[n] \in participants
  <2>1. \A p \in participants : target[p] \in participants
    BY DEF CheckCyclic
  <2>2. QED
    BY <2>1, WalkInside
<1> HIDE DEF N, L
<1>3. N - 1 \in Nat /\ (N - 1) + 1 = N
  BY <1>1
<1>4. target[L[N - 1]] = q /\ L[N - 1] \in participants
  BY <1>1, <1>2, <1>3
<1>5. QED
  BY <1>4


-----------------------------------------------------------------------------
(* The loops of utils.rs, whose rounds are the hops of Walk.               *)

\* The loop of check_cyclic stops at the first return to its start, or after one
\* hop more than there are participants (utils.rs:415-427).  It answers what
\* CheckCyclic says: a first return after n hops is a cycle exactly if everybody
\* was visited, and a walk that has not returned by then is in a sub-cycle.
THEOREM LoopDecides ==
    ASSUME NEW participants, IsFiniteSet(participants), NEW target,
           \A p \in participants : target[p] \in participants \ {p},
           NEW start \in participants
    PROVE  LET N == Cardinality(participants)
               W == Walk(target, start)
               FirstReturn(n) == W[n] = start /\ \A m \in 1 .. n - 1 : W[m] # start
           IN  /\ \A n \in 1 .. N + 1 :
                     FirstReturn(n) => (CheckCyclic(participants, target) <=> n = N)
               /\ (\A n \in 1 .. N + 1 : ~FirstReturn(n))
                     => ~CheckCyclic(participants, target)
<1> DEFINE N == Cardinality(participants)
           W == Walk(target, start)
           FirstReturn(n) == W[n] = start /\ \A m \in 1 .. n - 1 : W[m] # start
           back == {m \in 1 .. N : W[m] = start}
           cyclic == CheckCyclic(participants, target)
<1>1. N \in Nat
  BY FS_CardinalityType
<1>2. cyclic => back = {N}
  BY AnyStart
<1>3. back = {N} => cyclic
  BY DEF CheckCyclic
<1> HIDE DEF W, cyclic, N
<1>4. ASSUME NEW n \in 1 .. N + 1, FirstReturn(n) PROVE cyclic <=> n = N
  <2>1. n = N => back = {N}
    BY <1>1, <1>4
  <2>2. back = {N} => n = N
    BY <1>1, <1>4
  <2>3. QED
    BY <1>2, <1>3, <2>1, <2>2
<1>5. ASSUME \A n \in 1 .. N + 1 : ~FirstReturn(n), cyclic PROVE FALSE
  <2>1. back = {N}
    BY <1>2, <1>5
  <2>2. N \in 1 .. N /\ FirstReturn(N)
    BY <1>1, <2>1
  <2>3. QED
    BY <1>1, <1>5, <2>2
<1>6. QED
  BY <1>4, <1>5 DEF N, W, cyclic

\* In a session that check_cyclic let pass, the loop of distance_from_leader
\* finds every participant within one round, so that it never panics, and the
\* hop at which it finds it first is the distance (utils.rs:593-603).
THEOREM LeaderFindsAll ==
    ASSUME NEW participants, IsFiniteSet(participants), NEW target,
           CheckCyclic(participants, target),
           NEW leader \in participants, NEW from \in participants
    PROVE  LET N == Cardinality(participants)
               L == Walk(target, leader)
           IN  \E n \in 1 .. N :
                  /\ L[n] = from
                  /\ \A m \in 1 .. n - 1 : L[m] # from
                  /\ n = DistanceFromLeader(participants, target, from, leader)
<1> DEFINE N == Cardinality(participants)
           L == Walk(target, leader)
           reached == {m \in 1 .. N : L[m] = from}
<1>1. /\ N \in Nat \ {0}
      /\ \A i, j \in 1 .. N : L[i] = L[j] => i = j
      /\ \A p \in participants : \E i \in 1 .. N : L[i] = p
  BY LeaderWalk
<1>2. DistanceFromLeader(participants, target, from, leader)
         = CHOOSE m \in reached : \A k \in reached : m <= k
  BY DEF DistanceFromLeader
<1> HIDE DEF N, L
<1>3. PICK n \in 1 .. N : L[n] = from
  BY <1>1
<1>4. reached = {n}
  BY <1>1, <1>3
<1> HIDE DEF reached
<1>5. n = DistanceFromLeader(participants, target, from, leader)
  <2>1. \A k \in reached : n <= k
    BY <1>3, <1>4, <1>1
  <2>2. QED
    BY <1>2, <1>4, <2>1
<1>6. \A m \in 1 .. n - 1 : L[m] # from
  BY <1>1, <1>3
<1>7. QED
  BY <1>3, <1>5, <1>6 DEF N, L

================================================================================
