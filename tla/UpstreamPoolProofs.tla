------------------------- MODULE UpstreamPoolProofs -------------------------
(***************************************************************************)
(* Proofs about the upstream pool for every number N of endpoints: the     *)
(* cursor stays in range, no healthy endpoint is starved, and the rotation *)
(* is even.  The argument measures, for every endpoint, how far ahead of   *)
(* the cursor it lies.                                                     *)
(***************************************************************************)
EXTENDS UpstreamPool, WellFoundedInduction, TLAPS

\* The number of steps a scan from `start' takes to reach endpoint i.
Distance(start, i) == IF i >= start THEN i - start ELSE i - start + N

-----------------------------------------------------------------------------

\* Reduction modulo N of a sum of two indexes is one conditional subtraction:
\* what `(next_index_ + offset) % backends_.size()' computes.
LEMMA ModSum ==
  ASSUME NEW a \in Index, NEW b \in Nat, b <= N
  PROVE  (a + b) % N = IF a + b < N THEN a + b ELSE a + b - N
<1> USE NAssumption DEF Index
<1>1. CASE a + b < N
  <2>1. (a + b) % N = a + b
    BY <1>1, SMT
  <2> QED BY <1>1, <2>1
<1>2. CASE a + b >= N
  <2> DEFINE r == a + b - N
  <2>1. r \in 0 .. N-1
    BY <1>2
  <2>2. a + b = N * 1 + r
    OBVIOUS
  <2>3. (a + b) % N = r
    BY <1>2, <2>1, <2>2, SMT
  <2> QED BY <1>2, <2>3
<1> QED BY <1>1, <1>2

\* A non-empty set of natural numbers has a least element, and Min is it.
LEMMA MinIsLeast ==
  ASSUME NEW S \in SUBSET Nat, S # {}
  PROVE  Min(S) \in S /\ \A other \in S : Min(S) <= other
<1> DEFINE Less == {ss \in Nat \X Nat : ss[1] < ss[2]}
<1>1. IsWellFoundedOn(Less, Nat)
  BY NatLessThanWellFounded, Zenon DEF OpToRel
<1> HIDE DEF Less
<1>2. PICK x \in S : \A y \in S : ~(<<y, x>> \in Less)
  BY <1>1, WFMin, Zenon
<1>3. \A y \in S : x <= y
  <2> SUFFICES ASSUME NEW y \in S, y < x
               PROVE  FALSE
    OBVIOUS
  <2>1. <<y, x>> \in Nat \X Nat /\ <<y, x>>[1] < <<y, x>>[2]
    OBVIOUS
  <2> QED BY <1>2, <2>1, Zenon DEF Less
<1> QED BY <1>3, Zenon DEF Min

\* The first healthy endpoint a scan from `start' meets is the one select()
\* returns: it is healthy and no healthy endpoint is nearer.
LEMMA SelectionIsNearest ==
  ASSUME NEW h \in [Index -> BOOLEAN], NEW start \in Index,
         NEW i \in Index, h[i]
  PROVE  LET s == Selection(h, start)
         IN  /\ s \in Index
             /\ h[s]
             /\ Distance(start, s) <= Distance(start, i)
<1> USE NAssumption
<1> DEFINE offsets == HealthyOffsets(h, start)
           s == Selection(h, start)
<1>1. \A offset \in Index : /\ At(start, offset) \in Index
                            /\ Distance(start, At(start, offset)) = offset
  <2> SUFFICES ASSUME NEW offset \in Index
               PROVE  /\ At(start, offset) \in Index
                      /\ Distance(start, At(start, offset)) = offset
    OBVIOUS
  <2>1. At(start, offset) = IF start + offset < N THEN start + offset
                                                  ELSE start + offset - N
    BY ModSum DEF At, Index
  <2> QED BY <2>1 DEF Index, Distance
<1>2. Distance(start, i) \in Index /\ At(start, Distance(start, i)) = i
  <2>1. Distance(start, i) \in Index
    BY DEF Index, Distance
  <2>2. At(start, Distance(start, i)) =
          IF start + Distance(start, i) < N THEN start + Distance(start, i)
                                            ELSE start + Distance(start, i) - N
    <3> DEFINE d == Distance(start, i)
    <3>1. d \in Nat /\ d <= N
      BY <2>1 DEF Index
    <3> HIDE DEF d
    <3>2. At(start, d) = IF start + d < N THEN start + d ELSE start + d - N
      BY <3>1, ModSum DEF At
    <3> QED BY <3>2 DEF d
  <2> QED BY <2>1, <2>2 DEF Index, Distance
<1>3. Distance(start, i) \in offsets
  BY <1>2 DEF HealthyOffsets
<1>4. offsets \in SUBSET Nat
  BY DEF HealthyOffsets, Index
<1>5. Min(offsets) \in offsets /\ Min(offsets) <= Distance(start, i)
  BY <1>3, <1>4, MinIsLeast
<1>6. s = At(start, Min(offsets))
  BY <1>3 DEF Selection
<1>7. Min(offsets) \in Index /\ h[At(start, Min(offsets))]
  BY <1>5 DEF HealthyOffsets
<1> QED BY <1>1, <1>5, <1>6, <1>7

\* After select() returned s, s is the farthest endpoint from the cursor and
\* every endpoint that lay beyond s has come nearer by the same amount.
LEMMA DistanceAfter ==
  ASSUME NEW start \in Index, NEW s \in Index, NEW i \in Index,
         Distance(start, s) <= Distance(start, i)
  PROVE  /\ After(s) \in Index
         /\ Distance(After(s), i) =
              IF i = s THEN N - 1 ELSE Distance(start, i) - Distance(start, s) - 1
<1>1. After(s) = IF s + 1 < N THEN s + 1 ELSE s + 1 - N
  <2>1. 1 \in Nat /\ 1 <= N
    BY NAssumption
  <2> QED BY <2>1, ModSum DEF After
<1> QED BY <1>1, NAssumption DEF Index, Distance

\* Distances are indexes, and distinct endpoints lie at distinct distances.
LEMMA DistanceType ==
  ASSUME NEW start \in Index, NEW i \in Index
  PROVE  /\ Distance(start, i) \in 0 .. N-1
         /\ \A j \in Index : Distance(start, i) = Distance(start, j) => i = j
BY NAssumption DEF Index, Distance

-----------------------------------------------------------------------------
(* The inductive invariant. *)

\* An endpoint passed over b times has come b steps nearer to the cursor.
BypassedComesNearer ==
  \A i \in Index : healthy[i] => bypassed[i] + Distance(next_index, i) <= N - 1

\* The endpoints of the current lap are healthy and lie beyond every healthy
\* endpoint that is still to come; a lap under way has one still to come.
LapLiesBehind ==
  /\ \A i \in lap : healthy[i]
  /\ \A i \in lap, j \in Index \ lap :
       healthy[j] => Distance(next_index, j) < Distance(next_index, i)
  /\ lap # {} => \E j \in Index \ lap : healthy[j]

IInv == TypeOK /\ BypassedComesNearer /\ LapLiesBehind

-----------------------------------------------------------------------------

\* What select() is about to return is not in the current lap.
LEMMA SelectionNotInLap ==
  ASSUME IInv
  PROVE  EvenRotation
<1> DEFINE s == Selection(healthy, next_index)
<1> SUFFICES ASSUME s \in lap PROVE FALSE
  BY DEF EvenRotation
<1>1. PICK j \in Index \ lap : healthy[j]
  BY DEF IInv, LapLiesBehind
<1>2. Distance(next_index, s) <= Distance(next_index, j)
  BY <1>1, SelectionIsNearest DEF IInv, TypeOK
<1>3. Distance(next_index, j) < Distance(next_index, s)
  BY <1>1 DEF IInv, LapLiesBehind
<1>4. s \in Index
  BY DEF IInv, TypeOK
<1>5. Distance(next_index, j) \in Int /\ Distance(next_index, s) \in Int
  BY <1>1, <1>4, DistanceType DEF IInv, TypeOK
<1> HIDE DEF s
<1> QED BY <1>2, <1>3, <1>5

\* select() returning an endpoint preserves the inductive invariant.
LEMMA SelectHealthyPreserves ==
  ASSUME IInv, SelectHealthy
  PROVE  IInv'
<1> DEFINE s == Selection(healthy, next_index)
           D(i) == Distance(next_index, i)
<1> USE NAssumption
<1>1. TypeOK /\ BypassedComesNearer /\ LapLiesBehind
  BY DEF IInv
<1>2. PICK k \in Index : healthy[k]
  <2> SUFFICES ASSUME \A k \in Index : ~healthy[k] PROVE FALSE
    OBVIOUS
  <2>1. \A offset \in Index : At(next_index, offset) \in Index
    BY <1>1 DEF TypeOK, At, Index
  <2>2. HealthyOffsets(healthy, next_index) = {}
    BY <2>1 DEF HealthyOffsets
  <2> QED BY <2>2 DEF SelectHealthy, Selection
<1>3. s \in Index /\ healthy[s]
  BY <1>1, <1>2, SelectionIsNearest DEF TypeOK
<1>4. \A i \in Index : healthy[i] => D(s) <= D(i)
  BY <1>1, SelectionIsNearest DEF TypeOK
<1>5. s \notin lap
  BY SelectionNotInLap DEF EvenRotation
<1>6. /\ next_index' = After(s)
      /\ healthy' = healthy
      /\ selected' = s
      /\ bypassed' = [i \in Index |-> IF i = s \/ ~healthy[i] THEN 0 ELSE bypassed[i] + 1]
      /\ lap' = IF \A i \in Index : healthy[i] => i \in lap \cup {s}
                THEN {} ELSE lap \cup {s}
  BY DEF SelectHealthy
<1>7. \A i \in Index : D(i) \in 0 .. N-1
  BY <1>1, DistanceType DEF TypeOK
<1> HIDE DEF s
<1>8. next_index' \in Index
  <2>1. D(s) <= D(s)
    BY <1>3, <1>7
  <2> QED BY <1>1, <1>3, <1>6, <2>1, DistanceAfter DEF TypeOK
<1>9. \A i \in Index : healthy[i] =>
        Distance(next_index', i) = IF i = s THEN N - 1 ELSE D(i) - D(s) - 1
  BY <1>1, <1>3, <1>4, <1>6, DistanceAfter DEF TypeOK
<1>10. \A i \in Index : healthy[i] /\ i # s => D(s) < D(i)
  BY <1>1, <1>3, <1>4, <1>7, DistanceType DEF TypeOK
<1>11. TypeOK'
  BY <1>1, <1>3, <1>6, <1>8 DEF TypeOK
<1>12. BypassedComesNearer'
  <2> SUFFICES ASSUME NEW i \in Index, healthy[i]
               PROVE  bypassed'[i] + Distance(next_index', i) <= N - 1
    BY <1>6 DEF BypassedComesNearer
  <2>1. CASE i = s
    BY <1>6, <1>9, <2>1
  <2>2. CASE i # s
    <3>1. bypassed[i] + D(i) <= N - 1
      BY <1>1 DEF BypassedComesNearer
    <3>2. bypassed'[i] = bypassed[i] + 1
      BY <1>6, <2>2
    <3>3. Distance(next_index', i) = D(i) - D(s) - 1
      BY <1>9, <2>2
    <3>4. D(i) \in Int /\ D(s) \in Nat /\ bypassed[i] \in Nat
      BY <1>1, <1>3, <1>7 DEF TypeOK
    <3> HIDE DEF D
    <3> QED BY <3>1, <3>2, <3>3, <3>4
  <2> QED BY <2>1, <2>2
<1>13. LapLiesBehind'
  <2>1. CASE lap' = {}
    BY <2>1 DEF LapLiesBehind
  <2>2. CASE lap' # {}
    <3>1. /\ lap' = lap \cup {s}
          /\ \E j \in Index \ lap' : healthy[j]
      BY <1>6, <2>2
    <3>2. \A i \in lap' : healthy'[i]
      BY <1>1, <1>3, <1>6, <3>1 DEF LapLiesBehind
    <3>3. ASSUME NEW i \in lap', NEW j \in Index \ lap', healthy[j]
          PROVE  Distance(next_index', j) < Distance(next_index', i)
      <4>1. Distance(next_index', j) = D(j) - D(s) - 1
        BY <1>9, <3>1, <3>3
      <4>2. i \in Index /\ healthy[i]
        BY <1>1, <1>3, <1>6, <3>1, <3>2 DEF TypeOK
      <4>3. D(i) \in 0 .. N-1 /\ D(j) \in 0 .. N-1 /\ D(s) \in 0 .. N-1
        BY <1>3, <1>7, <4>2
      <4>4. CASE i = s
        <5>1. Distance(next_index', i) = N - 1
          BY <1>9, <4>2, <4>4
        <5> HIDE DEF D
        <5> QED BY <4>1, <4>3, <5>1
      <4>5. CASE i # s
        <5>1. Distance(next_index', i) = D(i) - D(s) - 1
          BY <1>9, <4>2, <4>5
        <5>2. D(j) < D(i)
          BY <1>1, <3>1, <3>3, <4>5 DEF LapLiesBehind
        <5> HIDE DEF D
        <5> QED BY <4>1, <4>3, <5>1, <5>2
      <4> QED BY <4>4, <4>5
    <3> QED BY <1>6, <3>1, <3>2, <3>3 DEF LapLiesBehind
  <2> QED BY <2>1, <2>2
<1> QED BY <1>11, <1>12, <1>13 DEF IInv

\* A flag that changes preserves the inductive invariant: it starts a new lap
\* and forgets how often the endpoint was passed over.
LEMMA SetHealthyPreserves ==
  ASSUME IInv, NEW k \in Index, NEW h \in BOOLEAN, SetHealthy(k, h)
  PROVE  IInv'
<1>1. TypeOK'
  BY DEF IInv, TypeOK, SetHealthy
<1>2. BypassedComesNearer'
  <2> SUFFICES ASSUME NEW i \in Index, healthy'[i]
               PROVE  bypassed'[i] + Distance(next_index, i) <= N - 1
    BY DEF BypassedComesNearer, SetHealthy
  <2>1. Distance(next_index, i) \in 0 .. N-1
    BY DistanceType DEF IInv, TypeOK
  <2>2. CASE i = k
    BY <2>1, <2>2, NAssumption DEF IInv, TypeOK, SetHealthy
  <2>3. CASE i # k
    BY <2>3 DEF IInv, TypeOK, SetHealthy, BypassedComesNearer
  <2> QED BY <2>2, <2>3
<1>3. LapLiesBehind'
  BY DEF SetHealthy, LapLiesBehind
<1> QED BY <1>1, <1>2, <1>3 DEF IInv

\* The inductive invariant holds in every reachable state.
THEOREM Inductive == Spec => []IInv
<1>1. Init => IInv
  <2> SUFFICES ASSUME Init PROVE IInv
    OBVIOUS
  <2>1. TypeOK
    BY NAssumption DEF Init, TypeOK, Index, NoUpstream
  <2>2. BypassedComesNearer
    BY NAssumption DEF Init, BypassedComesNearer, Index, Distance
  <2>3. LapLiesBehind
    BY DEF Init, LapLiesBehind
  <2> QED BY <2>1, <2>2, <2>3 DEF IInv
<1>2. IInv /\ [Next]_vars => IInv'
  <2> SUFFICES ASSUME IInv, [Next]_vars PROVE IInv'
    OBVIOUS
  <2>1. CASE SelectHealthy
    BY <2>1, SelectHealthyPreserves
  <2>2. CASE SelectNone
    BY <2>2 DEF SelectNone, IInv, TypeOK, BypassedComesNearer, LapLiesBehind
  <2>3. ASSUME NEW i \in Index, NEW h \in BOOLEAN, SetHealthy(i, h)
        PROVE  IInv'
    BY <2>3, SetHealthyPreserves
  <2>4. CASE UNCHANGED vars
    BY <2>4 DEF vars, IInv, TypeOK, BypassedComesNearer, LapLiesBehind
  <2> QED BY <2>1, <2>2, <2>3, <2>4 DEF Next
<1> QED BY <1>1, <1>2, PTL DEF Spec

\* The pool's cursor and answers stay in range for every number of endpoints.
THEOREM TypeCorrect == Spec => []TypeOK
<1>1. IInv => TypeOK
  BY DEF IInv
<1> QED BY <1>1, Inductive, PTL

\* For every number of endpoints, N consecutive successful calls of select()
\* return every endpoint that stays healthy.
THEOREM NoStarvation == Spec => []BoundedBypass
<1>1. IInv => BoundedBypass
  <2> SUFFICES ASSUME IInv, NEW i \in Index, healthy[i]
               PROVE  bypassed[i] < N
    BY DEF BoundedBypass
  <2>1. Distance(next_index, i) \in 0 .. N-1
    BY DistanceType DEF IInv, TypeOK
  <2> QED BY <2>1, NAssumption DEF IInv, TypeOK, BypassedComesNearer
<1> QED BY <1>1, Inductive, PTL

\* For every number of endpoints, select() repeats none before it has returned
\* every healthy one.
THEOREM RotationIsEven == Spec => []EvenRotation
<1>1. IInv => EvenRotation
  BY SelectionNotInLap
<1> QED BY <1>1, Inductive, PTL

\* For every number of endpoints, a nullopt from select() means that all of
\* them were marked unhealthy.
THEOREM NoneMeansAllDown == Spec => NoneOnlyWhenAllDown
<1>1. IInv /\ [Next]_vars =>
        [selected' # selected /\ selected' = NoUpstream
           => \A i \in Index : ~healthy[i]]_vars
  <2> SUFFICES ASSUME IInv, Next, selected' # selected, selected' = NoUpstream,
                      NEW i \in Index, healthy[i]
               PROVE  FALSE
    BY DEF vars
  <2>1. Selection(healthy, next_index) \in Index
    BY SelectionIsNearest DEF IInv, TypeOK
  <2>2. Selection(healthy, next_index) # NoUpstream
    BY <2>1, NAssumption DEF Index, NoUpstream
  <2> QED BY <2>2 DEF Next, SelectHealthy, SelectNone, SetHealthy
<1> QED BY <1>1, Inductive, PTL DEF Spec, NoneOnlyWhenAllDown
=============================================================================
