----------------------- MODULE RequestCoalescerProofs -----------------------
(***************************************************************************)
(* Proofs about request coalescing for any sets of callers and keys: a     *)
(* flight has one leader, a waiter has one callback, and complete()        *)
(* answers the callers of its own flight.                                  *)
(***************************************************************************)
EXTENDS RequestCoalescer, TLAPS

-----------------------------------------------------------------------------
(* Queues of callbacks. *)

\* push_back adds one callback, and no duplicate of one that is not there.
LEMMA PushBack ==
  ASSUME NEW q \in Seq(Callers), NEW c \in Callers
  PROVE  /\ Append(q, c) \in Seq(Callers)
         /\ Range(Append(q, c)) = Range(q) \cup {c}
         /\ IsInjective(q) /\ c \notin Range(q) => IsInjective(Append(q, c))
<1> DEFINE r == Append(q, c)
<1>1. /\ r \in Seq(Callers)
      /\ DOMAIN q = 1 .. Len(q)
      /\ DOMAIN r = 1 .. Len(q) + 1
      /\ \A i \in 1 .. Len(q) : r[i] = q[i]
      /\ r[Len(q) + 1] = c
      /\ Len(q) \in Nat
  OBVIOUS
<1> HIDE DEF r
<1>2. Range(r) = Range(q) \cup {c}
  BY <1>1 DEF Range
<1>3. ASSUME IsInjective(q), c \notin Range(q)
      PROVE  IsInjective(r)
  BY <1>1, <1>3 DEF IsInjective, Range
<1> QED BY <1>1, <1>2, <1>3 DEF r

\* Taking the first callback of a queue without duplicates leaves the others.
LEMMA PopFront ==
  ASSUME NEW q \in Seq(Callers), q # <<>>
  PROVE  /\ Head(q) \in Callers
         /\ Head(q) \in Range(q)
         /\ Tail(q) \in Seq(Callers)
         /\ IsInjective(q) => /\ IsInjective(Tail(q))
                              /\ Range(Tail(q)) = Range(q) \ {Head(q)}
<1> DEFINE r == Tail(q)
           h == Head(q)
<1>1. /\ r \in Seq(Callers)
      /\ h = q[1]
      /\ Len(q) \in Nat \ {0}
      /\ DOMAIN q = 1 .. Len(q)
      /\ DOMAIN r = 1 .. Len(q) - 1
      /\ \A i \in 1 .. Len(q) - 1 : r[i] = q[i + 1]
  OBVIOUS
<1>2. q[1] \in Callers
  BY <1>1
<1> HIDE DEF r, h
<1>3. h \in Range(q)
  BY <1>1 DEF Range
<1>4. ASSUME IsInjective(q)
      PROVE  IsInjective(r) /\ Range(r) = Range(q) \ {h}
  <2>1. IsInjective(r)
    BY <1>1, <1>4 DEF IsInjective
  <2>2. Range(r) \subseteq Range(q) \ {h}
    BY <1>1, <1>4 DEF IsInjective, Range
  <2>3. ASSUME NEW w \in Range(q), w # h
        PROVE  w \in Range(r)
    <3>1. PICK i \in 1 .. Len(q) : q[i] = w
      BY <1>1 DEF Range
    <3>2. i - 1 \in 1 .. Len(q) - 1 /\ r[i - 1] = w
      BY <1>1, <2>3, <3>1
    <3> QED BY <1>1, <3>2 DEF Range
  <2> QED BY <2>1, <2>2, <2>3
<1> QED BY <1>1, <1>2, <1>3, <1>4 DEF r, h

\* A new flight has no callbacks.
LEMMA EmptyQueue ==
  /\ <<>> \in Seq(Callers)
  /\ Range(<<>>) = {}
  /\ IsInjective(<<>>)
BY DEF Range, IsInjective

-----------------------------------------------------------------------------
(* The inductive invariant. *)

\* A callback in flights_ is that of a waiter that asked for the flight's key
\* and joined it under the leader it still has.
FlightsHoldJoined ==
  \A k \in DOMAIN flights :
    /\ IsInjective(flights[k])
    /\ \A w \in Range(flights[k]) :
         role[w] = "waiter" /\ key[w] = k /\ joined[w] = Leaders(k)

\* A callback in the vector of a complete() is that of a waiter of the flight
\* which that call has ended.
VectorsHoldJoined ==
  \A c \in Callers :
    /\ IsInjective(waiters[c])
    /\ waiters[c] # <<>> => role[c] = "notifying"
    /\ \A w \in Range(waiters[c]) :
         role[w] = "waiter" /\ key[w] = key[c] /\ joined[w] = {c}

\* No waiter is forgotten.
WaitersAreHeld ==
  \A w \in Callers :
    role[w] = "waiter" => \/ \E k \in DOMAIN flights : w \in Range(flights[k])
                          \/ \E c \in Callers : w \in Range(waiters[c])

IInv ==
  /\ TypeOK
  /\ OneLeader
  /\ FlightsHoldJoined
  /\ VectorsHoldJoined
  /\ WaitersAreHeld

-----------------------------------------------------------------------------

\* Starting a flight preserves the inductive invariant.
LEMMA StartPreserves ==
  ASSUME IInv, NEW c \in Callers, NEW k \in Keys, Start(c, k)
  PROVE  IInv'
<1> USE NoKeyAssumption
<1>1. /\ TypeOK /\ OneLeader /\ FlightsHoldJoined /\ VectorsHoldJoined /\ WaitersAreHeld
      /\ role[c] = "idle" /\ k \notin DOMAIN flights
      /\ role' = [role EXCEPT ![c] = "leader"]
      /\ key' = [key EXCEPT ![c] = k]
      /\ waiters' = waiters /\ joined' = joined
  BY DEF IInv, Start, Leads
<1>2. /\ DOMAIN flights' = DOMAIN flights \cup {k}
      /\ flights'[k] = <<>>
      /\ \A j \in DOMAIN flights : flights'[j] = flights[j]
  BY <1>1 DEF Start, Joined, Leads
<1>3. \A j \in Keys : Leaders(j)' = IF j = k THEN {c} ELSE Leaders(j)
  <2>1. Leaders(k) = {}
    BY <1>1 DEF OneLeader
  <2> QED BY <1>1, <2>1 DEF Leaders, TypeOK
<1>4. TypeOK'
  BY <1>1, <1>2, EmptyQueue, Zenon DEF TypeOK, Roles
<1>5. OneLeader'
  BY <1>1, <1>2, <1>3 DEF OneLeader
<1>6. \A w \in Callers : role[w] = "waiter" => role'[w] = "waiter" /\ key'[w] = key[w]
  BY <1>1 DEF TypeOK
<1>7. FlightsHoldJoined'
  <2> SUFFICES ASSUME NEW j \in DOMAIN flights'
               PROVE  /\ IsInjective(flights'[j])
                      /\ \A w \in Range(flights'[j]) :
                           role'[w] = "waiter" /\ key'[w] = j /\ joined'[w] = Leaders(j)'
    BY DEF FlightsHoldJoined
  <2>1. CASE j = k
    BY <1>2, <2>1, EmptyQueue
  <2>2. CASE j # k
    <3>1. j \in DOMAIN flights /\ flights'[j] = flights[j] /\ j \in Keys
      BY <1>1, <1>2, <2>2 DEF TypeOK
    <3>2. Range(flights[j]) \subseteq Callers
      BY <1>1, <3>1 DEF TypeOK, Range
    <3> QED BY <1>1, <1>3, <1>6, <2>2, <3>1, <3>2 DEF FlightsHoldJoined
  <2> QED BY <2>1, <2>2
<1>8. VectorsHoldJoined'
  <2>1. \A d \in Callers : Range(waiters[d]) \subseteq Callers
    BY <1>1 DEF TypeOK, Range
  <2>2. waiters[c] = <<>>
    BY <1>1 DEF VectorsHoldJoined
  <2> QED BY <1>1, <1>6, <2>1, <2>2, EmptyQueue DEF VectorsHoldJoined, TypeOK
<1>9. WaitersAreHeld'
  BY <1>1, <1>2, Zenon DEF WaitersAreHeld, TypeOK
<1> QED BY <1>4, <1>5, <1>7, <1>8, <1>9 DEF IInv

\* Joining a flight preserves the inductive invariant.
LEMMA JoinPreserves ==
  ASSUME IInv, NEW c \in Callers, NEW k \in Keys, Join(c, k)
  PROVE  IInv'
<1> USE NoKeyAssumption
<1>1. /\ TypeOK /\ OneLeader /\ FlightsHoldJoined /\ VectorsHoldJoined /\ WaitersAreHeld
      /\ role[c] = "idle" /\ k \in DOMAIN flights
      /\ role' = [role EXCEPT ![c] = "waiter"]
      /\ key' = [key EXCEPT ![c] = k]
      /\ joined' = [joined EXCEPT ![c] = Leaders(k)]
      /\ waiters' = waiters
  BY DEF IInv, Join, Leads
<1>2. /\ DOMAIN flights' = DOMAIN flights
      /\ flights'[k] = Append(flights[k], c)
      /\ \A j \in DOMAIN flights : j # k => flights'[j] = flights[j]
  BY <1>1 DEF Join, Joined, Leads
<1>3. \A j \in Keys : Leaders(j)' = Leaders(j)
  BY <1>1 DEF Leaders, TypeOK
<1>4. c \notin Range(flights[k])
  BY <1>1 DEF FlightsHoldJoined
<1>5. /\ flights'[k] \in Seq(Callers)
      /\ Range(flights'[k]) = Range(flights[k]) \cup {c}
      /\ IsInjective(flights'[k])
  BY <1>1, <1>2, <1>4, PushBack DEF TypeOK, FlightsHoldJoined
<1>6. TypeOK'
  <2>1. Leaders(k) \subseteq Callers
    BY DEF Leaders
  <2>2. \A j \in DOMAIN flights' : flights'[j] \in Seq(Callers)
    BY <1>1, <1>2, <1>5, Zenon DEF TypeOK
  <2> QED BY <1>1, <1>2, <2>1, <2>2 DEF TypeOK, Roles
<1>7. OneLeader'
  BY <1>1, <1>2, <1>3 DEF OneLeader
<1>8. \A w \in Callers : role[w] = "waiter" =>
        role'[w] = "waiter" /\ key'[w] = key[w] /\ joined'[w] = joined[w]
  BY <1>1 DEF TypeOK
<1>9. FlightsHoldJoined'
  <2> SUFFICES ASSUME NEW j \in DOMAIN flights
               PROVE  /\ IsInjective(flights'[j])
                      /\ \A w \in Range(flights'[j]) :
                           role'[w] = "waiter" /\ key'[w] = j /\ joined'[w] = Leaders(j)'
    BY <1>2 DEF FlightsHoldJoined
  <2>1. Range(flights[j]) \subseteq Callers /\ j \in Keys
    BY <1>1 DEF TypeOK, Range
  <2>2. CASE j = k
    <3>1. role'[c] = "waiter" /\ key'[c] = k /\ joined'[c] = Leaders(k)
      BY <1>1 DEF TypeOK
    <3> QED BY <1>1, <1>3, <1>5, <1>8, <2>1, <2>2, <3>1 DEF FlightsHoldJoined
  <2>3. CASE j # k
    BY <1>1, <1>2, <1>3, <1>8, <2>1, <2>3 DEF FlightsHoldJoined
  <2> QED BY <2>2, <2>3
<1>10. VectorsHoldJoined'
  <2>1. \A d \in Callers : Range(waiters[d]) \subseteq Callers
    BY <1>1 DEF TypeOK, Range
  <2>2. waiters[c] = <<>>
    BY <1>1 DEF VectorsHoldJoined
  <2> QED BY <1>1, <1>8, <2>1, <2>2, EmptyQueue DEF VectorsHoldJoined, TypeOK
<1>11. WaitersAreHeld'
  <2> SUFFICES ASSUME NEW w \in Callers, role'[w] = "waiter"
               PROVE  \/ \E j \in DOMAIN flights : w \in Range(flights'[j])
                      \/ \E d \in Callers : w \in Range(waiters[d])
    BY <1>1, <1>2 DEF WaitersAreHeld
  <2>1. CASE w = c
    BY <1>1, <1>5, <2>1
  <2>2. CASE w # c
    <3>1. role[w] = "waiter"
      BY <1>1, <2>2 DEF TypeOK
    <3> QED BY <1>1, <1>2, <1>5, <3>1, Zenon DEF WaitersAreHeld
  <2> QED BY <2>1, <2>2
<1> QED BY <1>6, <1>7, <1>9, <1>10, <1>11 DEF IInv

\* The locked part of complete() preserves the inductive invariant: the
\* callbacks move from the flight to the vector.
LEMMA TakePreserves ==
  ASSUME IInv, NEW c \in Callers, Take(c)
  PROVE  IInv'
<1> DEFINE k == key[c]
<1> USE NoKeyAssumption
<1>1. /\ TypeOK /\ OneLeader /\ FlightsHoldJoined /\ VectorsHoldJoined /\ WaitersAreHeld
      /\ role[c] = "leader"
      /\ role' = [role EXCEPT ![c] = "notifying"]
      /\ key' = key /\ joined' = joined
  BY DEF IInv, Take
<1>2. k \in Keys /\ Leaders(k) = {c} /\ k \in DOMAIN flights
  <2>1. k \in Keys
    BY <1>1 DEF TypeOK
  <2>2. c \in Leaders(k)
    BY <1>1 DEF Leaders
  <2> QED BY <1>1, <2>1, <2>2 DEF OneLeader
<1>3. /\ DOMAIN flights' = DOMAIN flights \ {k}
      /\ \A j \in DOMAIN flights' : flights'[j] = flights[j]
      /\ waiters' = [waiters EXCEPT ![c] = flights[k]]
  BY <1>2 DEF Take, Taken, Erased
<1> HIDE DEF k
<1>4. \A j \in Keys : Leaders(j)' = IF j = k THEN {} ELSE Leaders(j)
  BY <1>1, <1>2 DEF Leaders, TypeOK, k
<1>5. TypeOK'
  BY <1>1, <1>2, <1>3 DEF TypeOK, Roles
<1>6. OneLeader'
  BY <1>1, <1>3, <1>4 DEF OneLeader
<1>7. \A w \in Callers : role[w] = "waiter" => role'[w] = "waiter"
  BY <1>1 DEF TypeOK
<1>8. FlightsHoldJoined'
  <2> SUFFICES ASSUME NEW j \in DOMAIN flights'
               PROVE  /\ IsInjective(flights'[j])
                      /\ \A w \in Range(flights'[j]) :
                           role'[w] = "waiter" /\ key'[w] = j /\ joined'[w] = Leaders(j)'
    BY DEF FlightsHoldJoined
  <2>1. j \in Keys /\ j # k /\ j \in DOMAIN flights /\ flights'[j] = flights[j]
    BY <1>1, <1>3 DEF TypeOK
  <2>2. Range(flights[j]) \subseteq Callers
    BY <1>1, <2>1 DEF TypeOK, Range
  <2> QED BY <1>1, <1>4, <1>7, <2>1, <2>2 DEF FlightsHoldJoined
<1>9. VectorsHoldJoined'
  <2> SUFFICES ASSUME NEW d \in Callers
               PROVE  /\ IsInjective(waiters'[d])
                      /\ waiters'[d] # <<>> => role'[d] = "notifying"
                      /\ \A w \in Range(waiters'[d]) :
                           role'[w] = "waiter" /\ key'[w] = key'[d] /\ joined'[w] = {d}
    BY DEF VectorsHoldJoined
  <2>1. CASE d = c
    <3>1. waiters'[d] = flights[k] /\ role'[d] = "notifying"
      BY <1>1, <1>3, <2>1 DEF TypeOK
    <3>2. Range(flights[k]) \subseteq Callers
      BY <1>1, <1>2 DEF TypeOK, Range
    <3>3. key[d] = k
      BY <2>1 DEF k
    <3> QED BY <1>1, <1>2, <1>7, <2>1, <3>1, <3>2, <3>3 DEF FlightsHoldJoined
  <2>2. CASE d # c
    <3>1. waiters'[d] = waiters[d] /\ role'[d] = role[d]
      BY <1>1, <1>3, <2>2 DEF TypeOK
    <3>2. Range(waiters[d]) \subseteq Callers
      BY <1>1 DEF TypeOK, Range
    <3> QED BY <1>1, <1>7, <3>1, <3>2 DEF VectorsHoldJoined
  <2> QED BY <2>1, <2>2
<1>10. WaitersAreHeld'
  <2> SUFFICES ASSUME NEW w \in Callers, role'[w] = "waiter"
               PROVE  \/ \E j \in DOMAIN flights' : w \in Range(flights'[j])
                      \/ \E d \in Callers : w \in Range(waiters'[d])
    BY DEF WaitersAreHeld
  <2>1. role[w] = "waiter"
    BY <1>1 DEF TypeOK
  <2>2. ASSUME NEW j \in DOMAIN flights, w \in Range(flights[j])
        PROVE  \/ \E i \in DOMAIN flights' : w \in Range(flights'[i])
               \/ \E d \in Callers : w \in Range(waiters'[d])
    <3>1. CASE j = k
      <4>1. waiters'[c] = flights[k]
        BY <1>1, <1>3 DEF TypeOK
      <4> QED BY <2>2, <3>1, <4>1
    <3>2. CASE j # k
      BY <1>3, <2>2, <3>2
    <3> QED BY <3>1, <3>2
  <2>3. ASSUME NEW d \in Callers, w \in Range(waiters[d])
        PROVE  \E e \in Callers : w \in Range(waiters'[e])
    <3>1. waiters[c] = <<>>
      BY <1>1 DEF VectorsHoldJoined
    <3>2. d # c
      BY <2>3, <3>1, EmptyQueue
    <3> QED BY <1>1, <1>3, <2>3, <3>2 DEF TypeOK
  <2> QED BY <1>1, <2>1, <2>2, <2>3 DEF WaitersAreHeld
<1> QED BY <1>5, <1>6, <1>8, <1>9, <1>10 DEF IInv

\* Invoking a callback preserves the inductive invariant: the waiter is held
\* nowhere else.
LEMMA NotifyPreserves ==
  ASSUME IInv, NEW c \in Callers, Notify(c)
  PROVE  IInv'
<1> USE NoKeyAssumption
<1>0. PICK h : h = Head(waiters[c])
  OBVIOUS
<1>1. /\ TypeOK /\ OneLeader /\ FlightsHoldJoined /\ VectorsHoldJoined /\ WaitersAreHeld
      /\ role[c] = "notifying" /\ waiters[c] # <<>>
      /\ role' = [role EXCEPT ![h] = "idle"]
      /\ key' = [key EXCEPT ![h] = NoKey]
      /\ joined' = [joined EXCEPT ![h] = {}]
      /\ waiters' = [waiters EXCEPT ![c] = Tail(waiters[c])]
      /\ flights' = flights
  BY <1>0 DEF IInv, Notify
<1>2. /\ h \in Callers /\ h \in Range(waiters[c])
      /\ Tail(waiters[c]) \in Seq(Callers)
      /\ IsInjective(Tail(waiters[c]))
      /\ Range(Tail(waiters[c])) = Range(waiters[c]) \ {h}
  BY <1>0, <1>1, PopFront DEF TypeOK, VectorsHoldJoined
<1>3. role[h] = "waiter" /\ joined[h] = {c}
  BY <1>1, <1>2 DEF VectorsHoldJoined
<1>4. \A j \in Keys : Leaders(j)' = Leaders(j)
  BY <1>1, <1>2, <1>3 DEF Leaders, TypeOK
<1>5. TypeOK'
  BY <1>1, <1>2 DEF TypeOK, Roles
<1>6. OneLeader'
  BY <1>1, <1>4 DEF OneLeader
<1>7. \A w \in Callers \ {h} : role'[w] = role[w] /\ key'[w] = key[w] /\ joined'[w] = joined[w]
  BY <1>1, <1>2 DEF TypeOK
<1>8. \A d \in Callers : /\ Range(waiters'[d]) = Range(waiters[d]) \ {h}
                         /\ d # c => waiters'[d] = waiters[d]
  <2> SUFFICES ASSUME NEW d \in Callers
               PROVE  /\ Range(waiters'[d]) = Range(waiters[d]) \ {h}
                      /\ d # c => waiters'[d] = waiters[d]
    OBVIOUS
  <2>1. CASE d = c
    BY <1>1, <1>2, <2>1 DEF TypeOK
  <2>2. CASE d # c
    <3>1. waiters'[d] = waiters[d]
      BY <1>1, <2>2 DEF TypeOK
    <3>2. h \notin Range(waiters[d])
      BY <1>1, <1>3, <2>2 DEF VectorsHoldJoined
    <3> QED BY <3>1, <3>2
  <2> QED BY <2>1, <2>2
<1>9. \A k \in DOMAIN flights : h \notin Range(flights[k])
  <2> SUFFICES ASSUME NEW k \in DOMAIN flights, h \in Range(flights[k])
               PROVE  FALSE
    OBVIOUS
  <2>1. Leaders(k) = {c}
    BY <1>1, <1>3 DEF FlightsHoldJoined
  <2> QED BY <1>1, <2>1 DEF Leaders
<1>10. FlightsHoldJoined'
  <2> SUFFICES ASSUME NEW j \in DOMAIN flights
               PROVE  /\ IsInjective(flights[j])
                      /\ \A w \in Range(flights[j]) :
                           role'[w] = "waiter" /\ key'[w] = j /\ joined'[w] = Leaders(j)'
    BY <1>1 DEF FlightsHoldJoined
  <2>1. j \in Keys /\ Range(flights[j]) \subseteq Callers \ {h}
    BY <1>1, <1>9 DEF TypeOK, Range
  <2> QED BY <1>1, <1>4, <1>7, <2>1 DEF FlightsHoldJoined
<1>11. VectorsHoldJoined'
  <2> SUFFICES ASSUME NEW d \in Callers
               PROVE  /\ IsInjective(waiters'[d])
                      /\ waiters'[d] # <<>> => role'[d] = "notifying"
                      /\ \A w \in Range(waiters'[d]) :
                           role'[w] = "waiter" /\ key'[w] = key'[d] /\ joined'[w] = {d}
    BY DEF VectorsHoldJoined
  <2>1. IsInjective(waiters'[d])
    BY <1>1, <1>2, <1>8 DEF VectorsHoldJoined, TypeOK
  <2>2. waiters'[d] # <<>> => waiters[d] # <<>>
    BY <1>1, <1>8
  <2>3. waiters[d] # <<>> => d # h
    BY <1>1, <1>3 DEF VectorsHoldJoined
  <2>4. ASSUME NEW w \in Range(waiters'[d])
        PROVE  role'[w] = "waiter" /\ key'[w] = key'[d] /\ joined'[w] = {d}
    <3>1. w \in Range(waiters[d]) /\ w # h
      BY <1>8, <2>4
    <3>2. waiters[d] # <<>> /\ w \in Callers
      <4>1. Range(waiters[d]) \subseteq Callers
        BY <1>1 DEF TypeOK, Range
      <4> QED BY <3>1, <4>1, EmptyQueue
    <3>3. role[w] = "waiter" /\ key[w] = key[d] /\ joined[w] = {d}
      BY <1>1, <3>1 DEF VectorsHoldJoined
    <3> QED BY <1>7, <2>3, <3>1, <3>2, <3>3
  <2>5. waiters'[d] # <<>> => role'[d] = "notifying"
    BY <1>1, <1>7, <2>2, <2>3 DEF VectorsHoldJoined
  <2> QED BY <2>1, <2>4, <2>5
<1>12. WaitersAreHeld'
  <2> SUFFICES ASSUME NEW w \in Callers, role'[w] = "waiter"
               PROVE  \/ \E j \in DOMAIN flights : w \in Range(flights[j])
                      \/ \E d \in Callers : w \in Range(waiters'[d])
    BY <1>1 DEF WaitersAreHeld
  <2>1. w # h /\ role[w] = "waiter"
    BY <1>1, <1>2 DEF TypeOK
  <2> QED BY <1>1, <1>8, <2>1, Zenon DEF WaitersAreHeld
<1> QED BY <1>5, <1>6, <1>10, <1>11, <1>12 DEF IInv

\* The return of complete() preserves the inductive invariant.
LEMMA ReturnPreserves ==
  ASSUME IInv, NEW c \in Callers, Return(c)
  PROVE  IInv'
<1>1. /\ TypeOK /\ OneLeader /\ FlightsHoldJoined /\ VectorsHoldJoined /\ WaitersAreHeld
      /\ role[c] = "notifying" /\ waiters[c] = <<>>
      /\ role' = [role EXCEPT ![c] = "idle"]
      /\ key' = [key EXCEPT ![c] = NoKey]
      /\ flights' = flights /\ waiters' = waiters /\ joined' = joined
  BY DEF IInv, Return
<1>2. \A j \in Keys : Leaders(j)' = Leaders(j)
  BY <1>1 DEF Leaders, TypeOK
<1>3. \A w \in Callers \ {c} : role'[w] = role[w] /\ key'[w] = key[w]
  BY <1>1 DEF TypeOK
<1>4. TypeOK'
  BY <1>1 DEF TypeOK, Roles
<1>5. OneLeader'
  BY <1>1, <1>2 DEF OneLeader
<1>6. FlightsHoldJoined'
  <2>1. \A j \in DOMAIN flights : j \in Keys /\ Range(flights[j]) \subseteq Callers
    BY <1>1 DEF TypeOK, Range
  <2>2. \A j \in DOMAIN flights : c \notin Range(flights[j])
    BY <1>1 DEF FlightsHoldJoined
  <2> QED BY <1>1, <1>2, <1>3, <2>1, <2>2 DEF FlightsHoldJoined
<1>7. VectorsHoldJoined'
  <2>1. \A d \in Callers : Range(waiters[d]) \subseteq Callers
    BY <1>1 DEF TypeOK, Range
  <2>2. \A d \in Callers : c \notin Range(waiters[d])
    BY <1>1 DEF VectorsHoldJoined
  <2> QED BY <1>1, <1>3, <2>1, <2>2, EmptyQueue DEF VectorsHoldJoined
<1>8. WaitersAreHeld'
  BY <1>1, Zenon DEF WaitersAreHeld, TypeOK
<1> QED BY <1>4, <1>5, <1>6, <1>7, <1>8 DEF IInv

-----------------------------------------------------------------------------

\* No flight is open and nobody waits at first.
LEMMA InitEstablishes == Init => IInv
<1> SUFFICES ASSUME Init PROVE IInv
  OBVIOUS
<1>1. TypeOK
  BY EmptyQueue DEF Init, TypeOK, Roles
<1>2. OneLeader
  BY DEF Init, OneLeader, Leaders
<1>3. FlightsHoldJoined /\ WaitersAreHeld
  BY DEF Init, FlightsHoldJoined, WaitersAreHeld
<1>4. VectorsHoldJoined
  BY EmptyQueue DEF Init, VectorsHoldJoined
<1> QED BY <1>1, <1>2, <1>3, <1>4 DEF IInv

\* Every step of a caller keeps the invariant.
LEMMA StepPreserves ==
  ASSUME IInv, [Next]_vars
  PROVE  IInv'
<1>1. ASSUME NEW c \in Callers, NEW k \in Keys, Start(c, k) PROVE IInv'
  BY <1>1, StartPreserves
<1>2. ASSUME NEW c \in Callers, NEW k \in Keys, Join(c, k) PROVE IInv'
  BY <1>2, JoinPreserves
<1>3. ASSUME NEW c \in Callers, Take(c) PROVE IInv'
  BY <1>3, TakePreserves
<1>4. ASSUME NEW c \in Callers, Notify(c) PROVE IInv'
  BY <1>4, NotifyPreserves
<1>5. ASSUME NEW c \in Callers, Return(c) PROVE IInv'
  BY <1>5, ReturnPreserves
<1>6. CASE UNCHANGED vars
  BY <1>6 DEF vars, IInv, TypeOK, OneLeader, Leaders, FlightsHoldJoined,
              VectorsHoldJoined, WaitersAreHeld
<1> QED BY <1>1, <1>2, <1>3, <1>4, <1>5, <1>6 DEF Next

\* The flights, the callbacks and the callers' roles keep the invariant, for any sets
\* of callers and keys.
THEOREM Inductive == Spec => []IInv
  BY InitEstablishes, StepPreserves, PTL DEF Spec

\* Types, for any sets of callers and keys.
THEOREM TypeCorrect == Spec => []TypeOK
<1>1. IInv => TypeOK
  BY DEF IInv
<1> QED BY <1>1, Inductive, PTL

\* For any sets of callers and keys, an open flight has exactly one leader.
THEOREM FlightsHaveOneLeader == Spec => []OneLeader
<1>1. IInv => OneLeader
  BY DEF IInv
<1> QED BY <1>1, Inductive, PTL

\* For any sets of callers and keys, complete() answers the callers that joined
\* the flight it ends.
THEOREM AnswersOwnFlight == Spec => []OwnFlight
<1>1. IInv => OwnFlight
  BY DEF IInv, VectorsHoldJoined, OwnFlight
<1> QED BY <1>1, Inductive, PTL

\* The callback of a waiter is in one flight or in one vector: in a flight its leader
\* would be leading, in a vector notifying.
LEMMA OneCallbackHolds ==
  ASSUME IInv
  PROVE  OneCallback
<1>1. /\ \A k \in DOMAIN flights : IsInjective(flights[k])
      /\ \A c \in Callers : IsInjective(waiters[c])
  BY DEF IInv, FlightsHoldJoined, VectorsHoldJoined
<1>2. ASSUME NEW w \in Callers, role[w] # "waiter"
      PROVE  FlightsHolding(w) = {} /\ VectorsHolding(w) = {}
  BY <1>2 DEF IInv, FlightsHoldJoined, VectorsHoldJoined, FlightsHolding, VectorsHolding
<1>3. ASSUME NEW w \in Callers, NEW k \in DOMAIN flights, w \in Range(flights[k])
      PROVE  FlightsHolding(w) = {k} /\ VectorsHolding(w) = {}
  <2>1. key[w] = k /\ joined[w] = Leaders(k)
    BY <1>3 DEF IInv, FlightsHoldJoined
  <2>2. FlightsHolding(w) = {k}
    BY <1>3, <2>1 DEF IInv, FlightsHoldJoined, FlightsHolding
  <2>3. ASSUME NEW c \in Callers, w \in Range(waiters[c])
        PROVE  FALSE
    <3>1. joined[w] = {c} /\ waiters[c] # <<>> => role[c] = "notifying"
      BY <2>3 DEF IInv, VectorsHoldJoined
    <3>2. waiters[c] # <<>>
      BY <2>3, EmptyQueue
    <3>3. role[c] = "notifying" /\ c \in Leaders(k)
      BY <2>1, <2>3, <3>1, <3>2 DEF IInv, VectorsHoldJoined
    <3> QED BY <3>3 DEF Leaders
  <2> QED BY <2>2, <2>3 DEF VectorsHolding
<1>4. ASSUME NEW w \in Callers, NEW c \in Callers, w \in Range(waiters[c])
      PROVE  FlightsHolding(w) = {} /\ VectorsHolding(w) = {c}
  <2>1. FlightsHolding(w) = {}
    BY <1>3, <1>4 DEF FlightsHolding, VectorsHolding
  <2>2. VectorsHolding(w) = {c}
    <3>1. \A d \in Callers : w \in Range(waiters[d]) => joined[w] = {d}
      BY DEF IInv, VectorsHoldJoined
    <3>2. \A d \in Callers : w \in Range(waiters[d]) => d = c
      BY <1>4, <3>1
    <3> QED BY <1>4, <3>2 DEF VectorsHolding
  <2> QED BY <2>1, <2>2
<1> QED BY <1>1, <1>2, <1>3, <1>4 DEF IInv, WaitersAreHeld, OneCallback

\* For any sets of callers and keys, the callback of a waiter is held in one
\* place and nobody else's is held.
THEOREM WaitersHaveOneCallback == Spec => []OneCallback
  BY OneCallbackHolds, Inductive, PTL
=============================================================================
