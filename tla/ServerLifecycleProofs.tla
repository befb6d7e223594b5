------------------------ MODULE ServerLifecycleProofs ------------------------
(***************************************************************************)
(* Proofs about ServerLifecycle, for every number of worker threads and of *)
(* file descriptors.                                                       *)
(***************************************************************************)
EXTENDS ServerLifecycle, FiniteSetTheorems, TLAPS

InSession == {w \in Workers : worker[w] = "session"}

\* A session handler is that of a session, and an accepted socket has a
\* descriptor.
SessionsCounted ==
  /\ Cardinality(InSession) <= sessions
  /\ Descriptors <= MaxDescriptors

\* The strand runs one handler at a time.
StrandIsSerial ==
  \A v, w \in Workers : worker[v] \in StrandHandler /\ worker[w] \in StrandHandler => v = w

\* An acceptor that is not open has no handler on the strand to start a session,
\* and will have none.
ClosedIsQuiet ==
  ~is_open => /\ stopped \/ main \in {"constructing", "failed"}
              /\ \A w \in Workers : worker[w] \notin StrandHandler

\* The accept operation and its handler are one: the handler is queued or runs
\* exactly when the operation has ended, and it is there once.  Without the
\* operation a worker is about to stop the io_context.
OneAccept ==
  is_open /\ ~stopped =>
    /\ accept \in {"none", "pending", "accepted", "failed"}
    /\ accept = "none" => Catching
    /\ (accept \in {"accepted", "failed"}) <=> (Queued("accept") \/ Running("accept"))
    /\ Running("accept") => ~Queued("accept")
    /\ \A i, j \in DOMAIN strand : strand[i] = "accept" /\ strand[j] = "accept" => i = j

\* The two loops of main(): the workers are started one after the other, then
\* joined one after the other.
WorkersInOrder ==
  /\ joined <= threads
  /\ \A w \in Workers : worker[w] = "unstarted" <=> w > threads
  /\ \A w \in Workers : w <= joined => worker[w] \in {"exited", "crashed"}
  /\ main \in {"constructing", "failed"} => threads = 0
  /\ main = "starting" => threads < WorkerCount /\ joined = 0
  /\ main = "terminated" => threads < WorkerCount
  /\ main \in {"joining", "returned"} => threads = WorkerCount
  /\ main = "returned" => joined = threads

\* The io_context is stopped for a signal or an exception, and a worker leaves
\* run() only then.
StopHasCause ==
  /\ stopped => signal = "handled" \/ Catching \/ Crashed
  /\ \A w \in Workers : worker[w] = "exited" => stopped

Inv ==
  /\ TypeOK
  /\ SessionsCounted
  /\ StrandIsSerial
  /\ ClosedIsQuiet
  /\ OneAccept
  /\ WorkersInOrder
  /\ StopHasCause

-----------------------------------------------------------------------------

\* What a queue holds after the next handler is taken or one more is added.
LEMMA TailOfQueue ==
  ASSUME NEW S, NEW q \in Seq(S), q # <<>>
  PROVE  /\ Tail(q) \in Seq(S)
         /\ Head(q) \in S
         /\ q[1] = Head(q) /\ 1 \in DOMAIN q
         /\ \A i \in DOMAIN Tail(q) : i + 1 \in DOMAIN q /\ Tail(q)[i] = q[i + 1] /\ i \in Nat \ {0}
         /\ \A i \in DOMAIN q : i # 1 => i - 1 \in DOMAIN Tail(q) /\ Tail(q)[i - 1] = q[i]
  OBVIOUS

\* A handler queued on the strand is added to those it holds.
LEMMA AppendToQueue ==
  ASSUME NEW S, NEW q \in Seq(S), NEW e \in S
  PROVE  /\ Append(q, e) \in Seq(S)
         /\ DOMAIN Append(q, e) = DOMAIN q \cup {Len(q) + 1}
         /\ Len(q) + 1 \notin DOMAIN q
         /\ \A i \in DOMAIN q : Append(q, e)[i] = q[i]
         /\ Append(q, e)[Len(q) + 1] = e
  OBVIOUS

\* A worker that is not in a session's handler stays counted or uncounted.
LEMMA SameSessions ==
  ASSUME \A w \in Workers : worker'[w] = "session" <=> worker[w] = "session"
  PROVE  InSession' = InSession
  BY DEF InSession

\* The workers in handlers of sessions are finitely many.
LEMMA InSessionFinite == IsFiniteSet(InSession) /\ Cardinality(InSession) \in Nat
<1>1. IsFiniteSet(Workers)
  BY LifecycleAssumption, FS_Interval DEF Workers
<1> QED
  BY <1>1, FS_Subset, FS_CardinalityType DEF InSession

\* The cardinality of a set that has at most one element.
LEMMA AtMostOne ==
  ASSUME NEW S, \A x, y \in S : x = y
  PROVE  (S = {} /\ Cardinality(S) = 0) \/ (S # {} /\ Cardinality(S) = 1)
<1>1. CASE S = {}
  BY <1>1, FS_EmptySet
<1>2. CASE S # {}
  <2>1. PICK x : x \in S
    BY <1>2, Zenon
  <2>2. S = {x}
    BY <2>1, Zenon
  <2> QED
    BY <1>2, <2>2, FS_Singleton, Zenon
<1> QED
  BY <1>1, <1>2

\* A worker that neither starts nor ends leaves the loops of main() as they are.
LEMMA WorkerMoves ==
  ASSUME TypeOK, WorkersInOrder, UNCHANGED process, NEW w \in Workers,
         \A v \in Workers : worker'[v] = worker[v] \/ v = w,
         worker[w] \notin {"unstarted", "exited", "crashed"}, worker'[w] # "unstarted"
  PROVE  WorkersInOrder'
<1>1. joined' = joined /\ threads' = threads /\ main' = main
  BY DEF process
<1>2. \A v \in Workers : worker'[v] = "unstarted" <=> worker[v] = "unstarted"
  OBVIOUS
<1>3. \A v \in Workers : worker[v] \in {"exited", "crashed"} => worker'[v] = worker[v]
  OBVIOUS
<1> QED
  BY <1>1, <1>2, <1>3, Zenon DEF WorkersInOrder

\* A worker that goes from one handler to another leaves the reasons to stop.
LEMMA CauseStays ==
  ASSUME StopHasCause, stopped' = stopped, signal' = signal, NEW w \in Workers,
         \A v \in Workers : worker'[v] = worker[v] \/ v = w,
         worker[w] \notin {"catching", "crashed"}, worker'[w] # "exited"
  PROVE  StopHasCause' /\ (Catching => Catching')
<1>1. \A v \in Workers : worker[v] \in {"catching", "crashed"} => worker'[v] = worker[v]
  OBVIOUS
<1>2. (Catching => Catching') /\ (Crashed => Crashed')
  BY <1>1 DEF Catching, Crashed
<1>3. \A v \in Workers : worker'[v] = "exited" => worker[v] = "exited"
  BY Zenon
<1> QED
  BY <1>2, <1>3, Zenon DEF StopHasCause
-----------------------------------------------------------------------------

\* main() constructs the server and fails or goes on.
LEMMA ConstructStep ==
  ASSUME Inv, Construct
  PROVE  Inv'
<1> USE LifecycleAssumption DEF Inv, Construct
<1>1. is_open' \in BOOLEAN /\ (main' = "starting" => is_open')
  <2>1. CASE is_open' = TRUE
    BY <2>1, Zenon
  <2>2. CASE is_open' = is_open /\ main' = "failed"
    BY <2>2 DEF TypeOK
  <2> QED
    BY <2>1, <2>2, Zenon
<1>2. TypeOK'
  <2>1. strand' \in Seq(StrandHandler)
    <3>1. "check" \in StrandHandler
      BY DEF StrandHandler
    <3>2. <<"check">> \in Seq(StrandHandler)
      BY <3>1
    <3> QED
      BY <3>2, Zenon DEF TypeOK
  <2>2. /\ main' \in {"constructing", "starting", "joining"} \cup Ended
        /\ accept' \in {"none", "pending", "accepted", "failed", "aborted"}
        /\ monitor' \in {"on", "off"}
    BY DEF TypeOK, Ended
  <2> QED
    BY <1>1, <2>1, <2>2 DEF TypeOK
<1>3. SessionsCounted'
  BY DEF SessionsCounted, InSession, Descriptors, TypeOK
<1>4. StrandIsSerial' /\ ClosedIsQuiet'
  <2>1. \A w \in Workers : worker[w] = "unstarted"
    BY DEF WorkersInOrder, Workers
  <2> QED
    BY <1>1, <2>1 DEF StrandIsSerial, ClosedIsQuiet, StrandHandler
<1>5. OneAccept'
  <2>1. \A w \in Workers : worker'[w] = "unstarted"
    BY DEF WorkersInOrder, Workers
  <2>2. CASE main' = "starting"
    <3>1. strand' = <<"check">> /\ accept' = "pending"
      BY <2>2
    <3> QED
      BY <2>1, <3>1 DEF OneAccept, Queued, Running
  <2>3. CASE main' # "starting"
    BY <2>3, Zenon DEF OneAccept, Queued, Running, Catching
  <2> QED
    BY <2>2, <2>3
<1>6. WorkersInOrder'
  BY DEF WorkersInOrder, TypeOK
<1>7. StopHasCause'
  BY DEF StopHasCause, Catching, Crashed
<1> QED
  BY <1>2, <1>3, <1>4, <1>5, <1>6, <1>7

\* main() fails to start a thread, joins one, or has joined them all.
LEMMA MainStep ==
  ASSUME Inv, StartWorkerFails \/ Join \/ Return
  PROVE  Inv'
<1> USE LifecycleAssumption DEF Inv, StartWorkerFails, Join, Return, Leave, server
<1>1. TypeOK'
  BY DEF TypeOK, Ended
<1>2. SessionsCounted'
  BY Zenon DEF SessionsCounted, InSession, Descriptors, TypeOK
<1>3. StrandIsSerial' /\ ClosedIsQuiet'
  BY DEF StrandIsSerial, ClosedIsQuiet
<1>4. OneAccept' /\ StopHasCause'
  <2>1. /\ is_open' = is_open /\ stopped' = stopped /\ accept' = accept
        /\ strand' = strand /\ signal' = signal /\ worker' = worker
    OBVIOUS
  <2>2. OneAccept'
    BY <2>1 DEF OneAccept, Queued, Running, Catching
  <2>3. StopHasCause'
    BY <2>1 DEF StopHasCause, Catching, Crashed
  <2> QED
    BY <2>2, <2>3
<1>5. WorkersInOrder'
  <2>1. threads' = threads /\ worker' = worker /\ threads \in Nat /\ joined \in Nat
    BY DEF TypeOK
  <2>2. CASE StartWorkerFails \/ Return
    BY <2>1, <2>2 DEF WorkersInOrder
  <2>3. CASE Join
    <3>1. \A w \in Workers : w <= joined' => w <= joined \/ w = joined + 1
      BY <2>1, <2>3 DEF Workers
    <3> QED
      BY <2>1, <2>3, <3>1 DEF WorkersInOrder
  <2> QED
    BY <2>2, <2>3
<1> QED
  BY <1>1, <1>2, <1>3, <1>4, <1>5

\* main() starts the next thread.
LEMMA StartStep ==
  ASSUME Inv, StartWorker
  PROVE  Inv'
<1> USE LifecycleAssumption DEF Inv, StartWorker, server
<1>0. threads + 1 \in Workers /\ threads \in Nat /\ joined = 0
  BY DEF TypeOK, WorkersInOrder, Workers
<1>1. TypeOK'
  BY <1>0 DEF TypeOK, StrandHandler, Workers
<1>2. /\ \A v \in Workers : worker'[v] = worker[v] \/ v = threads + 1
      /\ worker[threads + 1] = "unstarted"
      /\ worker'[threads + 1] = "idle"
  BY <1>0 DEF TypeOK, WorkersInOrder
<1>3. SessionsCounted'
  BY <1>1, <1>2, SameSessions, Zenon DEF SessionsCounted, Descriptors, TypeOK
<1>4. StrandIsSerial' /\ ClosedIsQuiet'
  BY <1>0, <1>2 DEF StrandIsSerial, ClosedIsQuiet, StrandHandler
<1>5. StopHasCause' /\ (Catching => Catching')
  BY <1>0, <1>2, CauseStays
<1>6. OneAccept'
  BY <1>2, <1>5, Zenon DEF OneAccept, Queued, Running
<1>7. WorkersInOrder'
  BY <1>0, <1>2 DEF WorkersInOrder, Workers
<1> QED
  BY <1>1, <1>3, <1>4, <1>5, <1>6, <1>7

\* While the io_context is not stopped there is work for the workers, unless an
\* exception is about to stop it.
LEMMA WorkIsLeft ==
  ASSUME Inv, Alive, ~stopped, ~Catching
  PROVE  OutstandingWork
<1>1. is_open
  BY DEF Inv, ClosedIsQuiet, Alive
<1>2. accept = "pending" \/ Queued("accept") \/ Running("accept")
  BY <1>1 DEF Inv, OneAccept
<1>3. Queued("accept") => strand # <<>>
  BY DEF Queued
<1> QED
  BY <1>2, <1>3 DEF OutstandingWork, StrandHandler

\* A worker returns from io_context.run().
LEMMA ReturnStep ==
  ASSUME Inv, NEW w \in Workers, RunReturns(w)
  PROVE  Inv'
<1> USE LifecycleAssumption DEF Inv, RunReturns, Idle
<1>0. stopped' \in BOOLEAN /\ stopped'
  BY Zenon
<1>1. TypeOK'
  BY <1>0 DEF TypeOK, process
<1>2. /\ \A v \in Workers : worker'[v] = worker[v] \/ v = w
      /\ worker[w] = "idle"
      /\ worker'[w] = "exited"
  BY DEF TypeOK
<1>3. SessionsCounted'
  BY <1>1, <1>2, SameSessions, Zenon DEF SessionsCounted, Descriptors, TypeOK
<1>4. StrandIsSerial' /\ ClosedIsQuiet' /\ OneAccept'
  BY <1>0, <1>2 DEF StrandIsSerial, ClosedIsQuiet, StrandHandler, OneAccept, process
<1>5. WorkersInOrder'
  BY <1>2, WorkerMoves
<1>6. StopHasCause'
  <2>1. (Catching => Catching') /\ (Crashed => Crashed')
    BY <1>2 DEF Catching, Crashed
  <2>2. stopped \/ Catching
    BY WorkIsLeft
  <2> QED
    BY <1>0, <2>1, <2>2 DEF StopHasCause
<1> QED
  BY <1>1, <1>3, <1>4, <1>5, <1>6

\* A worker takes the next handler of the acceptor strand.
LEMMA TakeStrandStep ==
  ASSUME Inv, NEW w \in Workers, TakeStrandHandler(w)
  PROVE  Inv'
<1> USE LifecycleAssumption DEF Inv, TakeStrandHandler, Takes, Idle, process
<1>0. strand \in Seq(StrandHandler) /\ strand # <<>>
  BY DEF TypeOK
<1>a. Head(strand) \in StrandHandler
  BY <1>0, TailOfQueue
<1>1. TypeOK'
  BY <1>0, TailOfQueue DEF TypeOK
<1>2. /\ \A v \in Workers : worker'[v] = worker[v] \/ v = w
      /\ worker[w] = "idle"
      /\ worker'[w] = Head(strand)
  BY DEF TypeOK
<1>3. SessionsCounted'
  BY <1>1, <1>2, <1>a, SameSessions DEF SessionsCounted, Descriptors, TypeOK, StrandHandler
<1>4. StrandIsSerial'
  BY <1>2 DEF StrandIsSerial, StrandHandler, Running
<1>5. ClosedIsQuiet'
  BY DEF ClosedIsQuiet, Alive
<1>c. StopHasCause' /\ (Catching => Catching')
  BY <1>2, <1>a, CauseStays DEF StrandHandler
<1>6. OneAccept'
  <2> SUFFICES ASSUME is_open, ~stopped PROVE OneAccept!2'
    BY DEF OneAccept
  <2>1. Queued("accept") <=> Head(strand) = "accept" \/ Queued("accept")'
    <3>1. ASSUME Queued("accept"), Head(strand) # "accept" PROVE Queued("accept")'
      <4>1. PICK i \in DOMAIN strand : strand[i] = "accept"
        BY <3>1 DEF Queued
      <4>2. i - 1 \in DOMAIN Tail(strand) /\ Tail(strand)[i - 1] = "accept"
        BY <1>0, <3>1, <4>1, TailOfQueue
      <4> QED
        BY <4>2 DEF Queued
    <3>2. ASSUME Queued("accept")' PROVE Queued("accept")
      BY <1>0, <3>2, TailOfQueue DEF Queued
    <3>3. ASSUME Head(strand) = "accept" PROVE Queued("accept")
      BY <1>0, <3>3, TailOfQueue DEF Queued
    <3> QED
      BY <3>1, <3>2, <3>3
  <2>2. ~Running("accept") /\ (Running("accept")' <=> Head(strand) = "accept")
    BY <1>2 DEF Running, StrandHandler
  <2>3. Head(strand) = "accept" => ~Queued("accept")'
    BY <1>0, TailOfQueue DEF Queued, OneAccept
  <2>4. \A i, j \in DOMAIN strand' : strand'[i] = "accept" /\ strand'[j] = "accept" => i = j
    BY <1>0, TailOfQueue DEF OneAccept
  <2> QED
    BY <1>c, <2>1, <2>2, <2>3, <2>4 DEF OneAccept
<1>7. WorkersInOrder'
  BY <1>2, <1>a, WorkerMoves DEF StrandHandler
<1> QED
  BY <1>1, <1>3, <1>4, <1>5, <1>c, <1>6, <1>7

\* A worker takes a handler of a session.
LEMMA TakeSessionStep ==
  ASSUME Inv, NEW w \in Workers, TakeSessionHandler(w)
  PROVE  Inv'
<1> USE LifecycleAssumption DEF Inv, TakeSessionHandler, Idle, process
<1>1. TypeOK'
  BY DEF TypeOK
<1>2. /\ \A v \in Workers : worker'[v] = worker[v] \/ v = w
      /\ worker[w] = "idle"
      /\ worker'[w] = "session"
  BY DEF TypeOK
<1>3. SessionsCounted'
  <2>1. InSession' = InSession \cup {w} /\ w \notin InSession
    BY <1>2 DEF InSession
  <2>2. Cardinality(InSession') = Cardinality(InSession) + 1
    BY <2>1, InSessionFinite, FS_AddElement, Zenon
  <2> QED
    BY <2>2, InSessionFinite DEF SessionsCounted, Descriptors, TypeOK, InSession
<1>4. StrandIsSerial' /\ ClosedIsQuiet'
  BY <1>2 DEF StrandIsSerial, ClosedIsQuiet, StrandHandler
<1>c. StopHasCause' /\ (Catching => Catching')
  BY <1>2, CauseStays
<1>5. OneAccept'
  BY <1>2, <1>c DEF OneAccept, Queued, Running
<1>6. WorkersInOrder'
  BY <1>2, WorkerMoves
<1> QED
  BY <1>1, <1>3, <1>4, <1>c, <1>5, <1>6

\* The accept handler starts a session or not, and the next accept.
LEMMA AcceptStep ==
  ASSUME Inv, NEW w \in Workers, OnAccept(w)
  PROVE  Inv'
<1> USE LifecycleAssumption DEF Inv, OnAccept, Returns, process
<1>0. is_open
  BY DEF ClosedIsQuiet, StrandHandler
<1>1. /\ \A v \in Workers : worker'[v] = worker[v] \/ v = w
      /\ worker[w] = "accept"
      /\ worker'[w] = "idle"
  BY DEF TypeOK
<1>2. accept' = "pending"
  BY <1>0 DEF Reaccept
<1>3. TypeOK'
  BY <1>2 DEF TypeOK, SessionsCounted, Descriptors
<1>4. SessionsCounted'
  <2>1. InSession' = InSession
    BY <1>1, <1>3, SameSessions
  <2> QED
    BY <1>2, <2>1, InSessionFinite DEF SessionsCounted, Descriptors, TypeOK
<1>5. StrandIsSerial' /\ ClosedIsQuiet'
  BY <1>0, <1>1 DEF StrandIsSerial, ClosedIsQuiet, StrandHandler
<1>6. OneAccept'
  <2>1. ~Running("accept")'
    BY <1>1 DEF StrandIsSerial, StrandHandler, Running
  <2>2. Running("accept")
    BY DEF Running
  <2> QED
    BY <1>0, <1>2, <2>1, <2>2 DEF OneAccept, Queued
<1>7. WorkersInOrder' /\ StopHasCause'
  BY <1>1, WorkerMoves, CauseStays
<1> QED
  BY <1>3, <1>4, <1>5, <1>6, <1>7

\* The signal handler closes the acceptor and stops the io_context.
LEMMA SignalStep ==
  ASSUME Inv, NEW w \in Workers, OnSignal(w)
  PROVE  Inv'
<1> USE LifecycleAssumption DEF Inv, OnSignal, Returns, process
<1>0. is_open' \in BOOLEAN /\ ~is_open' /\ stopped' \in BOOLEAN /\ stopped'
  BY Zenon
<1>1. /\ \A v \in Workers : worker'[v] = worker[v] \/ v = w
      /\ worker[w] = "signal"
      /\ worker'[w] = "idle"
  BY DEF TypeOK
<1>2. strand' \in Seq(StrandHandler)
  BY AppendToQueue DEF TypeOK, StrandHandler
<1>3. TypeOK'
  BY <1>0, <1>2 DEF TypeOK
<1>4. SessionsCounted'
  <2>1. InSession' = InSession
    BY <1>1, <1>3, SameSessions
  <2> QED
    BY <2>1, InSessionFinite DEF SessionsCounted, Descriptors, TypeOK
<1>5. StrandIsSerial' /\ ClosedIsQuiet'
  BY <1>0, <1>1 DEF StrandIsSerial, ClosedIsQuiet, StrandHandler
<1>6. OneAccept'
  BY <1>0 DEF OneAccept
<1>7. WorkersInOrder'
  BY <1>1, WorkerMoves
<1>8. StopHasCause'
  BY <1>0, <1>1 DEF StopHasCause
<1> QED
  BY <1>3, <1>4, <1>5, <1>6, <1>7, <1>8

\* A handler of the health monitor or of a session returns.
LEMMA OtherHandlerStep ==
  ASSUME Inv, NEW w \in Workers, OnCheck(w) \/ OnSession(w)
  PROVE  Inv'
<1> USE LifecycleAssumption DEF Inv, OnCheck, OnSession, Returns, process
<1>1. /\ \A v \in Workers : worker'[v] = worker[v] \/ v = w
      /\ worker[w] \in {"check", "session"}
      /\ worker'[w] = "idle"
  BY DEF TypeOK
<1>2. TypeOK' /\ SessionsCounted'
  <2>1. CASE OnCheck(w)
    <3>1. TypeOK'
      BY <2>1 DEF TypeOK
    <3> QED
      BY <1>1, <2>1, <3>1, SameSessions, Zenon DEF SessionsCounted, Descriptors, TypeOK
  <2>2. CASE OnSession(w)
    <3>1. InSession' = InSession \ {w} /\ w \in InSession
      BY <1>1, <2>2 DEF InSession
    <3>2. Cardinality(InSession') = Cardinality(InSession) - 1
      BY <3>1, InSessionFinite, FS_RemoveElement, Zenon
    <3>3. Cardinality(InSession \ {w}) \in Nat
      BY InSessionFinite, FS_RemoveElement, FS_CardinalityType, Zenon
    <3>4. Cardinality(InSession') <= sessions' /\ sessions' \in Nat
      BY <2>2, <3>1, <3>2, <3>3, InSessionFinite DEF SessionsCounted, TypeOK
    <3>5. sessions' <= sessions /\ sessions \in Nat /\ accept' = accept
      BY <2>2 DEF TypeOK
    <3>6. TypeOK'
      BY <2>2, <3>4 DEF TypeOK
    <3>7. Descriptors' <= MaxDescriptors
      <4>1. CASE sessions' = sessions
        BY <3>5, <4>1 DEF SessionsCounted, Descriptors
      <4>2. CASE sessions' = sessions - 1
        BY <3>5, <4>2 DEF SessionsCounted, Descriptors
      <4> QED
        BY <2>2, <4>1, <4>2
    <3> QED
      BY <3>4, <3>6, <3>7 DEF SessionsCounted
  <2> QED
    BY <2>1, <2>2
<1>3. StrandIsSerial' /\ ClosedIsQuiet'
  BY <1>1 DEF StrandIsSerial, ClosedIsQuiet, StrandHandler
<1>c. StopHasCause' /\ (Catching => Catching')
  BY <1>1, CauseStays
<1>4. OneAccept'
  BY <1>1, <1>c, Zenon DEF OneAccept, Queued, Running
<1>5. WorkersInOrder'
  BY <1>1, WorkerMoves
<1> QED
  BY <1>2, <1>3, <1>c, <1>4, <1>5

\* A handler throws.
LEMMA ThrowStep ==
  ASSUME Inv, NEW w \in Workers, Throw(w)
  PROVE  Inv'
<1> USE LifecycleAssumption DEF Inv, Throw
<1>1. /\ \A v \in Workers : worker'[v] = worker[v] \/ v = w
      /\ worker[w] \in StrandHandler \cup {"session"}
      /\ worker'[w] = "catching"
  BY DEF TypeOK
<1>2. TypeOK'
  BY DEF TypeOK, process
<1>3. SessionsCounted'
  <2>1. InSession' = InSession \ {w}
    BY <1>1 DEF InSession
  <2>2. Cardinality(InSession') <= Cardinality(InSession) /\ Cardinality(InSession') \in Nat
    BY <2>1, InSessionFinite, FS_Subset, FS_CardinalityType
  <2> QED
    BY <2>2, InSessionFinite DEF SessionsCounted, Descriptors, TypeOK
<1>4. StrandIsSerial' /\ ClosedIsQuiet'
  BY <1>1 DEF StrandIsSerial, ClosedIsQuiet, StrandHandler, process
<1>5. Catching'
  BY <1>1 DEF Catching
<1>6. OneAccept'
  <2> SUFFICES ASSUME is_open, ~stopped PROVE OneAccept!2'
    BY DEF OneAccept
  <2>1. CASE worker[w] = "accept"
    <3>1. Running("accept") /\ ~Running("accept")'
      BY <1>1, <2>1 DEF StrandIsSerial, StrandHandler, Running
    <3> QED
      BY <1>5, <2>1, <3>1 DEF OneAccept, Queued
  <2>2. CASE worker[w] # "accept"
    <3>1. Running("accept")' <=> Running("accept")
      BY <1>1, <2>2 DEF Running
    <3> QED
      BY <1>5, <2>2, <3>1 DEF OneAccept, Queued
  <2> QED
    BY <2>1, <2>2
<1>7. WorkersInOrder' /\ StopHasCause'
  BY <1>1, WorkerMoves, CauseStays DEF StrandHandler
<1> QED
  BY <1>2, <1>3, <1>4, <1>6, <1>7

\* The worker of an exception stops the io_context and ends.
LEMMA CatchStep ==
  ASSUME Inv, NEW w \in Workers, Catch(w)
  PROVE  Inv'
<1> USE LifecycleAssumption DEF Inv, Catch
<1>0. stopped' \in BOOLEAN /\ stopped'
  BY Zenon
<1>1. /\ \A v \in Workers : worker'[v] = worker[v] \/ v = w
      /\ worker[w] = "catching"
      /\ worker'[w] = "crashed"
  BY DEF TypeOK
<1>2. TypeOK'
  BY <1>0 DEF TypeOK, process
<1>3. SessionsCounted'
  BY <1>1, <1>2, SameSessions, Zenon DEF SessionsCounted, Descriptors, TypeOK
<1>4. StrandIsSerial' /\ ClosedIsQuiet' /\ OneAccept'
  BY <1>0, <1>1 DEF StrandIsSerial, ClosedIsQuiet, StrandHandler, OneAccept, process
<1>5. WorkersInOrder'
  BY <1>1, WorkerMoves
<1>6. StopHasCause'
  BY <1>0, <1>1 DEF StopHasCause, Crashed
<1> QED
  BY <1>2, <1>3, <1>4, <1>5, <1>6

\* The system queues a handler: an accept ends, a signal comes, or the monitor is
\* ready.
LEMMA QueueStep ==
  ASSUME Inv, AcceptEnds \/ SignalRaised \/ CheckReady
  PROVE  Inv'
<1> USE LifecycleAssumption
<1>0. strand \in Seq(StrandHandler)
  BY DEF Inv, TypeOK
<1>1. PICK h \in StrandHandler :
        /\ strand' = Append(strand, h)
        /\ h = "accept" => accept = "pending" /\ accept' \in {"accepted", "failed"}
        /\ h # "accept" => UNCHANGED accept
  BY DEF StrandHandler, AcceptEnds, SignalRaised, CheckReady
<1>2. /\ UNCHANGED <<process, worker, is_open, monitor, stopped, sessions>>
      /\ signal' = signal \/ (signal = "waiting" /\ signal' = "raised")
      /\ accept' = "accepted" => accept = "accepted" \/ Descriptors < MaxDescriptors
  BY DEF AcceptEnds, SignalRaised, CheckReady
<1>3. TypeOK'
  <2>1. strand' \in Seq(StrandHandler)
    BY <1>0, <1>1, AppendToQueue
  <2> QED
    BY <1>1, <1>2, <2>1 DEF Inv, TypeOK, process
<1>4. SessionsCounted'
  <2>1. InSession' = InSession
    BY <1>2 DEF InSession
  <2> QED
    BY <1>1, <1>2, <2>1 DEF Inv, SessionsCounted, Descriptors, TypeOK
<1>5. StrandIsSerial' /\ ClosedIsQuiet'
  BY <1>2 DEF Inv, StrandIsSerial, ClosedIsQuiet, process
<1>6. OneAccept'
  <2> SUFFICES ASSUME is_open, ~stopped PROVE OneAccept!2'
    BY <1>2 DEF OneAccept
  <2>1. OneAccept!2
    BY DEF Inv, OneAccept
  <2>2. Queued("accept")' <=> Queued("accept") \/ h = "accept"
    BY <1>0, <1>1, AppendToQueue DEF Queued
  <2>3. Running("accept")' <=> Running("accept")
    BY <1>2 DEF Running
  <2>5. Catching' <=> Catching
    BY <1>2 DEF Catching
  <2>4. \A i, j \in DOMAIN strand' : strand'[i] = "accept" /\ strand'[j] = "accept" => i = j
    <3>1. h = "accept" => \A i \in DOMAIN strand : strand[i] # "accept"
      BY <1>1, <2>1 DEF Queued
    <3> QED
      BY <1>0, <1>1, <2>1, <3>1, AppendToQueue
  <2> QED
    BY <1>1, <2>1, <2>2, <2>3, <2>4, <2>5
<1>7. WorkersInOrder' /\ StopHasCause'
  BY <1>2 DEF Inv, WorkersInOrder, StopHasCause, Catching, Crashed, process
<1> QED
  BY <1>3, <1>4, <1>5, <1>6, <1>7 DEF Inv

-----------------------------------------------------------------------------

\* The invariant holds of the process from start to end.
THEOREM Invariance == Spec => []Inv
<1>1. Init => Inv
  <2> SUFFICES ASSUME Init PROVE Inv
    OBVIOUS
  <2>1. is_open \in BOOLEAN /\ ~is_open /\ stopped \in BOOLEAN
    BY Zenon DEF Init
  <2>2. TypeOK
    BY <2>1, LifecycleAssumption DEF Init, TypeOK
  <2>3. SessionsCounted
    <3>1. InSession = {}
      BY DEF Init, InSession
    <3> QED
      BY <3>1, FS_EmptySet, LifecycleAssumption DEF Init, SessionsCounted, Descriptors
  <2>4. StrandIsSerial /\ ClosedIsQuiet /\ OneAccept /\ StopHasCause
    BY <2>1 DEF Init, StrandIsSerial, ClosedIsQuiet, OneAccept, StopHasCause, StrandHandler
  <2>5. WorkersInOrder
    BY LifecycleAssumption DEF Init, WorkersInOrder, Workers
  <2> QED
    BY <2>2, <2>3, <2>4, <2>5 DEF Inv
<1>2. Inv /\ [Next]_vars => Inv'
  <2> SUFFICES ASSUME Inv, [Next]_vars PROVE Inv'
    OBVIOUS
  <2>1. CASE UNCHANGED vars
    BY <2>1 DEF vars, process, server, Inv, TypeOK, SessionsCounted, InSession, Descriptors, StrandIsSerial,
                ClosedIsQuiet, OneAccept, Queued, Running, WorkersInOrder, StopHasCause, Catching, Crashed
  <2>2. CASE Construct \/ StartWorker \/ StartWorkerFails \/ Join \/ Return
               \/ AcceptEnds \/ SignalRaised \/ CheckReady
    BY <2>2, ConstructStep, StartStep, MainStep, QueueStep
  <2>3. CASE \E w \in Workers : Worker(w) \/ Throw(w)
    BY <2>3, ReturnStep, TakeStrandStep, TakeSessionStep, AcceptStep, SignalStep, OtherHandlerStep,
       ThrowStep, CatchStep DEF Worker
  <2> QED
    BY <2>1, <2>2, <2>3 DEF Next, Finished
<1> QED
  BY <1>1, <1>2, PTL DEF Spec

\* No session is created without a descriptor or ended twice.
THEOREM TypeCorrect == Spec => []TypeOK
  BY Invariance, PTL DEF Inv

\* Whatever fails, the accept loop of http_server.cpp goes on while the server
\* runs, with one accept under way.
THEOREM AcceptLoopGoesOn == Spec => []AcceptLoopLives
<1>1. Inv => AcceptLoopLives
  <2> SUFFICES ASSUME Inv, Alive, is_open, ~stopped PROVE AcceptLoopLives
    BY DEF AcceptLoopLives
  <2>1. PICK Q, R : /\ Q = {i \in DOMAIN strand : strand[i] = "accept"}
                    /\ R = {w \in Workers : worker[w] = "accept"}
    BY Zenon
  <2>2. OneAccept!2
    BY DEF Inv, OneAccept
  <2>3. (Q # {} <=> Queued("accept")) /\ (R # {} <=> Running("accept"))
    BY <2>1 DEF Queued, Running
  <2>4. /\ \A i, j \in Q : i = j
        /\ \A v, w \in R : v = w
    BY <2>1, <2>2 DEF Inv, StrandIsSerial, StrandHandler
  <2>5. (Q = {} /\ Cardinality(Q) = 0) \/ (Q # {} /\ Cardinality(Q) = 1)
    BY <2>4, AtMostOne
  <2>6. (R = {} /\ Cardinality(R) = 0) \/ (R # {} /\ Cardinality(R) = 1)
    BY <2>4, AtMostOne
  <2>7. PICK n : n = Cardinality(Q) + Cardinality(R)
    BY Zenon
  <2>8. \/ accept = "pending" /\ n = 0
        \/ accept \in {"accepted", "failed"} /\ n = 1
        \/ accept = "none" /\ n = 0 /\ Catching
    BY <2>2, <2>3, <2>5, <2>6, <2>7
  <2> QED
    BY <2>1, <2>7, <2>8, Zenon DEF AcceptLoopLives
<1> QED
  BY <1>1, Invariance, PTL

\* main() returns for a signal or an exception and with every worker out of run(),
\* fails without leaving a thread behind, and is terminated only for a thread that
\* could not be started.
THEOREM EndsHaveCause == Spec => []EndsForCause
<1>1. Inv => EndsForCause
  <2> SUFFICES ASSUME Inv PROVE EndsForCause
    OBVIOUS
  <2>1. threads \in Nat /\ joined \in Nat /\ WorkerCount \in Nat \ {0}
    BY LifecycleAssumption DEF Inv, TypeOK
  <2>2. ASSUME main = "returned"
        PROVE  /\ \A w \in Workers : worker[w] \in {"exited", "crashed"}
               /\ signal = "handled" \/ Crashed
    <3>1. \A w \in Workers : worker[w] \in {"exited", "crashed"}
      BY <2>1, <2>2 DEF Inv, WorkersInOrder, Workers
    <3>2. 1 \in Workers
      BY <2>1 DEF Workers
    <3>3. ~Catching /\ (stopped \/ Crashed)
      BY <3>1, <3>2 DEF Inv, StopHasCause, Catching, Crashed
    <3> QED
      BY <3>1, <3>3 DEF Inv, StopHasCause
  <2>3. main = "failed" => \A w \in Workers : worker[w] = "unstarted"
    BY <2>1 DEF Inv, WorkersInOrder, Workers
  <2>4. ASSUME main = "terminated"
        PROVE  \E w \in Workers : worker[w] = "unstarted"
    <3>1. WorkerCount \in Workers /\ WorkerCount > threads
      BY <2>1, <2>4 DEF Inv, WorkersInOrder, Workers
    <3> QED
      BY <3>1 DEF Inv, WorkersInOrder
  <2> QED
    BY <2>2, <2>3, <2>4 DEF EndsForCause
<1> QED
  BY <1>1, Invariance, PTL

\* Once the signal handler has closed the acceptor, no accept handler starts a
\* session.
THEOREM NoLateSession == Spec => NoSessionAfterClose
<1>1. Inv /\ [Next]_vars => [~is_open => sessions' <= sessions]_vars
  <2> SUFFICES ASSUME Inv, Next, ~is_open PROVE sessions' <= sessions
    BY DEF vars
  <2>1. sessions \in Int
    BY DEF Inv, TypeOK
  <2>2. \A w \in Workers : ~OnAccept(w)
    BY DEF Inv, ClosedIsQuiet, OnAccept, StrandHandler
  <2>3. \A w \in Workers : OnSession(w) => sessions' <= sessions
    BY <2>1 DEF OnSession
  <2>4. CASE UNCHANGED sessions
    BY <2>1, <2>4
  <2> QED
    BY <2>2, <2>3, <2>4, Zenon
    DEF Next, Finished, vars, server, Construct, StartWorkerFails, Join, Return, AcceptEnds, SignalRaised,
        CheckReady, StartWorker, Worker, Throw, Catch, TakeStrandHandler, TakeSessionHandler, RunReturns, OnSignal, OnCheck
<1> QED
  BY <1>1, Invariance, PTL DEF Spec, NoSessionAfterClose
=============================================================================
