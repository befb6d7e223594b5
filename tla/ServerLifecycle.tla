--------------------------- MODULE ServerLifecycle ---------------------------
(***************************************************************************)
(* The process (src/main.cpp) and its HttpServer (src/http_server.cpp):    *)
(* start-up, the worker threads in io_context.run(), the accept loop, and  *)
(* the two ways it all ends: SIGINT or SIGTERM, and an exception thrown by *)
(* a handler.  The accept handler, the signal handler and the handlers of  *)
(* the health monitor all run on the acceptor strand: one at a time, in    *)
(* the order they were queued.  Handlers of sessions run on strands of     *)
(* their own.  Once the io_context is stopped a worker finishes the        *)
(* handler it is in and takes no other.  An exception leaves the worker's  *)
(* run() some time before its catch clause stops the io_context.           *)
(***************************************************************************)
EXTENDS Sequences, FiniteSets, Integers

CONSTANTS
  WorkerCount,       \* worker_count
  MaxDescriptors     \* file descriptors there are for client sockets

ASSUME LifecycleAssumption ==
  WorkerCount \in Nat \ {0} /\ MaxDescriptors \in Nat \ {0}

Workers == 1..WorkerCount

VARIABLES
  main,        \* constructing, starting, joining, returned, failed or terminated
  threads,     \* how many threads the vector workers holds
  joined,      \* how many of them main() has joined
  worker,      \* what each worker does: unstarted, idle, a handler, catching an
               \* exception, exited from run(), or crashed by the exception
  is_open,     \* acceptor_.is_open()
  accept,      \* the accept operation: none, pending, or how it ended
  strand,      \* handlers queued on the acceptor strand
  signal,      \* waiting, raised or handled
  monitor,     \* the health monitor: on or off
  stopped,     \* the io_context is stopped
  sessions     \* sessions alive

process == <<main, threads, joined>>
server == <<is_open, accept, strand, signal, monitor, stopped, sessions>>
vars == <<process, worker, server>>

StrandHandler == {"accept", "signal", "check"}
Ended == {"returned", "failed", "terminated"}
Alive == main \in {"starting", "joining"}
Queued(handler) == \E i \in DOMAIN strand : strand[i] = handler
Running(handler) == \E w \in Workers : worker[w] = handler
Catching == \E w \in Workers : worker[w] = "catching"
Crashed == \E w \in Workers : worker[w] = "crashed"

\* An accepted socket has its descriptor before its handler runs.
Descriptors == sessions + (IF accept = "accepted" THEN 1 ELSE 0)

-----------------------------------------------------------------------------

Init ==
  /\ main = "constructing"
  /\ threads = 0
  /\ joined = 0
  /\ worker = [w \in Workers |-> "unstarted"]
  /\ is_open = FALSE
  /\ accept = "none"
  /\ strand = <<>>
  /\ signal = "waiting"
  /\ monitor = "off"
  /\ stopped = FALSE
  /\ sessions = 0

\* main() up to the workers.  Any call of HttpServer's constructor may fail;
\* otherwise run() starts the first accept, and start() queues the monitor's
\* first step.
Construct ==
  /\ main = "constructing"
  /\ \/ main' = "failed" /\ UNCHANGED <<is_open, accept, strand, monitor>>
     \/ /\ main' = "starting"
        /\ is_open' = TRUE
        /\ accept' = "pending"
        /\ strand' = <<"check">>
        /\ monitor' = "on"
  /\ UNCHANGED <<threads, joined, worker, signal, stopped, sessions>>

\* The loop that starts the workers takes its next turn.
StartWorker ==
  /\ main = "starting"
  /\ threads' = threads + 1
  /\ worker' = [worker EXCEPT ![threads + 1] = "idle"]
  /\ main' = IF threads' = WorkerCount THEN "joining" ELSE main
  /\ UNCHANGED <<joined, server>>

\* The vector of workers is destroyed; a joinable thread in it terminates the
\* process.
Leave(result) == main' = IF joined < threads THEN "terminated" ELSE result

\* A thread cannot be started: the exception destroys the vector of workers on
\* its way to the catch clause.
StartWorkerFails ==
  /\ main = "starting"
  /\ Leave("failed")
  /\ UNCHANGED <<threads, joined, worker, server>>

\* Mutant: main() waits for the first worker only and detaches the others.
JoinFirst ==
  /\ main = "joining" /\ joined < threads
  /\ joined = 0 => worker[1] \in {"exited", "crashed"}
  /\ joined' = joined + 1
  /\ UNCHANGED <<main, threads, worker, server>>

\* The loop of joins takes its next turn, once that thread has ended.
Join ==
  /\ main = "joining" /\ joined < threads
  /\ worker[joined + 1] \in {"exited", "crashed"}
  /\ joined' = joined + 1
  /\ UNCHANGED <<main, threads, worker, server>>

\* The loop of joins is over: main() leaves its scope and returns.
Return ==
  /\ main = "joining" /\ joined = threads
  /\ Leave("returned")
  /\ UNCHANGED <<threads, joined, worker, server>>

-----------------------------------------------------------------------------

Idle(w) == Alive /\ worker[w] = "idle"

\* Mutant: the signal handler is not bound to the strand.
TakesUnbound(w) ==
  Idle(w) /\ ~stopped /\ (Head(strand) = "signal" \/ \A h \in StrandHandler : ~Running(h))

\* External (io_context, strand): a worker may take the strand's next handler.
Takes(w) ==
  Idle(w) /\ ~stopped /\ \A h \in StrandHandler : ~Running(h)

TakeStrandHandler(w) ==
  /\ strand # <<>>
  /\ Takes(w)
  /\ worker' = [worker EXCEPT ![w] = Head(strand)]
  /\ strand' = Tail(strand)
  /\ UNCHANGED <<process, is_open, accept, signal, monitor, stopped, sessions>>

\* A handler of some session that no other worker is in.
TakeSessionHandler(w) ==
  /\ Idle(w) /\ ~stopped
  /\ Cardinality({v \in Workers : worker[v] = "session"}) < sessions
  /\ worker' = [worker EXCEPT ![w] = "session"]
  /\ UNCHANGED <<process, is_open, accept, strand, signal, monitor, stopped, sessions>>

Returns(w) == worker' = [worker EXCEPT ![w] = "idle"]

\* Mutant: the accept loop ends at an error.
ReacceptUnlessFailed == IF is_open /\ accept # "failed" THEN "pending" ELSE "none"

\* The end of the accept handler.
Reaccept == IF is_open THEN "pending" ELSE "none"

\* The accept handler: a session, or a line on std::cerr; then the next accept.
OnAccept(w) ==
  /\ Alive /\ worker[w] = "accept"
  /\ sessions' = IF accept = "accepted" THEN sessions + 1 ELSE sessions
  /\ accept' = Reaccept
  /\ Returns(w)
  /\ UNCHANGED <<process, is_open, strand, signal, monitor, stopped>>

\* The signal handler.  The monitor's stop() runs at once, unless the monitor
\* already has a handler queued on the strand: then it is queued behind that
\* one, and the io_context is stopped before either runs.
OnSignal(w) ==
  /\ Alive /\ worker[w] = "signal"
  /\ monitor' = IF Queued("check") THEN monitor ELSE "off"
  /\ is_open' = FALSE
  /\ IF accept = "pending"
     THEN accept' = "aborted" /\ strand' = Append(strand, "accept")
     ELSE UNCHANGED <<accept, strand>>
  /\ stopped' = TRUE
  /\ signal' = "handled"
  /\ Returns(w)
  /\ UNCHANGED <<process, sessions>>

\* A step of the health monitor, which touches none of the state here.
OnCheck(w) ==
  /\ Alive /\ worker[w] = "check"
  /\ Returns(w)
  /\ UNCHANGED <<process, is_open, accept, strand, signal, monitor, stopped, sessions>>

\* A handler of a session; it may be the session's last.
OnSession(w) ==
  /\ Alive /\ worker[w] = "session"
  /\ sessions' \in {sessions, sessions - 1}
  /\ Returns(w)
  /\ UNCHANGED <<process, is_open, accept, strand, signal, monitor, stopped>>

\* Mutant: a session's exception is only reported.
ThrowContained(w) ==
  /\ Alive /\ worker[w] = "session"
  /\ worker' = [worker EXCEPT ![w] = "crashed"]
  /\ UNCHANGED <<process, server>>

\* A handler throws; the exception leaves run(), and the strand is free.
Throw(w) ==
  /\ Alive /\ worker[w] \in StrandHandler \cup {"session"}
  /\ worker' = [worker EXCEPT ![w] = "catching"]
  /\ accept' = IF worker[w] = "accept" THEN "none" ELSE accept
  /\ UNCHANGED <<process, is_open, strand, signal, monitor, stopped, sessions>>

\* The catch clauses of the worker: a line on std::cerr, and the end for all.
Catch(w) ==
  /\ Alive /\ worker[w] = "catching"
  /\ worker' = [worker EXCEPT ![w] = "crashed"]
  /\ stopped' = TRUE
  /\ UNCHANGED <<process, is_open, accept, strand, signal, monitor, sessions>>

\* What keeps run() from returning: an operation under way or a handler.
OutstandingWork ==
  \/ signal = "waiting" \/ accept = "pending" \/ monitor = "on" \/ sessions > 0
  \/ strand # <<>> \/ \E h \in StrandHandler : Running(h)

\* External: run() returns once the io_context is stopped, as it is also when
\* there is no work left.
RunReturns(w) ==
  /\ Idle(w) /\ (~stopped => ~OutstandingWork)
  /\ worker' = [worker EXCEPT ![w] = "exited"]
  /\ stopped' = TRUE
  /\ UNCHANGED <<process, is_open, accept, strand, signal, monitor, sessions>>

Worker(w) ==
  \/ TakeStrandHandler(w) \/ TakeSessionHandler(w) \/ RunReturns(w)
  \/ OnAccept(w) \/ OnSignal(w) \/ OnCheck(w) \/ OnSession(w) \/ Catch(w)

-----------------------------------------------------------------------------

\* External: the accept operation ends, with an error when descriptors have
\* run out or the connection is gone again.
AcceptEnds ==
  /\ Alive /\ accept = "pending"
  /\ \/ Descriptors < MaxDescriptors /\ accept' = "accepted"
     \/ accept' = "failed"
  /\ strand' = Append(strand, "accept")
  /\ UNCHANGED <<process, worker, is_open, signal, monitor, stopped, sessions>>

\* External: SIGINT or SIGTERM.
SignalRaised ==
  /\ Alive /\ signal = "waiting"
  /\ signal' = "raised"
  /\ strand' = Append(strand, "signal")
  /\ UNCHANGED <<process, worker, is_open, accept, monitor, stopped, sessions>>

\* External: a timer or a socket of the health monitor is ready.
CheckReady ==
  /\ Alive /\ monitor = "on" /\ ~Queued("check") /\ ~Running("check")
  /\ strand' = Append(strand, "check")
  /\ UNCHANGED <<process, worker, is_open, accept, signal, monitor, stopped, sessions>>

Finished == main \in Ended /\ UNCHANGED vars

Next ==
  \/ Construct \/ StartWorker \/ StartWorkerFails \/ Join \/ Return \/ AcceptEnds \/ SignalRaised \/ CheckReady
  \/ Finished
  \/ \E w \in Workers : Worker(w) \/ Throw(w)

Spec == Init /\ [][Next]_vars

\* main() makes progress, a worker that can go on does, and the io_context
\* hands handlers out in the order they became ready, so that the strand has its
\* turn between the handlers of sessions.  Clients, signals, the monitor and
\* exceptions come when they please.
Fairness ==
  /\ WF_vars(Construct \/ StartWorker \/ Join \/ Return)
  /\ \A w \in Workers : WF_vars(Worker(w))
  /\ SF_vars(\E w \in Workers : TakeStrandHandler(w))

FairSpec == Spec /\ Fairness

-----------------------------------------------------------------------------

\* The variables have their types.
TypeOK ==
  /\ main \in {"constructing", "starting", "joining"} \cup Ended
  /\ threads \in 0..WorkerCount /\ joined \in 0..WorkerCount
  /\ worker \in [Workers -> {"unstarted", "idle", "session", "catching", "exited", "crashed"}
                             \cup StrandHandler]
  /\ accept \in {"none", "pending", "accepted", "failed", "aborted"}
  /\ strand \in Seq(StrandHandler)
  /\ signal \in {"waiting", "raised", "handled"}
  /\ monitor \in {"on", "off"}
  /\ {is_open, stopped} \subseteq BOOLEAN
  /\ sessions \in 0..MaxDescriptors

\* While the server runs there is always exactly one accept under way: pending,
\* or ended with one handler, queued or running.  No error, and no shortage of
\* descriptors, ends the accept loop: only an exception of its own handler does,
\* and then the io_context is about to be stopped.
AcceptLoopLives ==
  Alive /\ is_open /\ ~stopped =>
    LET handlers == Cardinality({i \in DOMAIN strand : strand[i] = "accept"})
                      + Cardinality({w \in Workers : worker[w] = "accept"}) IN
      \/ accept = "pending" /\ handlers = 0
      \/ accept \in {"accepted", "failed"} /\ handlers = 1
      \/ accept = "none" /\ handlers = 0 /\ Catching

\* The process ends for a reason and in order.  main() returns only when every
\* worker is out of run(), and only after a signal was handled or a handler threw:
\* an io_context that runs out of work would end the server too.  What main()
\* reports as a failure to start left no thread behind, and the process is
\* terminated only when a thread could not be started.
EndsForCause ==
  /\ main = "returned" =>
       /\ \A w \in Workers : worker[w] \in {"exited", "crashed"}
       /\ signal = "handled" \/ Crashed
  /\ main = "failed" => \A w \in Workers : worker[w] = "unstarted"
  /\ main = "terminated" => \E w \in Workers : worker[w] = "unstarted"

\* After stop() has closed the acceptor no session is started, even if a
\* connection had been accepted and its handler was waiting or about to run.
NoSessionAfterClose == [][~is_open => sessions' <= sessions]_vars

\* A signal ends the process even while failing accepts keep the strand busy,
\* and one worker that dies of an exception takes the others with it: main()
\* is never left waiting for the rest.
ShutsDown == signal = "raised" \/ Catching \/ Crashed ~> main \in Ended
=============================================================================
