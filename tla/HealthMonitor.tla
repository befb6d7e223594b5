--------------------------- MODULE HealthMonitor ---------------------------
(***************************************************************************)
(* The active health checks (src/upstream_health_monitor.cpp).  Every      *)
(* round starts one HealthCheck per endpoint; a check resolves and         *)
(* connects under a deadline and reports to the pool and to the monitor;   *)
(* the last report of a round schedules the next round.  All handlers run  *)
(* on one strand, one at a time, but a handler that is already queued      *)
(* cannot be cancelled: it runs after the check it belongs to was          *)
(* completed.  A check outlives its round in that way; the handlers a      *)
(* check leaves behind are followed for one further round.                 *)
(***************************************************************************)
EXTENDS Integers, FiniteSets

CONSTANT N      \* number of endpoints of the pool

ASSUME NAssumption == N \in Nat \ {0}

VARIABLES
  timer,        \* timer_: "off", "armed", or "fired" when its handler is queued
  stopped,      \* stopped_
  remaining,    \* checks_remaining_
  checks,       \* the HealthCheck objects of this round and of the last one
  current,      \* which of the two slots of checks is this round's
  healthy,      \* the flags of the pool
  up            \* external: whether the endpoint accepts connections

monitor == <<timer, stopped, remaining>>
vars == <<monitor, checks, current, healthy, up>>

Index == 0 .. N-1
Slots == {0, 1}

(***************************************************************************)
(* A check: the operation under way or the handler it has queued           *)
(* (resolve -> resolved or unresolved; connect -> connected or refused),   *)
(* the state of its deadline timer, and completed_.                        *)
(***************************************************************************)
Checks == [op : {"resolve", "resolved", "unresolved",
                 "connect", "connected", "refused", "none"},
           deadline : {"off", "armed", "fired"},
           completed : BOOLEAN]

NoCheck == [op |-> "none", deadline |-> "off", completed |-> TRUE]

\* Mutant: a check without deadline.
NewCheckUnlimited == [op |-> "resolve", deadline |-> "off", completed |-> FALSE]

\* HealthCheck::run
NewCheck == [op |-> "resolve", deadline |-> "armed", completed |-> FALSE]

-----------------------------------------------------------------------------

\* start() has run: a first round is scheduled without delay.
Init ==
  /\ timer = "armed"
  /\ stopped = FALSE
  /\ remaining = 0
  /\ checks = [i \in Index |-> [p \in Slots |-> NoCheck]]
  /\ current = 0
  /\ healthy = [i \in Index |-> TRUE]
  /\ up \in [Index -> BOOLEAN]

\* A cancelled timer does not fire; a queued handler is not affected.
Cancelled(t) == IF t = "armed" THEN "off" ELSE t

\* stop()
Stop ==
  /\ ~stopped
  /\ stopped' = TRUE
  /\ timer' = Cancelled(timer)
  /\ UNCHANGED <<remaining, checks, current, healthy, up>>

\* External: the time of the next round has come.
TimerFires ==
  /\ timer = "armed"
  /\ timer' = "fired"
  /\ UNCHANGED <<stopped, remaining, checks, current, healthy, up>>

\* Mutant: a round that was due when the monitor was stopped is started.
MayRunAlways == TRUE

\* The early return of run_checks.
MayRun == ~stopped

\* The timer's handler: run_checks.
RunChecks ==
  /\ timer = "fired"
  /\ timer' = "off"
  /\ IF MayRun
     THEN /\ remaining' = N
          /\ current' = 1 - current
          /\ checks' = [i \in Index |-> [checks[i] EXCEPT ![1 - current] = NewCheck]]
     ELSE UNCHANGED <<remaining, current, checks>>
  /\ UNCHANGED <<stopped, healthy, up>>

-----------------------------------------------------------------------------
(* The handlers of the check of endpoint i in slot p. *)

\* Mutant: the next round is scheduled by the first report.
ScheduleAfterFirst(left) == TRUE

\* on_check_complete schedules the next round after the last report.
ScheduleAfter(left) == left = 0

\* on_check_complete
OnCheckComplete ==
  LET left == IF remaining > 0 THEN remaining - 1 ELSE remaining
  IN  /\ remaining' = left
      /\ timer' = IF ScheduleAfter(left) /\ ~stopped THEN "armed" ELSE timer

\* Mutant: a check reports whenever one of its handlers says so.
CompleteAgain(i, p, check, ok) ==
  /\ checks' = [checks EXCEPT ![i][p] =
                  [check EXCEPT !.completed = TRUE, !.deadline = Cancelled(@)]]
  /\ healthy' = [healthy EXCEPT ![i] = ok]
  /\ OnCheckComplete

\* complete(ok), on a check whose state is `check' by then.
Complete(i, p, check, ok) ==
  IF check.completed
  THEN /\ checks' = [checks EXCEPT ![i][p] = check]
       /\ UNCHANGED <<healthy, remaining, timer>>
  ELSE /\ checks' = [checks EXCEPT ![i][p] =
                       [check EXCEPT !.completed = TRUE, !.deadline = Cancelled(@)]]
       /\ healthy' = [healthy EXCEPT ![i] = ok]
       /\ OnCheckComplete

\* The handler of the deadline.  Closing the socket ends a connect; cancelling
\* the resolver does not stop a lookup that has begun.
OnDeadline(i, p) ==
  LET check == checks[i][p]
  IN  /\ check.deadline = "fired"
      /\ Complete(i, p, [check EXCEPT
                           !.deadline = "off",
                           !.op = IF @ = "connect" THEN "refused" ELSE @], FALSE)
      /\ UNCHANGED <<stopped, current, up>>

\* Mutant: a lookup that ends late is used all the same.
OnResolveLate(i, p) ==
  LET check == checks[i][p]
  IN  /\ check.op \in {"resolved", "unresolved"}
      /\ IF check.op = "unresolved"
         THEN Complete(i, p, [check EXCEPT !.op = "none"], FALSE)
         ELSE /\ checks' = [checks EXCEPT ![i][p].op = "connect"]
              /\ UNCHANGED <<healthy, remaining, timer>>
      /\ UNCHANGED <<stopped, current, up>>

\* The handler of the lookup.
OnResolve(i, p) ==
  LET check == checks[i][p]
  IN  /\ check.op \in {"resolved", "unresolved"}
      /\ IF check.completed \/ check.op = "unresolved"
         THEN Complete(i, p, [check EXCEPT !.op = "none"], FALSE)
         ELSE /\ checks' = [checks EXCEPT ![i][p].op = "connect"]
              /\ UNCHANGED <<healthy, remaining, timer>>
      /\ UNCHANGED <<stopped, current, up>>

\* The handler of the connect.
OnConnect(i, p) ==
  LET check == checks[i][p]
  IN  /\ check.op \in {"connected", "refused"}
      /\ Complete(i, p, [check EXCEPT !.op = "none"], check.op = "connected")
      /\ UNCHANGED <<stopped, current, up>>

-----------------------------------------------------------------------------
(* External: timers, the resolver, the network and the endpoints. *)

DeadlineExpires(i, p) ==
  /\ checks[i][p].deadline = "armed"
  /\ checks' = [checks EXCEPT ![i][p].deadline = "fired"]
  /\ UNCHANGED <<monitor, current, healthy, up>>

ResolveEnds(i, p) ==
  /\ checks[i][p].op = "resolve"
  /\ \E answer \in {"resolved", "unresolved"} :
       checks' = [checks EXCEPT ![i][p].op = answer]
  /\ UNCHANGED <<monitor, current, healthy, up>>

ConnectEnds(i, p) ==
  /\ checks[i][p].op = "connect"
  /\ checks' = [checks EXCEPT ![i][p].op = IF up[i] THEN "connected" ELSE "refused"]
  /\ UNCHANGED <<monitor, current, healthy, up>>

EndpointChanges(i) ==
  /\ up' = [up EXCEPT ![i] = ~@]
  /\ UNCHANGED <<monitor, checks, current, healthy>>

Handler(i, p) == OnDeadline(i, p) \/ OnResolve(i, p) \/ OnConnect(i, p)

Next ==
  \/ Stop \/ TimerFires \/ RunChecks
  \/ \E i \in Index :
       \/ EndpointChanges(i)
       \/ \E p \in Slots : \/ Handler(i, p) \/ DeadlineExpires(i, p)
                           \/ ResolveEnds(i, p) \/ ConnectEnds(i, p)

Spec == Init /\ [][Next]_vars

\* Timers fire and queued handlers run.  Neither the resolver nor the endpoint
\* has to answer.
Fairness ==
  /\ WF_vars(TimerFires)
  /\ WF_vars(RunChecks)
  /\ \A i \in Index, p \in Slots : WF_vars(Handler(i, p)) /\ WF_vars(DeadlineExpires(i, p))

FairSpec == Spec /\ Fairness

-----------------------------------------------------------------------------

\* The monitor, the checks and the flags have their types.
TypeOK ==
  /\ timer \in {"off", "armed", "fired"}
  /\ stopped \in BOOLEAN
  /\ remaining \in 0 .. N
  /\ checks \in [Index -> [Slots -> Checks]]
  /\ current \in Slots
  /\ healthy \in [Index -> BOOLEAN]
  /\ up \in [Index -> BOOLEAN]

\* The counter is the number of checks that have not reported: it reaches zero
\* with the last report, neither before it nor never.
CountsOutstanding ==
  remaining = Cardinality({i \in Index : ~checks[i][current].completed})

\* No round starts, or is due, before every check of the round before it has
\* reported: an endpoint is never probed twice at a time.
RoundsDoNotOverlap ==
  /\ timer # "off" => \A i \in Index : checks[i][current].completed
  /\ \A i \in Index : checks[i][1 - current].completed

\* A check that has reported opens no connection: a lookup that ends after the
\* deadline is dropped.
ReportedIsQuiet ==
  \A i \in Index, p \in Slots : checks[i][p].completed => checks[i][p].op # "connect"

\* The flag of an endpoint changes only in the step in which this round's check
\* reports, and becomes true only by a connection made: what an expired check
\* still has queued does not overwrite a newer result.
FlagsFollowReports ==
  [][\A i \in Index :
       healthy'[i] # healthy[i] =>
         /\ ~checks[i][current].completed /\ checks'[i][current].completed
         /\ healthy'[i] => checks[i][current].op = "connected"]_vars

\* After stop() no round starts, even when its timer had already fired.
StopsChecking == [][stopped => current' = current]_vars

\* After stop() the checks under way end, whether or not the endpoints answer.
StopSettles == stopped ~> (remaining = 0 /\ timer = "off")

\* An endpoint that stays down is marked unhealthy for good while the monitor
\* runs, even if lookups and connects hang.
DownIsNoticed ==
  \A i \in Index : <>[](~up[i] /\ ~stopped) => <>[](~healthy[i])
=============================================================================
