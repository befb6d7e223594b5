------------------------- MODULE HealthMonitorProofs -------------------------
(***************************************************************************)
(* Proofs about HealthMonitor, for every number of endpoints.              *)
(***************************************************************************)
EXTENDS HealthMonitor, FiniteSetTheorems, TLAPS

\* The checks of this round that have not reported.
Outstanding == {i \in Index : ~checks[i][current].completed}

Inv ==
  /\ TypeOK
  /\ CountsOutstanding
  /\ RoundsDoNotOverlap
  /\ ReportedIsQuiet

\* The outstanding checks can be counted, and there are at most N.
LEMMA IndexIsFinite == IsFiniteSet(Index) /\ Cardinality(Index) = N
<1>1. 0 \in Int /\ N - 1 \in Int /\ N = (N - 1) - 0 + 1
  BY NAssumption
<1>2. IsFiniteSet(0 .. N-1) /\ Cardinality(0 .. N-1) = IF 0 > N - 1 THEN 0 ELSE (N - 1) - 0 + 1
  BY <1>1, FS_Interval
<1> QED
  BY <1>2, NAssumption DEF Index

\* The checks that have not reported are finitely many.
LEMMA OutstandingIsFinite == IsFiniteSet(Outstanding) /\ Cardinality(Outstanding) \in Nat
  BY IndexIsFinite, FS_Subset, FS_CardinalityType DEF Outstanding

\* A step of a check that does not report: an operation ends or is started, or
\* the deadline fires.
LEMMA MoveStep ==
  ASSUME Inv, NEW i \in Index, NEW p \in Slots, NEW c \in Checks,
         checks' = [checks EXCEPT ![i][p] = c],
         c.completed = checks[i][p].completed, c.completed => c.op # "connect",
         UNCHANGED <<monitor, current, healthy, up>>
  PROVE  Inv'
<1>1. /\ checks \in [Index -> [Slots -> Checks]]
      /\ UNCHANGED <<timer, stopped, remaining, current, healthy, up>>
  BY DEF Inv, TypeOK, monitor
<1>2. /\ checks' \in [Index -> [Slots -> Checks]]
      /\ checks'[i][p] = c
      /\ \A j \in Index, q \in Slots : (j # i \/ q # p) => checks'[j][q] = checks[j][q]
  BY <1>1
<1>3. \A j \in Index, q \in Slots : checks'[j][q].completed = checks[j][q].completed
  BY <1>2
<1>4. current \in Slots /\ 1 - current \in Slots
  BY DEF Inv, TypeOK, Slots
<1>5. TypeOK'
  BY <1>1, <1>2 DEF Inv, TypeOK
<1>6. CountsOutstanding'
  <2>1. {j \in Index : ~checks'[j][current'].completed} = {j \in Index : ~checks[j][current].completed}
    BY <1>1, <1>3, <1>4
  <2> QED
    BY <1>1, <2>1, Zenon DEF Inv, CountsOutstanding
<1>7. RoundsDoNotOverlap'
  BY <1>1, <1>3, <1>4 DEF Inv, RoundsDoNotOverlap
<1>8. ReportedIsQuiet'
  BY <1>2 DEF Inv, ReportedIsQuiet
<1> QED
  BY <1>5, <1>6, <1>7, <1>8 DEF Inv

\* complete(): the first call reports and counts, later ones do nothing.
LEMMA CompleteStep ==
  ASSUME Inv, NEW i \in Index, NEW p \in Slots, NEW c \in Checks, NEW ok \in BOOLEAN,
         c.completed = checks[i][p].completed, c.op # "connect",
         Complete(i, p, c, ok), UNCHANGED <<stopped, current, up>>
  PROVE  Inv'
<1>1. CASE c.completed
  BY <1>1, MoveStep, Zenon DEF Complete, monitor
<1>2. CASE ~c.completed
  <2>0. PICK d \in Checks : d = [c EXCEPT !.completed = TRUE, !.deadline = Cancelled(@)]
    BY Zenon DEF Checks, Cancelled
  <2>1. d.completed /\ d.op = c.op
    BY <2>0 DEF Checks
  <2>2. /\ checks' = [checks EXCEPT ![i][p] = d]
        /\ healthy' = [healthy EXCEPT ![i] = ok]
        /\ OnCheckComplete
    BY <1>2, <2>0 DEF Complete
  <2>3. /\ checks \in [Index -> [Slots -> Checks]]
        /\ current \in Slots /\ 1 - current \in Slots
        /\ p = current \/ p = 1 - current
    BY DEF Inv, TypeOK, Slots
  <2>4. p = current
    BY <1>2, <2>3 DEF Inv, RoundsDoNotOverlap
  <2>5. /\ checks' \in [Index -> [Slots -> Checks]]
        /\ checks'[i][p] = d
        /\ \A j \in Index, q \in Slots : (j # i \/ q # p) => checks'[j][q] = checks[j][q]
    BY <2>2, <2>3
  <2>6. Outstanding' = Outstanding \ {i} /\ i \in Outstanding
    BY <1>2, <2>1, <2>3, <2>4, <2>5 DEF Outstanding
  <2>7. /\ Cardinality(Outstanding') = Cardinality(Outstanding) - 1
        /\ IsFiniteSet(Outstanding') /\ Cardinality(Outstanding') \in Nat
    BY <2>6, OutstandingIsFinite, FS_RemoveElement, FS_CardinalityType
  <2>8. remaining = Cardinality(Outstanding) /\ remaining \in 0..N
    BY DEF Inv, TypeOK, CountsOutstanding, Outstanding
  <2>9. /\ remaining > 0 /\ remaining' = remaining - 1
        /\ remaining' = Cardinality(Outstanding')
        /\ timer' = IF remaining' = 0 /\ ~stopped THEN "armed" ELSE timer
    BY <2>2, <2>7, <2>8, OutstandingIsFinite DEF OnCheckComplete, ScheduleAfter
  <2>10. TypeOK'
    <3>1. remaining' \in 0..N
      BY <2>8, <2>9, NAssumption
    <3>2. timer' \in {"off", "armed", "fired"}
      BY <2>9 DEF Inv, TypeOK
    <3>3. healthy' \in [Index -> BOOLEAN]
      BY <2>2 DEF Inv, TypeOK
    <3> QED
      BY <2>5, <3>1, <3>2, <3>3 DEF Inv, TypeOK
  <2>11. CountsOutstanding'
    BY <2>9 DEF CountsOutstanding, Outstanding
  <2>12. RoundsDoNotOverlap'
    <3>1. \A j \in Index : checks'[j][1 - current].completed
      BY <2>1, <2>3, <2>5 DEF Inv, RoundsDoNotOverlap
    <3>2. ASSUME timer' # "off" PROVE \A j \in Index : checks'[j][current].completed
      <4>1. CASE remaining' = 0
        <5>1. Outstanding' = {}
          BY <2>7, <2>9, <4>1, FS_EmptySet
        <5> QED
          BY <5>1 DEF Outstanding
      <4>2. CASE remaining' # 0
        <5>1. timer # "off"
          BY <2>9, <3>2, <4>2, Zenon
        <5> QED
          BY <1>2, <2>4, <5>1 DEF Inv, RoundsDoNotOverlap
      <4> QED
        BY <4>1, <4>2
    <3> QED
      BY <3>1, <3>2 DEF RoundsDoNotOverlap
  <2>13. ReportedIsQuiet'
    BY <2>1, <2>5 DEF Inv, ReportedIsQuiet
  <2> QED
    BY <2>10, <2>11, <2>12, <2>13 DEF Inv
<1> QED
  BY <1>1, <1>2
\* The handlers of a check.
LEMMA HandlerStep ==
  ASSUME Inv, NEW i \in Index, NEW p \in Slots, Handler(i, p)
  PROVE  Inv'
<1>1. PICK check \in Checks : check = checks[i][p]
  BY DEF Inv, TypeOK
<1>2. CASE OnDeadline(i, p)
  <2>1. PICK c : c = [check EXCEPT !.deadline = "off", !.op = IF @ = "connect" THEN "refused" ELSE @]
    OBVIOUS
  <2>2. c \in Checks /\ c.completed = check.completed /\ c.op # "connect"
    BY <2>1, Zenon DEF Checks
  <2>3. Complete(i, p, c, FALSE) /\ UNCHANGED <<stopped, current, up>>
    BY <1>1, <1>2, <2>1, Zenon DEF OnDeadline
  <2> QED
    BY <1>1, <2>2, <2>3, CompleteStep, Zenon
<1>3. CASE OnResolve(i, p) /\ (check.completed \/ check.op = "unresolved")
  <2>1. PICK c : c = [check EXCEPT !.op = "none"]
    BY Zenon
  <2>2. c \in Checks /\ c.completed = check.completed /\ c.op # "connect"
    BY <2>1 DEF Checks
  <2>3. Complete(i, p, c, FALSE) /\ UNCHANGED <<stopped, current, up>>
    BY <1>1, <1>3, <2>1, Zenon DEF OnResolve
  <2> QED
    BY <1>1, <2>2, <2>3, CompleteStep, Zenon
<1>4. CASE OnResolve(i, p) /\ ~(check.completed \/ check.op = "unresolved")
  <2>1. PICK c : c = [check EXCEPT !.op = "connect"]
    BY Zenon
  <2>2. c \in Checks /\ c.completed = check.completed /\ ~c.completed
    BY <1>4, <2>1 DEF Checks
  <2>3. checks' = [checks EXCEPT ![i][p] = c] /\ UNCHANGED <<monitor, current, healthy, up>>
    BY <1>1, <1>4, <2>1, Zenon DEF OnResolve, monitor
  <2> QED
    BY <1>1, <2>2, <2>3, MoveStep, Zenon
<1>5. CASE OnConnect(i, p)
  <2>1. PICK c : c = [check EXCEPT !.op = "none"]
    BY Zenon
  <2>2. c \in Checks /\ c.completed = check.completed /\ c.op # "connect"
    BY <2>1 DEF Checks
  <2>3. PICK ok \in BOOLEAN : ok = (check.op = "connected")
    BY Zenon
  <2>4. Complete(i, p, c, ok) /\ UNCHANGED <<stopped, current, up>>
    BY <1>1, <1>5, <2>1, <2>3 DEF OnConnect
  <2> QED
    BY <1>1, <2>2, <2>4, CompleteStep
<1> QED
  BY <1>2, <1>3, <1>4, <1>5 DEF Handler

\* Timers, the resolver and the network.
LEMMA ExternalStep ==
  ASSUME Inv, NEW i \in Index, NEW p \in Slots,
         DeadlineExpires(i, p) \/ ResolveEnds(i, p) \/ ConnectEnds(i, p)
  PROVE  Inv'
<1>1. PICK check \in Checks : check = checks[i][p]
  BY DEF Inv, TypeOK
<1>2. CASE DeadlineExpires(i, p)
  <2>1. PICK c : c = [check EXCEPT !.deadline = "fired"]
    BY Zenon
  <2>2. c \in Checks /\ c.completed = check.completed /\ c.op = check.op
    BY <2>1 DEF Checks
  <2>3. checks' = [checks EXCEPT ![i][p] = c] /\ UNCHANGED <<monitor, current, healthy, up>>
    BY <1>1, <1>2, <2>1 DEF DeadlineExpires
  <2>4. check.completed => check.op # "connect"
    BY <1>1 DEF Inv, ReportedIsQuiet
  <2> QED
    BY <1>1, <2>2, <2>3, <2>4, MoveStep, Zenon
<1>3. CASE ResolveEnds(i, p) \/ ConnectEnds(i, p)
  <2>1. PICK answer \in {"resolved", "unresolved", "connected", "refused"} :
          /\ checks' = [checks EXCEPT ![i][p].op = answer]
          /\ UNCHANGED <<monitor, current, healthy, up>>
    BY <1>3 DEF ResolveEnds, ConnectEnds
  <2>2. PICK c : c = [check EXCEPT !.op = answer]
    BY Zenon
  <2>3. c \in Checks /\ c.completed = check.completed /\ c.op # "connect"
    BY <2>1, <2>2 DEF Checks
  <2>4. checks' = [checks EXCEPT ![i][p] = c]
    BY <1>1, <2>1, <2>2
  <2>5. c.completed = checks[i][p].completed /\ UNCHANGED <<monitor, current, healthy, up>>
    BY <1>1, <2>1, <2>3
  <2> QED
    BY <2>3, <2>4, <2>5, MoveStep, Zenon
<1> QED
  BY <1>2, <1>3

\* run_checks: the next round takes the place of the round before the last.
LEMMA RunChecksStep ==
  ASSUME Inv, RunChecks
  PROVE  Inv'
<1>1. /\ timer = "fired" /\ timer' = "off" /\ UNCHANGED <<stopped, healthy, up>>
      /\ checks \in [Index -> [Slots -> Checks]]
      /\ current \in Slots /\ 1 - current \in Slots /\ 1 - (1 - current) = current
  BY DEF RunChecks, Inv, TypeOK, Slots
<1>2. CASE stopped
  <2>1. UNCHANGED <<remaining, current, checks>>
    BY <1>2 DEF RunChecks, MayRun
  <2>2. TypeOK'
    BY <1>1, <2>1 DEF Inv, TypeOK
  <2> QED
    BY <1>1, <2>1, <2>2 DEF Inv, CountsOutstanding, RoundsDoNotOverlap, ReportedIsQuiet
<1>3. CASE ~stopped
  <2>1. /\ remaining' = N
        /\ current' = 1 - current
        /\ checks' = [i \in Index |-> [checks[i] EXCEPT ![1 - current] = NewCheck]]
    BY <1>3 DEF RunChecks, MayRun
  <2>2. NewCheck \in Checks /\ ~NewCheck.completed
    BY DEF NewCheck, Checks
  <2>3. /\ checks' \in [Index -> [Slots -> Checks]]
        /\ \A i \in Index : /\ checks'[i][1 - current] = NewCheck
                             /\ checks'[i][current] = checks[i][current]
    BY <1>1, <2>1, <2>2 DEF Slots
  <2>4. TypeOK'
    BY <1>1, <2>1, <2>3, NAssumption DEF Inv, TypeOK
  <2>5. CountsOutstanding'
    <3>1. {i \in Index : ~checks'[i][current'].completed} = Index
      BY <2>1, <2>2, <2>3
    <3> QED
      BY <2>1, <3>1, IndexIsFinite, Zenon DEF CountsOutstanding
  <2>6. RoundsDoNotOverlap'
    <3>1. \A i \in Index : checks'[i][1 - current'].completed
      BY <1>1, <2>1, <2>3 DEF Inv, RoundsDoNotOverlap
    <3> QED
      BY <1>1, <3>1 DEF RoundsDoNotOverlap
  <2>7. ReportedIsQuiet'
    <3> SUFFICES ASSUME NEW i \in Index, NEW p \in Slots, checks'[i][p].completed
                 PROVE  checks'[i][p].op # "connect"
      BY DEF ReportedIsQuiet
    <3>1. p = current
      BY <1>1, <2>2, <2>3 DEF Slots
    <3> QED
      BY <1>1, <2>3, <3>1 DEF Inv, ReportedIsQuiet
  <2> QED
    BY <2>4, <2>5, <2>6, <2>7 DEF Inv
<1> QED
  BY <1>2, <1>3

\* stop(), the round timer and the endpoints.
LEMMA MonitorStep ==
  ASSUME Inv, Stop \/ TimerFires \/ \E i \in Index : EndpointChanges(i)
  PROVE  Inv'
<1>1. UNCHANGED <<remaining, checks, current>>
  BY DEF Stop, TimerFires, EndpointChanges, monitor
<1>2. timer' \in {"off", "armed", "fired"} /\ (timer' # "off" => timer # "off")
  BY DEF Stop, TimerFires, EndpointChanges, monitor, Cancelled, Inv, TypeOK
<1>3. stopped' \in BOOLEAN
  <2>1. CASE Stop
    BY <2>1, Zenon DEF Stop
  <2>2. CASE UNCHANGED stopped
    BY <2>2 DEF Inv, TypeOK
  <2> QED
    BY <2>1, <2>2 DEF TimerFires, EndpointChanges, monitor
<1>4. healthy' \in [Index -> BOOLEAN] /\ up' \in [Index -> BOOLEAN]
  <2>1. healthy' = healthy
    BY DEF Stop, TimerFires, EndpointChanges
  <2>2. ASSUME NEW i \in Index, EndpointChanges(i) PROVE up' \in [Index -> BOOLEAN]
    BY <2>2, Zenon DEF EndpointChanges, Inv, TypeOK
  <2> QED
    BY <2>1, <2>2 DEF Stop, TimerFires, Inv, TypeOK
<1>5. TypeOK'
  BY <1>1, <1>2, <1>3, <1>4 DEF Inv, TypeOK
<1> QED
  BY <1>1, <1>2, <1>5 DEF Inv, CountsOutstanding, RoundsDoNotOverlap, ReportedIsQuiet

-----------------------------------------------------------------------------

\* The monitor and its checks keep the invariant.
THEOREM Invariance == Spec => []Inv
<1>1. Init => Inv
  <2> SUFFICES ASSUME Init PROVE Inv
    OBVIOUS
  <2>1. NoCheck \in Checks /\ NoCheck.completed /\ NoCheck.op = "none"
    BY DEF NoCheck, Checks
  <2>2. /\ checks \in [Index -> [Slots -> Checks]]
        /\ \A i \in Index, p \in Slots : checks[i][p] = NoCheck
        /\ current \in Slots /\ 1 - current \in Slots
    BY <2>1 DEF Init, Slots
  <2>3. TypeOK
    <3>1. stopped \in BOOLEAN /\ healthy \in [Index -> BOOLEAN]
      BY Zenon DEF Init
    <3> QED
      BY <2>2, <3>1, NAssumption DEF Init, TypeOK
  <2>4. CountsOutstanding
    <3>1. {i \in Index : ~checks[i][current].completed} = {}
      BY <2>1, <2>2
    <3> QED
      BY <3>1, FS_EmptySet, Zenon DEF Init, CountsOutstanding
  <2>5. RoundsDoNotOverlap /\ ReportedIsQuiet
    BY <2>1, <2>2 DEF RoundsDoNotOverlap, ReportedIsQuiet
  <2> QED
    BY <2>3, <2>4, <2>5 DEF Inv
<1>2. Inv /\ [Next]_vars => Inv'
  <2> SUFFICES ASSUME Inv, [Next]_vars PROVE Inv'
    OBVIOUS
  <2>1. CASE UNCHANGED vars
    BY <2>1 DEF vars, monitor, Inv, TypeOK, CountsOutstanding, RoundsDoNotOverlap, ReportedIsQuiet
  <2>2. CASE Next
    BY <2>2, HandlerStep, ExternalStep, RunChecksStep, MonitorStep DEF Next
  <2> QED
    BY <2>1, <2>2
<1> QED
  BY <1>1, <1>2, PTL DEF Spec

\* checks_remaining_ is the number of checks of this round that have not reported.
THEOREM CounterIsExact == Spec => []CountsOutstanding
  BY Invariance, PTL DEF Inv

\* No round of checks starts, or is due, before the round before it has reported.
THEOREM RoundsAreSerial == Spec => []RoundsDoNotOverlap
  BY Invariance, PTL DEF Inv

\* A check that has reported opens no connection.
THEOREM ReportedChecksAreQuiet == Spec => []ReportedIsQuiet
  BY Invariance, PTL DEF Inv

\* Only the first outcome of this round's check, as it is reported, changes the flag of its
\* endpoint.
THEOREM FlagsAreReports == Spec => FlagsFollowReports
<1> DEFINE Follows ==
      \A i \in Index :
        healthy'[i] # healthy[i] =>
          /\ ~checks[i][current].completed /\ checks'[i][current].completed
          /\ healthy'[i] => checks[i][current].op = "connected"
<1>1. Inv /\ [Next]_vars => [Follows]_vars
  <2> SUFFICES ASSUME Inv, Next, NEW i \in Index, healthy'[i] # healthy[i]
               PROVE  /\ ~checks[i][current].completed /\ checks'[i][current].completed
                      /\ healthy'[i] => checks[i][current].op = "connected"
    BY DEF vars
  <2>1. PICK p \in Slots : Handler(i, p)
    <3>1. ASSUME NEW j \in Index, NEW p \in Slots, Handler(j, p), j # i PROVE FALSE
      BY <3>1 DEF Handler, OnDeadline, OnResolve, OnConnect, Complete, Inv, TypeOK
    <3>2. CASE UNCHANGED healthy
      BY <3>2
    <3> QED
      BY <3>1, <3>2
      DEF Next, Stop, TimerFires, RunChecks, EndpointChanges, DeadlineExpires, ResolveEnds, ConnectEnds
  <2>2. checks[i][p] \in Checks /\ healthy \in [Index -> BOOLEAN]
    BY DEF Inv, TypeOK
  <2>3. ~checks[i][p].completed
    BY <2>1, <2>2 DEF Handler, OnDeadline, OnResolve, OnConnect, Complete, Checks
  <2>4. p = current
    BY <2>3 DEF Inv, TypeOK, Slots, RoundsDoNotOverlap
  <2>5. healthy'[i] => checks[i][p].op = "connected"
    <3>1. CASE OnDeadline(i, p) \/ OnResolve(i, p)
      <4>1. healthy' = healthy \/ healthy' = [healthy EXCEPT ![i] = FALSE]
        BY <3>1 DEF OnDeadline, OnResolve, Complete
      <4> QED
        BY <2>2, <4>1, Zenon
    <3>2. CASE OnConnect(i, p)
      <4>1. healthy' = healthy \/ healthy' = [healthy EXCEPT ![i] = (checks[i][p].op = "connected")]
        BY <3>2 DEF OnConnect, Complete
      <4> QED
        BY <2>2, <4>1, Zenon
    <3> QED
      BY <2>1, <3>1, <3>2 DEF Handler
  <2>6. checks'[i][p].completed
    <3>1. ASSUME NEW check \in Checks, ~check.completed, NEW ok, Complete(i, p, check, ok)
          PROVE  checks'[i][p].completed
      <4>1. checks' = [checks EXCEPT ![i][p] =
                         [check EXCEPT !.completed = TRUE, !.deadline = Cancelled(@)]]
        BY <3>1, Zenon DEF Complete
      <4> QED
        BY <4>1, Zenon DEF Inv, TypeOK, Checks
    <3> DEFINE late == [checks[i][p] EXCEPT !.deadline = "off",
                                             !.op = IF @ = "connect" THEN "refused" ELSE @]
               ended == [checks[i][p] EXCEPT !.op = "none"]
    <3>2. late \in Checks /\ ~late.completed /\ ended \in Checks /\ ~ended.completed
      BY <2>2, <2>3, Zenon DEF Checks
    <3>3. \/ Complete(i, p, late, FALSE)
          \/ Complete(i, p, ended, FALSE)
          \/ Complete(i, p, ended, checks[i][p].op = "connected")
      BY <2>1, Zenon DEF Handler, OnDeadline, OnResolve, OnConnect
    <3> HIDE DEF late, ended
    <3> QED
      BY <3>1, <3>2, <3>3, Zenon
  <2> QED
    BY <2>3, <2>4, <2>5, <2>6
<1> QED
  BY <1>1, Invariance, PTL DEF Spec, FlagsFollowReports

\* After stop() no round starts, even when its timer had already fired.
THEOREM StopEndsChecking == Spec => StopsChecking
<1>1. [Next]_vars => [stopped => current' = current]_vars
  <2>1. ASSUME NEW i \in Index, NEW p \in Slots, Handler(i, p)
        PROVE  current' = current
    BY <2>1, Zenon DEF Handler, OnDeadline, OnResolve, OnConnect, monitor
  <2>2. ASSUME NEW i \in Index, NEW p \in Slots,
               DeadlineExpires(i, p) \/ ResolveEnds(i, p) \/ ConnectEnds(i, p)
        PROVE  current' = current
    BY <2>2 DEF DeadlineExpires, ResolveEnds, ConnectEnds
  <2>3. RunChecks /\ stopped => current' = current
    BY DEF RunChecks, MayRun
  <2>4. Stop \/ TimerFires \/ (\E i \in Index : EndpointChanges(i)) => current' = current
    BY DEF Stop, TimerFires, EndpointChanges
  <2> QED
    BY <2>1, <2>2, <2>3, <2>4 DEF vars, Next
<1> QED
  BY <1>1, PTL DEF Spec, StopsChecking
=============================================================================
