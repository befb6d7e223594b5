---------------------------- MODULE UpstreamPool ----------------------------
(***************************************************************************)
(* The pool of upstream endpoints (include/eventedge/upstream_config.hpp). *)
(* Request handlers on any worker thread call select(); the health monitor *)
(* calls set_healthy().  Both hold the pool's mutex from beginning to end, *)
(* so each is one atomic action.  The list of endpoints never changes: an  *)
(* endpoint is its index.                                                  *)
(***************************************************************************)
EXTENDS Integers, FiniteSetsExt

CONSTANT N      \* number of endpoints given to the constructor

\* The constructor throws std::invalid_argument on an empty list.
ASSUME NAssumption == N \in Nat \ {0}

VARIABLES
  healthy,      \* backends_[i].healthy
  next_index,   \* next_index_
  selected,     \* what the last select() returned, an index or NoUpstream
  bypassed,     \* history: per endpoint, the successful selections of others
                \* since it was last selected or last changed its flag
  lap           \* history: the endpoints returned since every healthy one was
                \* returned, or since a flag changed

vars == <<healthy, next_index, selected, bypassed, lap>>

Index == 0 .. N-1

NoUpstream == -1    \* std::nullopt

(***************************************************************************)
(* The index the scan of select() reaches after `offset' steps, and the    *)
(* offsets of a scan from `start' that find a healthy endpoint.            *)
(***************************************************************************)
At(start, offset) == (start + offset) % N

\* Mutant: a scan that gives up one endpoint early.
HealthyOffsetsShortScan(h, start) == {offset \in 0 .. N-2 : h[At(start, offset)]}

HealthyOffsets(h, start) == {offset \in Index : h[At(start, offset)]}

\* The endpoint select() returns when it starts at `start'.
Selection(h, start) ==
  LET offsets == HealthyOffsets(h, start)
  IN  IF offsets = {} THEN NoUpstream ELSE At(start, Min(offsets))

\* Mutant: the scan resumes at the endpoint it has just returned.
AfterSame(index) == index % N

\* Where the next scan starts, after `index' was returned.
After(index) == (index + 1) % N

-----------------------------------------------------------------------------

Init ==
  /\ healthy = [i \in Index |-> TRUE]
  /\ next_index = 0
  /\ selected = NoUpstream
  /\ bypassed = [i \in Index |-> 0]
  /\ lap = {}

\* select(), when some endpoint is healthy.
SelectHealthy ==
  LET index == Selection(healthy, next_index)
  IN  /\ index # NoUpstream
      /\ next_index' = After(index)
      /\ selected' = index
      /\ bypassed' = [i \in Index |->
                        IF i = index \/ ~healthy[i] THEN 0 ELSE bypassed[i] + 1]
      /\ lap' = IF \A i \in Index : healthy[i] => i \in lap \cup {index}
                THEN {} ELSE lap \cup {index}
      /\ UNCHANGED healthy

\* select(), when the scan finds no healthy endpoint.
SelectNone ==
  /\ Selection(healthy, next_index) = NoUpstream
  /\ selected' = NoUpstream
  /\ UNCHANGED <<healthy, next_index, bypassed, lap>>

\* set_healthy(i, h), when it changes the flag (it returns true).
SetHealthy(i, h) ==
  /\ healthy[i] # h
  /\ healthy' = [healthy EXCEPT ![i] = h]
  /\ bypassed' = [bypassed EXCEPT ![i] = 0]
  /\ lap' = {}
  /\ UNCHANGED <<next_index, selected>>

Next ==
  \/ SelectHealthy
  \/ SelectNone
  \/ \E i \in Index, h \in BOOLEAN : SetHealthy(i, h)

Spec == Init /\ [][Next]_vars

-----------------------------------------------------------------------------

\* The flags, the cursor and the last answer stay in range: backends_[index]
\* is never read out of bounds.
TypeOK ==
  /\ healthy \in [Index -> BOOLEAN]
  /\ next_index \in Index
  /\ selected \in Index \cup {NoUpstream}
  /\ bypassed \in [Index -> Nat]
  /\ lap \subseteq Index

\* Rotation starves nobody: an endpoint that stays healthy is returned by one
\* of any N consecutive successful calls of select(), however the other
\* endpoints' flags change between the calls.
BoundedBypass ==
  \A i \in Index : healthy[i] => bypassed[i] < N

\* While no flag changes, the load is spread evenly: select() returns no
\* endpoint a second time before it has returned every healthy one once.
EvenRotation == Selection(healthy, next_index) \notin lap

\* select() answers nullopt, which becomes a 503, only when every endpoint is
\* marked unhealthy, wherever the cursor stands.
NoneOnlyWhenAllDown ==
  [][selected' # selected /\ selected' = NoUpstream
       => \A i \in Index : ~healthy[i]]_vars
=============================================================================
