# Verification of EventEdge

TLA+ models of EventEdge, a multithreaded reverse proxy with load balancing, a
response cache and request coalescing; TLC runs that check them on small
instances; and TLAPS proofs, for every size, of every safety property that a passing
run checks. Source paths below are relative to the repository.

    tlc -workers 2 -config MCSessionKinds.cfg MCHttpSession     # a run
    tlapm RequestCoalescerProofs.tla                            # the proofs

`PROJECT.json` lists the components, the runs, the source lines of every
definition, the hazards, and for every property a mutant of the model that
violates it (operators commented "Mutant", used by nothing else).

## The system

A client connection is an `HttpSession` on a strand of its own; strands run on a
pool of worker threads. Sessions share four objects.

| Part | State | Operations | Called by |
|---|---|---|---|
| `UpstreamPool` (`include/eventedge/upstream_config.hpp`) | health flags, rotation cursor, one mutex | `select`, `set_healthy` | sessions; health checks |
| `ResponseCache` (`src/response_cache.cpp`) | map of entries, recency list, one mutex | `get`, `put` | sessions |
| `RequestCoalescer` (`src/request_coalescer.cpp`) | open flights with their callbacks, one mutex | `join_or_start`, `complete` | sessions |
| `MetricsRegistry` (`src/metrics.cpp`) | independent atomic counters | `record_*`, `render` | all |
| `HttpSession` (`src/http_session.cpp`) | request, stream with a deadline | read, serve or fetch, complete a flight, write | its strand; callbacks of other sessions, posted to its strand |
| `UpstreamProxy` (`src/upstream_proxy.cpp`) | stage of the fetch, stream deadline, `completed_` | resolve, connect, write, read, `fail`, `complete` | a session |
| `UpstreamHealthMonitor`, `HealthCheck` (`src/upstream_health_monitor.cpp`) | round timer, counter, one check per endpoint | `start`, `stop`, `run_checks`, handlers of a check | its strand |
| `HttpServer`, `main` (`src/http_server.cpp`, `src/main.cpp`) | acceptor, signal set, threads | start-up, accept loop, `stop`, joining, parsing of arguments | main thread, workers, acceptor strand |
| `http_handler`, header rewriting (`src/http_handler.cpp`, `src/upstream_proxy.cpp`) | none | pure functions | sessions, fetches |

What is hard: a session's handler touches cache, coalescer and pool one after the
other and other sessions run in between; `complete` invokes callbacks with the
mutex released; a waiter has no timer of its own and depends on its leader; every
stage of a fetch runs under a deadline set anew, a session under one that is not; a
timer or connect handler that is already queued cannot be cancelled; and the accept
loop shares its strand with the signal handler and the health monitor.

## The modules

**`UpstreamPool`**. `select` (`SelectHealthy`, `SelectNone`) and `set_healthy`
(`SetHealthy`) are atomic, because each holds the mutex throughout. `bypassed` and
`lap` are histories that only the properties read. A `set_healthy` that changes
nothing is a stuttering step.

**`RequestCoalescer`**. `join_or_start` is one step with two outcomes (`Start`,
`Join`). `complete` is `Take` (the locked part), one `Notify` per callback, and
`Return`. The module includes the protocol of its callers: a caller does nothing
else while it leads or waits, and only a leader completes. That this is how the
sessions behave is not assumed but checked (`KeepsProtocol`).

**`ResponseCache`**, **`CacheContract`**. `get` and `put` by path, with the map, the
list and a clock. `CacheContract` is what a session may rely on: a `get` returns
the latest `put`, or nothing once it was forgotten, and a `put` makes the cache
forget at most one other response. `ResponseCache` implements it under the mapping
`Found`: what a `get` would find now.

**`HttpSession`**, **`MCHttpSession`**. All sessions over the shared cache (its
contract: `Forget` is expiry or eviction), the flights (with the operators of
`RequestCoalescer`) and the pool reduced to whether `select` finds anything.
`RoleOf` and `KeyOf` say what a session is to the coalescer at each step, and with
them the sessions are shown to implement `RequestCoalescer`. `pc` is where the
session's strand stands:

| `pc` | the code |
|---|---|
| `reading` | `do_read` to `on_read` |
| `missed` | `on_read` between `response_cache_->get` and `join_or_start` |
| `leading` | a leader before `select` |
| `waiting` | a waiter, until the handler its callback posted has run |
| `fetching` | an `UpstreamProxy` is at work |
| `storing`, `taking`, `notifying` | `complete_flight`: `put`; the locked part of `complete`; its callbacks |
| `writing` | `write_response` to `on_write` |
| `closed` | no operation is pending and the session is destroyed |

A response is a record of what the properties tell apart: what it answers, which
fetch it comes from, whether `cacheable_response` accepts it, its keep-alive flag and
whether it was fetched for a cacheable request. A response fetched has the flag of the
session that fetched it (`UpstreamProxy::on_read`); a 502 or a 504 is made of the
rewritten request (`fail`), which asks to close (`Ended`). `ForCurrentRequest` sets the
flag again for every session the response is given to. A session ends (`End`) at any time it reads or
writes.

**`UpstreamProxy`**, **`SessionDeadline`**. One fetch in time, and one session in time
around it. `expires_after` sets `expiry` (the fetch's stream) and `deadline` (the
client's); a stream (external) ends an operation that is under way when its time is
reached. The clock waits for queued handlers, so a deadline is met exactly.
`SessionDeadline` extends `UpstreamProxy`: while `step` is `fetching` the handlers of
the fetch are steps of the session, and the one that ends the fetch also begins the
write (`FetchStep`). The session's deadline is set by `do_read` only. A write begun
at or after it may end either way, as the timer and the write then race.

**`HealthMonitor`**. The monitor and the checks of this round and the last. A check
has an operation (`op`), under way or with its handler queued, and a deadline, off,
armed or fired with its handler queued. A completed check may still have handlers
queued; they are followed through the next round, in which the model's second slot
is kept for them.

**`ServerLifecycle`**. `main` from construction to its return, the workers in
`io_context.run`, the accept loop and the signal. A worker takes a handler from the
acceptor strand's queue (`strand`) or of a session. Accepting fails for want of
descriptors or otherwise (`AcceptEnds`), and a thread may fail to start. Any handler may
throw (`Throw`); the worker's catch clause stops the io_context in a later step (`Catch`),
and the others go on in between. The threads are started and joined one after the other;
when `main` leaves the scope of its vector of threads with one not joined, the process is
terminated (`Leave`). `run` also returns when there is nothing left to wait for
(`OutstandingWork`). Handlers of sessions and checks are opaque here.

**`Metrics`**, **`MCMetrics`**. The calls a session makes of `MetricsRegistry` on every path of a
request, by target and method, and a page being rendered. The increments are relaxed:
`issued` is the bag of those made and not yet visible to others, and `Visible` publishes
one, in any order across counters. A session stands for one request. `route`, `upstream`,
`answer` and `took` say what became of it, from which `Due` derives what is to count it.

**`Messages`**, **`CommandLine`**, **`MCMessages`**. Pure functions against reference
definitions: `parse_upstream` and `parse_port` against the grammar of the usage message
(`Readings`), `remove_hop_by_hop_headers` against "nominated by some Connection header"
(`EndToEnd`), the rewriting in `run`, `on_read` and
`write_response_for_current_request`, and `cacheable_response`. A header value is a
sequence of symbols (comma, blank, whole words), an argument one of characters. The
phases let one message go through all the rewritings in turn, a response through
several clients'. `prepare_payload` may refuse a request with a body by an exception, and
then `run` sends nothing (`RunThrows`); what becomes of the exception is in
`ServerLifecycle`. The loop over the values of the Connection headers is a step for each
turn (`ScanToken`), with the variables of the loop; it works on data of its own, so no
other step can see it in the middle. A list of headers is a function of their places: an
erased header leaves a gap, and `set` puts one after the last. What Beast does in `set`,
`erase`, `keep_alive` and `prepare_payload`, and the conversions `std::from_chars` and
`std::to_string`, are external, modelled as these calls use them. `MCMessages` gives TLC
the conversions and the short inputs.

## What the runs show

| Run | Bounds | Checked |
|---|---|---|
| `pool` | 4 endpoints | `BoundedBypass`: a healthy endpoint is selected within N selections. `EvenRotation`: none twice before all once. `NoneOnlyWhenAllDown`. |
| `coalescer` | 4 callers, 2 keys | `OneLeader`, `OneCallback`, `OwnFlight`; under fairness `WaiterAnswered`. |
| `cache` | 3 keys, 2 responses, capacity 2, TTL 2, 4 ticks, 5 uses | `ListMatchesEntries`, `WithinCapacity`, `HitsAreFresh`, `EvictsLeastRecent`, `KeepsContract`. |
| `session_kinds` | 3 sessions, 2 targets, 1 request of any kind each | `OwnAnswer`, `CacheIsShareable`, `OwedOnce`; under fairness `RequestAnswered`. |
| `session_repeat` | 3 sessions, 1 target, 2 cacheable requests each | `OneFetchPerTarget`, `NeverOlder`, `KeepsProtocol`. |
| `cold_misses` | 2 sessions, 1 target | `ColdMissesCollapse` is violated, see below. |
| `session_deadline` | session 7, connect 1, write 2, read 3, lookup up to 2 ticks, 2 requests | `WritesInTime`, `HeldBounded`, `TimeoutsAreEarned`; under fairness `StepsEnd`. |
| `health` | 2 endpoints | `RoundsDoNotOverlap`, `ReportedIsQuiet`, `FlagsFollowReports`, `StopsChecking`; under fairness `StopSettles`, `DownIsNoticed`. |
| `lifecycle` | 3 workers, 2 descriptors | `AcceptLoopLives`, `EndsForCause`, `NoSessionAfterClose`; under fairness `ShutsDown`. |
| `metrics` | 2 sessions, 2 methods, 3 targets, 2 upstreams, counters that wrap at 4 | `CountersExact`, `GaugeNeverWraps`, `PageCoherent`. |
| `messages` | arguments of 7 characters, ports of 6 digits, Connection headers of 5 and 2 symbols | `ParsesExactly`, `EndToEndOnly`, `UpstreamFraming`, `ClientFraming`. |
| `cacheable` | two Cache-Control headers of one symbol | `MarkedNotStored` is violated, see below. |

Each property is stated in words where it is defined.

*Why the bounds suffice.* A flight needs a leader, a waiter, and a third session
that arrives while the callbacks are being invoked: three sessions, and in
`coalescer` a fourth and a second key, so that two completions overlap. A client can
be given an older response only with a second request. A cache of two with three keys
evicts, and five uses with four ticks let an entry be hit, expire, be replaced and be
evicted in one behaviour. Two endpoints make a round that is partly reported; four
make a rotation with gaps. With a session's time of 7 a fetch that uses up its limits
fits or does not, depending on how long the request took to arrive and the name to be
looked up; the second request shows what the first leaves behind. Three workers are
one that dies, one in a handler and one idle, and the joining of one while others run; two
descriptors run out. A counter that
wraps at 4 would wrap for a single decrement too many. Six digits hold
every port with a leading zero and numbers beyond 16 bits, and seven characters a
bracketed address with a port or with parts missing; two Connection headers of five
and two symbols hold two nominations, blanks, empty tokens and a trailing comma.
`session_repeat` and `metrics` use symmetry of the sessions; runs with a liveness property
do not.
`session_kinds` checks `RequestAnswered` of one session, which stands for all, since
they are interchangeable.

*Fairness.* Weak fairness of queued handlers: the worker threads run whatever is
posted to a strand. Of timers: they fire. Of a fetch as the sessions see it: that is
what `StepsEnd` shows with the steps of `UpstreamProxy`, where the network, the
upstream and the client need not answer at all and only the resolver must, since
`async_resolve` is the one operation without a deadline (`src/upstream_proxy.cpp:85`).
In `HealthMonitor` not even the resolver must, because a check's deadline covers its
lookup. `ServerLifecycle` has one strong fairness: the io_context hands out handlers in
the order they became ready, so the acceptor strand has its turn although handlers of
sessions keep taking workers. Nothing obliges a client to send, to read or to leave, an
endpoint to change, a signal to be raised, or anybody to call `stop`.

*The cold misses.* `README.md:9` says that EventEdge "collapses simultaneous cold
misses into one upstream fetch", `README.md:72` "Matching simultaneous misses
have one leader fetch the response while waiters receive that result." `on_read` consults the cache (`src/http_session.cpp:73`) and the
coalescer (line 83) one after the other and a leader does not look into the cache
again. A session that misses, and reaches the coalescer only after the leader has
stored its response and ended the flight, leads a flight of its own: two fetches for
two simultaneous cold misses. What does hold is `OneFetchPerTarget`, that such
fetches do not overlap, and the answers are right either way.

*Cache-Control.* `README.md:72` says that EventEdge stores responses that do not "mark
themselves `no-store`/`private`". `cacheable_response` reads `response[cache_control]`
(`src/http_session.cpp:149`), which is the first such header; a mark in a second one is
not seen.

## What is proved

Each proof module extends the module it is about. The theorems named below hold for
all values of the constants that satisfy the assumptions of the modules; the rest of a
proof module are the lemmas they rest on. An invariant that a run checks is seldom
inductive; what was added to it is the point of each proof.

`UpstreamPoolProofs`, for every N > 0 (the constructor rejects an empty list):
`NoStarvation`, `RotationIsEven`, `NoneMeansAllDown`. The argument measures the
distance from the cursor to an endpoint, the number of steps the scan needs to reach
it. `BypassedComesNearer`: a healthy endpoint that was passed over b times is at
distance less than N - b, since every selection of another moves the cursor past that
one and towards this one. `LapLiesBehind`: endpoints returned in this lap are farther
from the cursor than the healthy ones still due.

`RequestCoalescerProofs`, for every set of callers and keys (`NoKeyAssumption`: "no
key" is not a key): `FlightsHaveOneLeader`, `WaitersHaveOneCallback`,
`AnswersOwnFlight`. The invariant adds to `TypeOK` and `OneLeader` what is true of a
callback wherever it is held: `FlightsHoldJoined`, in an open flight it belongs to a
waiter of that key who joined under the flight's present leader, and no callback is
there twice; `VectorsHoldJoined`, in the vector of a running `complete` it belongs to a
waiter who joined under the caller running it; and `WaitersAreHeld`, every waiter's
callback is in one or the other. It cannot be in both, for its leader would be leading
and notifying at once.

`HttpSessionProofs`, for every set of sessions, targets and requests
(`SessionAssumption`): `ImplementsProtocol`, `AnswersOwnRequest`,
`CacheHoldsShareable`, `OneFetchAtATime`. The composition: `Flights` is
`RequestCoalescerProofs` instantiated with the roles of the sessions, its assumption
discharged (`NothingIsNoKey`). Sessions and coalescer are proved together, because
each needs the other. Every step of a session is a step of the coalescer or one it does
not see (`StepKeeps`), so the coalescer's invariant is kept (`Flights!StepPreserves`);
and `NotifyStep` needs that invariant to know that the callback it invokes belongs to a
session which still waits, and for the target that was fetched. `Fits` is what is true
of a session at each step: a response it holds answers its request, and between lookup
and write its request is a cacheable one. `OneFetchAtATime` is then `OneLeader`.

Under the same assumptions the module's second part proves `AnswersOwedOnce` and
`AnswersNeverAge`. The first follows from the coalescer's `OneCallback`, seen through
the roles of the sessions. The second (`NeverOlder`) is about two requests of a client
with flights of others between them. It needs two facts about every response that a
session can still be given. `OrderInv`: none is newer than what the cache holds, than
what the leader of an open flight has fetched, or than the last fetch; so a hit, and a
response that a flight hands out, is as new as anything a client has seen. `DueInv`: a
response on its way to a session, in a vector or posted, is no older than what that
session has seen. This is needed because a closed flight may still hand out its
response while a newer one is fetched and cached, and holds because a session that is
owed an answer is given nothing else meanwhile. `OrderInv` is where the order of
`complete_flight` matters: with the `put` after `complete` (a mutant of the run) it fails.

`ResponseCacheProofs`, for all keys, responses, capacities and times to live:
`ListAndMapAgree`, `CapacityKept`, `ListIsByRecency`, `HitsFresh`,
`LeastRecentEvicted`, and `ImplementsContract`, for which the time to live must not be
zero (the class allows it, and then a response just put is not found). The invariant
adds that the list is ordered by last use and that an entry is what the latest `put`
of its key made it (`EntriesAreLatest`).

`UpstreamProxyProofs` is about the proxy in time and about its messages. For all time
limits: `FetchWithinBudget`, `TimeoutsEarned`, `ResponsesInTime`,
`SessionsHeldBounded`. `FetchInv`: an operation runs under the limit set when it began,
and began within the limits of those before it. `SessionInv`: the deadline is
`do_read`'s, and the fetch lies between request and response.

For all texts and all lists of headers, of any length (`SymbolsAssumption`: brackets,
colon and digits are symbols; `ConversionAssumption`: a port from 1 to 65535 written
with `to_string` is digits that `from_chars` reads as that port):
`UpstreamsAreParsed`, `OnlyEndToEnd`, `RequestsAreFramed`, `ResponsesAreFramed`. The
argument has three parts.

- The parser. `Separates` says that a colon divides a text into a host and a port of the
  grammar. A text has at most one such colon, and it is the one `parse_upstream` finds:
  after a bracket the one behind the first closing bracket (`ParsesBracketed`),
  otherwise the last, which then has to be the first (`ParsesPlain`). Hence
  `ReadsExactly`. What was parsed never has both a colon and a closing bracket in its host
  (`ParsesEndpoint`), which is why the Host header reads back (`HostReadsBack`).
- The loop. `ScanInv`: the tokens collected so far are the words nominated by the headers
  the loop is done with and by the part of the current value that it has passed; and that
  part ends with a comma. Without the comma a turn could begin in the middle of a token.
  `TakesNominated` is the step: what a turn trims out of its part is a single word
  exactly when that word has a comma between it and every other.
- The lists. `Keeps` says that two lists agree at every place apart from some names;
  `Erases`, `Sets` and `KeepsAlive` say so of Beast's operations, and `Rewrites`, `Returns`
  and `Fits` put them together in the order of the code. The order matters: with Host set
  before the removal (a mutant of the run) `Rewrites` fails, since a client may nominate it.

`MetricsProofs`, for all finite sets of sessions and of upstreams, with fewer requests
than a counter can count (`MetricsAssumption`): `CountersAreExact`, `GaugeStaysInRange`,
`PagesAreCoherent`. The properties compare a counter with the requests it is to count
(`Counted`), and hold only once its increments are visible. The invariant says what it
shows before that. `IssuedInv`: what a session has issued and not yet made visible is, once
each, among what is owed for its request so far. `CountInv`: a counter is the number of
sessions that owe it and have it no longer pending. So a step that issues what it owes
changes no counter's account, and one that publishes moves one session over; the lemma
behind every handler is that it issues exactly what it makes owed (`Pays`). `InGauge`
accounts for the gauge: a session's decrement can be pending only when its increment is
visible, because its strand changed hands in between, so the gauge is never below zero
whatever becomes visible first. `PageInv`: a line that was loaded stays between its two
bounds (`Between`), since the sessions that were done when the page was begun stay done and
what is to be counted only grows.

`HealthMonitorProofs`, for every N > 0: `CounterIsExact`, `RoundsAreSerial`,
`ReportedChecksAreQuiet`, `FlagsAreReports`, `StopEndsChecking`. What makes the
invariant inductive is `CountsOutstanding`: `checks_remaining_` is the number of checks
of this round that have not reported, and a late handler of a completed check counts
nothing.

`ServerLifecycleProofs`, for every number of workers and of descriptors but zero:
`AcceptLoopGoesOn`, `EndsHaveCause`, `NoLateSession`. The invariant says that at most one
worker is in a handler of the strand (`StrandIsSerial`), that an accept has one handler,
queued or running (`OneAccept`), what a closed acceptor rules out (`ClosedIsQuiet`), that
sessions account for the workers in their handlers (`SessionsCounted`), how far the two
loops of `main` are (`WorkersInOrder`), and that the io_context is stopped for a signal or
an exception only (`StopHasCause`). The last needs that an io_context which is not stopped
never runs out of work (`WorkIsLeft`): its acceptor is open, so by `OneAccept` an accept is
pending or has its handler queued or running, unless that handler threw; and then a worker
is about to stop the io_context.

Only model-checked: the liveness properties (`WaiterAnswered`, `RequestAnswered`,
`StopSettles`, `DownIsNoticed`, `StepsEnd`, `ShutsDown`), since fairness and `ENABLED` are
out of the prover's reach; that the conversions of `MCMessages` are those of
`ConversionAssumption`, which TLC evaluates for every port; and the two properties that
the code does not have.

The modules with proofs take `Range` and `IsInjective` from `Functions` and avoid
`SequencesExt`, whose definitions slow the prover down on every step.

## What is not modelled

- The early return when the weak pointer to the coalescer is dead
  (`src/http_session.cpp:79-82`): `main` owns it until no worker is in a handler, which
  is `EndsForCause`.
- `parse_worker_count`, the address of the listener and the count of arguments.
- Of the metrics: the transitions counter, the sum of durations, the lines for each
  upstream and the text of labels. A page is not a snapshot: nothing is said of its
  buckets among each other, and `PageCoherent` bounds each line by itself.
- Bodies of messages, status lines and content types; the text of logs.
- Weak memory, except for the metrics: all other shared state is behind a mutex or on a
  strand.
- The pool inside the models of sessions and monitor. Sessions see whether `select`
  finds anything, which may change at any time, and the monitor sets flags; which
  endpoint is selected matters to neither.
- The number of rounds a handler of a completed check stays queued, beyond one.

## Plan

1. The pool itself, in place of `available` and `healthy`, under sessions and monitor.
2. The transitions counter, with the health check as its one caller.
