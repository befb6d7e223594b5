---------------------------- MODULE HttpSession ----------------------------
(***************************************************************************)
(* Client sessions (src/http_session.cpp) over the cache, the coalescer    *)
(* and the pool they share.  A session handles one request at a time on    *)
(* its strand: read, local answer or cache lookup, join or lead a flight,  *)
(* select an upstream, fetch, store, release the waiters, write.  Handlers *)
(* of different sessions run on different worker threads, so a handler is  *)
(* split where it touches shared state: other sessions may run between     *)
(* cache_->get and join_or_start, between put and complete, and between    *)
(* the callbacks of complete.                                              *)
(*                                                                         *)
(* The cache is the one of CacheContract, the pool is reduced to whether   *)
(* select() finds an endpoint, and a fetch (UpstreamProxy) ends once: with *)
(* a response that cacheable_response accepts, with one that it does not   *)
(* (an error status, a cookie, no-store), or with a 502 or a 504.          *)
(***************************************************************************)
EXTENDS Integers, Sequences

CONSTANTS
  Sessions,
  Targets,      \* proxied request targets, which are the cache keys
  Requests,     \* the requests clients send, see RequestType
  MaxRequests,  \* bound: requests a client sends on one connection
  Nothing       \* no request, no response

VARIABLES
  pc,           \* the step the session's strand is at
  request,      \* request_
  response,     \* the response the session holds: fetched, or to be written
  waiters,      \* the vector local to the session's call of complete()
  posted,       \* the response a waiter's callback posted to its strand
  flights,      \* RequestCoalescer::flights_
  cache,        \* the cache: what get() would find
  available,    \* whether select() would find a healthy endpoint
  fetches,      \* history: fetches started, per target
  sent,         \* history: requests read, per session
  joined,       \* history: who led the flight when a waiter joined it
  seen          \* history: the newest cacheable fetch a session was given

shared == <<flights, cache, available>>
history == <<fetches, sent, joined, seen>>
vars == <<pc, request, response, waiters, posted, shared, history>>

Local == "local"        \* /health and /metrics: answered without the proxy

(***************************************************************************)
(* A request: its target, whether cacheable_request holds of it (a GET     *)
(* without Authorization header), and its keep-alive flag.                 *)
(***************************************************************************)
RequestType == [target : Targets \cup {Local}, plain : BOOLEAN, keep_alive : BOOLEAN]

(***************************************************************************)
(* A response: what it answers, which fetch of that target it comes from   *)
(* (0: made by the proxy itself), whether cacheable_response accepts it,   *)
(* its keep-alive flag, and whether it was fetched for a plain request.    *)
(***************************************************************************)
Responses == [target : Targets \cup {Local}, fetch : Nat, storable : BOOLEAN,
              keep_alive : BOOLEAN, plain : BOOLEAN]

ASSUME SessionAssumption ==
  /\ MaxRequests \in Nat
  /\ Requests \subseteq RequestType
  /\ Local \notin Targets
  /\ Nothing \notin Targets \cup RequestType \cup Responses

Own(r, fetch, storable) ==
  [target |-> r.target, fetch |-> fetch, storable |-> storable,
   keep_alive |-> r.keep_alive, plain |-> r.plain]

\* How a fetch ends: with a response that may be stored, with another one, or
\* with none.
Outcomes == {"storable", "other", "failed"}

\* What the proxy calls back with.  on_read() gives an upstream's response the
\* keep-alive flag of the request it was fetched for; fail() makes a 502 or a 504
\* of the request as run() has rewritten it, which asks to close.
Ended(answer, outcome) ==
  [answer EXCEPT !.storable = (outcome = "storable"),
                 !.keep_alive = (outcome # "failed" /\ answer.keep_alive)]

\* Mutant: a shared response keeps the keep-alive flag of the leader.
ForCurrentRequestShared(r, answer) == answer

\* write_response_for_current_request.
ForCurrentRequest(r, answer) == [answer EXCEPT !.keep_alive = r.keep_alive]

\* Mutant: complete() before put().
CompletionStepsStoreLate == [fetching |-> "taking", taking |-> "storing",
                             storing |-> "notifying", notifying |-> "writing"]

\* The order of the steps of complete_flight.
CompletionSteps == [fetching |-> "storing", storing |-> "taking",
                    taking |-> "notifying", notifying |-> "writing"]

-----------------------------------------------------------------------------
(* The sessions use the coalescer as RequestCoalescer says. *)

\* What a session is to the coalescer at a step of its strand, with `post' posted
\* to it, for request r.
RoleOf(step, post, r) ==
  IF step = "waiting" /\ post = Nothing THEN "waiter"
  ELSE IF step \in {"leading", "storing", "taking"} \/ (step = "fetching" /\ r.plain)
  THEN "leader"
  ELSE IF step = "notifying" THEN "notifying" ELSE "idle"

KeyOf(step, post, r) == IF RoleOf(step, post, r) = "idle" THEN Nothing ELSE r.target

RoleNow == [s \in Sessions |-> RoleOf(pc[s], posted[s], request[s])]
KeyNow == [s \in Sessions |-> KeyOf(pc[s], posted[s], request[s])]

Coalescer == INSTANCE RequestCoalescer WITH
  Callers <- Sessions, Keys <- Targets, NoKey <- Nothing, role <- RoleNow, key <- KeyNow

-----------------------------------------------------------------------------

Init ==
  /\ pc = [s \in Sessions |-> "reading"]
  /\ request = [s \in Sessions |-> Nothing]
  /\ response = [s \in Sessions |-> Nothing]
  /\ waiters = [s \in Sessions |-> <<>>]
  /\ posted = [s \in Sessions |-> Nothing]
  /\ flights = [t \in {} |-> <<>>]
  /\ cache = [t \in Targets |-> Nothing]
  /\ available = TRUE
  /\ fetches = [t \in Targets |-> 0]
  /\ sent = [s \in Sessions |-> 0]
  /\ joined = [s \in Sessions |-> {}]
  /\ seen = [s \in Sessions |-> [t \in Targets |-> 0]]

Goto(s, step) == pc' = [pc EXCEPT ![s] = step]

\* write_response: the answer goes out; it is what the client gets to see.
Write(s, answer) ==
  /\ Goto(s, "writing")
  /\ response' = [response EXCEPT ![s] = answer]
  /\ seen' = IF answer.plain /\ answer.storable
             THEN [seen EXCEPT ![s][answer.target] = answer.fetch] ELSE seen

\* A request arrives: on_read, up to what it does with r.
Receive(s, r) ==
  /\ pc[s] = "reading"
  /\ sent[s] < MaxRequests
  /\ sent' = [sent EXCEPT ![s] = @ + 1]
  /\ request' = [request EXCEPT ![s] = r]

\* select() and, when it finds an endpoint, the start of a fetch for r; its
\* response is settled when it ends.
StartFetch(s, r) ==
  /\ available
  /\ Goto(s, "fetching")
  /\ fetches' = [fetches EXCEPT ![r.target] = @ + 1]
  /\ response' = [response EXCEPT ![s] = Own(r, fetches[r.target] + 1, FALSE)]

\* on_read, a local route.
ReadLocal(s, r) ==
  /\ Receive(s, r)
  /\ r.target = Local
  /\ Goto(s, "writing")
  /\ response' = [response EXCEPT ![s] = Own(r, 0, FALSE)]
  /\ UNCHANGED <<waiters, posted, shared, fetches, joined, seen>>

\* on_read, a cacheable request that hits.
ReadHit(s, r) ==
  /\ Receive(s, r)
  /\ r.target # Local /\ r.plain
  /\ cache[r.target] # Nothing
  /\ Write(s, ForCurrentRequest(r, cache[r.target]))
  /\ UNCHANGED <<waiters, posted, shared, fetches, joined>>

\* on_read, a cacheable request that misses, up to the call of join_or_start.
ReadMiss(s, r) ==
  /\ Receive(s, r)
  /\ r.target # Local /\ r.plain
  /\ cache[r.target] = Nothing
  /\ Goto(s, "missed")
  /\ UNCHANGED <<response, waiters, posted, shared, fetches, joined, seen>>

\* on_read, a request that bypasses cache and coalescer, with an endpoint.
ReadBypass(s, r) ==
  /\ Receive(s, r)
  /\ r.target # Local /\ ~r.plain
  /\ StartFetch(s, r)
  /\ UNCHANGED <<waiters, posted, shared, joined, seen>>

\* on_read, a request that bypasses cache and coalescer, without an endpoint:
\* a 503.
ReadBypassNone(s, r) ==
  /\ Receive(s, r)
  /\ r.target # Local /\ ~r.plain
  /\ ~available
  /\ Write(s, Own(r, 0, FALSE))
  /\ UNCHANGED <<waiters, posted, shared, fetches, joined>>

\* Mutant: every session that misses leads.
JoinOrStartLeading(s) ==
  /\ pc[s] = "missed"
  /\ flights' = Coalescer!Joined(flights, request[s].target, s)
  /\ Goto(s, "leading")
  /\ UNCHANGED <<request, response, waiters, posted, cache, available, history>>

\* on_read: the rest of a handler that missed calls join_or_start.
JoinOrStart(s) ==
  LET t == request[s].target
      leads == Coalescer!Leads(flights, t)
  IN  /\ pc[s] = "missed"
      /\ flights' = Coalescer!Joined(flights, t, s)
      /\ Goto(s, IF leads THEN "leading" ELSE "waiting")
      /\ joined' = IF leads THEN joined
                   ELSE [joined EXCEPT ![s] = Coalescer!Leaders(t)]
      /\ UNCHANGED <<request, response, waiters, posted, cache, available,
                     fetches, sent, seen>>

\* on_read: a leader finds an endpoint.
Lead(s) ==
  /\ pc[s] = "leading"
  /\ StartFetch(s, request[s])
  /\ UNCHANGED <<request, waiters, posted, shared, sent, joined, seen>>

\* Mutant: a leader that finds none writes a 503 and leaves its flight open.
LeadNoneLeavingFlight(s) ==
  /\ pc[s] = "leading"
  /\ ~available
  /\ Goto(s, "writing")
  /\ response' = [response EXCEPT ![s] = Own(request[s], 0, FALSE)]
  /\ UNCHANGED <<request, waiters, posted, shared, history>>

\* on_read: a leader finds none and completes its flight with a 503, which
\* should_cache keeps out of the cache.
LeadNone(s) ==
  /\ pc[s] = "leading"
  /\ ~available
  /\ Goto(s, "taking")
  /\ response' = [response EXCEPT ![s] = Own(request[s], 0, FALSE)]
  /\ UNCHANGED <<request, waiters, posted, shared, history>>

\* The proxy calls back with the response of a leader's fetch.
FetchedByLeader(s, outcome) ==
  /\ pc[s] = "fetching"
  /\ request[s].plain
  /\ Goto(s, CompletionSteps["fetching"])
  /\ response' = [response EXCEPT ![s] = Ended(@, outcome)]
  /\ UNCHANGED <<request, waiters, posted, shared, history>>

\* The proxy calls back with the response of a fetch that bypasses.
FetchedBypass(s, outcome) ==
  /\ pc[s] = "fetching"
  /\ ~request[s].plain
  /\ Write(s, ForCurrentRequest(request[s], Ended(response[s], outcome)))
  /\ UNCHANGED <<request, waiters, posted, shared, fetches, sent, joined>>

\* Mutant: every response is stored.
StoreAnything(s) ==
  /\ pc[s] = "storing"
  /\ Goto(s, CompletionSteps["storing"])
  /\ cache' = [cache EXCEPT ![request[s].target] = response[s]]
  /\ UNCHANGED <<request, response, waiters, posted, flights, available, history>>

\* complete_flight: put, if the response is cacheable.
Store(s) ==
  /\ pc[s] = "storing"
  /\ Goto(s, CompletionSteps["storing"])
  /\ cache' = IF response[s].storable
              THEN [cache EXCEPT ![request[s].target] = response[s]] ELSE cache
  /\ UNCHANGED <<request, response, waiters, posted, flights, available, history>>

\* complete_flight: the part of complete() under the coalescer's mutex.
Take(s) ==
  LET t == request[s].target
  IN  /\ pc[s] = "taking"
      /\ Goto(s, CompletionSteps["taking"])
      /\ waiters' = [waiters EXCEPT ![s] = Coalescer!Taken(flights, t)]
      /\ flights' = Coalescer!Erased(flights, t)
      /\ UNCHANGED <<request, response, posted, cache, available, history>>

\* Mutant: only the first callback is invoked.
NotifyFirst(s) ==
  /\ pc[s] = "notifying"
  /\ waiters[s] # <<>>
  /\ posted' = [posted EXCEPT ![Head(waiters[s])] = response[s]]
  /\ joined' = [joined EXCEPT ![Head(waiters[s])] = {}]
  /\ waiters' = [waiters EXCEPT ![s] = <<>>]
  /\ UNCHANGED <<pc, request, response, shared, fetches, sent, seen>>

\* complete_flight: complete() invokes a callback, which posts to the waiter's
\* strand.
Notify(s) ==
  /\ pc[s] = "notifying"
  /\ waiters[s] # <<>>
  /\ LET w == Head(waiters[s])
     IN  /\ posted' = [posted EXCEPT ![w] = response[s]]
         /\ joined' = [joined EXCEPT ![w] = {}]
  /\ waiters' = [waiters EXCEPT ![s] = Tail(@)]
  /\ UNCHANGED <<pc, request, response, shared, fetches, sent, seen>>

\* complete_flight: complete() has returned and the leader writes.
WriteOwn(s) ==
  /\ pc[s] = "notifying"
  /\ waiters[s] = <<>>
  /\ Write(s, ForCurrentRequest(request[s], response[s]))
  /\ UNCHANGED <<request, waiters, posted, shared, fetches, sent, joined>>

\* The posted handler of a waiter runs.
WritePosted(s) ==
  /\ pc[s] = "waiting"
  /\ posted[s] # Nothing
  /\ Write(s, ForCurrentRequest(request[s], posted[s]))
  /\ posted' = [posted EXCEPT ![s] = Nothing]
  /\ UNCHANGED <<request, waiters, shared, fetches, sent, joined>>

\* on_write, then do_read: the session forgets the request.
Written(s) ==
  /\ pc[s] = "writing"
  /\ response[s].keep_alive
  /\ Goto(s, "reading")
  /\ request' = [request EXCEPT ![s] = Nothing]
  /\ response' = [response EXCEPT ![s] = Nothing]
  /\ UNCHANGED <<waiters, posted, shared, history>>

\* The session ends: on_write after a response that closes the connection, an
\* error of the write (the client is gone, or too slow), or an error or the end
\* of the stream instead of a request.
End(s) ==
  /\ pc[s] \in {"reading", "writing"}
  /\ Goto(s, "closed")
  /\ request' = [request EXCEPT ![s] = Nothing]
  /\ response' = [response EXCEPT ![s] = Nothing]
  /\ UNCHANGED <<waiters, posted, shared, history>>

\* The cache forgets a response: it expires, or makes room for another.
Forget(t) ==
  /\ cache[t] # Nothing
  /\ cache' = [cache EXCEPT ![t] = Nothing]
  /\ UNCHANGED <<pc, request, response, waiters, posted, flights, available, history>>

\* The health monitor marks the last healthy endpoint, or the first again.
SetAvailable ==
  /\ available' = ~available
  /\ UNCHANGED <<pc, request, response, waiters, posted, flights, cache, history>>

Read(s) ==
  \E r \in Requests :
    \/ ReadLocal(s, r) \/ ReadHit(s, r) \/ ReadMiss(s, r)
    \/ ReadBypass(s, r) \/ ReadBypassNone(s, r)

Fetched(s) ==
  \E outcome \in Outcomes : FetchedByLeader(s, outcome) \/ FetchedBypass(s, outcome)

\* The steps of a session that need nobody else: its handlers are queued.
Proceed(s) ==
  \/ JoinOrStart(s) \/ Lead(s) \/ LeadNone(s)
  \/ Store(s) \/ Take(s) \/ Notify(s) \/ WriteOwn(s)
  \/ WritePosted(s)

Next ==
  \/ \E s \in Sessions : Read(s) \/ Proceed(s) \/ Fetched(s) \/ Written(s) \/ End(s)
  \/ \E t \in Targets : Forget(t)
  \/ SetAvailable

Spec == Init /\ [][Next]_vars

\* The worker threads run every queued handler, and every fetch ends.
Fairness ==
  \A s \in Sessions : WF_vars(Proceed(s)) /\ WF_vars(Fetched(s))

FairSpec == Spec /\ Fairness

-----------------------------------------------------------------------------

\* Whatever path a response took, through the cache, a flight of another session
\* or the session's own fetch, what is written answers the request read last:
\* its target, its keep-alive flag, and nothing fetched with the credentials or
\* the method of a request that bypasses the cache.
OwnAnswer ==
  \A s \in Sessions :
    pc[s] = "writing" =>
      /\ response[s].target = request[s].target
      /\ response[s].keep_alive = request[s].keep_alive
      /\ response[s].plain = request[s].plain

\* The cache holds only responses that cacheable_response accepts, under their
\* own target, and none fetched for a request that bypasses the cache.
CacheIsShareable ==
  \A t \in Targets :
    cache[t] # Nothing =>
      cache[t].target = t /\ cache[t].storable /\ cache[t].plain

\* At any time at most one fetch of a target is under way for cacheable
\* requests, however many sessions miss.
OneFetchPerTarget ==
  \A s, u \in Sessions :
    /\ pc[s] = "fetching" /\ request[s].plain
    /\ pc[u] = "fetching" /\ request[u].plain
    /\ request[s].target = request[u].target
    => s = u

\* A session that waits is owed exactly one answer: its callback is held by the
\* flight or by a completion under way, or its answer is posted.  Nobody else is
\* owed any, so no strand writes a second response into a connection.
OwedOnce ==
  \A s \in Sessions :
    LET inFlight == UNION {{<<"flight", t, i>> :
                               i \in {j \in DOMAIN flights[t] : flights[t][j] = s}} :
                             t \in DOMAIN flights}
        inVector == UNION {{<<"vector", u, i>> :
                               i \in {j \in DOMAIN waiters[u] : waiters[u][j] = s}} :
                             u \in Sessions}
        isPosted == IF posted[s] = Nothing THEN {} ELSE {<<"posted">>}
        owed == inFlight \cup inVector \cup isPosted
    IN  IF pc[s] = "waiting" THEN \E place \in owed : owed = {place} ELSE owed = {}

\* A client that repeats a cacheable request on its connection is never given
\* an older cacheable response than the one it was given before, although
\* responses of different flights are stored and posted concurrently.
NeverOlder ==
  [][\A s \in Sessions, t \in Targets : seen[s][t] <= seen'[s][t]]_vars

\* The sessions keep to the protocol of the coalescer: a leader completes its
\* flight once, and nobody calls complete() on a flight it does not lead.
KeepsProtocol == Coalescer!Spec

\* A request that session s reads is answered, also when the leader it waits for
\* has lost its own client.
Answered(s) == pc[s] \notin {"reading", "closed"} ~> pc[s] = "writing"

\* What the repository's README promises of simultaneous cold misses: while the
\* cache holds a response for a target, no session starts another fetch for it.
ColdMissesCollapse ==
  [][\A s \in Sessions :
       pc[s] = "leading" /\ pc'[s] = "fetching"
         => cache[request[s].target] = Nothing]_vars
=============================================================================
