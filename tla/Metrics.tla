------------------------------- MODULE Metrics -------------------------------
(***************************************************************************)
(* MetricsRegistry (src/metrics.cpp) and the calls HttpSession makes of it *)
(* on its way through a request (src/http_session.cpp).  Every record_*()  *)
(* is a relaxed atomic increment: increments of different counters may     *)
(* become visible to another thread in any order, those of one counter in  *)
(* the order they were made, and a thread sees its own.  Between two       *)
(* handlers of a session its strand changes hands under a lock, so those   *)
(* of the first are visible before those of the second.  render() loads    *)
(* the counters one after the other, while sessions on other workers go    *)
(* on.  Each session has one request, one page is rendered at a time, and  *)
(* "/x" stands for every target that is proxied.                           *)
(***************************************************************************)
EXTENDS Integers, Sequences, FiniteSets, Bags

CONSTANTS
  Sessions,
  Methods,     \* of the requests: "GET", "POST"
  Targets,     \* of the requests: "/health", "/metrics", "/x"
  Upstreams,   \* labels of upstreams_
  Word         \* counters wrap here: 2^64 in the code

VARIABLES
  at,        \* where each session is in its request
  route,     \* how on_read() dealt with it: answered as, or a part in a flight
  upstream,  \* the upstream selected for it
  answer,    \* the status of its response
  took,      \* the first bucket that holds its duration
  leader,    \* the session that leads the flight, if there is one
  cached,    \* the cache may have the response
  issued,    \* bag of the increments each session has made that are not visible yet
  counter,   \* the visible value of each counter
  page,      \* the lines loaded by the session that renders
  before     \* the sessions that were done, and visibly so, when it began

request == <<route, upstream, answer, took>>
vars == <<at, request, leader, cached, issued, counter, page, before>>

\* Two of the eight buckets_, and the counters of record_response_status().
Buckets == <<"le1", "le2">>
Status == [bad_gateway |-> 502, service_unavailable |-> 503, gateway_timeout |-> 504]

Named ==
  {"requests", "health", "metrics", "proxied", "hits", "misses", "leaders", "waiters",
   "in_flight", "count"}
    \cup DOMAIN Status \cup {Buckets[i] : i \in DOMAIN Buckets}

Counters == Named \cup Upstreams

\* There are fewer requests than a counter can count, and no label of an upstream,
\* which has a colon, is a name used here.
ASSUME MetricsAssumption ==
  /\ IsFiniteSet(Sessions) /\ IsFiniteSet(Upstreams)
  /\ Methods \subseteq {"GET", "POST"}
  /\ Targets \subseteq {"/health", "/metrics", "/x"}
  /\ Word \in Nat /\ Cardinality(Sessions) < Word
  /\ Upstreams \cap (Named \cup {"started", "completed", "none", "bypass"}) = {}

-----------------------------------------------------------------------------

Init ==
  /\ at = [s \in Sessions |-> "idle"]
  /\ route = [s \in Sessions |-> "none"]
  /\ upstream = [s \in Sessions |-> "none"]
  /\ answer = [s \in Sessions |-> 0]
  /\ took = [s \in Sessions |-> 0]
  /\ leader = {}
  /\ cached = FALSE
  /\ issued = [s \in Sessions |-> EmptyBag]
  /\ counter = [c \in Counters |-> 0]
  /\ page = <<>>
  /\ before = {}

\* A call of record_*() for each of the names.
Record(names) == SetToBag(names)

\* record_response_status()
RecordStatus(status) == Record({c \in DOMAIN Status : Status[c] = status})

\* observe_duration(): the count, and every bucket from the first that holds
\* the duration; no bucket holds the longest ones.
ObserveDuration(d) == Record({"count"} \cup {Buckets[i] : i \in d..Len(Buckets)})

Issue(s, recorded) == issued' = [issued EXCEPT ![s] = @ (+) recorded]

Goes(s, where) == at' = [at EXCEPT ![s] = where]
Routed(s, as) == route' = [route EXCEPT ![s] = as]
Answered(s, status) == answer' = [answer EXCEPT ![s] = status]

\* Mutant: the duration is also observed where the response is adapted.
WriteResponseTwice(s, recorded, status) ==
  \E d \in 1..(Len(Buckets) + 1) :
    /\ Issue(s, recorded (+) RecordStatus(status) (+) ObserveDuration(d) (+) ObserveDuration(d))
    /\ took' = [took EXCEPT ![s] = d]

\* write_response()
WriteResponse(s, recorded, status) ==
  \E d \in 1..(Len(Buckets) + 1) :
    /\ Issue(s, recorded (+) RecordStatus(status) (+) ObserveDuration(d))
    /\ took' = [took EXCEPT ![s] = d]

\* handle_request()
HandleRequest(method, target) ==
  IF method # "GET" THEN 405 ELSE IF target = "/health" THEN 200 ELSE 404

\* on_read(): the routes that are answered locally.
ReadLocal(s, method, target) ==
  /\ at[s] = "idle"
  /\ target = "/health" \/ (target = "/metrics" /\ method # "GET")
  /\ LET name == IF target = "/health" THEN "health" ELSE "metrics"
         status == HandleRequest(method, target) IN
       /\ Routed(s, name)
       /\ WriteResponse(s, Record({"requests", name}), status)
       /\ Answered(s, status)
  /\ Goes(s, "done")
  /\ UNCHANGED <<upstream, leader, cached, counter, page, before>>

\* on_read(): GET /metrics, up to the call of render().
ReadMetrics(s) ==
  /\ at[s] = "idle"
  /\ \A t \in Sessions : at[t] # "rendering"
  /\ Issue(s, Record({"requests", "metrics"}))
  /\ Routed(s, "metrics")
  /\ Goes(s, "rendering")
  /\ page' = <<>>
  /\ before' = {t \in Sessions : at[t] = "done" /\ issued[t] = EmptyBag}
  /\ UNCHANGED <<upstream, answer, took, leader, cached, counter>>

\* on_read(): a cache hit.
ReadHit(s) ==
  /\ at[s] = "idle" /\ cached
  /\ Routed(s, "hits")
  /\ WriteResponse(s, Record({"requests", "hits"}), 200)
  /\ Answered(s, 200)
  /\ Goes(s, "done")
  /\ UNCHANGED <<upstream, leader, cached, counter, page, before>>

\* on_read(): a cache miss, up to the choice of an upstream if it leads.
ReadMiss(s) ==
  /\ at[s] = "idle"
  /\ LET part == IF leader = {} THEN "leaders" ELSE "waiters" IN
       /\ Issue(s, Record({"requests", "misses", part}))
       /\ Routed(s, part)
  /\ Goes(s, IF leader = {} THEN "selecting" ELSE "waiting")
  /\ leader' = IF leader = {} THEN {s} ELSE leader
  /\ UNCHANGED <<upstream, answer, took, cached, counter, page, before>>

\* on_read(): a request that is neither cached nor coalesced.
ReadBypass(s) ==
  /\ at[s] = "idle"
  /\ Issue(s, Record({"requests"}))
  /\ Routed(s, "bypass")
  /\ Goes(s, "selecting")
  /\ UNCHANGED <<upstream, answer, took, leader, cached, counter, page, before>>

OnRead(s, method, target) ==
  \/ ReadLocal(s, method, target)
  \/ target = "/metrics" /\ method = "GET" /\ ReadMetrics(s)
  \/ target = "/x" /\ method = "GET" /\ (ReadHit(s) \/ ReadMiss(s))
  \/ target = "/x" /\ method # "GET" /\ ReadBypass(s)

\* The end of a fetch, or of a request there is no upstream for: the leader
\* of the flight stores the response, posts it to the waiters and writes its own.
Deliver(s, recorded, status) ==
  /\ WriteResponse(s, recorded, status)
  /\ LET told == IF s \in leader THEN {t \in Sessions : at[t] = "waiting"} ELSE {} IN
       /\ at' = [t \in Sessions |-> IF t = s THEN "done" ELSE IF t \in told THEN "posted" ELSE at[t]]
       /\ answer' = [t \in Sessions |-> IF t \in told \cup {s} THEN status ELSE answer[t]]
  /\ leader' = leader \ {s}
  /\ cached' \in {cached, cached \/ (s \in leader /\ status = 200)}
  /\ UNCHANGED <<route, upstream, counter, page, before>>

\* An upstream is selected, and the fetch started.
StartFetch(s, u) ==
  /\ upstream' = [upstream EXCEPT ![s] = u]
  /\ Issue(s, Record({"proxied", u, "started"}))
  /\ Goes(s, "fetching")
  /\ UNCHANGED <<route, answer, took, leader, cached, counter, page, before>>

\* Mutant: proxy_completed() is called although no fetch was started.
SelectUnbalanced(s) ==
  /\ at[s] = "selecting"
  /\ \/ \E u \in Upstreams : StartFetch(s, u)
     \/ Deliver(s, Record({"completed"}), 503)

\* An upstream is selected, or there is none.
Select(s) ==
  /\ at[s] = "selecting"
  /\ \/ \E u \in Upstreams : StartFetch(s, u)
     \/ Deliver(s, EmptyBag, 503)

\* The completion handler of the fetch.
Fetched(s) ==
  /\ at[s] = "fetching" /\ issued[s] = EmptyBag
  /\ \E status \in {200, 502, 504} : Deliver(s, Record({"completed"}), status)

\* The handler posted to a waiter.
Posted(s) ==
  /\ at[s] = "posted" /\ issued[s] = EmptyBag
  /\ WriteResponse(s, EmptyBag, answer[s])
  /\ Goes(s, "done")
  /\ UNCHANGED <<route, upstream, answer, leader, cached, counter, page, before>>

-----------------------------------------------------------------------------

\* The lines of render(), in its order, without the health transitions, the sum
\* of the durations and the upstreams.  The +Inf bucket and _count both load
\* duration_count_.
Lines ==
  <<"requests", "health", "metrics", "proxied", "hits", "misses", "leaders", "waiters",
    "bad_gateway", "service_unavailable", "gateway_timeout", "in_flight">>
    \o Buckets \o <<"count", "count">>

\* Mutant: the buckets, which are cumulative already, are summed up.
LoadSummed(s) ==
  /\ at[s] = "rendering"
  /\ Len(page) < Len(Lines)
  /\ ~BagIn(Lines[Len(page) + 1], issued[s])
  /\ page' = Append(page, counter[Lines[Len(page) + 1]]
                            + (IF Lines[Len(page) + 1] = "le2" THEN page[Len(page)] ELSE 0))
  /\ UNCHANGED <<at, request, leader, cached, issued, counter, before>>

\* render() loads one more counter; the session's own increments are visible to it.
Load(s) ==
  /\ at[s] = "rendering"
  /\ Len(page) < Len(Lines)
  /\ ~BagIn(Lines[Len(page) + 1], issued[s])
  /\ page' = Append(page, counter[Lines[Len(page) + 1]])
  /\ UNCHANGED <<at, request, leader, cached, issued, counter, before>>

\* The page is complete and is written.
Rendered(s) ==
  /\ at[s] = "rendering"
  /\ Len(page) = Len(Lines)
  /\ WriteResponse(s, EmptyBag, 200)
  /\ Answered(s, 200)
  /\ Goes(s, "done")
  /\ page' = <<>>
  /\ before' = {}
  /\ UNCHANGED <<route, upstream, leader, cached, counter>>

\* External (the memory): an increment becomes visible.
Visible(s, c) ==
  /\ issued' = [issued EXCEPT ![s] = @ (-) SetToBag({c})]
  /\ counter' = CASE c = "started" -> [counter EXCEPT !["in_flight"] = (@ + 1) % Word]
                  [] c = "completed" -> [counter EXCEPT !["in_flight"] = (@ - 1) % Word]
                  [] OTHER -> [counter EXCEPT ![c] = (@ + 1) % Word]
  /\ UNCHANGED <<at, request, leader, cached, page, before>>

Finished ==
  (\A s \in Sessions : at[s] = "done" /\ issued[s] = EmptyBag) /\ UNCHANGED vars

Next ==
  \/ \E s \in Sessions :
       \/ \E method \in Methods, target \in Targets : OnRead(s, method, target)
       \/ Select(s) \/ Fetched(s) \/ Posted(s) \/ Load(s) \/ Rendered(s)
       \/ \E c \in BagToSet(issued[s]) : Visible(s, c)
  \/ Finished

Spec == Init /\ [][Next]_vars

-----------------------------------------------------------------------------

\* What is to count a request, given what became of it so far.
Due(s) ==
  {c \in Counters :
     \/ c = "requests" /\ route[s] # "none"
     \/ c = route[s]
     \/ c = "misses" /\ route[s] \in {"leaders", "waiters"}
     \/ c = "proxied" /\ upstream[s] # "none"
     \/ c = upstream[s]
     \/ c = "in_flight" /\ at[s] = "fetching"
     \/ /\ at[s] = "done"
        /\ \/ c = "count"
           \/ c \in DOMAIN Status /\ Status[c] = answer[s]
           \/ \E i \in DOMAIN Buckets : c = Buckets[i] /\ took[s] <= i}

Counted(c) == {s \in Sessions : c \in Due(s)}

\* Whenever every increment made so far is visible, every counter is exact: it
\* counts, once each, the requests it is about, however their handlers and those
\* of their flights were interleaved.
CountersExact ==
  (\A s \in Sessions : issued[s] = EmptyBag) =>
    \A c \in Counters : counter[c] = Cardinality(Counted(c))

\* The gauge never wraps below zero, in whatever order the increments of the
\* workers become visible.
GaugeNeverWraps == counter["in_flight"] <= Cardinality(Sessions)

\* A page is no snapshot: its lines are loaded at different times, so that a
\* bucket may even show more than +Inf.  But each line of a counter counts the
\* request the page answers and all those answered, and visibly so, before it was
\* begun, no line counts a request that was not made, and _count is not behind +Inf.
PageCoherent ==
  \A r \in Sessions : at[r] = "rendering" =>
    /\ \A i \in DOMAIN page : Lines[i] # "in_flight" =>
         LET c == Lines[i] IN
           Cardinality(Counted(c) \cap (before \cup {r})) <= page[i] /\ page[i] <= Cardinality(Counted(c))
    /\ Len(page) = Len(Lines) => page[Len(Lines) - 1] <= page[Len(Lines)]
=============================================================================
