---------------------------- MODULE MetricsProofs ----------------------------
(***************************************************************************)
(* Proofs about Metrics, for any finite sets of sessions and upstreams and *)
(* any width of the counters that the number of requests fits in.          *)
(***************************************************************************)
EXTENDS Metrics, FiniteSetTheorems, TLAPS

-----------------------------------------------------------------------------
(* The inductive invariant. *)

Totals == Counters \ {"in_flight"}
Increments == Totals \cup {"started", "completed"}
Places == {"idle", "rendering", "selecting", "waiting", "posted", "fetching", "done"}
Routes == {"none", "health", "metrics", "hits", "leaders", "waiters", "bypass"}

\* The increments of a session that are not visible yet.
Made(s) == DOMAIN issued[s]

\* The totals that are to count a session's request.
Owes(s) == Due(s) \ {"in_flight"}

TypeInv ==
  /\ at \in [Sessions -> Places]
  /\ route \in [Sessions -> Routes]
  /\ upstream \in [Sessions -> Upstreams \cup {"none"}]
  /\ answer \in [Sessions -> Nat]
  /\ took \in [Sessions -> Nat]
  /\ issued \in [Sessions -> {SetToBag(S) : S \in SUBSET Increments}]
  /\ counter \in [Counters -> Nat]
  /\ page \in Seq(Nat)

\* How far a request is.
PlaceInv ==
  \A s \in Sessions :
    /\ at[s] = "idle" => route[s] = "none"
    /\ at[s] \notin {"fetching", "done"} => upstream[s] = "none"

\* An increment that is not visible yet is one of those owed, and a fetch ends only
\* after its start is visible.
IssuedInv ==
  \A s \in Sessions :
    /\ Made(s) \ {"started", "completed"} \subseteq Owes(s)
    /\ "started" \in Made(s) => at[s] = "fetching"
    /\ "completed" \in Made(s) => at[s] = "done"

\* The sessions a total counts.
Shown(c) == {s \in Sessions : c \in Owes(s) /\ c \notin Made(s)}

CountInv == \A c \in Totals : counter[c] = Cardinality(Shown(c))

\* The sessions the gauge shows: of a fetch whose start is visible and whose end is not.
InGauge == {s \in Sessions : \/ at[s] = "fetching" /\ "started" \notin Made(s)
                             \/ "completed" \in Made(s)}

GaugeInv == counter["in_flight"] = Cardinality(InGauge)

\* What the page of session r shows of counter c is between what was to be counted
\* when it was begun and what is to be counted now.
Between(r, c, n) ==
  /\ Cardinality(Counted(c) \cap (before \cup {r})) <= n
  /\ n <= Cardinality(Counted(c))

\* One page is rendered at a time; the sessions from before it have nothing left to
\* do, and +Inf is not ahead of the counter that _count is loaded from.
PageInv ==
  /\ \A r, s \in Sessions : at[r] = "rendering" /\ at[s] = "rendering" => r = s
  /\ before \subseteq {t \in Sessions : at[t] = "done" /\ Made(t) = {}}
  /\ Len(page) <= Len(Lines)
  /\ \A r \in Sessions : at[r] = "rendering" =>
       \A i \in DOMAIN page : Lines[i] # "in_flight" => Between(r, Lines[i], page[i])
  /\ Len(page) >= 15 => page[15] <= counter["count"]
  /\ Len(page) = 16 => page[15] <= page[16]

IInv == TypeInv /\ PlaceInv /\ IssuedInv /\ CountInv /\ GaugeInv /\ PageInv

-----------------------------------------------------------------------------
(* Bags, names and sessions. *)

\* Increments of different counters put together are all there, once.
LEMMA SumOfSets ==
  ASSUME NEW S, NEW T, S \cap T = {}
  PROVE  SetToBag(S) (+) SetToBag(T) = SetToBag(S \cup T)
BY DEF SetToBag, (+)

\* The increment that becomes visible leaves the others.
LEMMA OneTaken ==
  ASSUME NEW S, NEW c \in S
  PROVE  SetToBag(S) (-) SetToBag({c}) = SetToBag(S \ {c})
BY DEF SetToBag, (-)

\* What a bag made from a set holds.
LEMMA Holds ==
  ASSUME NEW S
  PROVE  DOMAIN SetToBag(S) = S /\ (SetToBag(S) = EmptyBag <=> S = {})
BY DEF SetToBag, EmptyBag

\* The names of the counters, spelled out.
LEMMA Names ==
  /\ DOMAIN Status = {"bad_gateway", "service_unavailable", "gateway_timeout"}
  /\ Named = {"requests", "health", "metrics", "proxied", "hits", "misses", "leaders", "waiters",
              "in_flight", "count", "bad_gateway", "service_unavailable", "gateway_timeout",
              "le1", "le2"}
<1>1. DOMAIN Status = {"bad_gateway", "service_unavailable", "gateway_timeout"}
  BY DEF Status
<1>2. {Buckets[i] : i \in DOMAIN Buckets} = {"le1", "le2"}
  BY DEF Buckets
<1> QED BY <1>1, <1>2 DEF Named

\* Any set of sessions is finite, and fits in a counter.
LEMMA SomeSessions ==
  ASSUME NEW S, S \subseteq Sessions
  PROVE  IsFiniteSet(S) /\ Cardinality(S) \in Nat /\ Cardinality(S) <= Cardinality(Sessions)
BY MetricsAssumption, FS_Subset, FS_CardinalityType

\* Fewer sessions, counted.
LEMMA Fewer ==
  ASSUME NEW S, NEW T, S \subseteq T, T \subseteq Sessions
  PROVE  Cardinality(S) <= Cardinality(T)
BY SomeSessions, FS_Subset

\* One session more, or one less.
LEMMA OneMore ==
  ASSUME NEW S, S \subseteq Sessions, NEW s \in Sessions, s \notin S
  PROVE  Cardinality(S \cup {s}) = Cardinality(S) + 1
BY SomeSessions, FS_AddElement

LEMMA OneLess ==
  ASSUME NEW S, S \subseteq Sessions, NEW s \in S
  PROVE  Cardinality(S \ {s}) = Cardinality(S) - 1
BY SomeSessions, FS_RemoveElement

-----------------------------------------------------------------------------
(* What is owed: for the route, for the upstream, and for the answer. *)

OfRoute(r) ==
  {c \in Totals : \/ c = "requests" /\ r # "none"
                  \/ c = r
                  \/ c = "misses" /\ r \in {"leaders", "waiters"}}

OfUpstream(u) == {c \in Totals : c = u \/ (c = "proxied" /\ u # "none")}

WithStatus(status) == {c \in DOMAIN Status : Status[c] = status}
Within(d) == {"count"} \cup {c \in {"le1", "le2"} : \E i \in DOMAIN Buckets : c = Buckets[i] /\ d <= i}
Written(status, d) == WithStatus(status) \cup Within(d)

RouteNames == {"requests", "health", "metrics", "hits", "misses", "leaders", "waiters"}
UpstreamNames == {"proxied"} \cup Upstreams
AnswerNames == {"count", "bad_gateway", "service_unavailable", "gateway_timeout", "le1", "le2"}

\* The parts of what is owed do not overlap, and the gauge is none of them.
LEMMA NamesApart ==
  /\ RouteNames \subseteq Totals /\ UpstreamNames \subseteq Totals /\ AnswerNames \subseteq Totals
  /\ RouteNames \cap UpstreamNames = {} /\ RouteNames \cap AnswerNames = {}
  /\ UpstreamNames \cap AnswerNames = {}
  /\ {"none", "bypass", "started", "completed"} \cap Totals = {}
BY Names, MetricsAssumption DEF RouteNames, UpstreamNames, AnswerNames, Totals, Counters

\* What each route owes.
LEMMA RoutesOwe ==
  /\ \A r \in Routes : OfRoute(r) \subseteq RouteNames
  /\ OfRoute("none") = {}
  /\ OfRoute("bypass") = {"requests"}
  /\ \A r \in {"health", "metrics", "hits"} : OfRoute(r) = {"requests", r}
  /\ \A r \in {"leaders", "waiters"} : OfRoute(r) = {"requests", "misses", r}
<1>1. RouteNames \subseteq Totals /\ "none" \notin Totals /\ "bypass" \notin Totals
  BY NamesApart
<1>2. \A r \in Routes : OfRoute(r) \subseteq RouteNames
  BY <1>1 DEF OfRoute, Routes, RouteNames
<1>3. OfRoute("none") = {} /\ OfRoute("bypass") = {"requests"}
  BY <1>1 DEF OfRoute, RouteNames
<1>4. \A r \in {"health", "metrics", "hits"} : OfRoute(r) = {"requests", r}
  BY <1>1 DEF OfRoute, RouteNames
<1>5. \A r \in {"leaders", "waiters"} : OfRoute(r) = {"requests", "misses", r}
  BY <1>1 DEF OfRoute, RouteNames
<1> QED BY <1>2, <1>3, <1>4, <1>5

\* What an upstream owes.
LEMMA UpstreamOwes ==
  /\ OfUpstream("none") = {}
  /\ \A u \in Upstreams : OfUpstream(u) = {"proxied", u}
<1>1. UpstreamNames \subseteq Totals /\ "none" \notin Totals
  BY NamesApart
<1>2. "none" \notin Upstreams
  BY MetricsAssumption
<1> QED BY <1>1, <1>2 DEF OfUpstream, UpstreamNames

\* What an answer owes.
LEMMA AnswerOwes ==
  ASSUME NEW status, NEW d
  PROVE  /\ Written(status, d) \subseteq AnswerNames
         /\ WithStatus(status) \cap Within(d) = {}
BY Names DEF Written, WithStatus, Within, AnswerNames

\* What is owed, in parts, for what became of the request.
OwedFor(r, u, p, status, d) ==
  OfRoute(r) \cup OfUpstream(u) \cup (IF p = "done" THEN Written(status, d) ELSE {})

\* Membership of the parts.
LEMMA InParts ==
  ASSUME NEW r, NEW u, NEW p, NEW status, NEW d, NEW c
  PROVE  c \in OwedFor(r, u, p, status, d) <=>
           /\ c \in Totals
           /\ \/ c = "requests" /\ r # "none"
              \/ c = r
              \/ c = "misses" /\ r \in {"leaders", "waiters"}
              \/ c = "proxied" /\ u # "none"
              \/ c = u
              \/ /\ p = "done"
                 /\ \/ c = "count"
                    \/ c \in DOMAIN Status /\ Status[c] = status
                    \/ \E i \in DOMAIN Buckets : c = Buckets[i] /\ d <= i
<1>1. AnswerNames \subseteq Totals /\ DOMAIN Status \subseteq AnswerNames
  BY NamesApart, Names DEF AnswerNames
<1>2. \A i \in DOMAIN Buckets : Buckets[i] \in {"le1", "le2"}
  BY DEF Buckets
<1>3. Written(status, d) \subseteq Totals
  BY <1>1, AnswerOwes
<1> QED
  BY <1>2, <1>3 DEF OwedFor, OfRoute, OfUpstream, Written, WithStatus, Within

\* What is owed now, and after a step.
LEMMA OwesParts ==
  ASSUME NEW s \in Sessions
  PROVE  /\ Owes(s) = OwedFor(route[s], upstream[s], at[s], answer[s], took[s])
         /\ Owes(s)' = OwedFor(route'[s], upstream'[s], at'[s], answer'[s], took'[s])
<1>1. ASSUME NEW c
      PROVE  c \in Owes(s) <=> c \in OwedFor(route[s], upstream[s], at[s], answer[s], took[s])
  BY InParts DEF Owes, Due, Totals
<1>2. ASSUME NEW c
      PROVE  c \in Owes(s)' <=> c \in OwedFor(route'[s], upstream'[s], at'[s], answer'[s], took'[s])
  BY InParts DEF Owes, Due, Totals
<1> QED BY <1>1, <1>2, Zenon

\* What write_response() records.
LEMMA Writes ==
  ASSUME NEW status, NEW d \in 1..(Len(Buckets) + 1), NEW R, R \cap AnswerNames = {}
  PROVE  SetToBag(R) (+) RecordStatus(status) (+) ObserveDuration(d) = SetToBag(R \cup Written(status, d))
<1>1. RecordStatus(status) = SetToBag(WithStatus(status))
  BY DEF RecordStatus, Record, WithStatus
<1>2. {"count"} \cup {Buckets[i] : i \in d..Len(Buckets)} = Within(d)
  BY DEF Within, Buckets
<1>3. ObserveDuration(d) = SetToBag(Within(d))
  BY <1>2, Zenon DEF ObserveDuration, Record
<1>4. R \cap WithStatus(status) = {} /\ (R \cup WithStatus(status)) \cap Within(d) = {}
  BY AnswerOwes DEF Written
<1>5. SetToBag(R) (+) RecordStatus(status) = SetToBag(R \cup WithStatus(status))
  BY <1>1, <1>4, SumOfSets, Zenon
<1>6. SetToBag(R) (+) RecordStatus(status) (+) ObserveDuration(d)
        = SetToBag((R \cup WithStatus(status)) \cup Within(d))
  BY <1>3, <1>4, <1>5, SumOfSets, Zenon
<1>7. (R \cup WithStatus(status)) \cup Within(d) = R \cup Written(status, d)
  BY DEF Written
<1> QED BY <1>6, <1>7, Zenon

-----------------------------------------------------------------------------
(* A session goes on and makes increments. *)

\* Session s goes to place q and may post to others, who waited.
Moves(s, q) ==
  /\ at' \in [Sessions -> Places]
  /\ at'[s] = q
  /\ \A t \in Sessions \ {s} : at'[t] = at[t] \/ (at[t] = "waiting" /\ at'[t] = "posted")

\* It makes the increments R, one of each.
Makes(s, R) == issued' = [issued EXCEPT ![s] = @ (+) SetToBag(R)] /\ counter' = counter

\* They are what is owed for this turn of the request.
Pays(s, R) ==
  /\ R \subseteq Increments
  /\ R \cap Owes(s) = {}
  /\ Owes(s)' = Owes(s) \cup (R \ {"started", "completed"})
  /\ \A t \in Sessions \ {s} : Owes(t)' = Owes(t)

\* A fetch is counted in the gauge from its start to its end.
Gauges(s, q, R) ==
  /\ at[s] # "done"
  /\ at[s] = "fetching" => q = "done" /\ Made(s) = {}
  /\ "started" \in R <=> q = "fetching"
  /\ "completed" \in R <=> at[s] = "fetching"

Turn(s, q, R) == Moves(s, q) /\ Makes(s, R) /\ Pays(s, R) /\ Gauges(s, q, R)

\* What is issued is a set of increments, one of each.
LEMMA IssuedSets ==
  ASSUME TypeInv
  PROVE  \A s \in Sessions : Made(s) \subseteq Increments /\ issued[s] = SetToBag(Made(s))
                                /\ (issued[s] = EmptyBag <=> Made(s) = {})
<1> SUFFICES ASSUME NEW s \in Sessions
             PROVE  Made(s) \subseteq Increments /\ issued[s] = SetToBag(Made(s))
                      /\ (issued[s] = EmptyBag <=> Made(s) = {})
  OBVIOUS
<1>1. PICK S \in SUBSET Increments : issued[s] = SetToBag(S)
  BY DEF TypeInv
<1>2. Made(s) = S
  BY <1>1, Holds, Zenon DEF Made
<1> QED BY <1>1, <1>2, Holds, Zenon

\* What has been made after a turn.
LEMMA MadeAfter ==
  ASSUME TypeInv, IssuedInv, NEW s \in Sessions, NEW q, NEW R, Turn(s, q, R)
  PROVE  /\ Made(s)' = Made(s) \cup R /\ Made(s) \cap R = {}
         /\ \A t \in Sessions \ {s} : Made(t)' = Made(t)
         /\ issued' \in [Sessions -> {SetToBag(S) : S \in SUBSET Increments}]
<1>1. Made(s) \subseteq Increments /\ issued[s] = SetToBag(Made(s))
  BY IssuedSets
<1>2. Made(s) \cap R = {}
  <2>1. Made(s) \ {"started", "completed"} \subseteq Owes(s) /\ R \cap Owes(s) = {}
    BY DEF IssuedInv, Turn, Pays
  <2>2. ~("started" \in Made(s) /\ "started" \in R)
    BY DEF IssuedInv, Turn, Gauges
  <2>3. "completed" \notin Made(s)
    BY DEF IssuedInv, Turn, Gauges
  <2> QED BY <2>1, <2>2, <2>3, Zenon
<1>3. issued[s] (+) SetToBag(R) = SetToBag(Made(s) \cup R)
  BY <1>1, <1>2, SumOfSets, Zenon
<1>4. /\ issued'[s] = SetToBag(Made(s) \cup R)
      /\ \A t \in Sessions \ {s} : issued'[t] = issued[t]
      /\ issued' \in [Sessions -> {SetToBag(S) : S \in SUBSET Increments}]
  <2>1. PICK b : b = SetToBag(Made(s) \cup R)
    BY Zenon
  <2>2. b \in {SetToBag(S) : S \in SUBSET Increments}
    <3>1. Made(s) \cup R \in SUBSET Increments
      BY <1>1 DEF Turn, Pays
    <3> QED BY <2>1, <3>1, Zenon
  <2>3. issued' = [issued EXCEPT ![s] = b]
    BY <1>3, <2>1, Zenon DEF Turn, Makes
  <2> QED BY <2>1, <2>2, <2>3, Zenon DEF TypeInv
<1>5. Made(s)' = Made(s) \cup R
  BY <1>4, Holds, Zenon DEF Made
<1> QED BY <1>2, <1>4, <1>5, Zenon DEF Made

\* A turn makes what is owed, and changes no counter yet.
LEMMA TurnCounts ==
  ASSUME TypeInv, IssuedInv, CountInv, GaugeInv, NEW s \in Sessions, NEW q, NEW R, Turn(s, q, R)
  PROVE  IssuedInv' /\ CountInv' /\ GaugeInv'
<1>1. /\ Made(s)' = Made(s) \cup R /\ Made(s) \cap R = {}
      /\ \A t \in Sessions \ {s} : Made(t)' = Made(t)
  BY MadeAfter
<1>2. /\ Owes(s)' = Owes(s) \cup (R \ {"started", "completed"}) /\ R \cap Owes(s) = {}
      /\ \A t \in Sessions \ {s} : Owes(t)' = Owes(t)
  BY DEF Turn, Pays
<1>3. /\ at'[s] = q
      /\ \A t \in Sessions \ {s} : at'[t] = at[t] \/ (at[t] = "waiting" /\ at'[t] = "posted")
  BY DEF Turn, Moves
<1>4. /\ at[s] # "done"
      /\ at[s] = "fetching" => q = "done" /\ Made(s) = {}
      /\ "started" \in R <=> q = "fetching"
      /\ "completed" \in R <=> at[s] = "fetching"
  BY DEF Turn, Gauges
<1>5. IssuedInv'
  <2> SUFFICES ASSUME NEW t \in Sessions
               PROVE  /\ Made(t)' \ {"started", "completed"} \subseteq Owes(t)'
                      /\ "started" \in Made(t)' => at'[t] = "fetching"
                      /\ "completed" \in Made(t)' => at'[t] = "done"
    BY Zenon DEF IssuedInv
  <2>1. /\ Made(t) \ {"started", "completed"} \subseteq Owes(t)
        /\ "started" \in Made(t) => at[t] = "fetching"
        /\ "completed" \in Made(t) => at[t] = "done"
    BY DEF IssuedInv
  <2>2. CASE t = s
    BY <1>1, <1>2, <1>3, <1>4, <2>1, <2>2
  <2>3. CASE t # s
    BY <1>1, <1>2, <1>3, <2>1, <2>3
  <2> QED BY <2>2, <2>3
<1>6. CountInv'
  <2> SUFFICES ASSUME NEW c \in Totals
               PROVE  counter'[c] = Cardinality(Shown(c)')
    BY Zenon DEF CountInv
  <2>1. c \notin {"started", "completed"}
    BY NamesApart
  <2>2. ASSUME NEW t \in Sessions
        PROVE  (c \in Owes(t)' /\ c \notin Made(t)') <=> (c \in Owes(t) /\ c \notin Made(t))
    BY <1>1, <1>2, <2>1
  <2>3. Shown(c)' = Shown(c)
    BY <2>2, Zenon DEF Shown
  <2> QED BY <2>3 DEF CountInv, Turn, Makes
<1>7. GaugeInv'
  <2>1. "completed" \notin Made(s)
    BY <1>4 DEF IssuedInv
  <2>2. ASSUME NEW t \in Sessions
        PROVE  t \in InGauge' <=> t \in InGauge
    <3>1. CASE t = s
      BY <1>1, <1>3, <1>4, <2>1, <3>1 DEF InGauge
    <3>2. CASE t # s
      BY <1>1, <1>3, <3>2 DEF InGauge
    <3> QED BY <3>1, <3>2
  <2>3. InGauge' = InGauge
    BY <2>2 DEF InGauge
  <2> QED BY <2>3 DEF GaugeInv, Turn, Makes
<1> QED BY <1>5, <1>6, <1>7

\* A session that is not concerned owes what it did.
LEMMA OthersOwe ==
  ASSUME NEW t \in Sessions,
         route'[t] = route[t], upstream'[t] = upstream[t], took'[t] = took[t],
         \/ at'[t] = at[t] /\ answer'[t] = answer[t]
         \/ at[t] # "done" /\ at'[t] # "done"
  PROVE  Owes(t)' = Owes(t)
BY OwesParts, Zenon DEF OwedFor

\* A request that is read owes what its route does, and what its answer does if
\* it is answered at once.
LEMMA ReadPays ==
  ASSUME TypeInv, PlaceInv, NEW s \in Sessions, at[s] = "idle", NEW q \in Places, NEW r \in Routes,
         Goes(s, q), Routed(s, r), upstream' = upstream,
         \/ q # "done" /\ UNCHANGED <<answer, took>>
         \/ q = "done" /\ \E status \in Nat, d \in Nat : Answered(s, status) /\ took' = [took EXCEPT ![s] = d]
  PROVE  /\ Moves(s, q)
         /\ q # "done" => Pays(s, OfRoute(r))
         /\ q = "done" => Pays(s, OfRoute(r) \cup Written(answer'[s], took'[s]))
<1>1. Moves(s, q)
  BY DEF TypeInv, Goes, Moves
<1>2. route'[s] = r /\ upstream'[s] = "none" /\ at'[s] = q
  BY Zenon DEF TypeInv, PlaceInv, Goes, Routed
<1>3. ASSUME NEW t \in Sessions \ {s}
      PROVE  Owes(t)' = Owes(t)
  <2>1. route'[t] = route[t] /\ upstream'[t] = upstream[t] /\ at'[t] = at[t]
    BY DEF TypeInv, Goes, Routed
  <2>2. answer'[t] = answer[t] /\ took'[t] = took[t]
    BY DEF TypeInv, Answered
  <2> QED BY <2>1, <2>2, OthersOwe, Zenon
<1>4. Owes(s) = {}
  <2>1. route[s] = "none" /\ upstream[s] = "none"
    BY DEF PlaceInv
  <2> QED BY <2>1, OwesParts, RoutesOwe, UpstreamOwes DEF OwedFor
<1>5. Owes(s)' = OfRoute(r) \cup (IF q = "done" THEN Written(answer'[s], took'[s]) ELSE {})
  BY <1>2, OwesParts, UpstreamOwes DEF OwedFor
<1>6. /\ OfRoute(r) \subseteq Totals /\ Written(answer'[s], took'[s]) \subseteq Totals
      /\ "started" \notin Totals /\ "completed" \notin Totals
  BY RoutesOwe, AnswerOwes, NamesApart DEF OfRoute
<1>7. q # "done" => Pays(s, OfRoute(r))
  BY <1>3, <1>4, <1>5, <1>6, Zenon DEF Pays, Increments
<1>8. q = "done" => Pays(s, OfRoute(r) \cup Written(answer'[s], took'[s]))
  BY <1>3, <1>4, <1>5, <1>6, Zenon DEF Pays, Increments
<1> QED BY <1>1, <1>7, <1>8

\* A request that is answered later owes what its answer does.
LEMMA EndPays ==
  ASSUME TypeInv, PlaceInv, NEW s \in Sessions, at[s] # "done", Moves(s, "done"),
         NEW status, NEW d \in Nat, UNCHANGED <<route, upstream>>,
         answer'[s] = status, took' = [took EXCEPT ![s] = d],
         \A t \in Sessions \ {s} : answer'[t] = answer[t] \/ at[t] = "waiting",
         NEW E, E \subseteq {"completed"}
  PROVE  Pays(s, E \cup Written(status, d))
<1>1. ASSUME NEW t \in Sessions \ {s}
      PROVE  Owes(t)' = Owes(t)
  <2>1. took'[t] = took[t] /\ route'[t] = route[t] /\ upstream'[t] = upstream[t]
    BY DEF TypeInv
  <2>2. \/ at'[t] = at[t] /\ answer'[t] = answer[t]
        \/ at[t] # "done" /\ at'[t] # "done"
    BY DEF Moves
  <2> QED BY <2>1, <2>2, OthersOwe, Zenon
<1>2. at'[s] = "done" /\ took'[s] = d /\ route'[s] = route[s] /\ upstream'[s] = upstream[s]
  BY DEF Moves, TypeInv
<1>3. Owes(s) = OfRoute(route[s]) \cup OfUpstream(upstream[s])
  BY OwesParts DEF OwedFor
<1>4. Owes(s)' = Owes(s) \cup Written(status, d)
  BY <1>2, <1>3, OwesParts, Zenon DEF OwedFor
<1>5. Owes(s) \cap Written(status, d) = {}
  <2>1. OfRoute(route[s]) \subseteq RouteNames
    BY RoutesOwe DEF TypeInv
  <2>2. OfUpstream(upstream[s]) \subseteq UpstreamNames
    <3>1. upstream[s] \in Upstreams \/ upstream[s] = "none"
      BY DEF TypeInv
    <3> QED BY <3>1, UpstreamOwes DEF UpstreamNames
  <2> QED BY <1>3, <2>1, <2>2, AnswerOwes, NamesApart, Zenon
<1>6. /\ Written(status, d) \subseteq Totals /\ "started" \notin Totals /\ "completed" \notin Totals
  BY AnswerOwes, NamesApart
<1>7. "completed" \notin Owes(s)
  BY <1>6 DEF Owes, Due, Totals
<1> QED BY <1>1, <1>4, <1>5, <1>6, <1>7, Zenon DEF Pays, Increments

-----------------------------------------------------------------------------
(* The page. *)

\* The lines of the page.
LEMMA LinesAre ==
  /\ Len(Lines) = 16 /\ Lines[15] = "count" /\ Lines[16] = "count"
  /\ \A i \in Nat : 1 <= i /\ i <= 16 => Lines[i] \in Counters
<1>1. Len(Lines) = 16 /\ Lines[15] = "count" /\ Lines[16] = "count"
  BY DEF Lines, Buckets
<1>2. ASSUME NEW i \in 1..16
      PROVE  Lines[i] \in Counters
  BY Names DEF Counters, Lines, Buckets
<1>3. \A i \in Nat : 1 <= i /\ i <= 16 => i \in 1..16
  OBVIOUS
<1> QED BY <1>1, <1>2, <1>3, Zenon

\* Every line of a page is a line.
LEMMA ShortPage ==
  ASSUME NEW p \in Seq(Nat), Len(p) <= 16, NEW i \in DOMAIN p
  PROVE  i \in Nat /\ 1 <= i /\ i <= 16 /\ p[i] \in Nat
OBVIOUS

\* What a total is to count.
LEMMA CountedTotals ==
  ASSUME NEW c \in Totals
  PROVE  /\ Counted(c) = {t \in Sessions : c \in Owes(t)}
         /\ Counted(c)' = {t \in Sessions : c \in Owes(t)'}
BY DEF Counted, Owes, Totals

\* How a session's turn concerns the page.
Pages(s, q) ==
  \/ at[s] # "rendering" /\ q # "rendering" /\ UNCHANGED <<page, before>>
  \/ at[s] = "rendering" /\ q = "done" /\ page' = <<>> /\ before' = {}
  \/ /\ \A t \in Sessions : at[t] # "rendering"
     /\ q = "rendering" /\ page' = <<>>
     /\ before' = {t \in Sessions : at[t] = "done" /\ issued[t] = EmptyBag}

\* A turn of a session leaves a page as good as it was.
LEMMA TurnPage ==
  ASSUME TypeInv, IssuedInv, PageInv, NEW s \in Sessions, NEW q, NEW R, Turn(s, q, R), Pages(s, q)
  PROVE  PageInv' /\ page' \in Seq(Nat)
<1>1. \A t \in Sessions \ {s} : Made(t)' = Made(t)
  BY MadeAfter
<1>2. /\ Owes(s) \subseteq Owes(s)'
      /\ \A t \in Sessions \ {s} : Owes(t)' = Owes(t)
  BY DEF Turn, Pays
<1>3. /\ at'[s] = q /\ at[s] # "done"
      /\ \A t \in Sessions \ {s} : at'[t] = at[t] \/ (at[t] = "waiting" /\ at'[t] = "posted")
  BY DEF Turn, Moves, Gauges
<1>4. counter' = counter
  BY DEF Turn, Makes
<1>5. \A r, t \in Sessions : at'[r] = "rendering" /\ at'[t] = "rendering" => r = t
  BY <1>3, Zenon DEF PageInv, Pages
<1>6. before' \subseteq {t \in Sessions : at'[t] = "done" /\ Made(t)' = {}}
  <2>1. ASSUME NEW t \in before'
        PROVE  t \in Sessions /\ t # s /\ at[t] = "done" /\ Made(t) = {}
    BY <1>3, IssuedSets DEF PageInv, Pages
  <2> QED BY <1>1, <1>3, <2>1
<1>7. CASE page' = <<>>
  <2>1. Len(page') = 0 /\ DOMAIN page' = {} /\ page' \in Seq(Nat)
    BY <1>7
  <2> QED BY <1>5, <1>6, <2>1, LinesAre DEF PageInv
<1>8. CASE at[s] # "rendering" /\ q # "rendering" /\ UNCHANGED <<page, before>>
  <2>1. ASSUME NEW r \in Sessions, at'[r] = "rendering", NEW i \in DOMAIN page, Lines[i] # "in_flight"
        PROVE  Between(r, Lines[i], page[i])'
    <3>1. PICK c : c = Lines[i]
      BY Zenon
    <3>2. c \in Totals
      <4>0. page \in Seq(Nat) /\ Len(page) <= 16
        BY LinesAre DEF PageInv, TypeInv
      <4>1. i \in Nat /\ 1 <= i /\ i <= 16
        BY <4>0, ShortPage
      <4> QED BY <2>1, <3>1, <4>1, LinesAre DEF Totals
    <3>3. at[r] = "rendering" /\ r # s /\ s \notin before
      BY <1>3, <1>8, <2>1 DEF PageInv
    <3>4. Cardinality(Counted(c) \cap (before \cup {r})) <= page[i] /\ page[i] <= Cardinality(Counted(c))
      BY <2>1, <3>1, <3>3, Zenon DEF PageInv, Between
    <3>5. Counted(c) \subseteq Counted(c)' /\ Counted(c)' \subseteq Sessions
      BY <1>2, <3>2, CountedTotals
    <3>6. Counted(c)' \cap (before \cup {r}) = Counted(c) \cap (before \cup {r})
      BY <1>2, <3>2, <3>3, CountedTotals
    <3>7. Cardinality(Counted(c)) <= Cardinality(Counted(c)')
      BY <3>5, Fewer, Zenon
    <3>8. /\ page[i] \in Nat /\ Cardinality(Counted(c)) \in Nat /\ Cardinality(Counted(c)') \in Nat
      <4>1. page[i] \in Nat
        BY DEF TypeInv
      <4>2. Counted(c) \subseteq Sessions
        BY DEF Counted
      <4> QED BY <3>5, <4>1, <4>2, SomeSessions, Zenon
    <3>9. page[i] <= Cardinality(Counted(c)')
      BY <3>4, <3>7, <3>8
    <3>10. UNCHANGED <<page, before>>
      BY <1>8
    <3> QED BY <3>1, <3>4, <3>6, <3>9, <3>10, Zenon DEF Between
  <2>2. UNCHANGED <<page, before>> /\ Len(page') = Len(page)
    BY <1>8
  <2> QED BY <1>4, <1>5, <1>6, <2>1, <2>2, Zenon DEF PageInv, TypeInv
<1> QED BY <1>7, <1>8 DEF Pages

\* What every turn of a session keeps.
LEMMA TurnStep ==
  ASSUME IInv, NEW s \in Sessions, NEW q, NEW R, Turn(s, q, R), Pages(s, q), PlaceInv',
         route' \in [Sessions -> Routes], upstream' \in [Sessions -> Upstreams \cup {"none"}],
         answer' \in [Sessions -> Nat], took' \in [Sessions -> Nat]
  PROVE  IInv'
<1>1. TypeInv'
  BY MadeAfter, TurnPage, Zenon DEF IInv, TypeInv, Turn, Moves, Makes
<1> QED BY <1>1, TurnCounts, TurnPage, Zenon DEF IInv

-----------------------------------------------------------------------------
(* The actions. *)

\* The statuses of responses are numbers.
LEMMA Statuses == \A method, target : HandleRequest(method, target) \in {200, 404, 405}
BY DEF HandleRequest

\* A request that is answered as soon as it is read.
LEMMA AnswersAtOnce ==
  ASSUME IInv, NEW s \in Sessions, at[s] = "idle", NEW r \in Routes, NEW status \in Nat,
         Routed(s, r), WriteResponse(s, Record(OfRoute(r)), status), Answered(s, status), Goes(s, "done"),
         UNCHANGED <<upstream, counter, page, before>>
  PROVE  IInv'
<1>1. PICK d \in 1..(Len(Buckets) + 1) :
        /\ Issue(s, Record(OfRoute(r)) (+) RecordStatus(status) (+) ObserveDuration(d))
        /\ took' = [took EXCEPT ![s] = d]
  BY Zenon DEF WriteResponse
<1>2. d \in Nat
  BY <1>1 DEF Buckets
<1>3. PICK R : R = OfRoute(r) \cup Written(status, d)
  BY Zenon
<1>4. Makes(s, R)
  <2>1. OfRoute(r) \cap AnswerNames = {}
    BY RoutesOwe, NamesApart
  <2> QED BY <1>1, <1>3, <2>1, Writes, Zenon DEF Makes, Issue, Record
<1>5. answer'[s] = status /\ took'[s] = d
  BY <1>1 DEF Answered, IInv, TypeInv
<1>6. Moves(s, "done") /\ Pays(s, R)
  <2>1. "done" \in Places
    BY DEF Places
  <2>2. Moves(s, "done") /\ Pays(s, OfRoute(r) \cup Written(answer'[s], took'[s]))
    BY <1>1, <1>2, <2>1, ReadPays, Zenon DEF IInv
  <2> QED BY <1>3, <1>5, <2>2, Zenon
<1>7. Gauges(s, "done", R)
  <2>1. R \subseteq Totals
    BY <1>3, AnswerOwes, NamesApart DEF OfRoute
  <2> QED BY <2>1, NamesApart DEF Gauges
<1>8. /\ route' \in [Sessions -> Routes] /\ upstream' \in [Sessions -> Upstreams \cup {"none"}]
      /\ answer' \in [Sessions -> Nat] /\ took' \in [Sessions -> Nat]
  BY <1>1, <1>2 DEF IInv, TypeInv, Routed, Answered
<1>9. PlaceInv'
  BY DEF IInv, TypeInv, PlaceInv, Routed, Goes
<1>10. Pages(s, "done")
  BY DEF Pages
<1> QED BY <1>4, <1>6, <1>7, <1>8, <1>9, <1>10, TurnStep, Zenon DEF Turn

\* A request that is read and not answered yet.
LEMMA AnswersLater ==
  ASSUME IInv, NEW s \in Sessions, at[s] = "idle", NEW r \in Routes,
         NEW q \in Places \ {"fetching", "done", "idle"},
         Routed(s, r), Issue(s, Record(OfRoute(r))), Goes(s, q), Pages(s, q),
         UNCHANGED <<upstream, answer, took, counter>>
  PROVE  IInv'
<1>1. Makes(s, OfRoute(r))
  BY Zenon DEF Makes, Issue, Record
<1>2. Moves(s, q) /\ Pays(s, OfRoute(r))
  BY ReadPays, Zenon DEF IInv
<1>3. Gauges(s, q, OfRoute(r))
  <2>1. OfRoute(r) \subseteq Totals
    BY DEF OfRoute
  <2> QED BY <2>1, NamesApart DEF Gauges
<1>4. /\ route' \in [Sessions -> Routes] /\ upstream' \in [Sessions -> Upstreams \cup {"none"}]
      /\ answer' \in [Sessions -> Nat] /\ took' \in [Sessions -> Nat]
  BY DEF IInv, TypeInv, Routed
<1>5. PlaceInv'
  BY DEF IInv, TypeInv, PlaceInv, Routed, Goes
<1> QED BY <1>1, <1>2, <1>3, <1>4, <1>5, TurnStep, Zenon DEF Turn

\* on_read()
LEMMA ReadStep ==
  ASSUME IInv, NEW s \in Sessions, NEW method \in Methods, NEW target \in Targets,
         OnRead(s, method, target)
  PROVE  IInv'
<1>1. CASE ReadLocal(s, method, target)
  <2>1. PICK name, status : /\ name = IF target = "/health" THEN "health" ELSE "metrics"
                            /\ status = HandleRequest(method, target)
    BY Zenon
  <2>2. /\ at[s] = "idle" /\ Routed(s, name) /\ WriteResponse(s, Record({"requests", name}), status)
        /\ Answered(s, status) /\ Goes(s, "done") /\ UNCHANGED <<upstream, counter, page, before>>
    BY <1>1, <2>1, Zenon DEF ReadLocal
  <2>3. name \in {"health", "metrics"} /\ name \in Routes /\ status \in Nat
    BY <2>1, Statuses DEF Routes
  <2>4. OfRoute(name) = {"requests", name}
    BY <2>3, RoutesOwe
  <2> QED BY <2>2, <2>3, <2>4, AnswersAtOnce, Zenon
<1>2. CASE ReadHit(s)
  <2>1. OfRoute("hits") = {"requests", "hits"} /\ "hits" \in Routes /\ 200 \in Nat
    BY RoutesOwe DEF Routes
  <2>2. /\ at[s] = "idle" /\ Routed(s, "hits") /\ WriteResponse(s, Record({"requests", "hits"}), 200)
        /\ Answered(s, 200) /\ Goes(s, "done") /\ UNCHANGED <<upstream, counter, page, before>>
    BY <1>2, Zenon DEF ReadHit
  <2> QED BY <2>1, <2>2, AnswersAtOnce, Zenon
<1>3. CASE ReadMetrics(s)
  <2>1. /\ OfRoute("metrics") = {"requests", "metrics"} /\ "metrics" \in Routes
        /\ "rendering" \in Places \ {"fetching", "done", "idle"}
    BY RoutesOwe DEF Routes, Places
  <2>2. Pages(s, "rendering")
    BY <1>3, Zenon DEF ReadMetrics, Pages
  <2>3. /\ at[s] = "idle" /\ Routed(s, "metrics") /\ Issue(s, Record({"requests", "metrics"}))
        /\ Goes(s, "rendering") /\ UNCHANGED <<upstream, answer, took, counter>>
    BY <1>3, Zenon DEF ReadMetrics
  <2> QED BY <2>1, <2>2, <2>3, AnswersLater, Zenon
<1>4. CASE ReadMiss(s)
  <2>1. PICK part, q : /\ part = IF leader = {} THEN "leaders" ELSE "waiters"
                       /\ q = IF leader = {} THEN "selecting" ELSE "waiting"
    BY Zenon
  <2>2. /\ at[s] = "idle" /\ Routed(s, part) /\ Issue(s, Record({"requests", "misses", part}))
        /\ Goes(s, q) /\ UNCHANGED <<upstream, answer, took, counter, page, before>>
    BY <1>4, <2>1, Zenon DEF ReadMiss
  <2>3. /\ part \in {"leaders", "waiters"} /\ part \in Routes
        /\ q \in Places \ {"fetching", "done", "idle"} /\ q # "rendering"
    BY <2>1 DEF Routes, Places
  <2>4. OfRoute(part) = {"requests", "misses", part}
    BY <2>3, RoutesOwe
  <2>5. Pages(s, q)
    BY <2>2, <2>3 DEF Pages
  <2> QED BY <2>2, <2>3, <2>4, <2>5, AnswersLater, Zenon
<1>5. CASE ReadBypass(s)
  <2>1. /\ OfRoute("bypass") = {"requests"} /\ "bypass" \in Routes
        /\ "selecting" \in Places \ {"fetching", "done", "idle"}
    BY RoutesOwe DEF Routes, Places
  <2>2. /\ at[s] = "idle" /\ Routed(s, "bypass") /\ Issue(s, Record({"requests"}))
        /\ Goes(s, "selecting") /\ UNCHANGED <<upstream, answer, took, counter, page, before>>
    BY <1>5, Zenon DEF ReadBypass
  <2>3. Pages(s, "selecting")
    BY <2>2 DEF Pages
  <2> QED BY <2>1, <2>2, <2>3, AnswersLater, Zenon
<1> QED BY <1>1, <1>2, <1>3, <1>4, <1>5 DEF OnRead

\* A request that is answered after others had their turn.
LEMMA AnswersAtLast ==
  ASSUME IInv, NEW s \in Sessions, at[s] \notin {"idle", "done"}, NEW E, E \subseteq {"completed"},
         NEW status, WriteResponse(s, Record(E), status), Moves(s, "done"), Pages(s, "done"),
         "completed" \in E <=> at[s] = "fetching", at[s] = "fetching" => Made(s) = {},
         answer'[s] = status, answer' \in [Sessions -> Nat],
         \A t \in Sessions \ {s} : answer'[t] = answer[t] \/ at[t] = "waiting",
         UNCHANGED <<route, upstream, counter>>
  PROVE  IInv'
<1>1. PICK d \in 1..(Len(Buckets) + 1) :
        /\ Issue(s, Record(E) (+) RecordStatus(status) (+) ObserveDuration(d))
        /\ took' = [took EXCEPT ![s] = d]
  BY Zenon DEF WriteResponse
<1>2. d \in Nat
  BY <1>1 DEF Buckets
<1>3. PICK R : R = E \cup Written(status, d)
  BY Zenon
<1>4. Makes(s, R)
  <2>1. E \cap AnswerNames = {}
    BY DEF AnswerNames
  <2> QED BY <1>1, <1>3, <2>1, Writes, Zenon DEF Makes, Issue, Record
<1>5. Pays(s, R)
  BY <1>1, <1>2, <1>3, EndPays, Zenon DEF IInv
<1>6. Gauges(s, "done", R)
  <2>1. "started" \notin Written(status, d) /\ "completed" \notin Written(status, d)
    BY AnswerOwes, NamesApart
  <2>2. ("started" \in R <=> FALSE) /\ ("completed" \in R <=> "completed" \in E)
    BY <1>3, <2>1
  <2> QED BY <2>2 DEF Gauges
<1>7. /\ route' \in [Sessions -> Routes] /\ upstream' \in [Sessions -> Upstreams \cup {"none"}]
      /\ took' \in [Sessions -> Nat]
  BY <1>1, <1>2 DEF IInv, TypeInv
<1>8. PlaceInv'
  BY Zenon DEF IInv, PlaceInv, Moves
<1> QED BY <1>4, <1>5, <1>6, <1>7, <1>8, TurnStep, Zenon DEF Turn

\* The leader of a flight, or a request that has none, is answered.
LEMMA DeliverStep ==
  ASSUME IInv, NEW s \in Sessions, at[s] \in {"selecting", "fetching"}, NEW E, E \subseteq {"completed"},
         NEW status \in Nat, Deliver(s, Record(E), status),
         "completed" \in E <=> at[s] = "fetching", at[s] = "fetching" => Made(s) = {}
  PROVE  IInv'
<1>1. PICK told : told = IF s \in leader THEN {t \in Sessions : at[t] = "waiting"} ELSE {}
  BY Zenon
<1>2. /\ at' = [t \in Sessions |-> IF t = s THEN "done" ELSE IF t \in told THEN "posted" ELSE at[t]]
      /\ answer' = [t \in Sessions |-> IF t \in told \cup {s} THEN status ELSE answer[t]]
      /\ WriteResponse(s, Record(E), status)
      /\ UNCHANGED <<route, upstream, counter, page, before>>
  BY <1>1, Zenon DEF Deliver
<1>3. \A t \in told : at[t] = "waiting"
  BY <1>1
<1>4. at \in [Sessions -> Places] /\ answer \in [Sessions -> Nat]
  BY DEF IInv, TypeInv
<1>5. Moves(s, "done")
  BY <1>2, <1>3, <1>4 DEF Moves, Places
<1>6. /\ answer'[s] = status /\ answer' \in [Sessions -> Nat]
      /\ \A t \in Sessions \ {s} : answer'[t] = answer[t] \/ at[t] = "waiting"
  BY <1>2, <1>3, <1>4
<1>7. Pages(s, "done")
  BY <1>2 DEF Pages
<1>8. at[s] \notin {"idle", "done"}
  OBVIOUS
<1> QED BY <1>2, <1>5, <1>6, <1>7, <1>8, AnswersAtLast, Zenon

\* The fetch is started.
LEMMA StartStep ==
  ASSUME IInv, NEW s \in Sessions, at[s] = "selecting", NEW u \in Upstreams, StartFetch(s, u)
  PROVE  IInv'
<1>1. PICK R : R = {"proxied", u, "started"}
  BY Zenon
<1>2. Makes(s, R)
  BY <1>1, Zenon DEF StartFetch, Issue, Record, Makes
<1>3. Moves(s, "fetching")
  BY DEF IInv, TypeInv, StartFetch, Goes, Moves, Places
<1>4. Pays(s, R)
  <2>1. ASSUME NEW t \in Sessions \ {s}
        PROVE  Owes(t)' = Owes(t)
    <3>1. upstream'[t] = upstream[t] /\ at'[t] = at[t]
      BY DEF IInv, TypeInv, StartFetch, Goes
    <3>2. route'[t] = route[t] /\ took'[t] = took[t] /\ answer'[t] = answer[t]
      BY Zenon DEF StartFetch
    <3> QED BY <3>1, <3>2, OthersOwe, Zenon
  <2>2. upstream[s] = "none" /\ upstream'[s] = u /\ at'[s] = "fetching" /\ route'[s] = route[s]
    BY Zenon DEF IInv, TypeInv, PlaceInv, StartFetch, Goes
  <2>3. Owes(s) = OfRoute(route[s])
    BY <2>2, OwesParts, UpstreamOwes DEF OwedFor
  <2>4. Owes(s)' = OfRoute(route[s]) \cup {"proxied", u}
    BY <2>2, OwesParts, UpstreamOwes DEF OwedFor
  <2>5. OfRoute(route[s]) \subseteq RouteNames
    BY RoutesOwe DEF IInv, TypeInv
  <2>6. {"proxied", u} \subseteq Totals /\ {"proxied", u} \cap RouteNames = {}
    BY NamesApart DEF UpstreamNames
  <2>7. "started" \notin Totals /\ "completed" \notin Totals /\ RouteNames \subseteq Totals
    BY NamesApart
  <2> QED BY <1>1, <2>1, <2>3, <2>4, <2>5, <2>6, <2>7 DEF Pays, Increments
<1>5. Gauges(s, "fetching", R)
  <2>1. u \notin {"started", "completed"}
    BY MetricsAssumption
  <2> QED BY <1>1, <2>1 DEF Gauges
<1>6. /\ route' \in [Sessions -> Routes] /\ upstream' \in [Sessions -> Upstreams \cup {"none"}]
      /\ answer' \in [Sessions -> Nat] /\ took' \in [Sessions -> Nat]
  BY DEF IInv, TypeInv, StartFetch
<1>7. PlaceInv'
  BY DEF IInv, TypeInv, PlaceInv, StartFetch, Goes
<1>8. Pages(s, "fetching")
  BY DEF Pages, StartFetch
<1> QED BY <1>2, <1>3, <1>4, <1>5, <1>6, <1>7, <1>8, TurnStep, Zenon DEF Turn

\* An upstream is selected or not, a fetch ends, a waiter is told, a page is written.
LEMMA LaterStep ==
  ASSUME IInv, NEW s \in Sessions, Select(s) \/ Fetched(s) \/ Posted(s) \/ Rendered(s)
  PROVE  IInv'
<1>1. EmptyBag = Record({}) /\ (issued[s] = EmptyBag <=> Made(s) = {})
  BY IssuedSets DEF EmptyBag, Record, IInv
<1>2. CASE Select(s)
  <2>1. CASE \E u \in Upstreams : StartFetch(s, u)
    BY <1>2, <2>1, StartStep, Zenon DEF Select
  <2>2. CASE Deliver(s, EmptyBag, 503)
    <3>1. at[s] = "selecting" /\ 503 \in Nat /\ {} \subseteq {"completed"} /\ Deliver(s, Record({}), 503)
      BY <1>1, <1>2, <2>2 DEF Select
    <3> QED BY <3>1, DeliverStep
  <2> QED BY <1>2, <2>1, <2>2 DEF Select
<1>3. CASE Fetched(s)
  <2>1. PICK status \in {200, 502, 504} : Deliver(s, Record({"completed"}), status)
    BY <1>3, Zenon DEF Fetched
  <2>2. at[s] = "fetching" /\ Made(s) = {} /\ status \in Nat
    BY <1>1, <1>3 DEF Fetched
  <2> QED BY <2>1, <2>2, DeliverStep
<1>4. CASE Posted(s)
  <2>1. /\ at[s] = "posted" /\ WriteResponse(s, Record({}), answer[s]) /\ Goes(s, "done")
        /\ UNCHANGED <<route, upstream, answer, counter, page, before>>
    BY <1>1, <1>4, Zenon DEF Posted
  <2>2. Moves(s, "done")
    BY <2>1 DEF IInv, TypeInv, Goes, Moves, Places
  <2>3. Pages(s, "done")
    BY <2>1 DEF Pages
  <2>4. answer' \in [Sessions -> Nat] /\ answer' = answer
    BY <2>1 DEF IInv, TypeInv
  <2>5. at[s] \notin {"idle", "done"} /\ at[s] # "fetching" /\ {} \subseteq {"completed"}
    BY <2>1
  <2>6. PICK status : status = answer[s] /\ status = answer'[s]
    BY <2>4, Zenon
  <2>7. WriteResponse(s, Record({}), status)
    BY <2>1, <2>6, Zenon
  <2> QED BY <2>1, <2>2, <2>3, <2>4, <2>5, <2>6, <2>7, AnswersAtLast
<1>5. CASE Rendered(s)
  <2>1. /\ at[s] = "rendering" /\ WriteResponse(s, Record({}), 200) /\ Goes(s, "done")
        /\ Answered(s, 200) /\ UNCHANGED <<route, upstream, counter>>
    BY <1>1, <1>5, Zenon DEF Rendered
  <2>2. Moves(s, "done")
    BY <2>1 DEF IInv, TypeInv, Goes, Moves, Places
  <2>3. Pages(s, "done")
    BY <1>5 DEF Rendered, Pages
  <2>4. /\ answer' \in [Sessions -> Nat] /\ answer'[s] = 200
        /\ \A t \in Sessions \ {s} : answer'[t] = answer[t]
    BY <2>1 DEF IInv, TypeInv, Answered
  <2>5. at[s] \notin {"idle", "done"} /\ at[s] # "fetching" /\ {} \subseteq {"completed"}
    BY <2>1
  <2> QED BY <2>1, <2>2, <2>3, <2>4, <2>5, AnswersAtLast
<1> QED BY <1>2, <1>3, <1>4, <1>5

\* render() loads a line.
LEMMA LoadStep ==
  ASSUME IInv, NEW s \in Sessions, Load(s)
  PROVE  IInv'
<1>1. /\ UNCHANGED <<at, route, upstream, answer, took, issued, counter, before>>
      /\ at[s] = "rendering" /\ Len(page) < 16
      /\ page' = Append(page, counter[Lines[Len(page) + 1]])
      /\ Lines[Len(page) + 1] \notin Made(s)
  <2>1. /\ UNCHANGED <<at, request, issued, counter, before>>
        /\ at[s] = "rendering" /\ Len(page) < Len(Lines)
        /\ page' = Append(page, counter[Lines[Len(page) + 1]])
        /\ Lines[Len(page) + 1] \notin Made(s)
    BY Zenon DEF Load, BagIn, BagToSet, Made
  <2> QED BY <2>1, LinesAre DEF request
<1>a. PICK n \in Nat : n = Len(page) + 1
  BY DEF IInv, TypeInv
<1>b. PICK c : c = Lines[n]
  BY Zenon
<1>2. n = Len(page) + 1 /\ c = Lines[n]
  BY <1>a, <1>b
<1>3. c \in Counters /\ n <= 16 /\ 1 <= n
  <2>1. n <= 16 /\ 1 <= n
    BY <1>1, <1>2 DEF IInv, TypeInv
  <2> QED BY <1>2, <2>1, LinesAre
<1>4. PICK v \in Nat : v = counter[c]
  BY <1>3 DEF IInv, TypeInv
<1>5. /\ page' \in Seq(Nat) /\ Len(page') = n
      /\ \A i \in DOMAIN page' : (i \in DOMAIN page /\ page'[i] = page[i]) \/ (i = n /\ page'[i] = v)
  <2>1. page' = Append(page, v) /\ page \in Seq(Nat)
    BY <1>1, <1>2, <1>4 DEF IInv, TypeInv
  <2> QED BY <1>2, <2>1
<1>6. /\ \A t : Due(t)' = Due(t) /\ Made(t)' = Made(t) /\ Owes(t)' = Owes(t)
      /\ \A k : Counted(k)' = Counted(k) /\ Shown(k)' = Shown(k)
      /\ InGauge' = InGauge
  <2>1. \A t : Due(t)' = Due(t) /\ Made(t)' = Made(t)
    BY <1>1 DEF Due, Made
  <2> QED BY <1>1, <2>1, Zenon DEF Owes, Counted, Shown, InGauge
<1>7. TypeInv' /\ PlaceInv' /\ IssuedInv' /\ CountInv' /\ GaugeInv'
  <2>1. TypeInv' /\ PlaceInv'
    BY <1>1, <1>5 DEF IInv, TypeInv, PlaceInv
  <2>2. IssuedInv' /\ CountInv' /\ GaugeInv'
    BY <1>1, <1>6, Zenon DEF IInv, IssuedInv, CountInv, GaugeInv
  <2> QED BY <2>1, <2>2
<1>8. c # "in_flight" => Between(s, c, v)
  <2> SUFFICES ASSUME c # "in_flight" PROVE Between(s, c, v)
    OBVIOUS
  <2>1. c \in Totals /\ c \notin Made(s)
    BY <1>1, <1>2, <1>3 DEF Totals
  <2>2. v = Cardinality(Shown(c))
    BY <1>4, <2>1 DEF IInv, CountInv
  <2>3. Counted(c) = {t \in Sessions : c \in Owes(t)}
    BY <2>1, CountedTotals
  <2>4. \A t \in before : Made(t) = {}
    BY DEF IInv, PageInv
  <2>5. Counted(c) \cap (before \cup {s}) \subseteq Shown(c) /\ Shown(c) \subseteq Sessions
    BY <2>1, <2>3, <2>4 DEF Shown
  <2>6. Shown(c) \subseteq Counted(c) /\ Counted(c) \subseteq Sessions
    BY <2>3 DEF Shown
  <2> QED BY <2>2, <2>5, <2>6, Fewer, Zenon DEF Between
<1>9. PageInv'
  <2>1. /\ \A r, t \in Sessions : at'[r] = "rendering" /\ at'[t] = "rendering" => r = t
        /\ before' \subseteq {t \in Sessions : at'[t] = "done" /\ Made(t)' = {}}
    BY <1>1, <1>6, Zenon DEF IInv, PageInv
  <2>2. Len(page') <= Len(Lines)
    BY <1>3, <1>5, LinesAre
  <2>3. ASSUME NEW r \in Sessions, at'[r] = "rendering", NEW i \in DOMAIN page', Lines[i] # "in_flight"
        PROVE  Between(r, Lines[i], page[i])'
    <3>1. r = s
      BY <1>1, <2>3 DEF IInv, PageInv
    <3>2. Between(s, Lines[i], page'[i])
      <4>1. CASE i \in DOMAIN page /\ page'[i] = page[i]
        BY <1>1, <2>3, <4>1, Zenon DEF IInv, PageInv
      <4>2. CASE i = n /\ page'[i] = v
        BY <1>2, <1>8, <2>3, <4>2
      <4> QED BY <1>5, <4>1, <4>2
    <3> QED BY <1>1, <1>6, <3>1, <3>2, Zenon DEF Between
  <2>4. Len(page') >= 15 => page'[15] <= counter'["count"]
    <3>1. CASE n = 15
      <4>1. v = counter["count"] /\ 15 \in DOMAIN page' /\ 15 \notin DOMAIN page
        BY <1>2, <1>4, <1>5, <3>1, LinesAre DEF IInv, TypeInv
      <4> QED BY <1>1, <1>5, <4>1
    <3>2. CASE n = 16
      <4>1. Len(page) >= 15 /\ 15 \in DOMAIN page' /\ 15 # n
        BY <1>2, <1>5, <3>2 DEF IInv, TypeInv
      <4>2. page'[15] = page[15] /\ page[15] <= counter["count"]
        BY <1>5, <4>1 DEF IInv, PageInv
      <4> QED BY <1>1, <4>2
    <3> QED BY <1>3, <1>5, <3>1, <3>2
  <2>5. Len(page') = 16 => page'[15] <= page'[16]
    <3> SUFFICES ASSUME n = 16 PROVE page'[15] <= page'[16]
      BY <1>5
    <3>1. 16 \in DOMAIN page' /\ 16 \notin DOMAIN page
      BY <1>2, <1>5 DEF IInv, TypeInv
    <3>2. page'[16] = counter'["count"]
      BY <1>1, <1>2, <1>4, <1>5, <3>1, LinesAre
    <3> QED BY <1>5, <2>4, <3>2
  <2> QED BY <2>1, <2>2, <2>3, <2>4, <2>5 DEF PageInv
<1> QED BY <1>7, <1>9 DEF IInv

\* A counter that counts another session does not wrap.
LEMMA NoWrap ==
  ASSUME NEW S, S \subseteq Sessions, NEW s \in Sessions, s \notin S, NEW n, n = Cardinality(S)
  PROVE  n \in Nat /\ (n + 1) % Word = n + 1 /\ n + 1 = Cardinality(S \cup {s})
<1>1. PICK k \in Nat, m \in Nat : k = Cardinality(S \cup {s}) /\ m = Cardinality(Sessions)
  BY SomeSessions
<1>2. n \in Nat /\ k = n + 1
  BY <1>1, OneMore, SomeSessions
<1>3. k <= m /\ m < Word /\ Word \in Nat
  BY <1>1, SomeSessions, MetricsAssumption
<1> QED BY <1>1, <1>2, <1>3

\* What an increment that becomes visible leaves as it is.
LEMMA VisibleLeaves ==
  ASSUME IInv, NEW s \in Sessions, NEW c \in Made(s), Visible(s, c)
  PROVE  /\ Made(s)' = Made(s) \ {c}
         /\ \A t \in Sessions \ {s} : Made(t)' = Made(t)
         /\ issued' \in [Sessions -> {SetToBag(S) : S \in SUBSET Increments}]
         /\ UNCHANGED <<at, route, upstream, answer, took, page, before>>
         /\ \A t : Owes(t)' = Owes(t)
         /\ \A k : Counted(k)' = Counted(k)
<1>1. Made(s) \subseteq Increments /\ issued[s] = SetToBag(Made(s))
  BY IssuedSets DEF IInv
<1>2. PICK b : b = SetToBag(Made(s) \ {c})
  BY Zenon
<1>3. issued' = [issued EXCEPT ![s] = b]
  BY <1>1, <1>2, OneTaken, Zenon DEF Visible
<1>4. b \in {SetToBag(S) : S \in SUBSET Increments}
  BY <1>1, <1>2
<1>5. /\ issued'[s] = b
      /\ \A t \in Sessions \ {s} : issued'[t] = issued[t]
      /\ issued' \in [Sessions -> {SetToBag(S) : S \in SUBSET Increments}]
  BY <1>3, <1>4, Zenon DEF IInv, TypeInv
<1>6. UNCHANGED <<at, route, upstream, answer, took, page, before>>
  BY DEF Visible, request
<1>7. \A t : Due(t)' = Due(t)
  BY <1>6 DEF Due
<1>8. Made(s)' = Made(s) \ {c} /\ \A t \in Sessions \ {s} : Made(t)' = Made(t)
  BY <1>2, <1>5, Holds, Zenon DEF Made
<1> QED BY <1>5, <1>6, <1>7, <1>8, Zenon DEF Owes, Counted

\* An increment of a total becomes visible.
LEMMA VisibleTotal ==
  ASSUME IInv, NEW s \in Sessions, NEW c \in Made(s), Visible(s, c), c \in Totals
  PROVE  /\ CountInv' /\ GaugeInv'
         /\ counter' \in [Counters -> Nat] /\ \A k \in Counters : counter[k] <= counter'[k]
<1>1. /\ Made(s)' = Made(s) \ {c}
      /\ \A t \in Sessions \ {s} : Made(t)' = Made(t)
      /\ at' = at
      /\ \A t : Owes(t)' = Owes(t)
  BY VisibleLeaves
<1>2. c \notin {"started", "completed"} /\ c # "in_flight" /\ c \in Counters
  BY NamesApart DEF Totals
<1>3. counter' = [counter EXCEPT ![c] = (@ + 1) % Word]
  BY <1>2 DEF Visible
<1>4. s \notin Shown(c) /\ Shown(c)' = Shown(c) \cup {s} /\ Shown(c) \subseteq Sessions
  <2>1. c \in Owes(s)
    BY <1>2 DEF IInv, IssuedInv
  <2> QED BY <1>1, <2>1 DEF Shown
<1>5. PICK n \in Nat : n = counter[c]
  BY <1>2 DEF IInv, TypeInv
<1>6. n = Cardinality(Shown(c))
  BY <1>5 DEF IInv, CountInv
<1>7. (n + 1) % Word = n + 1 /\ n + 1 = Cardinality(Shown(c)')
  BY <1>4, <1>6, NoWrap
<1>8. /\ counter' \in [Counters -> Nat] /\ counter'[c] = n + 1
      /\ \A k \in Counters \ {c} : counter'[k] = counter[k]
  <2>1. counter' = [counter EXCEPT ![c] = n + 1] /\ counter \in [Counters -> Nat]
    BY <1>3, <1>5, <1>7, Zenon DEF IInv, TypeInv
  <2> QED BY <1>2, <2>1
<1>9. CountInv'
  <2> SUFFICES ASSUME NEW k \in Totals
               PROVE  counter'[k] = Cardinality(Shown(k)')
    BY Zenon DEF CountInv
  <2>1. CASE k = c
    BY <1>7, <1>8, <2>1
  <2>2. CASE k # c
    <3>1. Shown(k)' = Shown(k)
      BY <1>1, <2>2 DEF Shown
    <3>2. counter'[k] = counter[k]
      BY <1>8, <2>2 DEF Totals
    <3> QED BY <3>1, <3>2 DEF IInv, CountInv
  <2> QED BY <2>1, <2>2
<1>10. GaugeInv'
  <2>1. InGauge' = InGauge
    BY <1>1, <1>2 DEF InGauge
  <2>2. counter'["in_flight"] = counter["in_flight"]
    BY <1>2, <1>8, Names DEF Counters
  <2> QED BY <2>1, <2>2 DEF IInv, GaugeInv
<1>11. ASSUME NEW k \in Counters
       PROVE  counter[k] <= counter'[k]
  <2>1. counter[k] \in Nat
    BY DEF IInv, TypeInv
  <2> QED BY <1>5, <1>8, <2>1
<1> QED BY <1>8, <1>9, <1>10, <1>11

\* A change of the gauge becomes visible.
LEMMA VisibleGauge ==
  ASSUME IInv, NEW s \in Sessions, NEW c \in Made(s), Visible(s, c), c \in {"started", "completed"}
  PROVE  /\ CountInv' /\ GaugeInv'
         /\ counter' \in [Counters -> Nat] /\ \A k \in Totals : counter[k] <= counter'[k]
<1>1. /\ Made(s)' = Made(s) \ {c}
      /\ \A t \in Sessions \ {s} : Made(t)' = Made(t)
      /\ at' = at
      /\ \A t : Owes(t)' = Owes(t)
  BY VisibleLeaves
<1>2. "in_flight" \in Counters /\ c \notin Totals
  BY Names, NamesApart DEF Counters
<1>3. PICK n \in Nat : n = counter["in_flight"]
  BY <1>2 DEF IInv, TypeInv
<1>4. n = Cardinality(InGauge) /\ InGauge \subseteq Sessions
  BY <1>3 DEF IInv, GaugeInv, InGauge
<1>5. ~("started" \in Made(s) /\ "completed" \in Made(s))
  BY DEF IInv, IssuedInv
<1>6. PICK m \in Nat : m = Cardinality(InGauge') /\ counter' = [counter EXCEPT !["in_flight"] = m]
  <2>1. CASE c = "started"
    <3>1. s \notin InGauge /\ InGauge' = InGauge \cup {s}
      <4>1. at[s] = "fetching"
        BY <2>1 DEF IInv, IssuedInv
      <4> QED BY <1>1, <1>5, <2>1, <4>1 DEF InGauge
    <3>2. (n + 1) % Word = n + 1 /\ n + 1 = Cardinality(InGauge')
      BY <1>4, <3>1, NoWrap
    <3>3. counter' = [counter EXCEPT !["in_flight"] = (n + 1) % Word]
      BY <1>3, <2>1, Zenon DEF Visible
    <3>4. n + 1 \in Nat
      OBVIOUS
    <3> QED BY <3>2, <3>3, <3>4, Zenon
  <2>2. CASE c = "completed"
    <3>1. s \in InGauge /\ InGauge' = InGauge \ {s}
      <4>1. at[s] = "done"
        BY <2>2 DEF IInv, IssuedInv
      <4> QED BY <1>1, <2>2, <4>1 DEF InGauge
    <3>2. Cardinality(InGauge') = n - 1 /\ Cardinality(InGauge') \in Nat
      BY <1>4, <3>1, OneLess, SomeSessions
    <3>3. n - 1 \in Nat /\ (n - 1) % Word = n - 1
      <4>1. PICK k \in Nat : k = Cardinality(Sessions)
        BY SomeSessions
      <4>2. n <= k /\ k < Word /\ Word \in Nat
        BY <1>4, <4>1, SomeSessions, MetricsAssumption
      <4>3. n - 1 \in Nat
        BY <3>2
      <4> QED BY <4>1, <4>2, <4>3
    <3>4. counter' = [counter EXCEPT !["in_flight"] = (n - 1) % Word]
      <4>1. c # "started"
        BY <2>2
      <4> QED BY <1>3, <2>2, <4>1 DEF Visible
    <3> QED BY <3>2, <3>3, <3>4, Zenon
  <2> QED BY <2>1, <2>2
<1>7. /\ counter' \in [Counters -> Nat] /\ counter'["in_flight"] = m
      /\ \A k \in Totals : counter'[k] = counter[k] /\ counter[k] \in Nat
  <2>1. counter \in [Counters -> Nat]
    BY DEF IInv, TypeInv
  <2> QED BY <1>2, <1>6, <2>1 DEF Totals
<1>8. CountInv'
  <2> SUFFICES ASSUME NEW k \in Totals
               PROVE  counter'[k] = Cardinality(Shown(k)')
    BY Zenon DEF CountInv
  <2>1. Shown(k)' = Shown(k)
    BY <1>1, <1>2 DEF Shown
  <2> QED BY <1>7, <2>1 DEF IInv, CountInv
<1>9. \A k \in Totals : counter[k] <= counter'[k]
  BY <1>7
<1> QED BY <1>6, <1>7, <1>8, <1>9 DEF GaugeInv

\* An increment becomes visible.
LEMMA VisibleStep ==
  ASSUME IInv, NEW s \in Sessions, NEW c \in Made(s), Visible(s, c)
  PROVE  IInv'
<1>1. /\ Made(s)' = Made(s) \ {c}
      /\ \A t \in Sessions \ {s} : Made(t)' = Made(t)
      /\ issued' \in [Sessions -> {SetToBag(S) : S \in SUBSET Increments}]
      /\ UNCHANGED <<at, route, upstream, answer, took, page, before>>
      /\ \A t : Owes(t)' = Owes(t)
      /\ \A k : Counted(k)' = Counted(k)
  BY VisibleLeaves
<1>2. c \in Totals \/ c \in {"started", "completed"}
  BY IssuedSets DEF IInv, Increments
<1>3. /\ CountInv' /\ GaugeInv'
      /\ counter' \in [Counters -> Nat] /\ \A k \in Totals : counter[k] <= counter'[k]
  <2>1. CASE c \in Totals
    BY <2>1, VisibleTotal, Zenon DEF Totals
  <2>2. CASE c \in {"started", "completed"}
    BY <2>2, VisibleGauge, Zenon
  <2> QED BY <1>2, <2>1, <2>2
<1>4. TypeInv' /\ PlaceInv'
  BY <1>1, <1>3 DEF IInv, TypeInv, PlaceInv
<1>5. IssuedInv'
  BY <1>1 DEF IInv, IssuedInv
<1>6. PageInv'
  <2>1. before' \subseteq {t \in Sessions : at'[t] = "done" /\ Made(t)' = {}}
    BY <1>1 DEF IInv, PageInv
  <2>2. ASSUME NEW r \in Sessions, at'[r] = "rendering", NEW i \in DOMAIN page', Lines[i] # "in_flight"
        PROVE  Between(r, Lines[i], page[i])'
    BY <1>1, <2>2, Zenon DEF IInv, PageInv, Between
  <2>3. Len(page') >= 15 => page'[15] <= counter'["count"]
    <3> SUFFICES ASSUME Len(page) >= 15 PROVE page[15] <= counter'["count"]
      BY <1>1
    <3>1. page[15] <= counter["count"]
      BY DEF IInv, PageInv
    <3>2. page[15] \in Nat
      BY DEF IInv, TypeInv
    <3>3. "count" \in Totals /\ "count" \in Counters
      BY NamesApart DEF AnswerNames, Totals
    <3>4. counter["count"] <= counter'["count"] /\ counter["count"] \in Nat /\ counter'["count"] \in Nat
      BY <1>3, <3>3 DEF IInv, TypeInv
    <3> QED BY <3>1, <3>2, <3>4
  <2>4. /\ \A r, t \in Sessions : at'[r] = "rendering" /\ at'[t] = "rendering" => r = t
        /\ Len(page') <= Len(Lines)
        /\ Len(page') = 16 => page'[15] <= page'[16]
    BY <1>1 DEF IInv, PageInv
  <2> QED BY <2>1, <2>2, <2>3, <2>4 DEF PageInv
<1> QED BY <1>3, <1>4, <1>5, <1>6 DEF IInv

-----------------------------------------------------------------------------
(* The theorems. *)

\* The invariant holds when the server starts.
LEMMA Initially == Init => IInv
<1> SUFFICES ASSUME Init PROVE IInv
  OBVIOUS
<1>1. TypeInv
  <2>1. EmptyBag \in {SetToBag(S) : S \in SUBSET Increments}
    BY DEF EmptyBag
  <2>2. issued \in [Sessions -> {SetToBag(S) : S \in SUBSET Increments}]
    BY <2>1, Zenon DEF Init
  <2> QED BY <2>2 DEF Init, TypeInv, Places, Routes
<1>2. \A s \in Sessions : Made(s) = {} /\ Owes(s) = {}
  <2> SUFFICES ASSUME NEW s \in Sessions PROVE Made(s) = {} /\ Owes(s) = {}
    OBVIOUS
  <2>1. Made(s) = {}
    BY Holds DEF Init, Made, EmptyBag
  <2>2. route[s] = "none" /\ upstream[s] = "none" /\ at[s] # "done"
    BY DEF Init
  <2> QED BY <2>1, <2>2, OwesParts, RoutesOwe, UpstreamOwes DEF OwedFor
<1>3. PlaceInv /\ IssuedInv
  BY <1>2 DEF Init, PlaceInv, IssuedInv
<1>4. CountInv
  <2> SUFFICES ASSUME NEW c \in Totals PROVE counter[c] = Cardinality(Shown(c))
    BY DEF CountInv
  <2>1. Shown(c) = {}
    BY <1>2 DEF Shown
  <2> QED BY <2>1, FS_EmptySet DEF Init, Totals
<1>5. GaugeInv
  <2>1. InGauge = {}
    BY <1>2 DEF Init, InGauge
  <2>2. "in_flight" \in Counters
    BY Names DEF Counters
  <2> QED BY <2>1, <2>2, FS_EmptySet DEF Init, GaugeInv
<1>6. PageInv
  BY LinesAre DEF Init, PageInv
<1> QED BY <1>1, <1>3, <1>4, <1>5, <1>6 DEF IInv

\* Every step keeps the invariant: each session makes what its request owes, once.
THEOREM CountingInvariant == Spec => []IInv
<1>1. ASSUME IInv, [Next]_vars
      PROVE  IInv'
  <2>1. CASE UNCHANGED vars
    <3>1. UNCHANGED <<at, route, upstream, answer, took, issued, counter, page, before>>
      BY <2>1 DEF vars, request
    <3>2. \A t : Due(t)' = Due(t) /\ Made(t)' = Made(t)
      BY <3>1 DEF Due, Made
    <3>3. TypeInv' /\ PlaceInv'
      BY <1>1, <3>1 DEF IInv, TypeInv, PlaceInv
    <3>4. /\ \A t : Owes(t)' = Owes(t)
          /\ \A k : Counted(k)' = Counted(k) /\ Shown(k)' = Shown(k)
          /\ InGauge' = InGauge
      BY <3>1, <3>2, Zenon DEF Owes, Counted, Shown, InGauge
    <3>5. IssuedInv' /\ CountInv' /\ GaugeInv' /\ PageInv'
      BY <1>1, <3>1, <3>2, <3>4, Zenon DEF IInv, IssuedInv, CountInv, GaugeInv, PageInv, Between
    <3> QED BY <3>3, <3>5 DEF IInv
  <2>2. ASSUME NEW s \in Sessions,
               \/ \E method \in Methods, target \in Targets : OnRead(s, method, target)
               \/ Select(s) \/ Fetched(s) \/ Posted(s) \/ Load(s) \/ Rendered(s)
               \/ \E c \in BagToSet(issued[s]) : Visible(s, c)
        PROVE  IInv'
    BY <1>1, <2>2, ReadStep, LaterStep, LoadStep, VisibleStep, Zenon DEF BagToSet, Made
  <2> QED BY <1>1, <2>1, <2>2, Zenon DEF Next, Finished
<1> QED BY <1>1, Initially, PTL DEF Spec

\* Whenever every increment is visible, each counter is the number of requests it is
\* to count, and the gauge the number of fetches under way.
THEOREM CountersAreExact == Spec => []CountersExact
<1>1. IInv => CountersExact
  <2> SUFFICES ASSUME IInv, \A s \in Sessions : issued[s] = EmptyBag, NEW c \in Counters
               PROVE  counter[c] = Cardinality(Counted(c))
    BY Zenon DEF CountersExact
  <2>1. \A s \in Sessions : Made(s) = {}
    BY IssuedSets DEF IInv
  <2>2. CASE c \in Totals
    <3>1. Shown(c) = Counted(c)
      BY <2>1, <2>2, CountedTotals DEF Shown
    <3> QED BY <2>2, <3>1 DEF IInv, CountInv
  <2>3. CASE c = "in_flight"
    <3>1. ASSUME NEW s \in Sessions
          PROVE  "in_flight" \in Due(s) <=> at[s] = "fetching"
      <4>1. /\ route[s] # "in_flight" /\ upstream[s] # "in_flight" /\ "in_flight" \in Counters
        BY Names, MetricsAssumption, Zenon DEF IInv, TypeInv, Routes, Counters
      <4>2. "in_flight" \notin DOMAIN Status /\ \A i \in DOMAIN Buckets : Buckets[i] # "in_flight"
        BY Names DEF Buckets
      <4> QED BY <4>1, <4>2 DEF Due
    <3>2. InGauge = Counted("in_flight")
      BY <2>1, <3>1 DEF InGauge, Counted
    <3> QED BY <2>3, <3>2 DEF IInv, GaugeInv
  <2> QED BY <2>2, <2>3 DEF Totals
<1> QED BY <1>1, CountingInvariant, PTL

\* The gauge stays between zero and the number of sessions, whatever the order in
\* which its changes become visible.
THEOREM GaugeStaysInRange == Spec => []GaugeNeverWraps
<1>1. IInv => GaugeNeverWraps
  BY SomeSessions DEF IInv, GaugeInv, InGauge, GaugeNeverWraps
<1> QED BY <1>1, CountingInvariant, PTL

\* Every line of a page is between what was to be counted when the page was begun
\* and what is to be counted now, and _count is not behind +Inf.
THEOREM PagesAreCoherent == Spec => []PageCoherent
<1>1. IInv => PageCoherent
  <2> SUFFICES ASSUME IInv, NEW r \in Sessions, at[r] = "rendering"
               PROVE  /\ \A i \in DOMAIN page : Lines[i] # "in_flight" => Between(r, Lines[i], page[i])
                      /\ Len(page) = Len(Lines) => page[Len(Lines) - 1] <= page[Len(Lines)]
    BY Zenon DEF PageCoherent, Between
  <2>1. \A i \in DOMAIN page : Lines[i] # "in_flight" => Between(r, Lines[i], page[i])
    BY Zenon DEF IInv, PageInv
  <2>2. Len(page) = Len(Lines) => page[Len(Lines) - 1] <= page[Len(Lines)]
    BY LinesAre DEF IInv, PageInv
  <2> QED BY <2>1, <2>2
<1> QED BY <1>1, CountingInvariant, PTL
=============================================================================
