-------------------------- MODULE HttpSessionProofs --------------------------
(***************************************************************************)
(* Proofs about the sessions for any sets of sessions, targets and         *)
(* requests: they use the coalescer by its protocol, so at most one fetch  *)
(* of a target is under way for cacheable requests; what the cache holds   *)
(* may be shared; every response written answers the request read last;    *)
(* whoever waits is owed exactly one answer; and a client that repeats a   *)
(* cacheable request is never given an older response than before.  The    *)
(* invariants of the coalescer are those RequestCoalescerProofs proves,    *)
(* for the roles the sessions' steps give them.                            *)
(***************************************************************************)
EXTENDS HttpSession, TLAPS

Flights == INSTANCE RequestCoalescerProofs WITH
  Callers <- Sessions, Keys <- Targets, NoKey <- Nothing, role <- RoleNow, key <- KeyNow

Steps == {"reading", "missed", "leading", "waiting", "fetching", "storing", "taking",
          "notifying", "writing", "closed"}

\* The steps between the lookup in the cache and the write, for a cacheable request.
Sharing == {"missed", "leading", "waiting", "storing", "taking", "notifying"}

Answers(answer, r) ==
  /\ answer \in Responses
  /\ answer.target = r.target
  /\ answer.plain = r.plain

\* What is true of a session at a step, of its request and of the response it holds.
Fits(step, r, answer) ==
  /\ step \in Steps
  /\ r \in RequestType \cup {Nothing}
  /\ answer \in Responses \cup {Nothing}
  /\ r = Nothing => step \in {"reading", "closed"}
  /\ step \in Sharing => r.plain /\ r.target \in Targets
  /\ step = "fetching" => r.target \in Targets
  /\ step \in {"fetching", "storing", "taking", "notifying", "writing"} => Answers(answer, r)
  /\ step = "writing" => answer.keep_alive = r.keep_alive

\* Every session fits its step, and what is posted answers a session that waits.
SessionInv ==
  /\ pc \in [Sessions -> Steps]
  /\ request \in [Sessions -> RequestType \cup {Nothing}]
  /\ response \in [Sessions -> Responses \cup {Nothing}]
  /\ posted \in [Sessions -> Responses \cup {Nothing}]
  /\ \A s \in Sessions : Fits(pc[s], request[s], response[s])
  /\ \A s \in Sessions :
       posted[s] # Nothing => pc[s] = "waiting" /\ Answers(posted[s], request[s])

\* The cache holds responses that may be shared, under their targets.
CacheInv ==
  /\ cache \in [Targets -> Responses \cup {Nothing}]
  /\ CacheIsShareable
  /\ fetches \in [Targets -> Nat]

Inv == SessionInv /\ CacheInv /\ Flights!IInv

\* The assumption of RequestCoalescer.
LEMMA NothingIsNoKey == Nothing \notin Targets
BY SessionAssumption

-----------------------------------------------------------------------------
(* Responses. *)

\* A response made for a request answers it.
LEMMA OwnAnswers ==
  ASSUME NEW r \in RequestType, NEW n \in Nat, NEW storable \in BOOLEAN
  PROVE  Answers(Own(r, n, storable), r) /\ Own(r, n, storable).keep_alive = r.keep_alive
BY DEF Own, Answers, RequestType, Responses

\* A response that answers a request still does when its keep-alive flag is set for it.
LEMMA ForCurrentRequestAnswers ==
  ASSUME NEW r \in RequestType, NEW answer, Answers(answer, r)
  PROVE  /\ Answers(ForCurrentRequest(r, answer), r)
         /\ ForCurrentRequest(r, answer).keep_alive = r.keep_alive
BY DEF ForCurrentRequest, Answers, RequestType, Responses

\* The end of a fetch changes the two flags of its response only.
LEMMA EndedType ==
  ASSUME NEW answer \in Responses, NEW outcome \in Outcomes
  PROVE  /\ Ended(answer, outcome) \in Responses
         /\ Ended(answer, outcome).target = answer.target
         /\ Ended(answer, outcome).fetch = answer.fetch
         /\ Ended(answer, outcome).plain = answer.plain
<1>1. answer.target \in Targets \cup {Local} /\ answer.fetch \in Nat /\ answer.plain \in BOOLEAN
  BY DEF Responses
<1>2. PICK storable \in BOOLEAN, keep_alive \in BOOLEAN :
        Ended(answer, outcome) = [answer EXCEPT !.storable = storable, !.keep_alive = keep_alive]
  BY Zenon DEF Ended
<1> QED BY <1>1, <1>2, Zenon DEF Responses

\* A fetched response answers the request however the fetch ends.
LEMMA FetchedAnswers ==
  ASSUME NEW r \in RequestType, NEW answer, Answers(answer, r), NEW outcome \in Outcomes
  PROVE  Answers(Ended(answer, outcome), r)
BY EndedType DEF Answers

-----------------------------------------------------------------------------
(* Steps of one session. *)

\* The session moves to a step with a request and a response, and nothing is posted to
\* it afterwards.
Moves(s, step, r, answer) ==
  /\ pc' = [pc EXCEPT ![s] = step]
  /\ request' = [request EXCEPT ![s] = r]
  /\ response' = [response EXCEPT ![s] = answer]
  /\ posted' = [posted EXCEPT ![s] = Nothing]

\* A session that moves to a step it fits keeps the invariant.
LEMMA MoveFits ==
  ASSUME SessionInv, NEW s \in Sessions, NEW step, NEW r, NEW answer,
         Fits(step, r, answer), Moves(s, step, r, answer)
  PROVE  SessionInv'
<1>1. \A u \in Sessions : /\ pc'[u] = IF u = s THEN step ELSE pc[u]
                          /\ request'[u] = IF u = s THEN r ELSE request[u]
                          /\ response'[u] = IF u = s THEN answer ELSE response[u]
                          /\ posted'[u] = IF u = s THEN Nothing ELSE posted[u]
  BY DEF SessionInv, Moves
<1>2. pc' \in [Sessions -> Steps]
  BY DEF SessionInv, Fits, Moves
<1>3. /\ request' \in [Sessions -> RequestType \cup {Nothing}]
      /\ response' \in [Sessions -> Responses \cup {Nothing}]
      /\ posted' \in [Sessions -> Responses \cup {Nothing}]
  BY DEF SessionInv, Fits, Moves
<1>4. \A u \in Sessions : Fits(pc'[u], request'[u], response'[u])
  BY <1>1 DEF SessionInv
<1>5. \A u \in Sessions :
        posted'[u] # Nothing => pc'[u] = "waiting" /\ Answers(posted'[u], request'[u])
  BY <1>1 DEF SessionInv
<1> QED BY <1>2, <1>3, <1>4, <1>5 DEF SessionInv

\* A session that moves changes its own role only.
LEMMA MoveRole ==
  ASSUME SessionInv, NEW s \in Sessions, NEW step, NEW r, NEW answer,
         Moves(s, step, r, answer)
  PROVE  /\ RoleNow' = [RoleNow EXCEPT ![s] = RoleOf(step, Nothing, r)]
         /\ KeyNow' = [KeyNow EXCEPT ![s] = KeyOf(step, Nothing, r)]
<1>1. \A u \in Sessions : /\ pc'[u] = IF u = s THEN step ELSE pc[u]
                          /\ request'[u] = IF u = s THEN r ELSE request[u]
                          /\ posted'[u] = IF u = s THEN Nothing ELSE posted[u]
  BY DEF SessionInv, Moves
<1>2. ASSUME NEW u \in Sessions
      PROVE  /\ RoleOf(pc'[u], posted'[u], request'[u]) =
                  IF u = s THEN RoleOf(step, Nothing, r) ELSE RoleNow[u]
             /\ KeyOf(pc'[u], posted'[u], request'[u]) =
                  IF u = s THEN KeyOf(step, Nothing, r) ELSE KeyNow[u]
  <2>1. CASE u = s
    <3>1. pc'[u] = step /\ posted'[u] = Nothing /\ request'[u] = r
      BY <1>1, <2>1
    <3> QED BY <2>1, <3>1
  <2>2. CASE u # s
    <3>1. pc'[u] = pc[u] /\ posted'[u] = posted[u] /\ request'[u] = request[u]
      BY <1>1, <2>2
    <3>2. /\ RoleNow[u] = RoleOf(pc[u], posted[u], request[u])
          /\ KeyNow[u] = KeyOf(pc[u], posted[u], request[u])
      BY Zenon DEF RoleNow, KeyNow
    <3> QED BY <2>2, <3>1, <3>2
  <2> QED BY <2>1, <2>2
<1>3. /\ RoleNow' = [u \in Sessions |-> RoleOf(pc'[u], posted'[u], request'[u])]
      /\ KeyNow' = [u \in Sessions |-> KeyOf(pc'[u], posted'[u], request'[u])]
  BY Zenon DEF RoleNow, KeyNow
<1>4. /\ RoleNow' = [u \in Sessions |-> IF u = s THEN RoleOf(step, Nothing, r) ELSE RoleNow[u]]
      /\ KeyNow' = [u \in Sessions |-> IF u = s THEN KeyOf(step, Nothing, r) ELSE KeyNow[u]]
  BY <1>2, <1>3, Zenon
<1>5. DOMAIN RoleNow = Sessions /\ DOMAIN KeyNow = Sessions
  BY Zenon DEF RoleNow, KeyNow
<1> QED BY <1>4, <1>5, Zenon

\* A session that does not wait has nothing posted to it.
LEMMA NothingPosted ==
  ASSUME SessionInv, NEW s \in Sessions, pc[s] # "waiting", posted' = posted
  PROVE  posted[s] = Nothing /\ posted' = [posted EXCEPT ![s] = Nothing]
BY DEF SessionInv

\* A session that keeps its role, the flights and the vectors is not seen by the coalescer.
LEMMA MoveUnseen ==
  ASSUME SessionInv, NEW s \in Sessions, NEW step, NEW r, NEW answer,
         Moves(s, step, r, answer),
         RoleOf(step, Nothing, r) = RoleOf(pc[s], posted[s], request[s]),
         KeyOf(step, Nothing, r) = KeyOf(pc[s], posted[s], request[s]),
         UNCHANGED <<flights, waiters, joined>>
  PROVE  UNCHANGED Coalescer!vars
<1>1. RoleNow' = RoleNow /\ KeyNow' = KeyNow
  <2>1. /\ RoleNow' = [RoleNow EXCEPT ![s] = RoleNow[s]]
        /\ KeyNow' = [KeyNow EXCEPT ![s] = KeyNow[s]]
    <3>1. /\ RoleNow[s] = RoleOf(pc[s], posted[s], request[s])
          /\ KeyNow[s] = KeyOf(pc[s], posted[s], request[s])
      BY Zenon DEF RoleNow, KeyNow
    <3>2. /\ RoleNow' = [RoleNow EXCEPT ![s] = RoleOf(step, Nothing, r)]
          /\ KeyNow' = [KeyNow EXCEPT ![s] = KeyOf(step, Nothing, r)]
      BY MoveRole
    <3> QED BY <3>1, <3>2
  <2>2. /\ RoleNow = [u \in Sessions |-> RoleNow[u]]
        /\ KeyNow = [u \in Sessions |-> KeyNow[u]]
    BY Zenon DEF RoleNow, KeyNow
  <2> QED BY <2>1, <2>2, Zenon
<1> QED BY <1>1 DEF Coalescer!vars

\* Idle sessions have no key.
LEMMA IdleRole ==
  ASSUME NEW step \in {"reading", "missed", "writing", "closed"}, NEW post, NEW r
  PROVE  RoleOf(step, post, r) = "idle" /\ KeyOf(step, post, r) = Nothing
BY DEF RoleOf, KeyOf

\* Neither has a session that bypasses the coalescer.
LEMMA IdleFetch ==
  ASSUME NEW post, NEW r, ~r.plain
  PROVE  RoleOf("fetching", post, r) = "idle" /\ KeyOf("fetching", post, r) = Nothing
BY DEF RoleOf, KeyOf

\* Neither is a session whose answer is posted a waiter any more.
LEMMA IdlePosted ==
  ASSUME NEW post, post # Nothing, NEW r
  PROVE  RoleOf("waiting", post, r) = "idle" /\ KeyOf("waiting", post, r) = Nothing
BY DEF RoleOf, KeyOf

\* A session leads from the start of its flight to the locked part of complete().
LEMMA LeaderRole ==
  ASSUME NEW step, NEW post, NEW r,
         step \in {"leading", "storing", "taking"} \/ (step = "fetching" /\ r.plain)
  PROVE  RoleOf(step, post, r) = "leader" /\ KeyOf(step, post, r) = r.target
BY DEF RoleOf, KeyOf

\* So it is a leader to the coalescer.
LEMMA LeaderNow ==
  ASSUME NEW s \in Sessions,
         pc[s] \in {"leading", "storing", "taking"} \/ (pc[s] = "fetching" /\ request[s].plain)
  PROVE  RoleNow[s] = "leader" /\ KeyNow[s] = request[s].target
<1>1. /\ RoleNow[s] = RoleOf(pc[s], posted[s], request[s])
      /\ KeyNow[s] = KeyOf(pc[s], posted[s], request[s])
  BY Zenon DEF RoleNow, KeyNow
<1> QED BY <1>1, LeaderRole

\* The cache and the count of fetches are as before.
LEMMA CacheKept ==
  ASSUME CacheInv, UNCHANGED <<cache, fetches>>
  PROVE  CacheInv'
BY DEF CacheInv, CacheIsShareable

-----------------------------------------------------------------------------
(* Reading a request. *)

\* What a session that reads does keeps to its step, and is not seen by the coalescer.
LEMMA ReadMoves ==
  ASSUME SessionInv, NEW s \in Sessions, pc[s] = "reading",
         NEW step, NEW r, NEW answer, Fits(step, r, answer), Moves(s, step, r, answer),
         step \in {"missed", "writing"} \/ (step = "fetching" /\ ~r.plain),
         UNCHANGED <<flights, waiters, joined>>
  PROVE  SessionInv' /\ UNCHANGED Coalescer!vars
<1>1. RoleOf(step, Nothing, r) = "idle" /\ KeyOf(step, Nothing, r) = Nothing
  BY IdleRole, IdleFetch
<1>2. RoleOf(pc[s], posted[s], request[s]) = "idle" /\ KeyOf(pc[s], posted[s], request[s]) = Nothing
  BY IdleRole
<1> QED BY <1>1, <1>2, MoveFits, MoveUnseen

\* A local route.
LEMMA ReadLocalStep ==
  ASSUME Inv, NEW s \in Sessions, NEW r \in RequestType, ReadLocal(s, r)
  PROVE  SessionInv' /\ CacheInv' /\ UNCHANGED Coalescer!vars
<1>1. SessionInv /\ CacheInv
  BY DEF Inv
<1>2. Moves(s, "writing", r, Own(r, 0, FALSE))
  BY <1>1, NothingPosted DEF ReadLocal, Receive, Goto, Moves
<1>3. Fits("writing", r, Own(r, 0, FALSE))
  BY SessionAssumption, OwnAnswers, Zenon DEF Fits, Answers, Steps, Sharing
<1>4. pc[s] = "reading" /\ UNCHANGED <<flights, waiters, joined>>
  BY DEF ReadLocal, Receive, shared
<1>5. CacheInv'
  BY <1>1, CacheKept DEF ReadLocal, shared
<1> QED BY <1>1, <1>2, <1>3, <1>4, <1>5, ReadMoves, Zenon

\* A hit.
LEMMA ReadHitStep ==
  ASSUME Inv, NEW s \in Sessions, NEW r \in RequestType, ReadHit(s, r)
  PROVE  SessionInv' /\ CacheInv' /\ UNCHANGED Coalescer!vars
<1> DEFINE answer == ForCurrentRequest(r, cache[r.target])
<1>1. SessionInv /\ CacheInv
  BY DEF Inv
<1>2. Moves(s, "writing", r, answer)
  BY <1>1, NothingPosted DEF ReadHit, Receive, Write, Goto, Moves
<1>3. Answers(cache[r.target], r)
  <2>1. r.target \in Targets /\ r.plain /\ cache[r.target] # Nothing
    BY DEF ReadHit, RequestType
  <2>2. /\ cache[r.target] \in Responses
        /\ cache[r.target].target = r.target
        /\ cache[r.target].plain
    BY <1>1, <2>1 DEF CacheInv, CacheIsShareable
  <2>3. cache[r.target].plain \in BOOLEAN /\ r.plain \in BOOLEAN
    BY <2>2 DEF RequestType, Responses
  <2>4. cache[r.target].plain = r.plain
    BY <2>1, <2>2, <2>3, Zenon
  <2> QED BY <2>2, <2>4, Zenon DEF Answers
<1>4. Answers(answer, r) /\ answer.keep_alive = r.keep_alive
  BY <1>3, ForCurrentRequestAnswers
<1>5. Fits("writing", r, answer)
  <2> HIDE DEF answer
  <2> QED BY <1>4, SessionAssumption DEF Fits, Answers, Steps, Sharing
<1>6. pc[s] = "reading" /\ UNCHANGED <<flights, waiters, joined>>
  BY DEF ReadHit, Receive, shared
<1>7. CacheInv'
  BY <1>1, CacheKept DEF ReadHit, shared
<1> HIDE DEF answer
<1> QED BY <1>1, <1>2, <1>5, <1>6, <1>7, ReadMoves

\* A miss.
LEMMA ReadMissStep ==
  ASSUME Inv, NEW s \in Sessions, NEW r \in RequestType, ReadMiss(s, r)
  PROVE  SessionInv' /\ CacheInv' /\ UNCHANGED Coalescer!vars
<1>1. SessionInv /\ CacheInv
  BY DEF Inv
<1>2. Moves(s, "missed", r, response[s])
  BY <1>1, NothingPosted DEF ReadMiss, Receive, Goto, Moves, SessionInv
<1>3. Fits("missed", r, response[s])
  BY <1>1, SessionAssumption DEF Fits, Steps, Sharing, SessionInv, ReadMiss, RequestType
<1>4. pc[s] = "reading" /\ UNCHANGED <<flights, waiters, joined>>
  BY DEF ReadMiss, Receive, shared
<1>5. CacheInv'
  BY <1>1, CacheKept DEF ReadMiss, shared
<1> QED BY <1>1, <1>2, <1>3, <1>4, <1>5, ReadMoves

\* The start of a fetch counts it, and what is fetched answers the request.
LEMMA StartFetchStep ==
  ASSUME CacheInv, NEW s \in Sessions, NEW r \in RequestType, r.target \in Targets,
         StartFetch(s, r), cache' = cache
  PROVE  /\ CacheInv'
         /\ Answers(Own(r, fetches[r.target] + 1, FALSE), r)
<1>1. fetches[r.target] + 1 \in Nat
  BY DEF CacheInv
<1>2. fetches' \in [Targets -> Nat]
  BY <1>1 DEF CacheInv, StartFetch
<1>3. CacheInv'
  BY <1>2 DEF CacheInv, CacheIsShareable
<1> QED BY <1>1, <1>3, OwnAnswers, Zenon

\* A request that bypasses cache and coalescer.
LEMMA ReadBypassStep ==
  ASSUME Inv, NEW s \in Sessions, NEW r \in RequestType, ReadBypass(s, r)
  PROVE  SessionInv' /\ CacheInv' /\ UNCHANGED Coalescer!vars
<1> DEFINE answer == Own(r, fetches[r.target] + 1, FALSE)
<1>1. SessionInv /\ CacheInv
  BY DEF Inv
<1>2. Moves(s, "fetching", r, answer)
  BY <1>1, NothingPosted DEF ReadBypass, StartFetch, Receive, Goto, Moves
<1>3. r.target \in Targets /\ ~r.plain
  BY DEF ReadBypass, RequestType
<1>4. CacheInv' /\ Answers(answer, r)
  BY <1>1, <1>3, StartFetchStep, Zenon DEF ReadBypass, shared
<1>5. Fits("fetching", r, answer)
  <2> HIDE DEF answer
  <2> QED BY <1>3, <1>4, SessionAssumption DEF Fits, Answers, Steps, Sharing
<1>6. pc[s] = "reading" /\ UNCHANGED <<flights, waiters, joined>>
  BY DEF ReadBypass, Receive, shared
<1> HIDE DEF answer
<1> QED BY <1>1, <1>2, <1>3, <1>4, <1>5, <1>6, ReadMoves

\* A request that bypasses them when no endpoint is healthy.
LEMMA ReadBypassNoneStep ==
  ASSUME Inv, NEW s \in Sessions, NEW r \in RequestType, ReadBypassNone(s, r)
  PROVE  SessionInv' /\ CacheInv' /\ UNCHANGED Coalescer!vars
<1>1. SessionInv /\ CacheInv
  BY DEF Inv
<1>2. Moves(s, "writing", r, Own(r, 0, FALSE))
  BY <1>1, NothingPosted DEF ReadBypassNone, Receive, Write, Goto, Moves
<1>3. Fits("writing", r, Own(r, 0, FALSE))
  BY SessionAssumption, OwnAnswers, Zenon DEF Fits, Answers, Steps, Sharing
<1>4. pc[s] = "reading" /\ UNCHANGED <<flights, waiters, joined>>
  BY DEF ReadBypassNone, Receive, shared
<1>5. CacheInv'
  BY <1>1, CacheKept DEF ReadBypassNone, shared
<1> QED BY <1>1, <1>2, <1>3, <1>4, <1>5, ReadMoves, Zenon

-----------------------------------------------------------------------------
(* Steps that the coalescer does not see. *)

\* The request of a session that is busy with one.
LEMMA Busy ==
  ASSUME SessionInv, NEW s \in Sessions, pc[s] \notin {"reading", "closed"}
  PROVE  request[s] \in RequestType
BY DEF SessionInv, Fits

\* What a leader does before the locked part of complete().
LEMMA LeaderMoves ==
  ASSUME SessionInv, NEW s \in Sessions, NEW step, NEW answer,
         pc[s] \in {"leading", "storing"} \/ (pc[s] = "fetching" /\ request[s].plain),
         step \in {"storing", "taking"} \/ (step = "fetching" /\ request[s].plain),
         Answers(answer, request[s]), request[s].plain,
         Moves(s, step, request[s], answer),
         UNCHANGED <<flights, waiters, joined>>
  PROVE  SessionInv' /\ UNCHANGED Coalescer!vars
<1>1. request[s] \in RequestType /\ request[s].target \in Targets
  BY Busy DEF SessionInv, Fits, Sharing
<1>2. Fits(step, request[s], answer)
  BY <1>1, SessionAssumption DEF Fits, Answers, Steps, Sharing
<1>3. /\ RoleOf(step, Nothing, request[s]) = RoleOf(pc[s], posted[s], request[s])
      /\ KeyOf(step, Nothing, request[s]) = KeyOf(pc[s], posted[s], request[s])
  BY LeaderRole
<1> QED BY <1>2, <1>3, MoveFits, MoveUnseen

\* A leader finds an endpoint.
LEMMA LeadStep ==
  ASSUME Inv, NEW s \in Sessions, Lead(s)
  PROVE  SessionInv' /\ CacheInv' /\ UNCHANGED Coalescer!vars
<1> DEFINE r == request[s]
           answer == Own(r, fetches[r.target] + 1, FALSE)
<1>1. SessionInv /\ CacheInv /\ pc[s] = "leading"
  BY DEF Inv, Lead
<1>2. r \in RequestType /\ r.target \in Targets /\ r.plain
  BY <1>1, Busy DEF SessionInv, Fits, Sharing
<1>3. CacheInv' /\ Answers(answer, r)
  BY <1>1, <1>2, StartFetchStep, Zenon DEF Lead, shared
<1>4. Moves(s, "fetching", r, answer)
  BY <1>1, NothingPosted DEF Lead, StartFetch, Goto, Moves, SessionInv
<1>5. UNCHANGED <<flights, waiters, joined>>
  BY DEF Lead, shared
<1> HIDE DEF answer
<1> QED BY <1>1, <1>2, <1>3, <1>4, <1>5, LeaderMoves

\* A leader finds none.
LEMMA LeadNoneStep ==
  ASSUME Inv, NEW s \in Sessions, LeadNone(s)
  PROVE  SessionInv' /\ CacheInv' /\ UNCHANGED Coalescer!vars
<1> DEFINE r == request[s]
           answer == Own(r, 0, FALSE)
<1>1. SessionInv /\ CacheInv /\ pc[s] = "leading"
  BY DEF Inv, LeadNone
<1>2. r \in RequestType /\ r.plain
  BY <1>1, Busy DEF SessionInv, Fits, Sharing
<1>3. Answers(answer, r)
  BY <1>2, OwnAnswers, Zenon
<1>4. Moves(s, "taking", r, answer)
  BY <1>1, NothingPosted DEF LeadNone, Goto, Moves, SessionInv
<1>5. UNCHANGED <<flights, waiters, joined>> /\ CacheInv'
  BY <1>1, CacheKept DEF LeadNone, shared, history
<1> HIDE DEF answer
<1> QED BY <1>1, <1>2, <1>3, <1>4, <1>5, LeaderMoves

\* A leader's fetch ends.
LEMMA FetchedByLeaderStep ==
  ASSUME Inv, NEW s \in Sessions, NEW outcome \in Outcomes, FetchedByLeader(s, outcome)
  PROVE  SessionInv' /\ CacheInv' /\ UNCHANGED Coalescer!vars
<1> DEFINE answer == Ended(response[s], outcome)
<1>1. SessionInv /\ CacheInv /\ pc[s] = "fetching" /\ request[s].plain
  BY DEF Inv, FetchedByLeader
<1>2. request[s] \in RequestType /\ Answers(response[s], request[s])
  BY <1>1, Busy DEF SessionInv, Fits
<1>3. Answers(answer, request[s])
  BY <1>2, FetchedAnswers
<1>4. Moves(s, "storing", request[s], answer)
  BY <1>1, NothingPosted DEF FetchedByLeader, CompletionSteps, Goto, Moves, SessionInv
<1>5. UNCHANGED <<flights, waiters, joined>> /\ CacheInv'
  BY <1>1, CacheKept DEF FetchedByLeader, shared, history
<1> HIDE DEF answer
<1> QED BY <1>1, <1>3, <1>4, <1>5, LeaderMoves, Zenon

\* complete_flight stores the response of a leader, when it is cacheable.
LEMMA StoreStep ==
  ASSUME Inv, NEW s \in Sessions, Store(s)
  PROVE  SessionInv' /\ CacheInv' /\ UNCHANGED Coalescer!vars
<1> DEFINE r == request[s]
           answer == response[s]
<1>1. SessionInv /\ CacheInv /\ pc[s] = "storing"
  BY DEF Inv, Store
<1>2. r \in RequestType /\ r.plain /\ r.target \in Targets /\ Answers(answer, r)
  BY <1>1, Busy DEF SessionInv, Fits, Sharing
<1>3. Moves(s, "taking", r, answer)
  BY <1>1, NothingPosted DEF Store, CompletionSteps, Goto, Moves, SessionInv
<1>4. UNCHANGED <<flights, waiters, joined>> /\ fetches' = fetches
  BY DEF Store, history
<1>5. CacheInv'
  <2>1. CASE ~response[s].storable
    BY <1>1, <1>4, <2>1, CacheKept DEF Store
  <2>2. CASE response[s].storable
    <3>1. PICK a, t : a = answer /\ t = r.target
      OBVIOUS
    <3>2. a \in Responses /\ t \in Targets /\ a.target = t /\ a.plain /\ a.storable
      BY <1>2, <2>2, <3>1, Zenon DEF Answers
    <3>3. cache' = [cache EXCEPT ![t] = a]
      BY <2>2, <3>1 DEF Store
    <3>4. cache' \in [Targets -> Responses \cup {Nothing}]
      BY <1>1, <3>2, <3>3 DEF CacheInv
    <3>5. \A v \in Targets : cache'[v] = IF v = t THEN a ELSE cache[v]
      BY <1>1, <3>3 DEF CacheInv
    <3>6. CacheIsShareable'
      BY <1>1, <3>2, <3>5 DEF CacheInv, CacheIsShareable
    <3> QED BY <1>1, <1>4, <3>4, <3>6 DEF CacheInv
  <2> QED BY <2>1, <2>2, Zenon
<1> QED BY <1>1, <1>2, <1>3, <1>4, <1>5, LeaderMoves

\* A session without a role writes the answer to its request, or is done with it.
LEMMA IdleMoves ==
  ASSUME SessionInv, NEW s \in Sessions, NEW step \in {"reading", "writing", "closed"},
         NEW r, NEW answer,
         Fits(step, r, answer), Moves(s, step, r, answer),
         RoleOf(pc[s], posted[s], request[s]) = "idle",
         UNCHANGED <<flights, waiters, joined>>
  PROVE  SessionInv' /\ UNCHANGED Coalescer!vars
<1>1. RoleOf(step, Nothing, r) = "idle" /\ KeyOf(step, Nothing, r) = Nothing
  BY IdleRole
<1>2. KeyOf(pc[s], posted[s], request[s]) = Nothing
  BY DEF KeyOf
<1> QED BY <1>1, <1>2, MoveFits, MoveUnseen

\* What a session writes after write_response_for_current_request answers its request.
LEMMA WriteFits ==
  ASSUME NEW r \in RequestType, NEW answer, Answers(answer, r)
  PROVE  Fits("writing", r, ForCurrentRequest(r, answer))
<1>1. PICK a : a = ForCurrentRequest(r, answer)
  OBVIOUS
<1>2. Answers(a, r) /\ a.keep_alive = r.keep_alive
  BY <1>1, ForCurrentRequestAnswers
<1>3. Fits("writing", r, a)
  BY <1>2, SessionAssumption DEF Fits, Answers, Steps, Sharing
<1> QED BY <1>1, <1>3

\* A fetch that bypasses cache and coalescer ends.
LEMMA FetchedBypassStep ==
  ASSUME Inv, NEW s \in Sessions, NEW outcome \in Outcomes, FetchedBypass(s, outcome)
  PROVE  SessionInv' /\ CacheInv' /\ UNCHANGED Coalescer!vars
<1> DEFINE fetched == Ended(response[s], outcome)
           answer == ForCurrentRequest(request[s], fetched)
<1>1. SessionInv /\ CacheInv /\ pc[s] = "fetching" /\ ~request[s].plain
  BY DEF Inv, FetchedBypass
<1>2. request[s] \in RequestType /\ Answers(response[s], request[s])
  BY <1>1, Busy DEF SessionInv, Fits
<1>3. Fits("writing", request[s], answer)
  <2>1. Answers(fetched, request[s])
    BY <1>2, FetchedAnswers
  <2> HIDE DEF fetched
  <2> QED BY <1>2, <2>1, WriteFits
<1>4. Moves(s, "writing", request[s], answer)
  BY <1>1, NothingPosted DEF FetchedBypass, Write, Goto, Moves, SessionInv
<1>5. UNCHANGED <<flights, waiters, joined>> /\ CacheInv'
  BY <1>1, CacheKept DEF FetchedBypass, shared
<1>6. RoleOf(pc[s], posted[s], request[s]) = "idle"
  BY <1>1, IdleFetch
<1> HIDE DEF answer
<1> QED BY <1>1, <1>3, <1>4, <1>5, <1>6, IdleMoves

\* A waiter writes what was posted to it.
LEMMA WritePostedStep ==
  ASSUME Inv, NEW s \in Sessions, WritePosted(s)
  PROVE  SessionInv' /\ CacheInv' /\ UNCHANGED Coalescer!vars
<1> DEFINE answer == ForCurrentRequest(request[s], posted[s])
<1>1. SessionInv /\ CacheInv /\ pc[s] = "waiting" /\ posted[s] # Nothing
  BY DEF Inv, WritePosted
<1>2. request[s] \in RequestType /\ Answers(posted[s], request[s])
  BY <1>1, Busy DEF SessionInv
<1>3. Fits("writing", request[s], answer)
  BY <1>2, WriteFits
<1>4. Moves(s, "writing", request[s], answer)
  BY <1>1 DEF WritePosted, Write, Goto, Moves, SessionInv
<1>5. UNCHANGED <<flights, waiters, joined>> /\ CacheInv'
  BY <1>1, CacheKept DEF WritePosted, shared
<1>6. RoleOf(pc[s], posted[s], request[s]) = "idle"
  BY <1>1, IdlePosted
<1> HIDE DEF answer
<1> QED BY <1>1, <1>3, <1>4, <1>5, <1>6, IdleMoves

\* A session that has written reads again, and one that reads or writes may end.
LEMMA DoneStep ==
  ASSUME Inv, NEW s \in Sessions, Written(s) \/ End(s)
  PROVE  SessionInv' /\ CacheInv' /\ UNCHANGED Coalescer!vars
<1>1. SessionInv /\ CacheInv /\ pc[s] \in {"reading", "writing"}
  BY DEF Inv, Written, End
<1>2. PICK step \in {"reading", "closed"} : Moves(s, step, Nothing, Nothing)
  BY <1>1, NothingPosted DEF Written, End, Goto, Moves
<1>3. Fits(step, Nothing, Nothing)
  BY DEF Fits, Steps, Sharing
<1>4. UNCHANGED <<flights, waiters, joined>> /\ CacheInv'
  BY <1>1, CacheKept DEF Written, End, shared, history
<1>5. RoleOf(pc[s], posted[s], request[s]) = "idle"
  BY <1>1, IdleRole
<1> QED BY <1>1, <1>2, <1>3, <1>4, <1>5, IdleMoves

-----------------------------------------------------------------------------
(* Steps that are those of the coalescer. *)

\* join_or_start starts a flight or joins one.
LEMMA JoinOrStartStep ==
  ASSUME Inv, NEW s \in Sessions, JoinOrStart(s)
  PROVE  /\ SessionInv' /\ CacheInv'
         /\ \E t \in Targets : Coalescer!Start(s, t) \/ Coalescer!Join(s, t)
<1> DEFINE r == request[s]
           leads == Coalescer!Leads(flights, r.target)
           step == IF leads THEN "leading" ELSE "waiting"
<1>1. SessionInv /\ CacheInv /\ pc[s] = "missed"
  BY DEF Inv, JoinOrStart
<1>2. r \in RequestType /\ r.plain /\ r.target \in Targets
  BY <1>1, Busy, Zenon DEF SessionInv, Fits, Sharing
<1>3. Moves(s, step, r, response[s])
  BY <1>1, NothingPosted DEF JoinOrStart, Goto, Moves, SessionInv
<1>4. Fits(step, r, response[s])
  BY <1>1, <1>2, SessionAssumption, Zenon DEF Fits, Steps, Sharing, SessionInv
<1>5. SessionInv' /\ CacheInv'
  BY <1>1, <1>3, <1>4, MoveFits, CacheKept, Zenon DEF JoinOrStart
<1>6. RoleNow[s] = "idle"
  BY <1>1, IdleRole DEF RoleNow
<1>7. CASE leads
  <2>1. Moves(s, "leading", r, response[s])
    BY <1>3, <1>7
  <2>2. RoleOf("leading", Nothing, r) = "leader" /\ KeyOf("leading", Nothing, r) = r.target
    BY LeaderRole
  <2>3. /\ RoleNow' = [RoleNow EXCEPT ![s] = "leader"]
        /\ KeyNow' = [KeyNow EXCEPT ![s] = r.target]
    <3>1. /\ RoleNow' = [RoleNow EXCEPT ![s] = RoleOf("leading", Nothing, r)]
          /\ KeyNow' = [KeyNow EXCEPT ![s] = KeyOf("leading", Nothing, r)]
      BY <1>1, <2>1, MoveRole
    <3> QED BY <2>2, <3>1, Zenon
  <2>4. Coalescer!Start(s, r.target)
    BY <1>6, <1>7, <2>3 DEF Coalescer!Start, JoinOrStart
  <2> QED BY <1>2, <1>5, <2>4
<1>8. CASE ~leads
  <2>1. Moves(s, "waiting", r, response[s])
    BY <1>3, <1>8
  <2>2. RoleOf("waiting", Nothing, r) = "waiter" /\ KeyOf("waiting", Nothing, r) = r.target
    BY DEF RoleOf, KeyOf
  <2>3. /\ RoleNow' = [RoleNow EXCEPT ![s] = "waiter"]
        /\ KeyNow' = [KeyNow EXCEPT ![s] = r.target]
    <3>1. /\ RoleNow' = [RoleNow EXCEPT ![s] = RoleOf("waiting", Nothing, r)]
          /\ KeyNow' = [KeyNow EXCEPT ![s] = KeyOf("waiting", Nothing, r)]
      BY <1>1, <2>1, MoveRole
    <3> QED BY <2>2, <3>1, Zenon
  <2>4. Coalescer!Join(s, r.target)
    BY <1>6, <1>8, <2>3 DEF Coalescer!Join, JoinOrStart
  <2> QED BY <1>2, <1>5, <2>4
<1> QED BY <1>7, <1>8, Zenon

\* The locked part of complete().
LEMMA TakeStep ==
  ASSUME Inv, NEW s \in Sessions, Take(s)
  PROVE  SessionInv' /\ CacheInv' /\ Coalescer!Take(s)
<1> DEFINE r == request[s]
<1>1. SessionInv /\ CacheInv /\ pc[s] = "taking"
  BY Zenon DEF Inv, Take
<1>2. r \in RequestType /\ r.plain /\ r.target \in Targets /\ Answers(response[s], r)
  BY <1>1, Busy DEF SessionInv, Fits, Sharing
<1>3. Moves(s, "notifying", r, response[s])
  BY <1>1, NothingPosted, Zenon DEF Take, CompletionSteps, Goto, Moves, SessionInv
<1>4. Fits("notifying", r, response[s])
  BY <1>1, <1>2, SessionAssumption, Zenon DEF Fits, Steps, Sharing, SessionInv
<1>5. SessionInv' /\ CacheInv'
  BY <1>1, <1>3, <1>4, MoveFits, CacheKept, Zenon DEF Take, history
<1>6. RoleNow[s] = "leader" /\ KeyNow[s] = r.target
  BY <1>1, LeaderRole, Zenon DEF RoleNow, KeyNow
<1>7. RoleOf("notifying", Nothing, r) = "notifying" /\ KeyOf("notifying", Nothing, r) = r.target
  BY DEF RoleOf, KeyOf
<1>8. /\ RoleNow' = [RoleNow EXCEPT ![s] = "notifying"]
      /\ KeyNow' = [KeyNow EXCEPT ![s] = KeyNow[s]]
  BY <1>1, <1>3, <1>6, <1>7, MoveRole
<1>9. KeyNow' = KeyNow
  <2>1. KeyNow = [u \in Sessions |-> KeyNow[u]]
    BY Zenon DEF KeyNow
  <2> QED BY <1>8, <2>1
<1>10. Coalescer!Take(s)
  BY <1>6, <1>8, <1>9, Zenon DEF Coalescer!Take, Take, history
<1> QED BY <1>5, <1>10

\* complete() has returned.
LEMMA WriteOwnStep ==
  ASSUME Inv, NEW s \in Sessions, WriteOwn(s)
  PROVE  SessionInv' /\ CacheInv' /\ Coalescer!Return(s)
<1> DEFINE r == request[s]
           answer == ForCurrentRequest(r, response[s])
<1>1. SessionInv /\ CacheInv /\ pc[s] = "notifying"
  BY DEF Inv, WriteOwn
<1>2. r \in RequestType /\ Answers(response[s], r)
  BY <1>1, Busy, Zenon DEF SessionInv, Fits
<1>3. Moves(s, "writing", r, answer)
  BY <1>1, NothingPosted DEF WriteOwn, Write, Goto, Moves, SessionInv
<1>4. Fits("writing", r, answer)
  BY <1>2, WriteFits, Zenon
<1> HIDE DEF answer
<1>5. SessionInv' /\ CacheInv'
  BY <1>1, <1>3, <1>4, MoveFits, CacheKept, Zenon DEF WriteOwn, shared
<1>6. RoleNow[s] = "notifying"
  BY <1>1, Zenon DEF RoleNow, RoleOf
<1>7. /\ RoleNow' = [RoleNow EXCEPT ![s] = "idle"]
      /\ KeyNow' = [KeyNow EXCEPT ![s] = Nothing]
  BY <1>1, <1>3, IdleRole, MoveRole
<1>8. Coalescer!Return(s)
  BY <1>6, <1>7 DEF Coalescer!Return, WriteOwn, shared
<1> QED BY <1>5, <1>8

\* A callback is that of a session which waits for the target that was fetched, so what
\* it posts answers that session's request.
LEMMA NotifyStep ==
  ASSUME Inv, NEW s \in Sessions, Notify(s)
  PROVE  SessionInv' /\ CacheInv' /\ Coalescer!Notify(s)
<1>1. SessionInv /\ CacheInv /\ pc[s] = "notifying" /\ waiters[s] # <<>>
  BY DEF Inv, Notify
<1>2. PICK w : w = Head(waiters[s])
  OBVIOUS
<1>3. w \in Sessions /\ RoleNow[w] = "waiter" /\ KeyNow[w] = KeyNow[s]
  <2>1. waiters[s] \in Seq(Sessions)
    BY DEF Inv, Flights!IInv, Flights!TypeOK
  <2>2. w \in Sessions /\ w \in Flights!Range(waiters[s])
    BY <1>1, <1>2, <2>1, NothingIsNoKey, Flights!PopFront, Zenon DEF Flights!NoKeyAssumption
  <2> QED BY <2>2 DEF Inv, Flights!IInv, Flights!VectorsHoldJoined
<1>4. pc[w] = "waiting" /\ posted[w] = Nothing
  BY <1>3 DEF RoleNow, RoleOf
<1>5. request[w].target = request[s].target
  BY <1>1, <1>3, <1>4, Zenon DEF KeyNow, KeyOf, RoleOf
<1>6. Answers(response[s], request[w])
  <2>1. Answers(response[s], request[s]) /\ request[s].plain /\ request[w].plain
    BY <1>1, <1>3, <1>4, Zenon DEF SessionInv, Fits, Sharing
  <2>2. request[s].plain \in BOOLEAN /\ request[w].plain \in BOOLEAN
    BY <1>1, <1>3, <1>4, Busy DEF RequestType
  <2>3. request[s].plain = request[w].plain
    BY <2>1, <2>2, Zenon
  <2> QED BY <1>5, <2>1, <2>3 DEF Answers
<1>7. /\ UNCHANGED <<pc, request, response, cache, fetches>>
      /\ posted' = [posted EXCEPT ![w] = response[s]]
  BY <1>2 DEF Notify, shared
<1>8. \A u \in Sessions : posted'[u] = IF u = w THEN response[s] ELSE posted[u]
  BY <1>1, <1>7, Zenon DEF SessionInv
<1>9. response[s] \in Responses /\ response[s] # Nothing
  BY <1>6, SessionAssumption, Zenon DEF Answers
<1>10. SessionInv'
  <2>1. posted' \in [Sessions -> Responses \cup {Nothing}]
    BY <1>1, <1>7, <1>9, Zenon DEF SessionInv
  <2>2. \A u \in Sessions :
          posted'[u] # Nothing => pc[u] = "waiting" /\ Answers(posted'[u], request[u])
    BY <1>1, <1>4, <1>6, <1>8 DEF SessionInv
  <2> QED BY <1>1, <1>7, <2>1, <2>2, Zenon DEF SessionInv
<1>11. CacheInv'
  BY <1>1, <1>7, CacheKept
<1>12. /\ RoleNow' = [RoleNow EXCEPT ![w] = "idle"]
       /\ KeyNow' = [KeyNow EXCEPT ![w] = Nothing]
  <2>1. /\ RoleOf(pc[w], posted'[w], request[w]) = "idle"
        /\ KeyOf(pc[w], posted'[w], request[w]) = Nothing
    BY <1>3, <1>4, <1>8, <1>9, IdlePosted, Zenon
  <2>2. \A u \in Sessions : u # w =>
          /\ RoleOf(pc[u], posted'[u], request[u]) = RoleNow[u]
          /\ KeyOf(pc[u], posted'[u], request[u]) = KeyNow[u]
    BY <1>8 DEF RoleNow, KeyNow
  <2>3. /\ RoleNow' = [u \in Sessions |-> RoleOf(pc[u], posted'[u], request[u])]
        /\ KeyNow' = [u \in Sessions |-> KeyOf(pc[u], posted'[u], request[u])]
    BY <1>7 DEF RoleNow, KeyNow
  <2>4. DOMAIN RoleNow = Sessions /\ DOMAIN KeyNow = Sessions
    BY Zenon DEF RoleNow, KeyNow
  <2> QED BY <1>3, <2>1, <2>2, <2>3, <2>4, Zenon
<1>13. Coalescer!Notify(s)
  <2>1. RoleNow[s] = "notifying"
    BY <1>1 DEF RoleNow, RoleOf
  <2> QED BY <1>1, <1>2, <1>12, <2>1, Zenon DEF Coalescer!Notify, Notify, shared
<1> QED BY <1>10, <1>11, <1>13

-----------------------------------------------------------------------------

\* Every step of a session is one of the coalescer's protocol or is not seen by it.
LEMMA StepKeeps ==
  ASSUME Inv, [Next]_vars
  PROVE  SessionInv' /\ CacheInv' /\ [Coalescer!Next]_(Coalescer!vars)
<1>1. ASSUME NEW s \in Sessions, Read(s)
      PROVE  SessionInv' /\ CacheInv' /\ UNCHANGED Coalescer!vars
  <2>1. PICK r \in RequestType : \/ ReadLocal(s, r) \/ ReadHit(s, r) \/ ReadMiss(s, r)
                                \/ ReadBypass(s, r) \/ ReadBypassNone(s, r)
    BY <1>1, SessionAssumption, Zenon DEF Read
  <2> QED BY <2>1, ReadLocalStep, ReadHitStep, ReadMissStep, ReadBypassStep, ReadBypassNoneStep
<1>2. ASSUME NEW s \in Sessions, Fetched(s)
      PROVE  SessionInv' /\ CacheInv' /\ UNCHANGED Coalescer!vars
  BY <1>2, FetchedByLeaderStep, FetchedBypassStep DEF Fetched
<1>3. ASSUME NEW s \in Sessions, Lead(s) \/ LeadNone(s) \/ Store(s) \/ WritePosted(s)
      PROVE  SessionInv' /\ CacheInv' /\ UNCHANGED Coalescer!vars
  BY <1>3, LeadStep, LeadNoneStep, StoreStep, WritePostedStep, Zenon
<1>4. ASSUME NEW s \in Sessions, JoinOrStart(s) \/ Take(s) \/ Notify(s) \/ WriteOwn(s)
      PROVE  SessionInv' /\ CacheInv' /\ Coalescer!Next
  BY <1>4, JoinOrStartStep, TakeStep, NotifyStep, WriteOwnStep DEF Coalescer!Next
<1>5. ASSUME NEW s \in Sessions, Written(s) \/ End(s)
      PROVE  SessionInv' /\ CacheInv' /\ UNCHANGED Coalescer!vars
  BY <1>5, DoneStep, Zenon
<1>6. ASSUME NEW t \in Targets, Forget(t)
      PROVE  SessionInv' /\ CacheInv' /\ UNCHANGED Coalescer!vars
  <2>1. /\ UNCHANGED <<pc, request, response, posted, flights, waiters, joined, fetches>>
        /\ cache' = [cache EXCEPT ![t] = Nothing]
    BY <1>6, Zenon DEF Forget, history
  <2>2. SessionInv'
    BY <2>1 DEF Inv, SessionInv
  <2>3. CacheInv'
    BY <2>1, Zenon DEF Inv, CacheInv, CacheIsShareable
  <2>4. RoleNow' = RoleNow /\ KeyNow' = KeyNow
    BY <2>1, Zenon DEF RoleNow, KeyNow
  <2> QED BY <2>1, <2>2, <2>3, <2>4 DEF Coalescer!vars
<1>7. ASSUME SetAvailable \/ UNCHANGED vars
      PROVE  SessionInv' /\ CacheInv' /\ UNCHANGED Coalescer!vars
  <2>1. UNCHANGED <<pc, request, response, posted, flights, waiters, joined, fetches, cache>>
    BY <1>7 DEF SetAvailable, vars, shared, history
  <2>2. SessionInv' /\ CacheInv'
    BY <2>1, CacheKept, Zenon DEF Inv, SessionInv
  <2>3. RoleNow' = RoleNow /\ KeyNow' = KeyNow
    BY <2>1 DEF RoleNow, KeyNow
  <2> QED BY <2>1, <2>2, <2>3, Zenon DEF Coalescer!vars
<1> QED BY <1>1, <1>2, <1>3, <1>4, <1>5, <1>6, <1>7, Zenon DEF Next, Proceed

\* At first all sessions read, and none has a role.
LEMMA InitKeeps == Init => SessionInv /\ CacheInv /\ Coalescer!Init
<1> SUFFICES ASSUME Init PROVE SessionInv /\ CacheInv /\ Coalescer!Init
  OBVIOUS
<1>1. SessionInv
  BY DEF Init, SessionInv, Fits, Steps, Sharing
<1>2. CacheInv
  BY DEF Init, CacheInv, CacheIsShareable
<1>3. \A s \in Sessions : RoleOf(pc[s], posted[s], request[s]) = "idle"
                          /\ KeyOf(pc[s], posted[s], request[s]) = Nothing
  BY IdleRole, Zenon DEF Init
<1>4. RoleNow = [s \in Sessions |-> "idle"] /\ KeyNow = [s \in Sessions |-> Nothing]
  BY <1>3, Zenon DEF RoleNow, KeyNow
<1> QED BY <1>1, <1>2, <1>4, Zenon DEF Init, Coalescer!Init

\* The protocol the sessions keep is the one RequestCoalescerProofs is about.
LEMMA SameProtocol ==
  /\ Coalescer!Init => Flights!Init
  /\ [Coalescer!Next]_(Coalescer!vars) => [Flights!Next]_(Flights!vars)
BY Zenon DEF Coalescer!Init, Flights!Init, Coalescer!vars, Flights!vars, Coalescer!Next, Flights!Next,
       Coalescer!Start, Flights!Start, Coalescer!Join, Flights!Join, Coalescer!Take, Flights!Take,
       Coalescer!Notify, Flights!Notify, Coalescer!Return, Flights!Return,
       Coalescer!Leads, Flights!Leads, Coalescer!Joined, Flights!Joined,
       Coalescer!Taken, Flights!Taken, Coalescer!Erased, Flights!Erased,
       Coalescer!Leaders, Flights!Leaders

\* Sessions, cache and flights keep the invariant, for any sets of sessions, targets and
\* requests.
THEOREM Invariance == Spec => []Inv
<1>1. Init => Inv
  BY InitKeeps, SameProtocol, NothingIsNoKey, Flights!InitEstablishes DEF Inv, Flights!NoKeyAssumption
<1>2. Inv /\ [Next]_vars => Inv'
  <2> SUFFICES ASSUME Inv, [Next]_vars PROVE Inv'
    OBVIOUS
  <2>1. SessionInv' /\ CacheInv' /\ [Flights!Next]_(Flights!vars)
    BY StepKeeps, SameProtocol
  <2>2. Flights!IInv'
    BY <2>1, NothingIsNoKey, Flights!StepPreserves DEF Inv, Flights!NoKeyAssumption
  <2> QED BY <2>1, <2>2 DEF Inv
<1> QED BY <1>1, <1>2, PTL DEF Spec

\* The sessions implement the protocol of the coalescer: a session that leads completes
\* its flight once, whatever its client does, and calls complete() on no other.
THEOREM ImplementsProtocol == Spec => KeepsProtocol
<1>1. Init => Coalescer!Init
  BY InitKeeps
<1>2. Inv /\ [Next]_vars => [Coalescer!Next]_(Coalescer!vars)
  BY StepKeeps, Zenon
<1> QED BY <1>1, <1>2, Invariance, PTL DEF Spec, KeepsProtocol, Coalescer!Spec

\* What a session writes answers the request it read last, through whatever path.
THEOREM AnswersOwnRequest == Spec => []OwnAnswer
<1>1. Inv => OwnAnswer
  BY Zenon DEF Inv, SessionInv, Fits, Answers, OwnAnswer
<1> QED BY <1>1, Invariance, PTL

\* The cache holds nothing that must not be shared.
THEOREM CacheHoldsShareable == Spec => []CacheIsShareable
<1>1. Inv => CacheIsShareable
  BY Zenon DEF Inv, CacheInv
<1> QED BY <1>1, Invariance, PTL

\* Fetches of a target for cacheable requests do not overlap: their sessions lead, and a
\* flight has one leader.
THEOREM OneFetchAtATime == Spec => []OneFetchPerTarget
<1>1. Inv => OneFetchPerTarget
  <2> SUFFICES ASSUME Inv, NEW s \in Sessions, NEW u \in Sessions,
                      pc[s] = "fetching", request[s].plain,
                      pc[u] = "fetching", request[u].plain,
                      request[s].target = request[u].target
               PROVE  s = u
    BY DEF OneFetchPerTarget
  <2>1. RoleNow[s] = "leader" /\ RoleNow[u] = "leader" /\ KeyNow[s] = KeyNow[u]
    BY LeaderNow
  <2>2. KeyNow[s] \in Targets
    BY LeaderNow DEF Inv, SessionInv, Fits
  <2> QED BY <2>1, <2>2, Zenon DEF Inv, Flights!IInv, Flights!OneLeader, Flights!Leaders
<1> QED BY <1>1, Invariance, PTL

-----------------------------------------------------------------------------
(* One answer. *)

\* Where flights and vectors hold the callback of session s.
InFlight(s) == UNION {{<<"flight", t, i>> :
                          i \in {j \in DOMAIN flights[t] : flights[t][j] = s}} :
                        t \in DOMAIN flights}
InVector(s) == UNION {{<<"vector", u, i>> :
                          i \in {j \in DOMAIN waiters[u] : waiters[u][j] = s}} :
                        u \in Sessions}

\* A callback that no flight, or no vector, holds has no place there; one that a single
\* flight, or vector, holds has a single place.
LEMMA PlaceInFlight ==
  ASSUME NEW s \in Sessions, \A t \in DOMAIN flights : Flights!IsInjective(flights[t])
  PROVE  /\ Flights!FlightsHolding(s) = {} => InFlight(s) = {}
         /\ \A t \in DOMAIN flights :
              Flights!FlightsHolding(s) = {t} => \E p : InFlight(s) = {p}
<1>1. \A t \in DOMAIN flights : \A i \in DOMAIN flights[t] :
        flights[t][i] = s => t \in Flights!FlightsHolding(s)
  BY DEF Flights!FlightsHolding, Flights!Range
<1>2. Flights!FlightsHolding(s) = {} => InFlight(s) = {}
  BY <1>1 DEF InFlight
<1>3. ASSUME NEW t \in DOMAIN flights, Flights!FlightsHolding(s) = {t}
      PROVE  \E p : InFlight(s) = {p}
  <2>1. PICK i \in DOMAIN flights[t] : flights[t][i] = s
    BY <1>3 DEF Flights!FlightsHolding, Flights!Range
  <2>2. \A j \in DOMAIN flights[t] : flights[t][j] = s => j = i
    BY <2>1 DEF Flights!IsInjective
  <2>3. \A v \in DOMAIN flights : \A j \in DOMAIN flights[v] :
          flights[v][j] = s => v = t /\ j = i
    BY <1>1, <1>3, <2>2
  <2>4. InFlight(s) = {<<"flight", t, i>>}
    BY <2>1, <2>3 DEF InFlight
  <2> QED BY <2>4, Zenon
<1> QED BY <1>2, <1>3, Zenon

\* The same of the vectors of completions under way.
LEMMA PlaceInVector ==
  ASSUME NEW s \in Sessions, \A u \in Sessions : Flights!IsInjective(waiters[u])
  PROVE  /\ Flights!VectorsHolding(s) = {} => InVector(s) = {}
         /\ \A u \in Sessions :
              Flights!VectorsHolding(s) = {u} => \E p : InVector(s) = {p}
<1>1. \A u \in Sessions : \A i \in DOMAIN waiters[u] :
        waiters[u][i] = s => u \in Flights!VectorsHolding(s)
  BY DEF Flights!VectorsHolding, Flights!Range
<1>2. Flights!VectorsHolding(s) = {} => InVector(s) = {}
  BY <1>1 DEF InVector
<1>3. ASSUME NEW u \in Sessions, Flights!VectorsHolding(s) = {u}
      PROVE  \E p : InVector(s) = {p}
  <2>1. PICK i \in DOMAIN waiters[u] : waiters[u][i] = s
    BY <1>3 DEF Flights!VectorsHolding, Flights!Range
  <2>2. \A j \in DOMAIN waiters[u] : waiters[u][j] = s => j = i
    BY <2>1 DEF Flights!IsInjective
  <2>3. \A v \in Sessions : \A j \in DOMAIN waiters[v] :
          waiters[v][j] = s => v = u /\ j = i
    BY <1>1, <1>3, <2>2
  <2>4. InVector(s) = {<<"vector", u, i>>}
    BY <2>1, <2>3 DEF InVector
  <2> QED BY <2>4, Zenon
<1> QED BY <1>2, <1>3, Zenon

\* A session that waits is owed one answer and nobody else is owed any, for any sets of
\* sessions and targets: its callback is held once until its answer is posted.
THEOREM AnswersOwedOnce == Spec => []OwedOnce
<1>1. ASSUME Inv PROVE OwedOnce
  <2>1. Flights!OneCallback
    BY <1>1, NothingIsNoKey, Flights!OneCallbackHolds DEF Inv, Flights!NoKeyAssumption
  <2>2. /\ \A t \in DOMAIN flights : Flights!IsInjective(flights[t])
        /\ \A u \in Sessions : Flights!IsInjective(waiters[u])
    BY <2>1 DEF Flights!OneCallback
  <2> SUFFICES ASSUME NEW s \in Sessions, NEW held, held = InFlight(s) \cup InVector(s)
               PROVE  LET owed == held \cup (IF posted[s] = Nothing THEN {} ELSE {<<"posted">>})
                      IN  IF pc[s] = "waiting" THEN \E place \in owed : owed = {place}
                          ELSE owed = {}
    BY Zenon DEF OwedOnce, InFlight, InVector
  <2>3. RoleNow[s] = "waiter" <=> pc[s] = "waiting" /\ posted[s] = Nothing
    BY DEF RoleNow, RoleOf
  <2>4. CASE RoleNow[s] = "waiter"
    <3>1. \/ /\ \E t \in DOMAIN flights : Flights!FlightsHolding(s) = {t}
             /\ Flights!VectorsHolding(s) = {}
          \/ /\ Flights!FlightsHolding(s) = {}
             /\ \E u \in Sessions : Flights!VectorsHolding(s) = {u}
      BY <2>1, <2>4 DEF Flights!OneCallback
    <3>2. \/ (\E p : InFlight(s) = {p}) /\ InVector(s) = {}
          \/ InFlight(s) = {} /\ \E p : InVector(s) = {p}
      BY <2>2, <3>1, PlaceInFlight, PlaceInVector, Zenon
    <3>3. \E p : held = {p}
      BY <3>2
    <3> QED BY <2>3, <2>4, <3>3
  <2>5. CASE RoleNow[s] # "waiter"
    <3>1. Flights!FlightsHolding(s) = {} /\ Flights!VectorsHolding(s) = {}
      BY <2>1, <2>5 DEF Flights!OneCallback
    <3>2. held = {}
      BY <2>2, <3>1, PlaceInFlight, PlaceInVector
    <3>3. posted[s] # Nothing <=> pc[s] = "waiting"
      BY <1>1, <2>3, <2>5 DEF Inv, SessionInv
    <3> QED BY <3>2, <3>3, Zenon
  <2> QED BY <2>4, <2>5
<1> QED BY <1>1, Invariance, PTL

-----------------------------------------------------------------------------
(* Never an older answer. *)

\* The cacheable responses of target t that a session can still be given as they are:
\* cached, about to be handed out by their leader, or posted.
Out(t) ==
  {a \in Responses :
     /\ a.plain /\ a.storable /\ a.target = t
     /\ \/ a = cache[t]
        \/ \E u \in Sessions : a = posted[u]
        \/ \E u \in Sessions : pc[u] \in {"taking", "notifying"} /\ a = response[u]}

\* Nothing newer than the n-th fetch of t was given to a client or is out.
NoneNewer(t, n) ==
  /\ \A s \in Sessions : seen[s][t] <= n
  /\ \A a \in Out(t) : a.fetch <= n

\* The session leads a flight and what it fetched has not left it, or is just stored.
Newest(s) ==
  \/ pc[s] \in {"fetching", "storing"} /\ request[s].plain
  \/ pc[s] = "taking" /\ response[s].storable

\* No response is newer than the last fetch, than what the leader of a flight has fetched,
\* or than what the cache holds.
OrderInv ==
  /\ seen \in [Sessions -> [Targets -> Nat]]
  /\ \A t \in Targets : NoneNewer(t, fetches[t])
  /\ \A s \in Sessions : Newest(s) =>
       /\ response[s].fetch <= fetches[response[s].target]
       /\ NoneNewer(response[s].target, response[s].fetch)
  /\ \A t \in Targets : cache[t] # Nothing => NoneNewer(t, cache[t].fetch)

\* The cacheable response that session w is going to be given: the one it has fetched
\* itself, once its flight is closed; the one of the session whose vector holds its
\* callback; or the one posted to it.
Due(w) ==
  {a \in Responses :
     /\ a.storable
     /\ \/ a = posted[w]
        \/ pc[w] = "notifying" /\ a = response[w]
        \/ \E u \in Sessions : w \in Flights!Range(waiters[u]) /\ a = response[u]}

\* It is no older than what the client was given before, even when the flight is closed
\* and a newer one open.
DueInv ==
  \A w \in Sessions : \A a \in Due(w) : seen[w][a.target] <= a.fetch

HistoryInv == OrderInv /\ DueInv

\* The step of NeverOlder.
NotOlder == \A s \in Sessions, t \in Targets : seen[s][t] <= seen'[s][t]

\* A response a leader holds is of a target, and of a numbered fetch.
LEMMA NewestType ==
  /\ SessionInv => \A s \in Sessions : Newest(s) =>
       response[s] \in Responses /\ response[s].target \in Targets /\ response[s].fetch \in Nat
  /\ SessionInv' => \A s \in Sessions : Newest(s)' =>
       response'[s] \in Responses /\ response'[s].target \in Targets /\ response'[s].fetch \in Nat
<1>1. ASSUME SessionInv, NEW s \in Sessions, Newest(s)
      PROVE  response[s] \in Responses /\ response[s].target \in Targets /\ response[s].fetch \in Nat
  <2>1. Answers(response[s], request[s]) /\ request[s].target \in Targets
    BY <1>1 DEF SessionInv, Fits, Sharing, Newest
  <2> QED BY <2>1 DEF Answers, Responses
<1>2. ASSUME SessionInv', NEW s \in Sessions, Newest(s)'
      PROVE  response'[s] \in Responses /\ response'[s].target \in Targets /\ response'[s].fetch \in Nat
  <2>1. Answers(response'[s], request'[s]) /\ request'[s].target \in Targets
    BY <1>2 DEF SessionInv, Fits, Sharing, Newest
  <2> QED BY <2>1 DEF Answers, Responses
<1> QED BY <1>1, <1>2

\* A vector that is not empty is that of a session which notifies, and holds callbacks of
\* sessions that wait and have no answer yet.
LEMMA InVectorWaits ==
  ASSUME Inv, NEW u \in Sessions, NEW w \in Sessions, w \in Flights!Range(waiters[u])
  PROVE  /\ pc[u] = "notifying"
         /\ pc[w] = "waiting" /\ posted[w] = Nothing
<1>1. waiters[u] # <<>>
  BY NothingIsNoKey, Flights!EmptyQueue DEF Flights!NoKeyAssumption
<1>2. RoleNow[u] = "notifying" /\ RoleNow[w] = "waiter"
  BY <1>1 DEF Inv, Flights!IInv, Flights!VectorsHoldJoined
<1> QED BY <1>2 DEF RoleNow, RoleOf

-----------------------------------------------------------------------------
(* Steps that put out no new response. *)

\* What is out was out, and a session is given only what was out.
Quiet(t) ==
  /\ Out(t)' \subseteq Out(t)
  /\ \A s \in Sessions :
       seen'[s][t] = seen[s][t] \/ \E a \in Out(t) : seen'[s][t] = a.fetch

\* Such a step brings out nothing newer.
LEMMA QuietBound ==
  ASSUME NEW t, Quiet(t), NEW n, NoneNewer(t, n)
  PROVE  NoneNewer(t, n)'
BY DEF Quiet, NoneNewer

\* A bound may be raised.
LEMMA BoundRaised ==
  ASSUME OrderInv, NEW t \in Targets, NEW n \in Nat, NEW m \in Nat, n <= m, NoneNewer(t, n)
  PROVE  NoneNewer(t, m)
<1>1. \A s \in Sessions : seen[s][t] \in Nat
  BY Zenon DEF OrderInv
<1>2. \A a \in Out(t) : a.fetch \in Nat
  BY DEF Out, Responses
<1>3. ASSUME NEW s \in Sessions
      PROVE  seen[s][t] <= m
  <2>1. PICK k \in Nat : k = seen[s][t]
    BY <1>1
  <2>2. k <= n
    BY <2>1 DEF NoneNewer
  <2> QED BY <2>1, <2>2
<1>4. ASSUME NEW a \in Out(t)
      PROVE  a.fetch <= m
  <2>1. PICK k \in Nat : k = a.fetch
    BY <1>2
  <2>2. k <= n
    BY <2>1 DEF NoneNewer
  <2> QED BY <2>1, <2>2
<1> QED BY <1>3, <1>4 DEF NoneNewer

\* The order is kept by a step that puts out no new response and stores none, if a session
\* that begins to lead has the last fetch.
LEMMA QuietStep ==
  ASSUME SessionInv', CacheInv, CacheInv', OrderInv,
         seen' \in [Sessions -> [Targets -> Nat]],
         \A t \in Targets : Quiet(t),
         \A t \in Targets : fetches[t] <= fetches'[t],
         \A t \in Targets : cache'[t] = cache[t] \/ cache'[t] = Nothing,
         \A s \in Sessions : Newest(s)' =>
           /\ response'[s].fetch <= fetches'[response'[s].target]
           /\ NoneNewer(response'[s].target, response'[s].fetch)
  PROVE  OrderInv'
<1>1. ASSUME NEW t \in Targets
      PROVE  NoneNewer(t, fetches[t])'
  <2>1. fetches[t] \in Nat /\ fetches'[t] \in Nat /\ fetches[t] <= fetches'[t]
    BY DEF CacheInv
  <2>2. PICK m \in Nat : m = fetches'[t]
    BY <2>1
  <2>3. NoneNewer(t, m)
    BY <2>1, <2>2, BoundRaised DEF OrderInv
  <2>4. NoneNewer(t, m)'
    BY <2>3, QuietBound
  <2> QED BY <2>2, <2>4
<1>2. ASSUME NEW s \in Sessions, Newest(s)'
      PROVE  /\ response'[s].fetch <= fetches'[response'[s].target]
             /\ NoneNewer(response[s].target, response[s].fetch)'
  <2>1. PICK t \in Targets, n \in Nat : t = response'[s].target /\ n = response'[s].fetch
    BY <1>2, NewestType
  <2>2. NoneNewer(t, n)
    BY <1>2, <2>1
  <2>3. NoneNewer(t, n)'
    BY <2>2, QuietBound
  <2> QED BY <1>2, <2>1, <2>3
<1>3. ASSUME NEW t \in Targets, cache'[t] # Nothing
      PROVE  NoneNewer(t, cache[t].fetch)'
  <2>1. cache'[t] = cache[t]
    BY <1>3
  <2>2. PICK n : n = cache[t].fetch
    OBVIOUS
  <2>3. NoneNewer(t, n)
    BY <1>3, <2>1, <2>2 DEF OrderInv
  <2>4. NoneNewer(t, n)'
    BY <2>3, QuietBound
  <2> QED BY <2>1, <2>2, <2>4
<1> QED BY <1>1, <1>2, <1>3 DEF OrderInv

-----------------------------------------------------------------------------
(* Steps of one session. *)

\* A step that gives nothing to anybody.
LEMMA SeenKept ==
  ASSUME OrderInv, seen' = seen
  PROVE  NotOlder
<1>1. ASSUME NEW s \in Sessions, NEW t \in Targets
      PROVE  seen[s][t] <= seen'[s][t]
  <2>1. PICK n \in Nat : n = seen[s][t]
    BY DEF OrderInv
  <2>2. seen'[s][t] = n
    BY <2>1
  <2> QED BY <2>1, <2>2
<1> QED BY <1>1 DEF NotOlder

\* A session is given a response that is out and no older than what it was given before.
Gives(s) ==
  \E t \in Targets : \E a \in Out(t) :
    /\ seen[s][t] <= a.fetch
    /\ seen' = [seen EXCEPT ![s][t] = a.fetch]

\* What that does to the history of the sessions.
LEMMA GivesSeen ==
  ASSUME OrderInv, NEW s \in Sessions, seen' = seen \/ Gives(s)
  PROVE  /\ seen' \in [Sessions -> [Targets -> Nat]]
         /\ NotOlder
         /\ \A u \in Sessions : u # s => seen'[u] = seen[u]
         /\ \A t \in Targets : \A u \in Sessions :
              seen'[u][t] = seen[u][t] \/ \E a \in Out(t) : seen'[u][t] = a.fetch
<1>1. seen \in [Sessions -> [Targets -> Nat]]
  BY DEF OrderInv
<1>2. CASE seen' = seen
  BY <1>1, <1>2, SeenKept
<1>3. CASE Gives(s)
  <2>1. PICK t \in Targets : \E a \in Out(t) :
          seen[s][t] <= a.fetch /\ seen' = [seen EXCEPT ![s][t] = a.fetch]
    BY <1>3, Zenon DEF Gives
  <2>2. PICK a \in Out(t) : seen[s][t] <= a.fetch /\ seen' = [seen EXCEPT ![s][t] = a.fetch]
    BY <2>1, Zenon
  <2>3. PICK n \in Nat : n = a.fetch
    BY DEF Out, Responses
  <2>4. seen[s][t] <= n /\ seen' = [seen EXCEPT ![s][t] = n]
    BY <2>2, <2>3
  <2>5. seen' \in [Sessions -> [Targets -> Nat]]
    BY <1>1, <2>4
  <2>6. \A u \in Sessions, v \in Targets :
          seen'[u][v] = IF u = s /\ v = t THEN n ELSE seen[u][v]
    BY <1>1, <2>4
  <2>7. \A u \in Sessions : u # s => seen'[u] = seen[u]
    BY <1>1, <2>4
  <2>8. ASSUME NEW u \in Sessions, NEW v \in Targets
        PROVE  seen[u][v] <= seen'[u][v]
    <3>1. seen[u][v] \in Nat
      BY <1>1
    <3> QED BY <2>4, <2>6, <3>1
  <2>9. \A v \in Targets : \A u \in Sessions :
          seen'[u][v] = seen[u][v] \/ \E b \in Out(v) : seen'[u][v] = b.fetch
    BY <2>3, <2>6
  <2> QED BY <2>5, <2>7, <2>8, <2>9 DEF NotOlder
<1> QED BY <1>2, <1>3

\* A session that moves on and hands out nothing keeps the order.
LEMMA MoveHistory ==
  ASSUME Inv, HistoryInv, SessionInv', CacheInv',
         NEW s \in Sessions, NEW step, NEW r, NEW answer, Moves(s, step, r, answer),
         cache' = cache, waiters' = waiters,
         waiters[s] = <<>>, pc[s] = "waiting" => posted[s] # Nothing,
         step # "notifying", step = "taking" => ~answer.storable,
         step \in {"fetching", "storing"} /\ r.plain =>
           /\ answer.fetch <= fetches'[answer.target]
           /\ NoneNewer(answer.target, answer.fetch),
         \A t \in Targets : fetches[t] <= fetches'[t],
         seen' = seen \/ Gives(s)
  PROVE  HistoryInv' /\ NotOlder
<1>1. SessionInv /\ CacheInv /\ OrderInv /\ DueInv
  BY DEF Inv, HistoryInv
<1>2. \A u \in Sessions : /\ pc'[u] = IF u = s THEN step ELSE pc[u]
                          /\ request'[u] = IF u = s THEN r ELSE request[u]
                          /\ response'[u] = IF u = s THEN answer ELSE response[u]
                          /\ posted'[u] = IF u = s THEN Nothing ELSE posted[u]
  BY <1>1, Zenon DEF SessionInv, Moves
<1>3. /\ seen' \in [Sessions -> [Targets -> Nat]]
      /\ NotOlder
      /\ \A u \in Sessions : u # s => seen'[u] = seen[u]
      /\ \A t \in Targets : \A u \in Sessions :
           seen'[u][t] = seen[u][t] \/ \E a \in Out(t) : seen'[u][t] = a.fetch
  BY <1>1, GivesSeen, Zenon
<1>4. ASSUME NEW t \in Targets
      PROVE  Quiet(t)
  <2>1. ASSUME NEW a \in Out(t)'
        PROVE  a \in Out(t)
    <3>1. a \in Responses /\ a # Nothing /\ a.plain /\ a.storable /\ a.target = t
      BY SessionAssumption DEF Out
    <3>2. \/ a = cache[t]
          \/ \E u \in Sessions : a = posted'[u]
          \/ \E u \in Sessions : pc'[u] \in {"taking", "notifying"} /\ a = response'[u]
      BY DEF Out
    <3>3. \/ a = cache[t]
          \/ \E u \in Sessions : a = posted[u]
          \/ \E u \in Sessions : pc[u] \in {"taking", "notifying"} /\ a = response[u]
      <4>1. ASSUME NEW u \in Sessions, a = posted'[u]
            PROVE  a = posted[u]
        BY <1>2, <3>1, <4>1
      <4>2. ASSUME NEW u \in Sessions, pc'[u] \in {"taking", "notifying"}, a = response'[u]
            PROVE  pc[u] \in {"taking", "notifying"} /\ a = response[u]
        <5>1. CASE u = s
          <6>1. pc'[u] = step /\ response'[u] = answer
            BY <1>2, <5>1
          <6> QED BY <3>1, <4>2, <6>1
        <5>2. CASE u # s
          BY <1>2, <4>2, <5>2
        <5> QED BY <5>1, <5>2
      <4> QED BY <3>2, <4>1, <4>2, Zenon
    <3> QED BY <3>1, <3>3 DEF Out
  <2> QED BY <1>3, <2>1 DEF Quiet
<1>5. ASSUME NEW u \in Sessions, Newest(u)'
      PROVE  /\ response'[u].fetch <= fetches'[response'[u].target]
             /\ NoneNewer(response'[u].target, response'[u].fetch)
  <2>1. CASE u = s
    BY <1>2, <1>5, <2>1, Zenon DEF Newest
  <2>2. CASE u # s
    <3>1. Newest(u) /\ response'[u] = response[u]
      BY <1>2, <1>5, <2>2 DEF Newest
    <3>2. PICK t \in Targets, n \in Nat : t = response[u].target /\ n = response[u].fetch
      BY <1>1, <3>1, NewestType, Zenon
    <3>3. n <= fetches[t] /\ NoneNewer(t, n)
      BY <1>1, <3>1, <3>2, Zenon DEF OrderInv
    <3>4. fetches[t] \in Nat /\ fetches'[t] \in Nat /\ fetches[t] <= fetches'[t]
      BY <1>1 DEF CacheInv
    <3>5. n <= fetches'[t]
      BY <3>3, <3>4
    <3> QED BY <3>1, <3>2, <3>3, <3>5
  <2> QED BY <2>1, <2>2
<1>6. OrderInv'
  BY <1>1, <1>3, <1>4, <1>5, QuietStep
<1>7. ASSUME NEW w \in Sessions, NEW a \in Due(w)'
      PROVE  seen'[w][a.target] <= a.fetch
  <2>1. a \in Responses /\ a # Nothing /\ a.storable
    BY SessionAssumption DEF Due
  <2>2. ASSUME NEW u \in Sessions, w \in Flights!Range(waiters[u])
        PROVE  u # s /\ w # s
    <3>1. pc[w] = "waiting" /\ posted[w] = Nothing
      BY <2>2, InVectorWaits
    <3>2. waiters[u] # <<>>
      BY <2>2, NothingIsNoKey, Flights!EmptyQueue DEF Flights!NoKeyAssumption
    <3> QED BY <3>1, <3>2
  <2>3. w # s /\ a \in Due(w)
    <3>1. \/ a = posted'[w]
          \/ pc'[w] = "notifying" /\ a = response'[w]
          \/ \E u \in Sessions : w \in Flights!Range(waiters[u]) /\ a = response'[u]
      BY DEF Due
    <3>2. w # s
      BY <1>2, <2>1, <2>2, <3>1, Zenon
    <3>3. \/ a = posted[w]
          \/ pc[w] = "notifying" /\ a = response[w]
          \/ \E u \in Sessions : w \in Flights!Range(waiters[u]) /\ a = response[u]
      BY <1>2, <2>2, <3>1, <3>2, Zenon
    <3> QED BY <2>1, <3>2, <3>3 DEF Due
  <2> QED BY <1>1, <1>3, <2>3 DEF DueInv
<1> QED BY <1>3, <1>6, <1>7 DEF HistoryInv, DueInv

\* Only a session that notifies has a vector.
LEMMA NoVector ==
  ASSUME Inv, NEW s \in Sessions, pc[s] # "notifying"
  PROVE  waiters[s] = <<>>
<1>1. RoleNow[s] # "notifying"
  BY DEF RoleNow, RoleOf
<1> QED BY <1>1 DEF Inv, Flights!IInv, Flights!VectorsHoldJoined

\* The count of fetches grows by one when a fetch starts.
LEMMA FetchCounted ==
  ASSUME CacheInv, NEW t \in Targets, fetches' = fetches \/ fetches' = [fetches EXCEPT ![t] = @ + 1]
  PROVE  \A v \in Targets : fetches[v] <= fetches'[v]
<1>1. fetches \in [Targets -> Nat]
  BY DEF CacheInv
<1>2. ASSUME NEW v \in Targets
      PROVE  fetches[v] <= fetches'[v]
  <2>1. PICK n \in Nat : n = fetches[v]
    BY <1>1
  <2>2. fetches'[v] = n \/ fetches'[v] = n + 1
    BY <1>1, <2>1
  <2> QED BY <2>1, <2>2
<1> QED BY <1>2

\* A session that is answered locally, misses, joins a flight, finds no endpoint without
\* leading, or is done, is given nothing that was fetched and fetches nothing.
LEMMA CalmHistory ==
  ASSUME Inv, HistoryInv, SessionInv', CacheInv', NEW s \in Sessions, NEW r0 \in RequestType,
         \/ ReadLocal(s, r0) \/ ReadMiss(s, r0) \/ ReadBypassNone(s, r0)
         \/ JoinOrStart(s) \/ Written(s) \/ End(s)
  PROVE  HistoryInv' /\ NotOlder
<1>1. SessionInv /\ CacheInv /\ pc[s] \in {"reading", "missed", "writing"}
  BY Zenon DEF Inv, ReadLocal, ReadMiss, ReadBypassNone, Receive, JoinOrStart, Written, End
<1>2. UNCHANGED <<cache, waiters, fetches, posted>>
  BY Zenon DEF ReadLocal, ReadMiss, ReadBypassNone, JoinOrStart, Written, End, shared, history
<1>3. seen' = seen
  <2>1. ~Own(r0, 0, FALSE).storable
    BY DEF Own
  <2>2. ReadBypassNone(s, r0) => seen' = seen
    BY <2>1 DEF ReadBypassNone, Write
  <2> QED BY <2>2, Zenon DEF ReadLocal, ReadMiss, JoinOrStart, Written, End, history
<1>4. PICK step, r, answer :
        /\ step \in {"missed", "leading", "waiting", "writing", "reading", "closed"}
        /\ Moves(s, step, r, answer)
  <2>1. posted' = [posted EXCEPT ![s] = Nothing]
    BY <1>1, <1>2, NothingPosted
  <2>2. PICK step \in {"missed", "leading", "waiting", "writing", "reading", "closed"} :
          pc' = [pc EXCEPT ![s] = step]
    BY Zenon DEF ReadLocal, ReadMiss, ReadBypassNone, Write, JoinOrStart, Written, End, Goto
  <2>3. PICK r : request' = [request EXCEPT ![s] = r]
    <3>1. request = [request EXCEPT ![s] = request[s]]
      BY <1>1 DEF SessionInv
    <3> QED BY <3>1, Zenon DEF ReadLocal, ReadMiss, ReadBypassNone, Receive, JoinOrStart, Written, End
  <2>4. PICK answer : response' = [response EXCEPT ![s] = answer]
    <3>1. response = [response EXCEPT ![s] = response[s]]
      BY <1>1 DEF SessionInv
    <3> QED BY <3>1, Zenon DEF ReadLocal, ReadMiss, ReadBypassNone, Write, JoinOrStart, Written, End
  <2>5. Moves(s, step, r, answer)
    BY <2>1, <2>2, <2>3, <2>4, Zenon DEF Moves
  <2> QED BY <2>2, <2>5
<1>5. \A t \in Targets : fetches[t] <= fetches'[t]
  BY <1>1, <1>2, FetchCounted
<1>6. waiters[s] = <<>>
  BY <1>1, NoVector, Zenon
<1> QED BY <1>1, <1>2, <1>3, <1>4, <1>5, <1>6, MoveHistory, Zenon

\* A fetch that bypasses the cache starts, and ends: what it brings is not shared.
LEMMA BypassHistory ==
  ASSUME Inv, HistoryInv, SessionInv', CacheInv', NEW s \in Sessions, NEW r \in RequestType,
         ReadBypass(s, r)
  PROVE  HistoryInv' /\ NotOlder
<1> DEFINE answer == Own(r, fetches[r.target] + 1, FALSE)
<1>1. SessionInv /\ CacheInv /\ pc[s] = "reading" /\ ~r.plain /\ r.target \in Targets
  BY DEF Inv, ReadBypass, Receive, RequestType
<1>2. Moves(s, "fetching", r, answer)
  BY <1>1, NothingPosted DEF ReadBypass, StartFetch, Receive, Goto, Moves
<1>3. UNCHANGED <<cache, waiters, seen>>
  BY DEF ReadBypass, shared
<1>4. \A t \in Targets : fetches[t] <= fetches'[t]
  BY <1>1, FetchCounted, Zenon DEF ReadBypass, StartFetch
<1>5. waiters[s] = <<>>
  BY <1>1, NoVector
<1> HIDE DEF answer
<1> QED BY <1>1, <1>2, <1>3, <1>4, <1>5, MoveHistory, Zenon

\* A leader's fetch is the last one of its target, so nothing newer is out.
LEMMA LeadHistory ==
  ASSUME Inv, HistoryInv, SessionInv', CacheInv', NEW s \in Sessions, Lead(s)
  PROVE  HistoryInv' /\ NotOlder
<1>1. SessionInv /\ CacheInv /\ OrderInv /\ pc[s] = "leading"
  BY DEF Inv, HistoryInv, Lead
<1>2. request[s] \in RequestType /\ request[s].target \in Targets
  BY <1>1, Busy, Zenon DEF SessionInv, Fits, Sharing
<1>3. PICK t, n, answer :
        /\ t = request[s].target /\ t \in Targets
        /\ n = fetches[t] /\ n \in Nat
        /\ answer = Own(request[s], n + 1, FALSE)
  BY <1>1, <1>2, Zenon DEF CacheInv
<1>4. answer.target = t /\ answer.fetch = n + 1
  BY <1>3, Zenon DEF Own
<1>5. fetches' = [fetches EXCEPT ![t] = @ + 1] /\ fetches'[t] = n + 1
  BY <1>1, <1>3, Zenon DEF Lead, StartFetch, CacheInv
<1>6. Moves(s, "fetching", request[s], answer)
  BY <1>1, <1>3, NothingPosted, Zenon DEF Lead, StartFetch, Goto, Moves, SessionInv
<1>7. NoneNewer(t, n + 1)
  <2>1. NoneNewer(t, n)
    BY <1>1, <1>3, Zenon DEF OrderInv
  <2>2. n + 1 \in Nat /\ n <= n + 1
    BY <1>3
  <2> QED BY <1>1, <1>3, <2>1, <2>2, BoundRaised
<1>8. UNCHANGED <<cache, waiters, seen>> /\ waiters[s] = <<>>
  BY <1>1, NoVector DEF Lead, shared
<1>9. \A v \in Targets : fetches[v] <= fetches'[v]
  BY <1>1, <1>3, <1>5, FetchCounted, Zenon
<1>10. answer.fetch <= fetches'[answer.target]
  <2>1. PICK m \in Nat : m = n + 1
    BY <1>3
  <2>2. answer.fetch = m /\ fetches'[answer.target] = m
    BY <1>4, <1>5, <2>1, Zenon
  <2> QED BY <2>2
<1>11. NoneNewer(answer.target, answer.fetch)
  BY <1>4, <1>7
<1> QED BY <1>1, <1>6, <1>8, <1>9, <1>10, <1>11, MoveHistory, Zenon

\* A 503 is not cacheable.
LEMMA LeadNoneHistory ==
  ASSUME Inv, HistoryInv, SessionInv', CacheInv', NEW s \in Sessions, LeadNone(s)
  PROVE  HistoryInv' /\ NotOlder
<1>1. SessionInv /\ CacheInv /\ pc[s] = "leading"
  BY DEF Inv, LeadNone
<1>2. request[s].target \in Targets
  BY <1>1, Zenon DEF SessionInv, Fits, Sharing
<1>3. PICK answer : answer = Own(request[s], 0, FALSE)
  BY Zenon
<1>4. ~answer.storable
  BY <1>3 DEF Own
<1>5. Moves(s, "taking", request[s], answer)
  BY <1>1, <1>3, NothingPosted, Zenon DEF LeadNone, Goto, Moves, SessionInv
<1>6. UNCHANGED <<cache, waiters, seen, fetches>> /\ waiters[s] = <<>>
  BY <1>1, NoVector, Zenon DEF LeadNone, shared, history
<1>7. \A v \in Targets : fetches[v] <= fetches'[v]
  BY <1>1, <1>2, <1>6, FetchCounted
<1> QED BY <1>1, <1>4, <1>5, <1>6, <1>7, MoveHistory, Zenon

\* What a leader has fetched stays the last fetch of its target.
LEMMA FetchedByLeaderHistory ==
  ASSUME Inv, HistoryInv, SessionInv', CacheInv', NEW s \in Sessions, NEW outcome \in Outcomes,
         FetchedByLeader(s, outcome)
  PROVE  HistoryInv' /\ NotOlder
<1>1. SessionInv /\ CacheInv /\ OrderInv /\ pc[s] = "fetching" /\ request[s].plain
  BY DEF Inv, HistoryInv, FetchedByLeader
<1>2. Newest(s)
  BY <1>1 DEF Newest
<1>3. response[s] \in Responses /\ response[s].target \in Targets
  BY <1>1, <1>2, NewestType
<1>4. PICK answer : answer = Ended(response[s], outcome)
  BY Zenon
<1>5. answer.fetch = response[s].fetch /\ answer.target = response[s].target
  BY <1>3, <1>4, EndedType
<1>6. Moves(s, "storing", request[s], answer)
  BY <1>1, <1>4, NothingPosted DEF FetchedByLeader, CompletionSteps, Goto, Moves, SessionInv
<1>7. UNCHANGED <<cache, waiters, seen, fetches>> /\ waiters[s] = <<>>
  BY <1>1, NoVector DEF FetchedByLeader, shared, history
<1>8. \A v \in Targets : fetches[v] <= fetches'[v]
  BY <1>1, <1>3, <1>7, FetchCounted
<1>9. answer.fetch <= fetches'[answer.target] /\ NoneNewer(answer.target, answer.fetch)
  BY <1>1, <1>2, <1>5, <1>7, Zenon DEF OrderInv
<1> QED BY <1>1, <1>6, <1>7, <1>8, <1>9, MoveHistory, Zenon

-----------------------------------------------------------------------------
(* Steps that give a session a response. *)

\* A session that is answered from the cache, by a callback or by its own flight is given
\* that response, if it is cacheable.
LEMMA WriteGives ==
  ASSUME NEW s \in Sessions, NEW r, NEW a \in Responses,
         a.plain /\ a.storable =>
           /\ a.target \in Targets
           /\ a \in Out(a.target)
           /\ seen[s][a.target] <= a.fetch,
         Write(s, ForCurrentRequest(r, a))
  PROVE  seen' = seen \/ Gives(s)
<1>1. PICK b : b = ForCurrentRequest(r, a)
  OBVIOUS
<1>2. b.plain = a.plain /\ b.storable = a.storable /\ b.target = a.target /\ b.fetch = a.fetch
  BY <1>1 DEF ForCurrentRequest, Responses
<1>3. seen' = IF b.plain /\ b.storable THEN [seen EXCEPT ![s][b.target] = b.fetch] ELSE seen
  BY <1>1 DEF Write
<1>4. CASE ~(a.plain /\ a.storable)
  BY <1>2, <1>3, <1>4
<1>5. CASE a.plain /\ a.storable
  <2>1. seen' = [seen EXCEPT ![s][a.target] = a.fetch]
    BY <1>2, <1>3, <1>5
  <2> QED BY <1>5, <2>1, Zenon DEF Gives
<1> QED BY <1>4, <1>5

\* The write itself.
LEMMA WriteHistory ==
  ASSUME Inv, HistoryInv, SessionInv', CacheInv', NEW s \in Sessions, NEW r,
         NEW a \in Responses, a.target \in Targets,
         a.plain /\ a.storable => a \in Out(a.target) /\ seen[s][a.target] <= a.fetch,
         Write(s, ForCurrentRequest(r, a)),
         request' = [request EXCEPT ![s] = r], posted' = [posted EXCEPT ![s] = Nothing],
         UNCHANGED <<cache, waiters, fetches>>,
         waiters[s] = <<>>, pc[s] = "waiting" => posted[s] # Nothing
  PROVE  HistoryInv' /\ NotOlder
<1>1. PICK answer : answer = ForCurrentRequest(r, a)
  BY Zenon
<1>2. Moves(s, "writing", r, answer)
  BY <1>1 DEF Write, Goto, Moves
<1>3. seen' = seen \/ Gives(s)
  BY WriteGives, Zenon
<1>4. \A v \in Targets : fetches[v] <= fetches'[v]
  BY FetchCounted DEF Inv
<1> QED BY <1>2, <1>3, <1>4, MoveHistory, Zenon

\* A hit: nothing newer than what the cache holds was given to anybody.
LEMMA HitHistory ==
  ASSUME Inv, HistoryInv, SessionInv', CacheInv', NEW s \in Sessions, NEW r \in RequestType,
         ReadHit(s, r)
  PROVE  HistoryInv' /\ NotOlder
<1>1. /\ SessionInv /\ CacheInv /\ OrderInv /\ pc[s] = "reading"
      /\ r.target \in Targets /\ cache[r.target] # Nothing
  BY DEF Inv, HistoryInv, ReadHit, Receive, RequestType
<1>2. PICK t, a : t = r.target /\ a = cache[t]
  OBVIOUS
<1>3. a \in Responses /\ a.target = t /\ a.storable /\ a.plain /\ t \in Targets
  BY <1>1, <1>2 DEF CacheInv, CacheIsShareable
<1>4. a \in Out(t)
  BY <1>2, <1>3 DEF Out
<1>5. seen[s][t] <= a.fetch
  BY <1>1, <1>2, <1>3, Zenon DEF OrderInv, NoneNewer
<1>6. /\ Write(s, ForCurrentRequest(r, a))
      /\ request' = [request EXCEPT ![s] = r]
      /\ UNCHANGED <<cache, waiters, fetches, posted>>
  BY <1>2, Zenon DEF ReadHit, Receive, shared
<1>7. posted' = [posted EXCEPT ![s] = Nothing] /\ waiters[s] = <<>>
  BY <1>1, <1>6, NothingPosted, NoVector
<1> QED BY <1>1, <1>3, <1>4, <1>5, <1>6, <1>7, WriteHistory, Zenon

\* The end of a fetch that bypasses.
LEMMA FetchedBypassHistory ==
  ASSUME Inv, HistoryInv, SessionInv', CacheInv', NEW s \in Sessions, NEW outcome \in Outcomes,
         FetchedBypass(s, outcome)
  PROVE  HistoryInv' /\ NotOlder
<1>1. SessionInv /\ pc[s] = "fetching" /\ ~request[s].plain
  BY DEF Inv, FetchedBypass
<1>2. Answers(response[s], request[s]) /\ request[s].target \in Targets
  BY <1>1, Zenon DEF SessionInv, Fits
<1>3. PICK a : a = Ended(response[s], outcome)
  BY Zenon
<1>4. a \in Responses /\ a.target \in Targets /\ ~a.plain
  BY <1>1, <1>2, <1>3, EndedType DEF Answers
<1>5. /\ Write(s, ForCurrentRequest(request[s], a))
      /\ request' = [request EXCEPT ![s] = request[s]]
      /\ UNCHANGED <<cache, waiters, fetches, posted>>
  BY <1>1, <1>3 DEF FetchedBypass, SessionInv, shared
<1>6. posted' = [posted EXCEPT ![s] = Nothing] /\ waiters[s] = <<>>
  BY <1>1, <1>5, NothingPosted, NoVector
<1> QED BY <1>1, <1>4, <1>5, <1>6, WriteHistory, Zenon

\* A waiter writes what was posted to it, or a leader its own response: it was due.
LEMMA DueHistory ==
  ASSUME Inv, HistoryInv, SessionInv', CacheInv', NEW s \in Sessions,
         WritePosted(s) \/ WriteOwn(s)
  PROVE  HistoryInv' /\ NotOlder
<1>1. SessionInv /\ DueInv
  BY DEF Inv, HistoryInv
<1>2. PICK a : /\ Write(s, ForCurrentRequest(request[s], a))
               /\ \/ pc[s] = "waiting" /\ posted[s] # Nothing /\ a = posted[s] /\ WritePosted(s)
                  \/ pc[s] = "notifying" /\ a = response[s] /\ WriteOwn(s)
  BY Zenon DEF WritePosted, WriteOwn
<1>3. Answers(a, request[s]) /\ request[s].target \in Targets
  BY <1>1, <1>2, Zenon DEF SessionInv, Fits, Sharing
<1>4. a \in Responses /\ a.target \in Targets
  BY <1>3, Zenon DEF Answers
<1>5. ASSUME a.plain, a.storable
      PROVE  a \in Out(a.target) /\ seen[s][a.target] <= a.fetch
  <2>1. a \in Out(a.target)
    BY <1>2, <1>4, <1>5 DEF Out
  <2>2. a \in Due(s)
    BY <1>2, <1>4, <1>5, Zenon DEF Due
  <2> QED BY <1>1, <2>1, <2>2 DEF DueInv
<1>6. /\ request' = [request EXCEPT ![s] = request[s]]
      /\ UNCHANGED <<cache, waiters, fetches>>
  BY <1>1, Zenon DEF WritePosted, WriteOwn, SessionInv, shared
<1>7. posted' = [posted EXCEPT ![s] = Nothing] /\ waiters[s] = <<>>
  <2>1. CASE WritePosted(s)
    BY <2>1, NoVector, Zenon DEF WritePosted
  <2>2. CASE WriteOwn(s)
    BY <1>1, <2>2, NothingPosted, Zenon DEF WriteOwn
  <2> QED BY <2>1, <2>2
<1> QED BY <1>2, <1>4, <1>5, <1>6, <1>7, WriteHistory, Zenon

-----------------------------------------------------------------------------
(* Steps that hand a response out. *)

\* put() brings out the response of the last fetch: the leaders of other flights have other
\* targets.
LEMMA StoreHistory ==
  ASSUME Inv, HistoryInv, SessionInv', CacheInv', NEW s \in Sessions, Store(s)
  PROVE  HistoryInv' /\ NotOlder
<1>1. /\ SessionInv /\ CacheInv /\ OrderInv /\ DueInv
      /\ pc[s] = "storing" /\ request[s].plain /\ request[s].target \in Targets
  BY Zenon DEF Inv, HistoryInv, Store, SessionInv, Fits, Sharing
<1>2. UNCHANGED <<request, response, waiters, posted, fetches, seen>>
  BY Zenon DEF Store, history
<1>3. pc' = [pc EXCEPT ![s] = "taking"]
  BY Zenon DEF Store, CompletionSteps, Goto
<1>4. PICK t \in Targets, a \in Responses, n \in Nat :
        t = request[s].target /\ a = response[s] /\ n = a.fetch /\ a.target = t /\ a.plain
  <2>1. Answers(response[s], request[s])
    BY <1>1, Zenon DEF SessionInv, Fits
  <2>2. response[s].fetch \in Nat
    BY <2>1, Zenon DEF Answers, Responses
  <2> QED BY <1>1, <2>1, <2>2, Zenon DEF Answers
<1>5. n <= fetches[t] /\ NoneNewer(t, n)
  BY <1>1, <1>4, Zenon DEF OrderInv, Newest
<1>6. CASE ~a.storable
  <2>1. Moves(s, "taking", request[s], a)
    BY <1>1, <1>2, <1>3, <1>4, NothingPosted, Zenon DEF Moves, SessionInv
  <2>2. cache' = cache /\ waiters[s] = <<>>
    BY <1>1, <1>4, <1>6, NoVector, Zenon DEF Store
  <2>3. \A v \in Targets : fetches[v] <= fetches'[v]
    BY <1>1, <1>2, FetchCounted
  <2> QED BY <1>1, <1>2, <1>6, <2>1, <2>2, <2>3, MoveHistory, Zenon
<1>7. CASE a.storable
  <2>1. \A u \in Sessions : pc'[u] = IF u = s THEN "taking" ELSE pc[u]
    BY <1>1, <1>3, Zenon DEF SessionInv
  <2>2. \A v \in Targets : cache'[v] = IF v = t THEN a ELSE cache[v]
    BY <1>1, <1>4, <1>7, Zenon DEF Store, CacheInv
  <2>3. ASSUME NEW v \in Targets, NEW b \in Out(v)'
        PROVE  b \in Out(v) \/ (v = t /\ b = a)
    <3>1. b \in Responses /\ b.plain /\ b.storable /\ b.target = v
      BY DEF Out
    <3>2. \/ b = cache'[v]
          \/ \E u \in Sessions : b = posted[u]
          \/ \E u \in Sessions : pc'[u] \in {"taking", "notifying"} /\ b = response[u]
      BY <1>2 DEF Out
    <3>3. \/ b = a
          \/ b = cache[v]
          \/ \E u \in Sessions : b = posted[u]
          \/ \E u \in Sessions : pc[u] \in {"taking", "notifying"} /\ b = response[u]
      BY <1>4, <2>1, <2>2, <3>2, Zenon
    <3> QED BY <1>4, <3>1, <3>3, Zenon DEF Out
  <2>4. ASSUME NEW v \in Targets, NEW m, NoneNewer(v, m), v = t => n <= m
        PROVE  NoneNewer(v, m)'
    <3>1. \A b \in Out(v)' : b.fetch <= m
      BY <1>4, <2>3, <2>4 DEF NoneNewer
    <3> QED BY <1>2, <2>4, <3>1 DEF NoneNewer
  <2>5. ASSUME NEW v \in Targets
        PROVE  NoneNewer(v, fetches[v])'
    <3>1. NoneNewer(v, fetches[v]) /\ (v = t => n <= fetches[v])
      BY <1>1, <1>5, Zenon DEF OrderInv
    <3>2. PICK m : m = fetches[v] /\ m = fetches'[v]
      BY <1>2
    <3>3. NoneNewer(v, m)'
      BY <2>4, <3>1, <3>2
    <3> QED BY <3>2, <3>3, Zenon
  <2>6. NoneNewer(t, n)'
    BY <1>5, <2>4
  <2>7. ASSUME NEW u \in Sessions, Newest(u)'
        PROVE  /\ response'[u].fetch <= fetches'[response'[u].target]
               /\ NoneNewer(response[u].target, response[u].fetch)'
    <3>1. CASE u = s
      BY <1>2, <1>4, <1>5, <2>6, <3>1, Zenon
    <3>2. CASE u # s
      <4>1. Newest(u)
        BY <1>2, <2>1, <2>7, <3>2, Zenon DEF Newest
      <4>2. PICK v \in Targets, m \in Nat : v = response[u].target /\ m = response[u].fetch
        BY <1>1, <4>1, NewestType
      <4>3. m <= fetches[v] /\ NoneNewer(v, m)
        BY <1>1, <4>1, <4>2, Zenon DEF OrderInv
      <4>4. v # t
        <5>1. RoleNow[u] = "leader" /\ KeyNow[u] = request[u].target
          <6>1. pc[u] \in {"leading", "storing", "taking"} \/ (pc[u] = "fetching" /\ request[u].plain)
            BY <4>1 DEF Newest
          <6> QED BY <6>1, LeaderNow
        <5>2. RoleNow[s] = "leader" /\ KeyNow[s] = t
          BY <1>1, <1>4, LeaderNow
        <5>3. request[u].target = v
          BY <1>1, <4>1, <4>2, Zenon DEF Newest, SessionInv, Fits, Answers
        <5> QED BY <3>2, <5>1, <5>2, <5>3, Zenon DEF Inv, Flights!IInv, Flights!OneLeader, Flights!Leaders
      <4>5. NoneNewer(v, m)'
        BY <2>4, <4>3, <4>4
      <4> QED BY <1>2, <4>2, <4>3, <4>5, Zenon
    <3> QED BY <3>1, <3>2, Zenon
  <2>8. ASSUME NEW v \in Targets, cache'[v] # Nothing
        PROVE  NoneNewer(v, cache[v].fetch)'
    <3>1. CASE v = t
      BY <1>4, <2>2, <2>6, <3>1
    <3>2. CASE v # t
      <4>1. PICK m : m = cache[v].fetch /\ m = cache'[v].fetch
        BY <2>2, <3>2
      <4>2. NoneNewer(v, m)
        BY <1>1, <2>2, <2>8, <3>2, <4>1, Zenon DEF OrderInv
      <4>3. NoneNewer(v, m)'
        BY <2>4, <3>2, <4>2
      <4> QED BY <4>1, <4>3
    <3> QED BY <3>1, <3>2
  <2>9. OrderInv'
    BY <1>1, <1>2, <2>5, <2>7, <2>8, Zenon DEF OrderInv
  <2>10. \A w \in Sessions : Due(w)' = Due(w)
    BY <1>1, <1>2, <2>1, Zenon DEF Due
  <2>11. DueInv'
    BY <1>1, <1>2, <2>10, Zenon DEF DueInv
  <2>12. NotOlder
    BY <1>1, <1>2, SeenKept
  <2> QED BY <2>9, <2>11, <2>12 DEF HistoryInv
<1> QED BY <1>6, <1>7

\* A step after which nothing more is out, fewer sessions lead and the cache holds no more,
\* and which gives nothing to anybody.
LEMMA StillStep ==
  ASSUME Inv, HistoryInv, SessionInv', CacheInv',
         UNCHANGED <<request, response, fetches, seen>>,
         \A t \in Targets : Out(t)' \subseteq Out(t),
         \A t \in Targets : cache'[t] = cache[t] \/ cache'[t] = Nothing,
         \A u \in Sessions : Newest(u)' => Newest(u)
  PROVE  OrderInv' /\ NotOlder
<1>1. CacheInv /\ OrderInv
  BY DEF Inv, HistoryInv
<1>2. \A t \in Targets : Quiet(t)
  BY DEF Quiet
<1>3. \A t \in Targets : fetches[t] <= fetches'[t]
  BY <1>1, FetchCounted
<1>4. \A u \in Sessions : Newest(u)' =>
        /\ response'[u].fetch <= fetches'[response'[u].target]
        /\ NoneNewer(response'[u].target, response'[u].fetch)
  BY <1>1, Zenon DEF OrderInv
<1>5. seen' \in [Sessions -> [Targets -> Nat]]
  BY <1>1, Zenon DEF OrderInv
<1>6. OrderInv'
  BY <1>1, <1>2, <1>3, <1>4, <1>5, QuietStep, Zenon
<1>7. NotOlder
  BY <1>1, SeenKept
<1> QED BY <1>6, <1>7

\* The locked part of complete(): nothing newer than the leader's response was given to the
\* sessions whose callbacks it takes.
LEMMA TakeHistory ==
  ASSUME Inv, HistoryInv, SessionInv', CacheInv', NEW s \in Sessions, Take(s)
  PROVE  HistoryInv' /\ NotOlder
<1>1. SessionInv /\ OrderInv /\ DueInv /\ pc[s] = "taking"
  BY Zenon DEF Inv, HistoryInv, Take
<1>2. UNCHANGED <<request, response, posted, cache, fetches, seen>>
  BY Zenon DEF Take, history
<1>3. \A u \in Sessions : pc'[u] = IF u = s THEN "notifying" ELSE pc[u]
  BY <1>1, Zenon DEF Take, CompletionSteps, Goto, SessionInv
<1>4. \A u \in Sessions : u # s => waiters'[u] = waiters[u]
  BY Zenon DEF Take, Inv, Flights!IInv, Flights!TypeOK
<1>5. \A t \in Targets : Out(t)' \subseteq Out(t)
  BY <1>1, <1>2, <1>3 DEF Out
<1>6. \A u \in Sessions : Newest(u)' => Newest(u)
  BY <1>2, <1>3 DEF Newest
<1>7. OrderInv' /\ NotOlder
  BY <1>2, <1>5, <1>6, StillStep
<1>8. ASSUME response[s].storable
      PROVE  \A w \in Sessions : seen[w][response[s].target] <= response[s].fetch
  BY <1>1, <1>8, Zenon DEF OrderInv, Newest, NoneNewer
<1>9. ASSUME NEW w \in Sessions, NEW a \in Due(w)'
      PROVE  seen'[w][a.target] <= a.fetch
  <2>1. a \in Responses /\ a.storable
    BY DEF Due
  <2>2. \/ a = posted[w]
        \/ pc'[w] = "notifying" /\ a = response[w]
        \/ \E u \in Sessions : w \in Flights!Range(waiters'[u]) /\ a = response[u]
    BY <1>2 DEF Due
  <2>3. CASE a = response[s]
    BY <1>2, <1>8, <2>1, <2>3, Zenon
  <2>4. CASE a # response[s]
    <3>1. \/ a = posted[w]
          \/ pc[w] = "notifying" /\ a = response[w]
          \/ \E u \in Sessions : u # s /\ w \in Flights!Range(waiters'[u]) /\ a = response[u]
      BY <1>3, <2>2, <2>4
    <3>2. \/ a = posted[w]
          \/ pc[w] = "notifying" /\ a = response[w]
          \/ \E u \in Sessions : w \in Flights!Range(waiters[u]) /\ a = response[u]
      BY <1>4, <3>1
    <3>3. a \in Due(w)
      BY <2>1, <3>2 DEF Due
    <3> QED BY <1>1, <1>2, <3>3 DEF DueInv
  <2> QED BY <2>3, <2>4
<1> QED BY <1>7, <1>9 DEF HistoryInv, DueInv

\* A callback posts what was due to its session.
LEMMA NotifyHistory ==
  ASSUME Inv, HistoryInv, SessionInv', CacheInv', NEW s \in Sessions, Notify(s)
  PROVE  HistoryInv' /\ NotOlder
<1>1. SessionInv /\ OrderInv /\ DueInv /\ pc[s] = "notifying" /\ waiters[s] # <<>>
  BY DEF Inv, HistoryInv, Notify
<1>2. UNCHANGED <<pc, request, response, cache, fetches, seen>>
  BY Zenon DEF Notify, shared
<1>3. PICK w : w = Head(waiters[s])
  OBVIOUS
<1>4. /\ w \in Sessions /\ w \in Flights!Range(waiters[s])
      /\ Flights!Range(Tail(waiters[s])) \subseteq Flights!Range(waiters[s])
  <2>1. waiters[s] \in Seq(Sessions) /\ Flights!IsInjective(waiters[s])
    BY DEF Inv, Flights!IInv, Flights!TypeOK, Flights!VectorsHoldJoined
  <2> QED BY <1>1, <1>3, <2>1, NothingIsNoKey, Flights!PopFront, Zenon DEF Flights!NoKeyAssumption
<1>5. \A u \in Sessions : posted'[u] = IF u = w THEN response[s] ELSE posted[u]
  BY <1>1, <1>3, Zenon DEF Notify, SessionInv
<1>6. \A u \in Sessions : waiters'[u] = IF u = s THEN Tail(waiters[s]) ELSE waiters[u]
  BY DEF Notify, Inv, Flights!IInv, Flights!TypeOK
<1>7. \A t \in Targets : Out(t)' \subseteq Out(t)
  BY <1>1, <1>2, <1>5 DEF Out
<1>8. \A u \in Sessions : Newest(u)' => Newest(u)
  BY <1>2 DEF Newest
<1>9. OrderInv' /\ NotOlder
  BY <1>2, <1>7, <1>8, StillStep
<1>10. \A u \in Sessions : Due(u)' \subseteq Due(u)
  <2>1. \A u, v \in Sessions :
          u \in Flights!Range(waiters'[v]) => u \in Flights!Range(waiters[v])
    BY <1>4, <1>6
  <2> QED BY <1>2, <1>4, <1>5, <2>1, Zenon DEF Due
<1>11. DueInv'
  BY <1>1, <1>2, <1>10 DEF DueInv
<1> QED BY <1>9, <1>11 DEF HistoryInv

\* The cache forgets, the pool changes, or nothing happens.
LEMMA ForgetHistory ==
  ASSUME Inv, HistoryInv, SessionInv', CacheInv',
         (\E t \in Targets : Forget(t)) \/ SetAvailable \/ UNCHANGED vars
  PROVE  HistoryInv' /\ NotOlder
<1>1. UNCHANGED <<pc, request, response, waiters, posted, fetches, seen>>
  BY DEF Forget, SetAvailable, vars, shared, history
<1>2. \A t \in Targets : cache'[t] = cache[t] \/ cache'[t] = Nothing
  <2>1. cache \in [Targets -> Responses \cup {Nothing}]
    BY DEF Inv, CacheInv
  <2> QED BY <2>1 DEF Forget, SetAvailable, vars, shared
<1>3. \A t \in Targets : Out(t)' \subseteq Out(t)
  BY <1>1, <1>2, SessionAssumption, Zenon DEF Out
<1>4. \A u \in Sessions : Newest(u)' => Newest(u)
  BY <1>1 DEF Newest
<1>5. OrderInv' /\ NotOlder
  BY <1>1, <1>2, <1>3, <1>4, StillStep
<1>6. DueInv'
  BY <1>1 DEF HistoryInv, DueInv, Due
<1> QED BY <1>5, <1>6 DEF HistoryInv

-----------------------------------------------------------------------------

\* Every step keeps the order of responses.
LEMMA StepKeepsHistory ==
  ASSUME Inv, HistoryInv, [Next]_vars
  PROVE  HistoryInv' /\ NotOlder
<1>1. SessionInv' /\ CacheInv'
  BY StepKeeps
<1>2. ASSUME NEW s \in Sessions, Read(s)
      PROVE  HistoryInv' /\ NotOlder
  <2>1. PICK r \in RequestType : \/ ReadLocal(s, r) \/ ReadHit(s, r) \/ ReadMiss(s, r)
                                \/ ReadBypass(s, r) \/ ReadBypassNone(s, r)
    BY <1>2, SessionAssumption DEF Read
  <2> QED BY <1>1, <2>1, CalmHistory, HitHistory, BypassHistory
<1>3. ASSUME NEW s \in Sessions, JoinOrStart(s) \/ Written(s) \/ End(s)
      PROVE  HistoryInv' /\ NotOlder
  <2>1. \E r : r \in RequestType
    <3>1. [target |-> Local, plain |-> TRUE, keep_alive |-> TRUE] \in RequestType
      BY DEF RequestType
    <3> QED BY <3>1
  <2> QED BY <1>1, <1>3, <2>1, CalmHistory
<1>4. ASSUME NEW s \in Sessions, Fetched(s)
      PROVE  HistoryInv' /\ NotOlder
  BY <1>1, <1>4, FetchedByLeaderHistory, FetchedBypassHistory DEF Fetched
<1>5. ASSUME NEW s \in Sessions,
             \/ Lead(s) \/ LeadNone(s) \/ Store(s) \/ Take(s) \/ Notify(s)
             \/ WriteOwn(s) \/ WritePosted(s)
      PROVE  HistoryInv' /\ NotOlder
  BY <1>1, <1>5, LeadHistory, LeadNoneHistory, StoreHistory, TakeHistory, NotifyHistory, DueHistory
<1>6. CASE (\E t \in Targets : Forget(t)) \/ SetAvailable \/ UNCHANGED vars
  BY <1>1, <1>6, ForgetHistory
<1> QED BY <1>2, <1>3, <1>4, <1>5, <1>6 DEF Next, Proceed

\* At first nobody was given anything and nothing is out.
LEMMA InitHistory == Init => HistoryInv
<1> SUFFICES ASSUME Init PROVE HistoryInv
  OBVIOUS
<1>1. \A t \in Targets : Out(t) = {}
  BY SessionAssumption DEF Init, Out
<1>2. \A s \in Sessions, t \in Targets : seen[s][t] = 0
  BY DEF Init
<1>3. \A t \in Targets : fetches[t] = 0 /\ cache[t] = Nothing
  BY DEF Init
<1>4. \A s \in Sessions : ~Newest(s)
  BY Zenon DEF Init, Newest
<1>5. OrderInv
  <2>1. seen \in [Sessions -> [Targets -> Nat]]
    BY DEF Init
  <2>2. \A t \in Targets : NoneNewer(t, fetches[t])
    BY <1>1, <1>2, <1>3 DEF NoneNewer
  <2> QED BY <1>3, <1>4, <2>1, <2>2, Zenon DEF OrderInv
<1>6. \A w \in Sessions : Due(w) = {}
  <2>1. \A u \in Sessions : Flights!Range(waiters[u]) = {}
    BY NothingIsNoKey, Flights!EmptyQueue DEF Init, Flights!NoKeyAssumption
  <2> QED BY <2>1, SessionAssumption DEF Init, Due
<1> QED BY <1>5, <1>6 DEF HistoryInv, DueInv

\* A client that repeats a cacheable request is never given an older cacheable response,
\* for any sets of sessions, targets and requests.
THEOREM AnswersNeverAge == Spec => NeverOlder
<1>1. Init => HistoryInv
  BY InitHistory
<1>2. Inv /\ HistoryInv /\ [Next]_vars => HistoryInv'
  BY StepKeepsHistory
<1>3. Inv /\ HistoryInv /\ [Next]_vars =>
        [\A s \in Sessions, t \in Targets : seen[s][t] <= seen'[s][t]]_vars
  BY StepKeepsHistory DEF NotOlder
<1> QED BY <1>1, <1>2, <1>3, Invariance, PTL DEF Spec, NeverOlder
=============================================================================
