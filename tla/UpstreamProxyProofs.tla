------------------------- MODULE UpstreamProxyProofs -------------------------
(***************************************************************************)
(* Proofs about the upstream proxy: the time limits of a fetch and of the  *)
(* session that waits for it (UpstreamProxy and SessionDeadline), for      *)
(* every choice of the limits, and the messages it reads and rewrites      *)
(* (CommandLine and Messages), for all texts and headers.                  *)
(***************************************************************************)
EXTENDS SessionDeadline, Messages, WellFoundedInduction, TLAPS

\* What the operations before this one may have taken since the resolver answered.
Before == [connect |-> 0, write |-> ConnectTimeout, read |-> ConnectTimeout + WriteTimeout]

\* The inductive invariant of a fetch: an operation runs under the limit that was
\* set when it began, and began within the limits of those before it.
FetchInv ==
  /\ TypeOK
  /\ completed <=> stage = "done"
  /\ stage = "done" => outcome = Pending
  /\ stage = "resolve" => expiry = NoExpiry /\ outcome # "timeout" /\ began <= now
  /\ stage \in DOMAIN Timeout =>
       /\ expiry = began + Timeout[stage]
       /\ resolved_at <= began /\ began - resolved_at <= Before[stage]
       /\ began <= now /\ now <= expiry
       /\ outcome = "timeout" => now = expiry

\* Every step of a fetch (src/upstream_proxy.cpp, with its stream) keeps FetchInv.
LEMMA StepKeepsFetchInv ==
  ASSUME FetchInv, Next
  PROVE  FetchInv'
<1> USE TimeoutAssumption DEF FetchInv, TypeOK, Timeout, Before, Pending, NoExpiry, NoResult
<1>1. ASSUME NEW op \in {"resolve", "connect", "write", "read"}, Fail(op) PROVE FetchInv'
  BY <1>1 DEF Fail, Complete, FailStatus
<1>2. CASE Succeeded("resolve") /\ Start("connect", ConnectTimeout) /\ resolved_at' = now
  BY <1>2 DEF Succeeded, Start
<1>3. CASE Succeeded("connect") /\ Start("write", WriteTimeout) /\ UNCHANGED resolved_at
  BY <1>3 DEF Succeeded, Start
<1>4. CASE Succeeded("write") /\ Start("read", ReadTimeout) /\ UNCHANGED resolved_at
  BY <1>4 DEF Succeeded, Start
<1>5. CASE Succeeded("read") /\ Complete(200) /\ UNCHANGED resolved_at
  BY <1>5 DEF Succeeded, Complete
<1>6. CASE OperationEnds
  BY <1>6 DEF OperationEnds
<1>7. CASE StreamTimesOut
  BY <1>7 DEF StreamTimesOut
<1>8. CASE Tick
  BY <1>8 DEF Tick, Waits
<1> QED
  BY <1>1, <1>2, <1>3, <1>4, <1>5, <1>6, <1>7, <1>8
  DEF Next, Handler, on_resolve, on_connect, on_write, on_read

\* A fetch answers 504 exactly for an operation that used up its own limit.
LEMMA StepEarnsTimeout ==
  ASSUME FetchInv, Next
  PROVE  result' # result =>
           (result' = 504 <=> outcome = "timeout" /\ now - began = Timeout[stage])
<1> USE TimeoutAssumption DEF FetchInv, TypeOK, Timeout, Before, Pending, NoExpiry, NoResult
<1>1. ASSUME NEW op \in {"resolve", "connect", "write", "read"}, Fail(op)
      PROVE  result' # result =>
               (result' = 504 <=> outcome = "timeout" /\ now - began = Timeout[stage])
  BY <1>1 DEF Fail, Complete, FailStatus
<1>2. CASE Succeeded("read") /\ Complete(200) /\ UNCHANGED resolved_at
  BY <1>2 DEF Succeeded, Complete
<1>3. CASE UNCHANGED result
  BY <1>3
<1> QED
  BY <1>1, <1>2, <1>3
  DEF Next, Handler, on_resolve, on_connect, on_write, on_read, Start, OperationEnds,
      StreamTimesOut, Tick

\* A fetch on its own keeps its invariant.
THEOREM FetchInvariant == Spec => []FetchInv
<1>1. Init => FetchInv
  <2> SUFFICES ASSUME Init PROVE FetchInv
    OBVIOUS
  <2>1. completed \in BOOLEAN /\ ~completed
    BY Zenon DEF Init
  <2> QED
    BY <2>1 DEF Init, FetchInv, TypeOK, Timeout, Pending, NoExpiry, NoResult
<1>2. FetchInv /\ [Next]_vars => FetchInv'
  <2> SUFFICES ASSUME FetchInv, [Next]_vars PROVE FetchInv'
    OBVIOUS
  <2>1. CASE Next
    BY <2>1, StepKeepsFetchInv
  <2>2. CASE UNCHANGED vars
    BY <2>2 DEF vars, FetchInv, TypeOK
  <2> QED
    BY <2>1, <2>2
<1> QED
  BY <1>1, <1>2, PTL DEF Spec

\* However the network and the upstream behave, the three operations of a fetch
\* (connect, write, read) end within their three limits together.
THEOREM FetchWithinBudget == Spec => []WithinBudget
<1>1. FetchInv => WithinBudget
  BY TimeoutAssumption DEF FetchInv, TypeOK, WithinBudget, Timeout, Before
<1> QED
  BY <1>1, FetchInvariant, PTL

-----------------------------------------------------------------------------

\* Since when the fetch of this request had its address.
Resolved == IF resolved_at > arrived THEN resolved_at ELSE arrived

\* The inductive invariant of a session: its deadline is that of the request it
\* reads, fetches or answers, and the fetch lies between request and response.
SessionInv ==
  /\ step \in {"reading", "fetching", "writing", "closed"}
  /\ ended \in {Pending, "ok", "error", "timeout"}
  /\ {deadline, read_began, arrived, write_began} \subseteq Nat
  /\ step = "fetching" <=> stage # "done"
  /\ step = "fetching" => ended = Pending
  /\ deadline = read_began + SessionTimeout
  /\ read_began <= now
  /\ step = "reading" => now <= deadline
  /\ step \in {"fetching", "writing"} =>
       /\ arrived <= deadline
       /\ read_began <= arrived /\ arrived <= now
  /\ step = "fetching" =>
       /\ arrived <= resolved_at
       /\ stage = "resolve" => resolved_at = arrived
  /\ step = "writing" =>
       /\ write_began <= now
       /\ write_began <= Resolved + Budget
       /\ now <= deadline \/ now = write_began

Inv == FetchInv /\ SessionInv

\* A handler of the fetch keeps the session's invariant, also when it ends the fetch
\* and the response is written.
LEMMA HandlerKeepsSessionInv ==
  ASSUME Inv, FetchInv', step = "fetching", Handler,
         IF stage' = "done" THEN WriteResponse /\ UNCHANGED <<ended, requests, arrived>>
         ELSE UNCHANGED session
  PROVE  SessionInv'
<1> USE TimeoutAssumption DEF SessionInv
<1>1. now' = now /\ now \in Nat /\ resolved_at \in Nat /\ resolved_at' \in Nat
  BY DEF Inv, FetchInv, TypeOK, Handler, on_resolve, on_connect, on_write, on_read, Fail, Succeeded
<1>2. /\ resolved_at' >= resolved_at
      /\ resolved_at' <= now
      /\ now - resolved_at' <= Budget
      /\ stage' # "resolve"
  BY DEF Inv, FetchInv, TypeOK, Handler, on_resolve, on_connect, on_write, on_read, Fail,
         Succeeded, Start, Complete, Budget, Timeout, Before
<1> QED
  BY <1>1, <1>2 DEF Inv, WriteResponse, session, Resolved, Budget

\* Every step of a session (src/http_session.cpp) keeps its invariant and that
\* of its fetch.
LEMMA StepKeepsInv ==
  ASSUME Inv, SessionNext
  PROVE  Inv'
<1> USE TimeoutAssumption, SessionTimeoutAssumption
<1>1. CASE OnRead
  <2>1. CASE UNCHANGED fetch
    BY <1>1, <2>1 DEF OnRead, fetch, Inv, FetchInv, TypeOK, SessionInv, Close, WriteResponse, RunFetch,
                      Timeout, Resolved, Budget, Pending
  <2>2. CASE RunFetch
    <3>1. completed' \in BOOLEAN /\ ~completed'
      BY <2>2, Zenon DEF RunFetch
    <3> QED
      BY <1>1, <2>2, <3>1 DEF OnRead, fetch, Inv, FetchInv, TypeOK, SessionInv, WriteResponse,
                              RunFetch, Timeout, Pending, NoExpiry, NoResult
  <2> QED
    BY <1>1, <2>1, <2>2 DEF OnRead
<1>2. CASE FetchStep
  BY <1>2, StepKeepsFetchInv, HandlerKeepsSessionInv DEF FetchStep, Inv, Next
<1>3. CASE OnWrite
  BY <1>3 DEF OnWrite, fetch, Inv, FetchInv, TypeOK, SessionInv, Close, DoRead
<1>4. CASE ClientActs \/ ClientTimesOut
  BY <1>4 DEF ClientActs, ClientTimesOut, fetch, Inv, FetchInv, TypeOK, SessionInv, Resolved, Pending
<1>5. CASE FetchOperationEnds
  <2>1. FetchInv'
    BY <1>5, StepKeepsFetchInv DEF FetchOperationEnds, Inv, Next
  <2>2. UNCHANGED <<stage, now, resolved_at>>
    BY <1>5 DEF FetchOperationEnds, OperationEnds, StreamTimesOut
  <2> QED
    BY <1>5, <2>1, <2>2 DEF FetchOperationEnds, session, Inv, SessionInv, Resolved
<1>6. CASE SessionTick
  <2>1. FetchInv'
    BY <1>6 DEF SessionTick, Waits, fetch, session, Inv, SessionInv, FetchInv, TypeOK, Timeout, NoExpiry
  <2>2. SessionInv'
    BY <1>6 DEF SessionTick, fetch, session, Inv, SessionInv, FetchInv, TypeOK, Resolved
  <2> QED
    BY <2>1, <2>2 DEF Inv
<1>7. CASE Finished
  BY <1>7 DEF Finished, all_vars, session, fetch, Inv, SessionInv, FetchInv, TypeOK, Resolved
<1> QED
  BY <1>1, <1>2, <1>3, <1>4, <1>5, <1>6, <1>7 DEF SessionNext, SessionHandler

\* The deadline and the fetch of a session keep the invariant.
THEOREM SessionInvariant == SessionSpec => []Inv
<1>1. SessionInit => Inv
  <2> SUFFICES ASSUME SessionInit PROVE Inv
    OBVIOUS
  <2>1. completed
    BY Zenon DEF SessionInit
  <2> QED
    BY <2>1, TimeoutAssumption, SessionTimeoutAssumption
    DEF SessionInit, Inv, FetchInv, SessionInv, TypeOK, Timeout, Pending, NoExpiry, NoResult
<1>2. Inv /\ [SessionNext]_all_vars => Inv'
  <2> SUFFICES ASSUME Inv, [SessionNext]_all_vars PROVE Inv'
    OBVIOUS
  <2>1. CASE SessionNext
    BY <2>1, StepKeepsInv
  <2>2. CASE UNCHANGED all_vars
    BY <2>2 DEF all_vars, session, fetch, Inv, SessionInv, FetchInv, TypeOK, Resolved
  <2> QED
    BY <2>1, <2>2
<1> QED
  BY <1>1, <1>2, PTL DEF SessionSpec

\* A request that leaves do_read()'s time enough room for its fetch has its
\* response written under a live deadline (src/http_session.cpp:30).
THEOREM ResponsesInTime == SessionSpec => []WritesInTime
<1>1. Inv => WritesInTime
  BY TimeoutAssumption, SessionTimeoutAssumption
  DEF Inv, SessionInv, FetchInv, TypeOK, WritesInTime, Resolved, Lookup, Budget
<1> QED
  BY <1>1, SessionInvariant, PTL

\* No client and no upstream holds a session beyond its deadline and its fetch.
THEOREM SessionsHeldBounded == SessionSpec => []HeldBounded
<1>1. Inv => HeldBounded
  BY TimeoutAssumption, SessionTimeoutAssumption
  DEF Inv, SessionInv, FetchInv, TypeOK, HeldBounded, Resolved, Lookup, Budget, Timeout, Before
<1> QED
  BY <1>1, SessionInvariant, PTL

\* In every request of a session a fetch answers 504 exactly for an operation
\* that used up its own limit (UpstreamProxy::fail).
THEOREM TimeoutsEarned == SessionSpec => TimeoutsAreEarned
<1> DEFINE Earned == result' # result =>
              (result' = 504 <=> outcome = "timeout" /\ now - began = Timeout[stage])
<1>1. Inv /\ [SessionNext]_all_vars => [Earned]_vars
  <2> SUFFICES ASSUME Inv, [SessionNext]_all_vars PROVE Earned
    OBVIOUS
  <2>1. CASE Next
    BY <2>1, StepEarnsTimeout DEF Inv
  <2>2. CASE UNCHANGED result
    BY <2>2
  <2>3. CASE RunFetch /\ outcome = Pending
    BY <2>3 DEF RunFetch, NoResult, Pending
  <2>4. OnRead => UNCHANGED result \/ (RunFetch /\ outcome = Pending)
    BY Zenon DEF OnRead, fetch, Inv, SessionInv, FetchInv
  <2> QED
    BY <2>1, <2>2, <2>3, <2>4
    DEF SessionNext, SessionHandler, FetchStep, OnWrite, ClientActs, ClientTimesOut, FetchOperationEnds,
        SessionTick, Finished, all_vars, fetch, Next
<1> QED
  BY <1>1, SessionInvariant, PTL DEF SessionSpec, TimeoutsAreEarned

-----------------------------------------------------------------------------
(* Numbers and texts. *)

\* A set of natural numbers that has an element has a least one.
LEMMA LeastOf ==
  ASSUME NEW S, S \subseteq Nat, S # {}
  PROVE  Min(S) \in S /\ \A y \in S : Min(S) <= y
<1> DEFINE Less == {ss \in Nat \X Nat : ss[1] < ss[2]}
<1>1. IsWellFoundedOn(Less, Nat)
  BY NatLessThanWellFounded, Zenon DEF OpToRel
<1> HIDE DEF Less
<1>2. PICK x \in S : \A y \in S : ~(<<y, x>> \in Less)
  BY <1>1, WFMin, Zenon
<1>3. \A y \in S : x <= y
  <2>1. ASSUME NEW y \in S, ~(x <= y)
        PROVE  <<y, x>> \in Less
    <3>1. x \in Nat /\ y \in Nat /\ y < x
      BY <2>1
    <3> QED BY <3>1 DEF Less
  <2> QED BY <1>2, <2>1, Zenon
<1> QED BY <1>3, Zenon DEF Min

\* One that is bounded has a greatest one.
LEMMA GreatestOf ==
  ASSUME NEW S, NEW n \in Nat, S \subseteq 0..n, S # {}
  PROVE  Max(S) \in S /\ \A y \in S : y <= Max(S)
<1> DEFINE Bounds == {k \in Nat : \A y \in S : y <= k}
<1>1. Bounds \subseteq Nat /\ n \in Bounds
  OBVIOUS
<1>2. PICK m \in Bounds : \A k \in Bounds : m <= k
  BY <1>1, LeastOf, Zenon
<1>3. m \in Nat /\ \A y \in S : y <= m
  OBVIOUS
<1>4. m \in S
  <2> SUFFICES ASSUME m \notin S PROVE FALSE
    OBVIOUS
  <2>1. \A y \in S : y \in Nat /\ y < m
    BY <1>3
  <2>2. m > 0
    <3>1. PICK y \in S : TRUE
      BY Zenon
    <3> QED BY <1>3, <2>1, <3>1
  <2>3. m - 1 \in Bounds
    BY <1>3, <2>1, <2>2
  <2> QED BY <1>2, <1>3, <2>3
<1>5. \A y \in S : m >= y
  BY <1>3
<1>6. Max(S) \in S /\ \A y \in S : Max(S) >= y
  BY <1>4, <1>5, Zenon DEF Max
<1> QED BY <1>6

\* find() and rfind(): the first and the last place of a character, or none.
LEMMA Finds ==
  ASSUME NEW text \in Seq(Symbols), NEW c
  PROVE  /\ Places(text, c) \subseteq 1..Len(text)
         /\ Find(text, c) = 0 <=> Places(text, c) = {}
         /\ RFind(text, c) = 0 <=> Places(text, c) = {}
         /\ Places(text, c) # {} =>
              /\ Find(text, c) \in Places(text, c) /\ RFind(text, c) \in Places(text, c)
              /\ \A i \in Places(text, c) : Find(text, c) <= i /\ i <= RFind(text, c)
<1>1. Places(text, c) \subseteq 1..Len(text) /\ Len(text) \in Nat
  BY DEF Places
<1>2. CASE Places(text, c) = {}
  BY <1>1, <1>2 DEF Find, RFind
<1>3. CASE Places(text, c) # {}
  <2> DEFINE S == Places(text, c)
  <2>1. S \subseteq Nat /\ S \subseteq 0..Len(text) /\ 0 \notin S
    BY <1>1
  <2>2. Min(S) \in S /\ \A y \in S : Min(S) <= y
    BY <1>3, <2>1, LeastOf
  <2>3. Max(S) \in S /\ \A y \in S : y <= Max(S)
    BY <1>1, <1>3, <2>1, GreatestOf
  <2>4. Find(text, c) = Min(S) /\ RFind(text, c) = Max(S)
    BY <1>3 DEF Find, RFind
  <2> HIDE DEF S
  <2>5. Find(text, c) # 0 /\ RFind(text, c) # 0
    BY <2>1, <2>2, <2>3, <2>4
  <2> QED BY <1>1, <1>3, <2>2, <2>3, <2>4, <2>5 DEF S
<1> QED BY <1>2, <1>3

-----------------------------------------------------------------------------
(* parse_upstream(). *)

\* The characters of a part of a text.
LEMMA Parts ==
  ASSUME NEW text \in Seq(Symbols), NEW a \in 1..(Len(text) + 1), NEW b \in 0..Len(text), a <= b + 1
  PROVE  /\ SubSeq(text, a, b) \in Seq(Symbols)
         /\ Len(SubSeq(text, a, b)) = b - a + 1
         /\ DOMAIN SubSeq(text, a, b) = 1..(b - a + 1)
         /\ \A i \in 1..(b - a + 1) : SubSeq(text, a, b)[i] = text[a + i - 1]
OBVIOUS

\* A text that starts with a bracket.
LEMMA StartsWith ==
  ASSUME NEW text \in Seq(Symbols)
  PROVE  Find(text, "[") = 1 <=> 1 \in DOMAIN text /\ text[1] = "["
<1>1. ASSUME 1 \in DOMAIN text, text[1] = "["
      PROVE  Find(text, "[") = 1
  <2>1. 1 \in Places(text, "[")
    BY <1>1 DEF Places
  <2>2. Find(text, "[") \in 1..Len(text) /\ Find(text, "[") <= 1 /\ Len(text) \in Nat
    BY <2>1, Finds
  <2> QED BY <2>2
<1>2. ASSUME Find(text, "[") = 1
      PROVE  1 \in DOMAIN text /\ text[1] = "["
  BY <1>2, Finds DEF Places
<1> QED BY <1>1, <1>2

\* The part of a text before a place.
LEMMA LeftPart ==
  ASSUME NEW text \in Seq(Symbols), NEW j \in 1..Len(text)
  PROVE  /\ LeftOf(text, j) \in Seq(Symbols) /\ Len(LeftOf(text, j)) = j - 1
         /\ DOMAIN LeftOf(text, j) = 1..(j - 1)
         /\ \A i \in 1..(j - 1) : LeftOf(text, j)[i] = text[i]
BY DEF LeftOf

\* The places of a character in it.
LEMMA LeftPlaces ==
  ASSUME NEW text \in Seq(Symbols), NEW j \in 1..Len(text), NEW c, NEW i
  PROVE  i \in Places(LeftOf(text, j), c) <=> i \in Places(text, c) /\ i < j
<1>1. /\ DOMAIN text = 1..Len(text) /\ Len(text) \in Nat
      /\ DOMAIN LeftOf(text, j) = 1..(j - 1)
      /\ \A k \in 1..(j - 1) : LeftOf(text, j)[k] = text[k]
  BY LeftPart
<1> QED BY <1>1 DEF Places

\* The part after a place.
LEMMA RightPart ==
  ASSUME NEW text \in Seq(Symbols), NEW j \in 1..Len(text)
  PROVE  /\ RightOf(text, j) \in Seq(Symbols)
         /\ DOMAIN RightOf(text, j) = 1..(Len(text) - j)
         /\ \A i \in (j + 1)..Len(text) : RightOf(text, j)[i - j] = text[i]
<1>1. j \in 1..Len(text) /\ Len(text) \in Nat
  OBVIOUS
<1> QED BY <1>1 DEF RightOf

\* parse_upstream() of a text that starts with a bracket.
LEMMA ParseBracketed ==
  ASSUME NEW text, Find(text, "[") = 1
  PROVE  /\ Find(text, "]") = 0 \/ Find(text, "]") = Len(text) \/ text[Find(text, "]") + 1] # ":" =>
              ParseUpstream(text) = Rejected
         /\ ~(Find(text, "]") = 0 \/ Find(text, "]") = Len(text) \/ text[Find(text, "]") + 1] # ":") =>
              ParseUpstream(text) = MakeEndpoint(SubSeq(text, 2, Find(text, "]") - 1),
                                                 SubSeq(text, Find(text, "]") + 2, Len(text)))
BY Zenon DEF ParseUpstream

\* And of any other.
LEMMA ParsePlain ==
  ASSUME NEW text, Find(text, "[") # 1
  PROVE  /\ RFind(text, ":") = 0 \/ Find(text, ":") # RFind(text, ":") =>
              ParseUpstream(text) = Rejected
         /\ ~(RFind(text, ":") = 0 \/ Find(text, ":") # RFind(text, ":")) =>
              ParseUpstream(text) =
                MakeEndpoint(LeftOf(text, RFind(text, ":")), RightOf(text, RFind(text, ":")))
BY Zenon DEF ParseUpstream, LeftOf, RightOf

\* An endpoint with a host and a port, and the rest.
LEMMA Makes ==
  ASSUME NEW host, NEW port
  PROVE  /\ host # <<>> /\ IsNumber(port) /\ FromChars(port) \in Ports =>
              MakeEndpoint(host, port) = [host |-> host, port |-> FromChars(port)]
         /\ ~(host # <<>> /\ IsNumber(port) /\ FromChars(port) \in Ports) =>
              MakeEndpoint(host, port) = Rejected
<1>1. CASE IsNumber(port) /\ FromChars(port) \in Ports
  <2>1. ParsePort(port) = FromChars(port)
    BY <1>1, Zenon DEF ParsePort
  <2>2. LastPort \in Nat
    BY DEF LastPort
  <2>3. FromChars(port) # 0
    BY <1>1, <2>2 DEF Ports
  <2> QED BY <1>1, <2>1, <2>3, Zenon DEF MakeEndpoint
<1>2. CASE ~(IsNumber(port) /\ FromChars(port) \in Ports)
  <2>1. ParsePort(port) = 0
    BY <1>2, Zenon DEF ParsePort
  <2> QED BY <1>2, <2>1, Zenon DEF MakeEndpoint
<1> QED BY <1>1, <1>2, Zenon

\* What is before a colon, in a text that starts with a bracket.
LEMMA BeforeInBrackets ==
  ASSUME NEW text \in Seq(Symbols), 1 \in DOMAIN text, text[1] = "[",
         NEW j \in Places(text, ":")
  PROVE  /\ j \in 2..Len(text)
         /\ ~IsPlain(LeftOf(text, j))
         /\ IsBracketed(LeftOf(text, j)) <=>
              j > 3 /\ \A i : (i \in Places(text, "]") /\ i < j) <=> i = j - 1
<1>1. j \in 1..Len(text) /\ j # 1 /\ Len(text) \in Nat
  BY DEF Places
<1>2. LeftOf(text, j)[1] = "[" /\ Len(LeftOf(text, j)) = j - 1
  BY <1>1, LeftPart
<1>3. \A i : i \in Places(LeftOf(text, j), "]") <=> i \in Places(text, "]") /\ i < j
  BY <1>1, LeftPlaces, Zenon
<1>4. Places(LeftOf(text, j), "]") = {j - 1} <=>
        \A i : (i \in Places(text, "]") /\ i < j) <=> i = j - 1
  BY <1>3, Zenon
<1>5. IsBracketed(LeftOf(text, j)) <=>
        j - 1 > 2 /\ Places(LeftOf(text, j), "]") = {j - 1}
  BY <1>2, Zenon DEF IsBracketed
<1>6. j - 1 > 2 <=> j > 3
  BY <1>1
<1>7. ~IsPlain(LeftOf(text, j))
  BY <1>2, Zenon DEF IsPlain
<1> QED BY <1>1, <1>4, <1>5, <1>6, <1>7

\* And in any other.
LEMMA BeforePlain ==
  ASSUME NEW text \in Seq(Symbols), ~(1 \in DOMAIN text /\ text[1] = "["),
         NEW j \in Places(text, ":")
  PROVE  /\ j \in 1..Len(text)
         /\ ~IsBracketed(LeftOf(text, j))
         /\ IsPlain(LeftOf(text, j)) <=>
              LeftOf(text, j) # <<>> /\ \A i \in Places(text, ":") : j <= i
<1>1. j \in 1..Len(text) /\ Len(text) \in Nat /\ Places(text, ":") \subseteq 1..Len(text)
  BY DEF Places
<1>2. /\ Len(LeftOf(text, j)) = j - 1 /\ LeftOf(text, j) \in Seq(Symbols)
      /\ j > 1 => LeftOf(text, j)[1] # "["
  BY <1>1, LeftPart
<1>3. LeftOf(text, j) # <<>> <=> j > 1
  BY <1>1, <1>2
<1>4. \A i : i \in Places(LeftOf(text, j), ":") <=> i \in Places(text, ":") /\ i < j
  BY <1>1, LeftPlaces, Zenon
<1>5. Places(LeftOf(text, j), ":") = {} <=> \A i \in Places(text, ":") : ~(i < j)
  BY <1>4, Zenon
<1>6. Places(LeftOf(text, j), ":") = {} <=> \A i \in Places(text, ":") : j <= i
  BY <1>1, <1>5
<1>7. ~IsBracketed(LeftOf(text, j))
  <2>1. Len(LeftOf(text, j)) > 2 => j > 1
    BY <1>1, <1>2
  <2> QED BY <1>2, <2>1, Zenon DEF IsBracketed
<1>8. IsPlain(LeftOf(text, j)) <=> LeftOf(text, j) # <<>> /\ Places(LeftOf(text, j), ":") = {}
  BY <1>2, <1>3, Zenon DEF IsPlain
<1> QED BY <1>1, <1>6, <1>7, <1>8, Zenon

\* parse_upstream() finds the separator of the grammar, after a bracket.
LEMMA ParsesBracketed ==
  ASSUME NEW text \in Seq(Symbols), 1 \in DOMAIN text, text[1] = "["
  PROVE  \E j : /\ \A i : Separates(text, i) => i = j
                /\ Separates(text, j) => ParseUpstream(text) = Reading(text, j)
                /\ ~Separates(text, j) => ParseUpstream(text) = Rejected
<1>1. PICK closing : closing = Find(text, "]")
  BY Zenon
<1>2. Find(text, "[") = 1 /\ Len(text) \in Nat /\ DOMAIN text = 1..Len(text)
  BY StartsWith
<1>3. /\ Places(text, "]") \subseteq 1..Len(text)
      /\ closing = 0 <=> Places(text, "]") = {}
      /\ Places(text, "]") # {} =>
           closing \in Places(text, "]") /\ \A i \in Places(text, "]") : closing <= i
  BY <1>1, Finds
<1>4. 1 \notin Places(text, "]")
  BY DEF Places
<1>5. ASSUME NEW j, Separates(text, j)
      PROVE  j = closing + 1
  <2>1. /\ j \in Places(text, ":") /\ j \in 2..Len(text)
        /\ \A i : (i \in Places(text, "]") /\ i < j) <=> i = j - 1
    <3>1. j \in Places(text, ":") /\ (IsPlain(LeftOf(text, j)) \/ IsBracketed(LeftOf(text, j)))
      BY <1>5, Zenon DEF Separates
    <3> QED BY <3>1, BeforeInBrackets, Zenon
  <2>2. j - 1 \in Places(text, "]")
    BY <2>1, Zenon
  <2>3. closing \in Places(text, "]") /\ closing <= j - 1
    BY <1>3, <2>2, Zenon
  <2>4. closing < j
    BY <1>2, <1>3, <2>1, <2>3
  <2>5. closing = j - 1
    BY <2>1, <2>3, <2>4, Zenon
  <2> QED BY <2>1, <2>5
<1>6. CASE closing = 0 \/ closing = Len(text) \/ text[closing + 1] # ":"
  <2>1. ParseUpstream(text) = Rejected
    BY <1>1, <1>2, <1>6, ParseBracketed, Zenon
  <2>2. closing + 1 \notin Places(text, ":")
    BY <1>2, <1>3, <1>6 DEF Places
  <2>3. ~Separates(text, closing + 1)
    BY <2>2, Zenon DEF Separates
  <2> QED BY <1>5, <2>1, <2>3, Zenon
<1>7. CASE ~(closing = 0 \/ closing = Len(text) \/ text[closing + 1] # ":")
  <2> DEFINE host == SubSeq(text, 2, closing - 1)
             port == SubSeq(text, closing + 2, Len(text))
  <2>1. ParseUpstream(text) = MakeEndpoint(host, port)
    BY <1>1, <1>2, <1>7, ParseBracketed, Zenon
  <2>2. closing \in Places(text, "]") /\ closing \in 2..(Len(text) - 1)
    BY <1>2, <1>3, <1>4, <1>7
  <2>3. closing + 1 \in Places(text, ":")
    BY <1>2, <1>7, <2>2 DEF Places
  <2>4. \A i : (i \in Places(text, "]") /\ i < closing + 1) <=> i = (closing + 1) - 1
    BY <1>3, <2>2
  <2>5. RightOf(text, closing + 1) = port /\ SubSeq(text, 2, (closing + 1) - 2) = host
    <3>1. (closing + 1) + 1 = closing + 2 /\ (closing + 1) - 2 = closing - 1
      BY <2>2
    <3> QED BY <3>1, Zenon DEF RightOf
  <2>6. ~IsPlain(LeftOf(text, closing + 1)) /\ (IsBracketed(LeftOf(text, closing + 1)) <=> closing + 1 > 3)
    BY <2>3, <2>4, BeforeInBrackets, Zenon
  <2>7. host # <<>> <=> closing + 1 > 3
    BY <1>2, <2>2
  <2> HIDE DEF host, port
  <2>8. Separates(text, closing + 1) <=>
          host # <<>> /\ IsNumber(port) /\ FromChars(port) \in Ports
    BY <2>3, <2>5, <2>6, <2>7, Zenon DEF Separates
  <2>9. Reading(text, closing + 1) = [host |-> host, port |-> FromChars(port)]
    BY <2>5, <2>6, Zenon DEF Reading
  <2> QED BY <1>5, <2>1, <2>8, <2>9, Makes, Zenon
<1> QED BY <1>6, <1>7

\* And so it does in a text that does not start with one.
LEMMA ParsesPlain ==
  ASSUME NEW text \in Seq(Symbols), ~(1 \in DOMAIN text /\ text[1] = "[")
  PROVE  \E j : /\ \A i : Separates(text, i) => i = j
                /\ Separates(text, j) => ParseUpstream(text) = Reading(text, j)
                /\ ~Separates(text, j) => ParseUpstream(text) = Rejected
<1>1. PICK separator : separator = RFind(text, ":")
  BY Zenon
<1>2. Find(text, "[") # 1 /\ Len(text) \in Nat /\ DOMAIN text = 1..Len(text)
  BY StartsWith
<1>3. /\ Places(text, ":") \subseteq 1..Len(text)
      /\ separator = 0 <=> Places(text, ":") = {}
      /\ Places(text, ":") # {} =>
           /\ separator \in Places(text, ":") /\ \A i \in Places(text, ":") : i <= separator
           /\ Find(text, ":") \in Places(text, ":")
           /\ \A i \in Places(text, ":") : Find(text, ":") <= i
  BY <1>1, Finds
<1>4. ASSUME NEW j, Separates(text, j)
      PROVE  j = separator
  <2>1. j \in Places(text, ":") /\ IsNumber(RightOf(text, j))
    BY <1>4, Zenon DEF Separates
  <2>2. /\ j \in 1..Len(text) /\ separator \in Places(text, ":")
        /\ separator \in 1..Len(text) /\ j <= separator
    BY <1>3, <2>1
  <2> SUFFICES ASSUME j < separator PROVE FALSE
    BY <2>2
  <2>3. text[separator] = ":"
    BY <2>2 DEF Places
  <2>4. separator \in (j + 1)..Len(text) /\ separator - j \in 1..(Len(text) - j)
    BY <1>2, <2>2
  <2>5. RightOf(text, j)[separator - j] = ":" /\ separator - j \in DOMAIN RightOf(text, j)
    BY <2>2, <2>3, <2>4, RightPart, Zenon
  <2>6. ":" \in Digits
    BY <2>1, <2>5, Zenon DEF IsNumber
  <2> QED BY <2>6 DEF Digits
<1>5. CASE separator = 0 \/ Find(text, ":") # separator
  <2>1. ParseUpstream(text) = Rejected
    BY <1>1, <1>2, <1>5, ParsePlain, Zenon
  <2>2. ~Separates(text, separator)
    <3> SUFFICES ASSUME Separates(text, separator) PROVE FALSE
      OBVIOUS
    <3>1. /\ separator \in Places(text, ":")
          /\ (IsPlain(LeftOf(text, separator)) \/ IsBracketed(LeftOf(text, separator)))
      BY Zenon DEF Separates
    <3>2. \A i \in Places(text, ":") : separator <= i
      BY <3>1, BeforePlain, Zenon
    <3>3. PICK first : first = Find(text, ":")
      BY Zenon
    <3>4. /\ separator \in 1..Len(text) /\ first \in 1..Len(text)
          /\ separator <= first /\ first <= separator
      BY <1>3, <3>1, <3>2, <3>3
    <3> QED BY <1>2, <1>5, <3>3, <3>4
  <2> QED BY <1>4, <2>1, <2>2, Zenon
<1>6. CASE ~(separator = 0 \/ Find(text, ":") # separator)
  <2> DEFINE host == LeftOf(text, separator)
             port == RightOf(text, separator)
  <2>1. ParseUpstream(text) = MakeEndpoint(host, port)
    BY <1>1, <1>2, <1>6, ParsePlain, Zenon
  <2>2. separator \in Places(text, ":") /\ \A i \in Places(text, ":") : separator <= i
    BY <1>3, <1>6, Zenon
  <2>3. ~IsBracketed(host) /\ (IsPlain(host) <=> host # <<>>)
    BY <2>2, BeforePlain, Zenon
  <2>4. Separates(text, separator) <=>
          host # <<>> /\ IsNumber(port) /\ FromChars(port) \in Ports
    BY <2>2, <2>3, Zenon DEF Separates
  <2>5. host # <<>> => Reading(text, separator) = [host |-> host, port |-> FromChars(port)]
    BY <2>3, Zenon DEF Reading
  <2> HIDE DEF host, port
  <2> QED BY <1>4, <2>1, <2>4, <2>5, Makes, Zenon
<1> QED BY <1>5, <1>6

\* parse_upstream() accepts exactly the texts of the grammar.
LEMMA ReadsExactly ==
  ASSUME NEW text \in Seq(Symbols)
  PROVE  {ParseUpstream(text)} = IF Readings(text) = {} THEN {Rejected} ELSE Readings(text)
<1>1. PICK j : /\ \A i : Separates(text, i) => i = j
               /\ Separates(text, j) => ParseUpstream(text) = Reading(text, j)
               /\ ~Separates(text, j) => ParseUpstream(text) = Rejected
  BY ParsesBracketed, ParsesPlain, Zenon
<1>2. CASE Separates(text, j)
  <2>1. j \in DOMAIN text
    BY <1>2, Zenon DEF Separates, Places
  <2>2. {k \in DOMAIN text : Separates(text, k)} = {j}
    BY <1>1, <1>2, <2>1, Zenon
  <2>3. Readings(text) = {Reading(text, j)}
    BY <2>2, Zenon DEF Readings
  <2>4. Readings(text) # {}
    BY <2>3, Zenon
  <2> QED BY <1>1, <1>2, <2>3, <2>4, Zenon
<1>3. CASE ~Separates(text, j)
  <2>1. {k \in DOMAIN text : Separates(text, k)} = {}
    BY <1>1, <1>3, Zenon
  <2>2. Readings(text) = {}
    BY <2>1, Zenon DEF Readings
  <2> QED BY <1>1, <1>3, <2>2, Zenon
<1> QED BY <1>2, <1>3

\* The elements of two sequences joined.
LEMMA Joins ==
  ASSUME NEW s \in Seq(Symbols), NEW t \in Seq(Symbols)
  PROVE  /\ s \o t \in Seq(Symbols) /\ Len(s) \in Nat /\ Len(t) \in Nat
         /\ Len(s \o t) = Len(s) + Len(t) /\ DOMAIN (s \o t) = 1..(Len(s) + Len(t))
         /\ \A i \in 1..Len(s) : (s \o t)[i] = s[i]
         /\ \A i \in 1..Len(t) : (s \o t)[Len(s) + i] = t[i]
OBVIOUS

\* Two sequences with the same elements at the same places are one.
LEMMA SameSequence ==
  ASSUME NEW s \in Seq(Symbols), NEW t \in Seq(Symbols), Len(s) = Len(t),
         \A i \in 1..Len(s) : s[i] = t[i]
  PROVE  s = t
OBVIOUS

\* What parse_upstream() accepts has a host and a port, and a host with a colon in
\* it has no closing bracket.
IsEndpoint(e) ==
  /\ \E host, port : e = [host |-> host, port |-> port]
  /\ e.host \in Seq(Symbols) /\ e.host # <<>> /\ e.port \in Ports
  /\ Places(e.host, ":") # {} => Places(e.host, "]") = {}

\* A host and a port that make an endpoint.
LEMMA AnEndpoint ==
  ASSUME NEW host \in Seq(Symbols), host # <<>>, NEW port \in Ports,
         Places(host, ":") # {} => Places(host, "]") = {}
  PROVE  IsEndpoint([host |-> host, port |-> port])
<1>1. PICK e : e = [host |-> host, port |-> port]
  BY Zenon
<1>2. e.host = host /\ e.port = port
  BY <1>1
<1>3. IsEndpoint(e)
  BY <1>1, <1>2, Zenon DEF IsEndpoint
<1> QED BY <1>1, <1>3, Zenon

\* The grammar denotes endpoints only.
LEMMA ReadsEndpoint ==
  ASSUME NEW text \in Seq(Symbols), NEW j, Separates(text, j)
  PROVE  IsEndpoint(Reading(text, j))
<1>1. /\ j \in Places(text, ":") /\ FromChars(RightOf(text, j)) \in Ports
      /\ IsPlain(LeftOf(text, j)) \/ IsBracketed(LeftOf(text, j))
  BY Zenon DEF Separates
<1>2. j \in 1..Len(text) /\ Len(text) \in Nat
  BY <1>1 DEF Places
<1>3. CASE IsPlain(LeftOf(text, j))
  <2>1. Reading(text, j) = [host |-> LeftOf(text, j), port |-> FromChars(RightOf(text, j))]
    BY <1>3, Zenon DEF Reading
  <2>2. LeftOf(text, j) \in Seq(Symbols)
    BY <1>2, LeftPart, Zenon
  <2>3. LeftOf(text, j) # <<>> /\ Places(LeftOf(text, j), ":") = {}
    BY <1>3, Zenon DEF IsPlain
  <2> QED BY <1>1, <2>1, <2>2, <2>3, AnEndpoint, Zenon
<1>4. CASE ~IsPlain(LeftOf(text, j)) /\ IsBracketed(LeftOf(text, j))
  <2>1. PICK host : host = SubSeq(text, 2, j - 2)
    BY Zenon
  <2>2. Reading(text, j) = [host |-> host, port |-> FromChars(RightOf(text, j))]
    BY <1>4, <2>1, Zenon DEF Reading
  <2>3. Len(LeftOf(text, j)) = j - 1
    BY <1>2, LeftPart, Zenon
  <2>4. j - 1 > 2 /\ Places(LeftOf(text, j), "]") = {j - 1}
    BY <1>4, <2>3, Zenon DEF IsBracketed
  <2>5. /\ host \in Seq(Symbols) /\ host # <<>> /\ DOMAIN host = 1..(j - 3)
        /\ \A i \in 1..(j - 3) : host[i] = text[i + 1]
    BY <1>2, <2>1, <2>4
  <2>6. \A i : i \in Places(text, "]") /\ i < j => i = j - 1
    BY <1>2, <2>4, LeftPlaces, Zenon
  <2>7. Places(host, "]") = {}
    <3> SUFFICES ASSUME NEW i \in Places(host, "]") PROVE FALSE
      OBVIOUS
    <3>1. i \in 1..(j - 3) /\ text[i + 1] = "]"
      BY <2>5 DEF Places
    <3>2. i + 1 \in Places(text, "]")
      BY <1>2, <2>4, <3>1 DEF Places
    <3>3. i + 1 = j - 1
      BY <1>2, <2>6, <3>1, <3>2
    <3> QED BY <1>2, <3>1, <3>3
  <2> QED BY <1>1, <2>2, <2>5, <2>7, AnEndpoint, Zenon
<1> QED BY <1>1, <1>3, <1>4

\* What parse_upstream() returns is an endpoint, or none.
LEMMA ParsesEndpoint ==
  ASSUME NEW text \in Seq(Symbols), ParseUpstream(text) # Rejected
  PROVE  IsEndpoint(ParseUpstream(text))
<1>1. PICK j : Separates(text, j) /\ ParseUpstream(text) = Reading(text, j)
  BY ParsesBracketed, ParsesPlain, Zenon
<1> QED BY <1>1, ReadsEndpoint, Zenon

\* A text that a colon separates into a host and a port reads as them.
LEMMA ReadsAs ==
  ASSUME NEW text \in Seq(Symbols), NEW j, Separates(text, j)
  PROVE  ParseUpstream(text) = Reading(text, j)
BY ParsesBracketed, ParsesPlain, Zenon

\* The text of a port.
LEMMA PortText ==
  ASSUME NEW port \in Ports
  PROVE  /\ ToText(port) \in Seq(Symbols) /\ Len(ToText(port)) \in Nat \ {0}
         /\ IsNumber(ToText(port)) /\ FromChars(ToText(port)) = port
<1>1. PICK t : t = ToText(port)
  BY Zenon
<1>2. t \in Seq(Digits) /\ t # <<>> /\ FromChars(t) = port
  BY <1>1, ConversionAssumption, Zenon
<1>3. \A c \in Digits : c \in Symbols
  BY SymbolsAssumption, Zenon
<1>4. Len(t) \in Nat \ {0} /\ DOMAIN t = 1..Len(t) /\ \A i \in DOMAIN t : t[i] \in Digits
  BY <1>2
<1>5. t \in Seq(Symbols)
  BY <1>2, <1>3, <1>4
<1>6. IsNumber(t)
  BY <1>2, <1>4, Zenon DEF IsNumber
<1> QED BY <1>1, <1>2, <1>4, <1>5, <1>6, Zenon

\* A host without a colon is written as it is, and reads back.
LEMMA ReadsBackPlain ==
  ASSUME NEW host \in Seq(Symbols), host # <<>>, host[1] # "[", Places(host, ":") = {},
         NEW t \in Seq(Symbols), IsNumber(t), FromChars(t) \in Ports
  PROVE  ParseUpstream(host \o <<":">> \o t) = [host |-> host, port |-> FromChars(t)]
<1>1. PICK text : text = host \o <<":">> \o t
  BY Zenon
<1> DEFINE j == Len(host) + 1
<1>2. /\ Len(host) \in Nat /\ Len(t) \in Nat
      /\ text \in Seq(Symbols) /\ Len(text) = Len(host) + 1 + Len(t) /\ DOMAIN text = 1..Len(text)
      /\ \A i \in 1..Len(host) : text[i] = host[i]
      /\ text[j] = ":"
      /\ \A i \in 1..Len(t) : text[j + i] = t[i]
  <2>1. PICK h : h = host \o <<":">>
    BY Zenon
  <2>2. /\ Len(host) \in Nat /\ h \in Seq(Symbols) /\ Len(h) = j /\ h[j] = ":"
        /\ \A i \in 1..Len(host) : h[i] = host[i]
    <3>1. PICK c : c = <<":">>
      BY Zenon
    <3>2. c \in Seq(Symbols) /\ Len(c) = 1 /\ c[1] = ":"
      BY <3>1, SymbolsAssumption
    <3> QED BY <2>1, <3>1, <3>2, Joins
  <2>3. /\ text = h \o t /\ text \in Seq(Symbols) /\ Len(text) = Len(h) + Len(t)
        /\ Len(t) \in Nat /\ DOMAIN text = 1..Len(text)
    BY <1>1, <2>1, <2>2
  <2>4. \A i \in 1..Len(h) : text[i] = h[i]
    BY <2>2, <2>3
  <2>5. \A i \in 1..Len(t) : text[Len(h) + i] = t[i]
    BY <2>2, <2>3
  <2> QED BY <2>2, <2>3, <2>4, <2>5
<1> HIDE DEF j
<1>3. j \in 1..Len(text) /\ j \in Places(text, ":")
  BY <1>2 DEF Places, j
<1>4. LeftOf(text, j) = host
  <2>1. /\ LeftOf(text, j) \in Seq(Symbols) /\ Len(LeftOf(text, j)) = Len(host)
        /\ \A i \in 1..Len(host) : LeftOf(text, j)[i] = host[i]
    <3>1. j - 1 = Len(host)
      BY <1>2 DEF j
    <3>2. /\ LeftOf(text, j) \in Seq(Symbols) /\ Len(LeftOf(text, j)) = j - 1
          /\ \A i \in 1..(j - 1) : LeftOf(text, j)[i] = text[i]
      BY <1>2, <1>3, LeftPart, Zenon
    <3> QED BY <1>2, <3>1, <3>2
  <2> QED BY <2>1, SameSequence
<1>5. RightOf(text, j) = t
  <2>1. /\ RightOf(text, j) \in Seq(Symbols) /\ Len(RightOf(text, j)) = Len(t)
        /\ \A i \in 1..Len(t) : RightOf(text, j)[i] = text[j + i]
    BY <1>2, <1>3 DEF RightOf, j
  <2> QED BY <1>2, <2>1, SameSequence
<1>6. IsPlain(host)
  BY Zenon DEF IsPlain
<1>7. Separates(text, j)
  BY <1>3, <1>4, <1>5, <1>6, Zenon DEF Separates
<1>8. Reading(text, j) = [host |-> host, port |-> FromChars(t)]
  BY <1>4, <1>5, <1>6, Zenon DEF Reading
<1> QED BY <1>1, <1>2, <1>7, <1>8, ReadsAs, Zenon

\* One without a closing bracket reads back from between brackets.
LEMMA ReadsBackBracketed ==
  ASSUME NEW host \in Seq(Symbols), host # <<>>, Places(host, "]") = {},
         NEW t \in Seq(Symbols), IsNumber(t), FromChars(t) \in Ports
  PROVE  ParseUpstream(<<"[">> \o host \o <<"]", ":">> \o t) = [host |-> host, port |-> FromChars(t)]
<1>1. PICK text : text = <<"[">> \o host \o <<"]", ":">> \o t
  BY Zenon
<1> DEFINE j == Len(host) + 3
<1>2. /\ Len(host) \in Nat \ {0} /\ Len(t) \in Nat
      /\ text \in Seq(Symbols) /\ Len(text) = Len(host) + 3 + Len(t) /\ DOMAIN text = 1..Len(text)
      /\ text[1] = "["
      /\ \A i \in 1..Len(host) : text[i + 1] = host[i]
      /\ text[j - 1] = "]" /\ text[j] = ":"
      /\ \A i \in 1..Len(t) : text[j + i] = t[i]
  <2>1. PICK b : b = <<"[">> \o host
    BY Zenon
  <2>2. PICK h : h = b \o <<"]", ":">>
    BY Zenon
  <2>3. /\ Len(host) \in Nat \ {0} /\ b \in Seq(Symbols) /\ Len(b) = Len(host) + 1 /\ b[1] = "["
        /\ \A i \in 1..Len(host) : b[i + 1] = host[i]
    <3>1. PICK c : c = <<"[">>
      BY Zenon
    <3>2. c \in Seq(Symbols) /\ Len(c) = 1 /\ c[1] = "["
      BY <3>1, SymbolsAssumption
    <3>3. Len(host) \in Nat \ {0}
      OBVIOUS
    <3>4. /\ b \in Seq(Symbols) /\ Len(b) = 1 + Len(host)
          /\ \A i \in 1..1 : b[i] = c[i]
          /\ \A i \in 1..Len(host) : b[1 + i] = host[i]
      BY <2>1, <3>1, <3>2, Joins
    <3> QED BY <3>2, <3>3, <3>4
  <2>4. /\ h \in Seq(Symbols) /\ Len(h) = j /\ h[j - 1] = "]" /\ h[j] = ":"
        /\ \A i \in 1..Len(b) : h[i] = b[i]
    <3>1. PICK c : c = <<"]", ":">>
      BY Zenon
    <3>2. c \in Seq(Symbols) /\ Len(c) = 2 /\ c[1] = "]" /\ c[2] = ":"
      BY <3>1, SymbolsAssumption
    <3>3. /\ h \in Seq(Symbols) /\ Len(h) = Len(b) + 2
          /\ \A i \in 1..Len(b) : h[i] = b[i]
          /\ \A i \in 1..2 : h[Len(b) + i] = c[i]
      BY <2>2, <2>3, <3>1, <3>2, Joins
    <3>4. h[Len(b) + 1] = "]" /\ h[Len(b) + 2] = ":"
      BY <3>2, <3>3
    <3>5. Len(b) + 1 = j - 1 /\ Len(b) + 2 = j
      BY <2>3
    <3> QED BY <3>3, <3>4, <3>5
  <2>5. /\ text = h \o t /\ text \in Seq(Symbols) /\ Len(text) = Len(h) + Len(t)
        /\ Len(t) \in Nat /\ DOMAIN text = 1..Len(text)
    BY <1>1, <2>1, <2>2, <2>4
  <2>6. \A i \in 1..Len(h) : text[i] = h[i]
    BY <2>4, <2>5
  <2>7. \A i \in 1..Len(t) : text[Len(h) + i] = t[i]
    BY <2>4, <2>5
  <2>8. text[1] = "[" /\ text[j - 1] = "]" /\ text[j] = ":"
    BY <2>3, <2>4, <2>6
  <2>9. \A i \in 1..Len(host) : text[i + 1] = host[i]
    BY <2>3, <2>4, <2>6
  <2> QED BY <2>3, <2>4, <2>5, <2>7, <2>8, <2>9
<1> HIDE DEF j
<1>3. j \in 1..Len(text) /\ j \in Places(text, ":") /\ 1 \in DOMAIN text
  BY <1>2 DEF Places, j
<1>4. RightOf(text, j) = t
  <2>1. /\ RightOf(text, j) \in Seq(Symbols) /\ Len(RightOf(text, j)) = Len(t)
        /\ \A i \in 1..Len(t) : RightOf(text, j)[i] = text[j + i]
    BY <1>2, <1>3 DEF RightOf, j
  <2> QED BY <1>2, <2>1, SameSequence
<1>5. SubSeq(text, 2, j - 2) = host
  <2>1. PICK s : s = SubSeq(text, 2, j - 2)
    BY Zenon
  <2>2. s \in Seq(Symbols) /\ Len(s) = Len(host) /\ \A i \in 1..Len(host) : s[i] = text[i + 1]
    BY <1>2, <1>3, <2>1 DEF j
  <2>3. s = host
    BY <1>2, <2>2, SameSequence
  <2> QED BY <2>1, <2>3
<1>6. \A i : (i \in Places(text, "]") /\ i < j) <=> i = j - 1
  <2>1. j - 1 \in Places(text, "]") /\ j - 1 < j
    BY <1>2, <1>3 DEF Places, j
  <2>2. ASSUME NEW i \in Places(text, "]"), i < j, i # j - 1
        PROVE  FALSE
    <3>1. i \in 2..(j - 2) /\ text[i] = "]"
      BY <1>2, <1>3, <2>2 DEF Places, j
    <3>2. i - 1 \in 1..Len(host) /\ (i - 1) + 1 = i
      BY <1>2, <3>1 DEF j
    <3>3. host[i - 1] = "]"
      BY <1>2, <3>1, <3>2
    <3>4. i - 1 \in Places(host, "]")
      BY <3>2, <3>3 DEF Places
    <3> QED BY <3>4
  <2> QED BY <2>1, <2>2
<1>7. j > 3
  BY <1>2 DEF j
<1>8. IsBracketed(LeftOf(text, j)) /\ ~IsPlain(LeftOf(text, j))
  BY <1>2, <1>3, <1>6, <1>7, BeforeInBrackets, Zenon
<1>9. Separates(text, j)
  BY <1>3, <1>4, <1>8, Zenon DEF Separates
<1>10. Reading(text, j) = [host |-> host, port |-> FromChars(t)]
  BY <1>4, <1>5, <1>8, Zenon DEF Reading
<1> QED BY <1>1, <1>2, <1>9, <1>10, ReadsAs, Zenon

\* The Host header reads back as the endpoint, unless its host starts with a bracket.
LEMMA HostReadsBack ==
  ASSUME NEW e, IsEndpoint(e), e.host[1] # "["
  PROVE  ParseUpstream(HostHeader(e)) = e
<1>1. PICK host, port : e = [host |-> host, port |-> port]
  BY Zenon DEF IsEndpoint
<1>2. e.host = host /\ e.port = port
  BY <1>1
<1>3. /\ host \in Seq(Symbols) /\ host # <<>> /\ host[1] # "[" /\ port \in Ports
      /\ Places(host, ":") # {} => Places(host, "]") = {}
  BY <1>2, Zenon DEF IsEndpoint
<1>4. Find(host, ":") = 0 <=> Places(host, ":") = {}
  BY <1>3, Finds
<1>5. CASE Places(host, ":") = {}
  <2>1. HostHeader(e) = host \o <<":">> \o ToText(port)
    BY <1>2, <1>4, <1>5, Zenon DEF HostHeader
  <2>2. ParseUpstream(host \o <<":">> \o ToText(port)) = [host |-> host, port |-> port]
    BY <1>3, <1>5, PortText, ReadsBackPlain, Zenon
  <2> QED BY <1>1, <2>1, <2>2, Zenon
<1>6. CASE Places(host, ":") # {}
  <2>1. HostHeader(e) = <<"[">> \o host \o <<"]", ":">> \o ToText(port)
    BY <1>2, <1>4, <1>6, Zenon DEF HostHeader
  <2>2. ParseUpstream(<<"[">> \o host \o <<"]", ":">> \o ToText(port)) = [host |-> host, port |-> port]
    BY <1>3, <1>6, PortText, ReadsBackBracketed, Zenon
  <2> QED BY <1>1, <2>1, <2>2, Zenon
<1> QED BY <1>5, <1>6

-----------------------------------------------------------------------------
(* Lists of headers. *)

\* A list of headers has an end.
IsList(hs) == \E m \in Nat : DOMAIN hs \subseteq 1..m

\* Apart from headers of some names, two lists have the same ones at the same places.
Keeps(gs, hs, names) ==
  \A i : /\ i \in DOMAIN gs /\ gs[i].name \notin names <=> i \in DOMAIN hs /\ hs[i].name \notin names
         /\ i \in DOMAIN gs /\ gs[i].name \notin names => gs[i] = hs[i]

\* There is one header of a name, with a value.
Only(hs, name, value) == \E i \in DOMAIN hs : Of(hs, name) = {i} /\ hs[i].value = value

\* erase() leaves no header of the name, and the others as they are.
LEMMA Erases ==
  ASSUME NEW hs, IsList(hs), NEW name
  PROVE  /\ IsList(Erase(hs, name)) /\ Keeps(Erase(hs, name), hs, {name})
         /\ Of(Erase(hs, name), name) = {}
<1>1. PICK gs : gs = Erase(hs, name)
  BY Zenon
<1>2. gs = [i \in {k \in DOMAIN hs : hs[k].name # name} |-> hs[i]]
  BY <1>1, Zenon DEF Erase, RestrictValues, Restrict
<1>3. /\ DOMAIN gs = {k \in DOMAIN hs : hs[k].name # name}
      /\ \A i \in DOMAIN gs : gs[i] = hs[i]
  BY <1>2, Zenon
<1>4. IsList(gs)
  BY <1>3, Zenon DEF IsList
<1>5. \A i : i \in DOMAIN gs <=> i \in DOMAIN hs /\ hs[i].name # name
  BY <1>3, Zenon
<1>6. Keeps(gs, hs, {name})
  BY <1>3, <1>5, Zenon DEF Keeps
<1>7. Of(gs, name) = {}
  BY <1>3, <1>5, Zenon DEF Of
<1> QED BY <1>1, <1>4, <1>6, <1>7, Zenon

\* set() leaves one header of the name, and the others as they are.
LEMMA Sets ==
  ASSUME NEW hs, IsList(hs), NEW name, NEW value
  PROVE  /\ IsList(Set(hs, name, value)) /\ Keeps(Set(hs, name, value), hs, {name})
         /\ Only(Set(hs, name, value), name, value)
<1>1. PICK m \in Nat : DOMAIN hs \subseteq 1..m
  BY Zenon DEF IsList
<1>2. PICK end : end = Max(DOMAIN hs \cup {0}) + 1
  BY Zenon
<1>3. end \in Nat \ {0} /\ end \notin DOMAIN hs /\ \A i \in DOMAIN hs : i \in 1..end
  <2>1. PICK S : S = DOMAIN hs \cup {0}
    BY Zenon
  <2>2. S \subseteq 0..m /\ S # {} /\ \A i \in DOMAIN hs : i \in S
    BY <1>1, <2>1
  <2>3. Max(S) \in S /\ \A y \in S : y <= Max(S)
    BY <2>2, GreatestOf, Zenon
  <2>4. PICK last \in 0..m : last = Max(S)
    BY <2>2, <2>3, Zenon
  <2>5. end = last + 1
    BY <1>2, <2>1, <2>4, Zenon
  <2>6. \A i \in DOMAIN hs : i \in 1..last
    BY <1>1, <2>2, <2>3, <2>4
  <2> QED BY <2>4, <2>5, <2>6
<1>4. PICK es : es = Erase(hs, name)
  BY Zenon
<1>5. PICK gs : gs = Set(hs, name, value)
  BY Zenon
<1>6. gs = [i \in DOMAIN es \cup {end} |-> IF i = end THEN Header(name, value) ELSE hs[i]]
  BY <1>2, <1>4, <1>5, Zenon DEF Set
<1>7. PICK h : h = Header(name, value)
  BY Zenon
<1>8. h.name = name /\ h.value = value
  BY <1>7 DEF Header
<1>9. /\ DOMAIN gs = DOMAIN es \cup {end} /\ gs[end] = h
      /\ \A i \in DOMAIN es : i # end => gs[i] = hs[i]
  BY <1>6, <1>7, Zenon
<1>10. /\ \A i : i \in DOMAIN es <=> i \in DOMAIN hs /\ hs[i].name # name
  <2>1. es = [i \in {k \in DOMAIN hs : hs[k].name # name} |-> hs[i]]
    BY <1>4, Zenon DEF Erase, RestrictValues, Restrict
  <2> QED BY <2>1, Zenon
<1>11. /\ \A i : i \in DOMAIN gs <=> i = end \/ (i \in DOMAIN hs /\ hs[i].name # name)
       /\ \A i \in DOMAIN hs : hs[i].name # name => gs[i] = hs[i]
  BY <1>3, <1>9, <1>10, Zenon
<1>12. IsList(gs)
  <2>1. DOMAIN gs \subseteq 1..end
    BY <1>3, <1>11
  <2> QED BY <1>3, <2>1, Zenon DEF IsList
<1>13. Keeps(gs, hs, {name})
  <2>1. ASSUME NEW i
        PROVE  /\ i \in DOMAIN gs /\ gs[i].name \notin {name} <=>
                  i \in DOMAIN hs /\ hs[i].name \notin {name}
               /\ i \in DOMAIN gs /\ gs[i].name \notin {name} => gs[i] = hs[i]
    <3>1. CASE i = end
      BY <1>3, <1>8, <1>9, <3>1, Zenon
    <3>2. CASE i # end
      BY <1>11, <3>2, Zenon
    <3> QED BY <3>1, <3>2, Zenon
  <2> QED BY <2>1, Zenon DEF Keeps
<1>14. Only(gs, name, value)
  <2>1. Of(gs, name) = {end}
    BY <1>8, <1>9, <1>11, Zenon DEF Of
  <2> QED BY <1>8, <1>9, <1>11, <2>1, Zenon DEF Only
<1> QED BY <1>5, <1>12, <1>13, <1>14, Zenon

\* What is kept apart from some names is kept apart from more.
LEMMA KeepsMore ==
  ASSUME NEW gs, NEW hs, NEW names, NEW more, names \subseteq more, Keeps(gs, hs, names)
  PROVE  Keeps(gs, hs, more)
<1>1. ASSUME NEW i
      PROVE  /\ i \in DOMAIN gs /\ gs[i].name \notin more <=> i \in DOMAIN hs /\ hs[i].name \notin more
             /\ i \in DOMAIN gs /\ gs[i].name \notin more => gs[i] = hs[i]
  <2>1. /\ i \in DOMAIN gs /\ gs[i].name \notin names <=> i \in DOMAIN hs /\ hs[i].name \notin names
        /\ i \in DOMAIN gs /\ gs[i].name \notin names => gs[i] = hs[i]
    BY Zenon DEF Keeps
  <2>2. \A n : n \notin more => n \notin names
    BY Zenon
  <2> QED BY <2>1, <2>2, Zenon
<1> QED BY <1>1, Zenon DEF Keeps

\* What is kept twice is kept.
LEMMA KeepsOn ==
  ASSUME NEW fs, NEW gs, NEW hs, NEW names, Keeps(fs, gs, names), Keeps(gs, hs, names)
  PROVE  Keeps(fs, hs, names)
<1>1. ASSUME NEW i
      PROVE  /\ i \in DOMAIN fs /\ fs[i].name \notin names <=> i \in DOMAIN hs /\ hs[i].name \notin names
             /\ i \in DOMAIN fs /\ fs[i].name \notin names => fs[i] = hs[i]
  <2>1. /\ i \in DOMAIN gs /\ gs[i].name \notin names <=> i \in DOMAIN hs /\ hs[i].name \notin names
        /\ i \in DOMAIN gs /\ gs[i].name \notin names => gs[i] = hs[i]
    BY Zenon DEF Keeps
  <2>2. /\ i \in DOMAIN fs /\ fs[i].name \notin names <=> i \in DOMAIN gs /\ gs[i].name \notin names
        /\ i \in DOMAIN fs /\ fs[i].name \notin names => fs[i] = gs[i]
    BY Zenon DEF Keeps
  <2> QED BY <2>1, <2>2, Zenon
<1> QED BY <1>1, Zenon DEF Keeps

\* The headers of a name that is kept.
LEMMA KeepsName ==
  ASSUME NEW gs, NEW hs, NEW names, Keeps(gs, hs, names), NEW name, name \notin names
  PROVE  /\ Of(gs, name) = Of(hs, name)
         /\ \A i \in Of(hs, name) : gs[i] = hs[i]
         /\ \A value : Only(hs, name, value) => Only(gs, name, value)
<1>1. ASSUME NEW i
      PROVE  /\ i \in Of(gs, name) <=> i \in Of(hs, name)
             /\ i \in Of(hs, name) => i \in DOMAIN gs /\ gs[i] = hs[i]
  <2>1. /\ i \in DOMAIN gs /\ gs[i].name \notin names <=> i \in DOMAIN hs /\ hs[i].name \notin names
        /\ i \in DOMAIN gs /\ gs[i].name \notin names => gs[i] = hs[i]
    BY Zenon DEF Keeps
  <2> QED BY <2>1, Zenon DEF Of
<1>2. Of(gs, name) = Of(hs, name)
  BY <1>1, Zenon
<1>3. ASSUME NEW value, Only(hs, name, value)
      PROVE  Only(gs, name, value)
  <2>1. PICK i \in DOMAIN hs : Of(hs, name) = {i} /\ hs[i].value = value
    BY <1>3, Zenon DEF Only
  <2>2. i \in Of(hs, name)
    BY <2>1, Zenon
  <2>3. i \in DOMAIN gs /\ gs[i] = hs[i]
    BY <1>1, <2>2, Zenon
  <2> QED BY <1>2, <2>1, <2>3, Zenon DEF Only
<1> QED BY <1>1, <1>2, <1>3, Zenon

\* The Connection header that keep_alive() leaves.
ConnectionFor(hs, v, keep) ==
  IF keep <=> v = 11 THEN Of(hs, "connection") = {}
  ELSE Only(hs, "connection", <<IF keep THEN "keep-alive" ELSE "close">>)

\* keep_alive() leaves that header, and the others as they are.
LEMMA KeepsAlive ==
  ASSUME NEW hs, IsList(hs), NEW v \in {10, 11}, NEW keep \in BOOLEAN
  PROVE  /\ IsList(KeepAlive(hs, v, keep)) /\ Keeps(KeepAlive(hs, v, keep), hs, {"connection"})
         /\ ConnectionFor(KeepAlive(hs, v, keep), v, keep)
<1>1. CASE v = 11 /\ ~keep
  <2>1. KeepAlive(hs, v, keep) = Set(hs, "connection", <<"close">>)
    BY <1>1, Zenon DEF KeepAlive
  <2>2. ConnectionFor(Set(hs, "connection", <<"close">>), v, keep)
    BY <1>1, Sets, Zenon DEF ConnectionFor
  <2> QED BY <2>1, <2>2, Sets, Zenon
<1>2. CASE v = 10 /\ keep
  <2>1. 10 # 11
    OBVIOUS
  <2>2. KeepAlive(hs, v, keep) = Set(hs, "connection", <<"keep-alive">>)
    BY <1>2, <2>1, Zenon DEF KeepAlive
  <2>3. ConnectionFor(Set(hs, "connection", <<"keep-alive">>), v, keep)
    BY <1>2, <2>1, Sets, Zenon DEF ConnectionFor
  <2> QED BY <2>2, <2>3, Sets, Zenon
<1>3. CASE ~(v = 11 /\ ~keep) /\ ~(v = 10 /\ keep)
  <2>1. 10 # 11
    OBVIOUS
  <2>2. KeepAlive(hs, v, keep) = Erase(hs, "connection")
    BY <1>3, Zenon DEF KeepAlive
  <2>3. keep <=> v = 11
    BY <1>3, <2>1, Zenon
  <2>4. ConnectionFor(Erase(hs, "connection"), v, keep)
    BY <2>3, Erases, Zenon DEF ConnectionFor
  <2> QED BY <2>2, <2>4, Erases, Zenon
<1> QED BY <1>1, <1>2, <1>3, Zenon

\* What run() sends upstream.
LEMMA Rewrites ==
  ASSUME NEW hs, NEW e, NEW b \in BOOLEAN, IsList(RemoveHopByHopHeaders(hs))
  PROVE  /\ IsList(Rewrite(hs, e, b)) /\ Keeps(Rewrite(hs, e, b), RemoveHopByHopHeaders(hs), Framing)
         /\ Only(Rewrite(hs, e, b), "host", HostHeader(e))
         /\ Only(Rewrite(hs, e, b), "connection", <<"close">>)
         /\ IF b THEN Only(Rewrite(hs, e, b), "content-length", <<"n">>)
            ELSE Of(Rewrite(hs, e, b), "content-length") = {}
<1>1. PICK f0 : f0 = RemoveHopByHopHeaders(hs)
  BY Zenon
<1>2. PICK f1 : f1 = Set(f0, "host", HostHeader(e))
  BY Zenon
<1>3. PICK f2 : f2 = KeepAlive(f1, 11, FALSE)
  BY Zenon
<1>4. PICK f3 : f3 = Set(f2, "connection", <<"close">>)
  BY Zenon
<1>5. PICK f4 : f4 = PrepareRequest(f3, b)
  BY Zenon
<1>6. Rewrite(hs, e, b) = f4
  BY <1>1, <1>2, <1>3, <1>4, <1>5, Zenon DEF Rewrite
<1>7. {"host"} \subseteq Framing /\ {"connection"} \subseteq Framing /\ {"content-length"} \subseteq Framing
  BY DEF Framing
<1>8. IsList(f1) /\ Keeps(f1, f0, Framing) /\ Only(f1, "host", HostHeader(e))
  BY <1>1, <1>2, <1>7, Sets, KeepsMore, Zenon
<1>9. IsList(f2) /\ Keeps(f2, f1, {"connection"})
  <2>1. 11 \in {10, 11} /\ FALSE \in BOOLEAN
    BY Zenon
  <2> QED BY <1>3, <1>8, <2>1, KeepsAlive, Zenon
<1>10. IsList(f3) /\ Keeps(f3, f2, {"connection"}) /\ Only(f3, "connection", <<"close">>)
  BY <1>4, <1>9, Sets, Zenon
<1>11. /\ IsList(f4) /\ Keeps(f4, f3, {"content-length"})
       /\ IF b THEN Only(f4, "content-length", <<"n">>) ELSE Of(f4, "content-length") = {}
  <2>1. CASE b
    <3>1. f4 = Set(f3, "content-length", <<"n">>)
      BY <1>5, <2>1, Zenon DEF PrepareRequest
    <3> QED BY <1>10, <2>1, <3>1, Sets, Zenon
  <2>2. CASE ~b
    <3>1. f4 = Erase(f3, "content-length")
      BY <1>5, <2>2, Zenon DEF PrepareRequest
    <3> QED BY <1>10, <2>2, <3>1, Erases, Zenon
  <2> QED BY <2>1, <2>2, Zenon
<1>12. Keeps(f4, f0, Framing)
  <2>1. Keeps(f2, f1, Framing) /\ Keeps(f3, f2, Framing) /\ Keeps(f4, f3, Framing)
    BY <1>7, <1>9, <1>10, <1>11, KeepsMore, Zenon
  <2>2. Keeps(f2, f0, Framing)
    BY <1>8, <2>1, KeepsOn, Zenon
  <2>3. Keeps(f3, f0, Framing)
    BY <2>1, <2>2, KeepsOn, Zenon
  <2> QED BY <2>1, <2>3, KeepsOn, Zenon
<1>13. Only(f4, "host", HostHeader(e))
  <2>1. "host" \notin {"connection"} /\ "host" \notin {"content-length"}
    OBVIOUS
  <2>2. Only(f2, "host", HostHeader(e))
    BY <1>8, <1>9, <2>1, KeepsName, Zenon
  <2>3. Only(f3, "host", HostHeader(e))
    BY <1>10, <2>1, <2>2, KeepsName, Zenon
  <2> QED BY <1>11, <2>1, <2>3, KeepsName, Zenon
<1>14. Only(f4, "connection", <<"close">>)
  <2>1. "connection" \notin {"content-length"}
    OBVIOUS
  <2> QED BY <1>10, <1>11, <2>1, KeepsName, Zenon
<1> QED BY <1>1, <1>6, <1>11, <1>12, <1>13, <1>14, Zenon

\* What on_read() hands to the session.
LEMMA Returns ==
  ASSUME NEW hs, IsList(hs), NEW v \in {10, 11}, NEW keep \in BOOLEAN
  PROVE  /\ IsList(PrepareResponse(KeepAlive(hs, v, keep)))
         /\ Keeps(PrepareResponse(KeepAlive(hs, v, keep)), hs, Framing)
         /\ ConnectionFor(PrepareResponse(KeepAlive(hs, v, keep)), v, keep)
         /\ Only(PrepareResponse(KeepAlive(hs, v, keep)), "content-length", <<"n">>)
<1>1. PICK f1 : f1 = KeepAlive(hs, v, keep)
  BY Zenon
<1>2. PICK f2 : f2 = PrepareResponse(f1)
  BY Zenon
<1>3. IsList(f1) /\ Keeps(f1, hs, {"connection"}) /\ ConnectionFor(f1, v, keep)
  BY <1>1, KeepsAlive, Zenon
<1>4. IsList(f2) /\ Keeps(f2, f1, {"content-length"}) /\ Only(f2, "content-length", <<"n">>)
  <2>1. f2 = Set(f1, "content-length", <<"n">>)
    BY <1>2, Zenon DEF PrepareResponse
  <2> QED BY <1>3, <2>1, Sets, Zenon
<1>5. {"connection"} \subseteq Framing /\ {"content-length"} \subseteq Framing
  BY DEF Framing
<1>6. Keeps(f2, hs, Framing)
  <2>1. Keeps(f1, hs, Framing)
    BY <1>3, <1>5, KeepsMore, Zenon
  <2>2. Keeps(f2, f1, Framing)
    BY <1>4, <1>5, KeepsMore, Zenon
  <2> QED BY <2>1, <2>2, KeepsOn, Zenon
<1>7. "connection" \notin {"content-length"}
  OBVIOUS
<1>8. Of(f2, "connection") = Of(f1, "connection")
  BY <1>4, <1>7, KeepsName, SMT
<1>9. ASSUME NEW value, Only(f1, "connection", value)
      PROVE  Only(f2, "connection", value)
  BY <1>4, <1>7, <1>9, KeepsName, Zenon
<1>10. ConnectionFor(f2, v, keep)
  BY <1>3, <1>8, <1>9, Zenon DEF ConnectionFor
<1> QED BY <1>1, <1>2, <1>4, <1>6, <1>10, Zenon

\* What write_response_for_current_request() writes.
LEMMA Fits ==
  ASSUME NEW hs, IsList(hs), NEW c \in Clients
  PROVE  /\ c.version \in {10, 11} /\ c.keep_alive \in BOOLEAN
         /\ IsList(Fit(hs, c)) /\ Keeps(Fit(hs, c), hs, {"connection"})
         /\ ConnectionFor(Fit(hs, c), c.version, c.keep_alive)
<1>1. c.version \in {10, 11} /\ c.keep_alive \in BOOLEAN
  BY DEF Clients
<1> QED BY <1>1, KeepsAlive, Zenon DEF Fit

-----------------------------------------------------------------------------
(* The loop over the Connection headers. *)

\* A value nominates a name with the word at a place.
NominatesAt(value, i, name) ==
  /\ i \in Places(value, name)
  /\ name \notin {Comma, Blank}
  /\ \A j \in DOMAIN value \ {i} :
       value[j] = Blank \/ \E k \in Places(value, Comma) : k \in (i..j) \cup (j..i)

\* The value from a comma to the next: what a turn of the loop takes.
IsPart(value, from, end) ==
  /\ from = 1 \/ value[from - 1] = Comma
  /\ \A i \in from..(end - 1) : value[i] # Comma
  /\ end = Len(value) + 1 \/ value[end] = Comma

\* A word that stands alone in its part is nominated.
LEMMA AloneNominates ==
  ASSUME NEW value \in Seq(Symbols), NEW from \in 1..Len(value),
         NEW end \in from..(Len(value) + 1), IsPart(value, from, end),
         NEW i \in from..(end - 1), value[i] # Blank,
         \A j \in from..(end - 1) : j = i \/ value[j] = Blank
  PROVE  NominatesAt(value, i, value[i])
<1>1. /\ Len(value) \in Nat /\ DOMAIN value = 1..Len(value)
      /\ end \in 1..(Len(value) + 1) /\ from \in Nat /\ end \in Nat /\ i \in Nat
      /\ value[i] # Comma
      /\ from = 1 \/ value[from - 1] = Comma
      /\ end = Len(value) + 1 \/ value[end] = Comma
  BY DEF IsPart
<1>2. i \in 1..Len(value) /\ i \in Places(value, value[i])
  BY <1>1 DEF Places
<1>3. ASSUME NEW j \in DOMAIN value \ {i}
      PROVE  value[j] = Blank \/ \E k \in Places(value, Comma) : k \in (i..j) \cup (j..i)
  <2>1. j \in 1..Len(value) /\ j # i
    BY <1>1
  <2>2. CASE j < from
    <3>1. from - 1 \in Places(value, Comma) /\ from - 1 \in j..i
      BY <1>1, <2>1, <2>2 DEF Places
    <3> QED BY <3>1
  <2>3. CASE end <= j
    <3>1. end \in Places(value, Comma) /\ end \in i..j
      BY <1>1, <2>1, <2>3 DEF Places
    <3> QED BY <3>1
  <2>4. CASE ~(j < from) /\ ~(end <= j)
    <3>1. j \in from..(end - 1)
      BY <1>1, <2>1, <2>4
    <3> QED BY <2>1, <3>1
  <2> QED BY <2>2, <2>3, <2>4
<1> QED BY <1>1, <1>2, <1>3 DEF NominatesAt

\* A word that a value nominates stands alone in its part.
LEMMA NominatesAlone ==
  ASSUME NEW value \in Seq(Symbols), NEW from \in 1..Len(value),
         NEW end \in from..(Len(value) + 1), IsPart(value, from, end),
         NEW i \in from..(end - 1), NEW name, NominatesAt(value, i, name)
  PROVE  /\ value[i] = name /\ value[i] # Blank
         /\ \A j \in from..(end - 1) : j = i \/ value[j] = Blank
<1>1. /\ Len(value) \in Nat /\ DOMAIN value = 1..Len(value)
      /\ end \in 1..(Len(value) + 1) /\ from \in Nat /\ end \in Nat /\ i \in Nat
      /\ \A k \in from..(end - 1) : value[k] # Comma
  BY DEF IsPart
<1>2. /\ i \in Places(value, name) /\ name # Blank
      /\ \A j \in DOMAIN value \ {i} :
           value[j] = Blank \/ \E k \in Places(value, Comma) : k \in (i..j) \cup (j..i)
  BY Zenon DEF NominatesAt
<1>3. value[i] = name
  BY <1>2 DEF Places
<1>4. ASSUME NEW j \in from..(end - 1), j # i, value[j] # Blank
      PROVE  FALSE
  <2>1. j \in DOMAIN value \ {i}
    BY <1>1, <1>4
  <2>2. PICK k \in Places(value, Comma) : k \in (i..j) \cup (j..i)
    BY <1>2, <1>4, <2>1, Zenon
  <2>3. k \in from..(end - 1)
    BY <1>1, <2>2
  <2> QED BY <1>1, <2>2, <2>3 DEF Places
<1> QED BY <1>2, <1>3, <1>4

\* A turn of the loop takes exactly the nominated words of its part.
LEMMA TakesNominated ==
  ASSUME NEW value \in Seq(Symbols), NEW from \in 1..Len(value),
         NEW end \in from..(Len(value) + 1), IsPart(value, from, end), NEW name
  PROVE  <<name>> \in TokenOf(value, from, end) <=>
           \E i \in from..(end - 1) : NominatesAt(value, i, name)
<1>1. Len(value) \in Nat /\ end \in 1..(Len(value) + 1) /\ from <= end
  BY DEF IsPart
<1>2. PICK token : token = SubSeq(value, from, end - 1)
  BY Zenon
<1>3. /\ token \in Seq(Symbols) /\ Len(token) = end - from /\ DOMAIN token = 1..(end - from)
      /\ \A k \in 1..(end - from) : token[k] = value[from + k - 1]
  BY <1>1, <1>2, Parts
<1>4. PICK solid : solid = {i \in DOMAIN token : token[i] # Blank}
  BY Zenon
<1>5. /\ solid \subseteq 1..(end - from) /\ end - from \in Nat
      /\ \A k : k \in solid <=> k \in 1..(end - from) /\ value[from + k - 1] # Blank
  BY <1>1, <1>3, <1>4
<1>6. CASE solid = {}
  <2>1. TokenOf(value, from, end) = {}
    BY <1>2, <1>4, <1>6, Zenon DEF TokenOf
  <2>2. ASSUME NEW i \in from..(end - 1), NominatesAt(value, i, name)
        PROVE  FALSE
    <3>1. value[i] # Blank
      BY <2>2, NominatesAlone, ZenonT(30)
    <3>2. i - from + 1 \in 1..(end - from) /\ from + (i - from + 1) - 1 = i
      BY <1>1
    <3>3. i - from + 1 \in solid
      BY <1>5, <3>1, <3>2
    <3> QED BY <1>6, <3>3
  <2> QED BY <2>1, <2>2, Zenon
<1>7. CASE solid # {}
  <2>1. PICK a, b : a = Min(solid) /\ b = Max(solid)
    BY Zenon
  <2>2. a \in solid /\ \A k \in solid : a <= k
    <3>1. solid \subseteq Nat
      BY <1>5
    <3> QED BY <1>7, <2>1, <3>1, LeastOf, Zenon
  <2>3. b \in solid /\ \A k \in solid : k <= b
    <3>1. solid \subseteq 0..(end - from)
      BY <1>5
    <3> QED BY <1>5, <1>7, <2>1, <3>1, GreatestOf, Zenon
  <2>4. TokenOf(value, from, end) = {SubSeq(token, a, b)}
    BY <1>2, <1>4, <1>7, <2>1, Zenon DEF TokenOf
  <2>5. a \in 1..(end - from) /\ b \in 1..(end - from) /\ a <= b
    BY <1>5, <2>2, <2>3
  <2>6. PICK s : s = SubSeq(token, a, b)
    BY Zenon
  <2>7. s \in Seq(Symbols) /\ Len(s) = b - a + 1 /\ s[1] = token[a]
    BY <1>3, <1>5, <2>5, <2>6
  <2>8. <<name>> = s <=> a = b /\ token[a] = name
    <3>1. PICK t : t = <<name>>
      BY Zenon
    <3>2. Len(t) = 1 /\ t[1] = name
      BY <3>1
    <3>3. ASSUME t = s
          PROVE  a = b /\ token[a] = name
      <4>1. Len(s) = 1 /\ s[1] = name
        BY <3>2, <3>3, Zenon
      <4>2. b - a + 1 = 1 /\ token[a] = name
        BY <2>7, <4>1, Zenon
      <4>3. a \in Nat /\ b \in Nat
        BY <2>5
      <4> QED BY <4>2, <4>3
    <3>4. ASSUME a = b, token[a] = name
          PROVE  t = s
      <4>1. Len(s) = 1 /\ s[1] = name
        BY <1>5, <2>5, <2>7, <3>4
      <4>2. name \in Symbols
        BY <1>3, <2>5, <3>4
      <4>3. t \in Seq(Symbols)
        BY <3>1, <4>2
      <4> QED BY <2>7, <3>2, <4>1, <4>3, SameSequence
    <3> QED BY <3>1, <3>3, <3>4, Zenon
  <2>9. ASSUME a = b, token[a] = name
        PROVE  \E i \in from..(end - 1) : NominatesAt(value, i, name)
    <3>1. PICK i : i = from + a - 1
      BY Zenon
    <3>2. i \in from..(end - 1) /\ value[i] = name /\ value[i] # Blank
      BY <1>1, <1>3, <1>5, <2>2, <2>5, <2>9, <3>1
    <3>3. ASSUME NEW j \in from..(end - 1), j # i
          PROVE  value[j] = Blank
      <4>1. PICK k : k = j - from + 1
        BY Zenon
      <4>2. k \in 1..(end - from) /\ from + k - 1 = j /\ k # a
        BY <1>1, <2>5, <3>1, <3>3, <4>1
      <4>3. k \notin solid
        BY <1>5, <2>2, <2>3, <2>5, <2>9, <4>2
      <4> QED BY <1>5, <4>2, <4>3
    <3> QED BY <3>2, <3>3, AloneNominates, Zenon
  <2>10. ASSUME NEW i \in from..(end - 1), NominatesAt(value, i, name)
         PROVE  a = b /\ token[a] = name
    <3>1. value[i] = name /\ value[i] # Blank /\ \A j \in from..(end - 1) : j = i \/ value[j] = Blank
      BY <2>10, NominatesAlone, Zenon
    <3>2. \A k \in solid : k = i - from + 1
      <4> TAKE k \in solid
      <4>1. PICK j : j = from + k - 1
        BY Zenon
      <4>2. j \in from..(end - 1) /\ value[j] # Blank /\ k \in 1..(end - from)
        BY <1>1, <1>5, <4>1
      <4>3. j = i
        BY <3>1, <4>2
      <4> QED BY <1>1, <4>1, <4>2, <4>3
    <3>3. a = b /\ a = i - from + 1
      BY <2>2, <2>3, <3>2, Zenon
    <3>4. from + a - 1 = i
      BY <1>1, <3>3
    <3> QED BY <1>3, <2>5, <3>1, <3>3, <3>4
  <2> QED BY <2>4, <2>6, <2>8, <2>9, <2>10, Zenon
<1> QED BY <1>6, <1>7

\* Where the turn that starts at a place ends: at the next comma, or the end.
CommasFrom(value, from) == {i \in Places(value, Comma) : from <= i}
EndOf(value, from) == IF CommasFrom(value, from) = {} THEN Len(value) + 1 ELSE Min(CommasFrom(value, from))

\* A turn takes one part of the value.
LEMMA TurnEnds ==
  ASSUME NEW value \in Seq(Symbols), NEW from \in 1..Len(value), from = 1 \/ value[from - 1] = Comma
  PROVE  /\ EndOf(value, from) \in from..(Len(value) + 1)
         /\ IsPart(value, from, EndOf(value, from))
         /\ CommasFrom(value, from) = {} => EndOf(value, from) = Len(value) + 1
         /\ CommasFrom(value, from) # {} =>
              EndOf(value, from) \in 1..Len(value) /\ value[EndOf(value, from)] = Comma
<1>1. Len(value) \in Nat /\ DOMAIN value = 1..Len(value) /\ from \in Nat
  OBVIOUS
<1>2. PICK S : S = CommasFrom(value, from)
  BY Zenon
<1>3. \A i : i \in S <=> i \in from..Len(value) /\ value[i] = Comma
  BY <1>1, <1>2 DEF CommasFrom, Places
<1>4. CASE S = {}
  <2>1. PICK end : end = EndOf(value, from)
    BY Zenon
  <2>2. end = Len(value) + 1
    BY <1>2, <1>4, <2>1, Zenon DEF EndOf
  <2>3. end \in from..(Len(value) + 1) /\ \A i \in from..(end - 1) : value[i] # Comma
    BY <1>1, <1>3, <1>4, <2>2
  <2>4. IsPart(value, from, end)
    BY <2>2, <2>3, Zenon DEF IsPart
  <2> QED BY <1>2, <1>4, <2>1, <2>2, <2>3, <2>4, Zenon
<1>5. CASE S # {}
  <2>1. PICK end : end = EndOf(value, from)
    BY Zenon
  <2>2. end = Min(S)
    BY <1>2, <1>5, <2>1, Zenon DEF EndOf
  <2>3. end \in S /\ \A i \in S : end <= i
    <3>1. S \subseteq Nat
      BY <1>1, <1>3
    <3> QED BY <1>5, <2>2, <3>1, LeastOf, Zenon
  <2>4. end \in from..Len(value) /\ value[end] = Comma
    BY <1>3, <2>3, Zenon
  <2>5. \A i \in from..(end - 1) : value[i] # Comma
    BY <1>1, <1>3, <2>3, <2>4
  <2>6. end \in from..(Len(value) + 1) /\ end \in 1..Len(value)
    BY <1>1, <2>4
  <2>7. IsPart(value, from, end)
    BY <2>4, <2>5, Zenon DEF IsPart
  <2> QED BY <1>2, <1>5, <2>1, <2>4, <2>6, <2>7, Zenon
<1> QED BY <1>4, <1>5, Zenon

\* The words of a value nominate what the value does.
LEMMA WordsNominate ==
  ASSUME NEW value \in Seq(Symbols), NEW name
  PROVE  Nominates(value, name) <=> \E i \in 1..Len(value) : NominatesAt(value, i, name)
<1>1. Places(value, name) \subseteq 1..Len(value)
  BY DEF Places
<1> QED BY <1>1, Zenon DEF Nominates, NominatesAt

\* What a turn adds to what was nominated before its part.
LEMMA TurnAdds ==
  ASSUME NEW value \in Seq(Symbols), NEW from \in 1..Len(value), from = 1 \/ value[from - 1] = Comma,
         NEW name
  PROVE  (\E i \in 1..(EndOf(value, from) - 1) : NominatesAt(value, i, name)) <=>
           \/ \E i \in 1..(from - 1) : NominatesAt(value, i, name)
           \/ <<name>> \in TokenOf(value, from, EndOf(value, from))
<1>1. PICK end : end = EndOf(value, from)
  BY Zenon
<1>2. end \in from..(Len(value) + 1) /\ IsPart(value, from, end)
  BY <1>1, TurnEnds, Zenon
<1>3. <<name>> \in TokenOf(value, from, end) <=> \E i \in from..(end - 1) : NominatesAt(value, i, name)
  BY <1>2, TakesNominated, Zenon
<1>4. \A i : i \in 1..(end - 1) <=> i \in 1..(from - 1) \/ i \in from..(end - 1)
  BY <1>2
<1> QED BY <1>1, <1>3, <1>4, Zenon

-----------------------------------------------------------------------------

\* While the loop runs: the tokens are the words nominated by the headers it is
\* done with, and by the part of the current one that it has passed, which ends
\* with a comma.
ScanInv ==
  /\ unread \subseteq Of(input, "connection")
  /\ unread # {} =>
       /\ start \in 1..(Len(input[Min(unread)].value) + 1)
       /\ start = 1 \/ input[Min(unread)].value[start - 1] = Comma
  /\ \A name :
       <<name>> \in tokens <=>
         \/ \E i \in Of(input, "connection") \ unread : Nominates(input[i].value, name)
         \/ unread # {} /\ \E i \in 1..(start - 1) : NominatesAt(input[Min(unread)].value, i, name)

\* The places of headers of a name.
LEMMA Placed ==
  ASSUME NEW hs \in Fields, NEW name
  PROVE  /\ Of(hs, name) \subseteq Nat
         /\ \A i \in Of(hs, name) : hs[i].value \in Seq(Symbols)
<1>1. PICK R : R = [name : Symbols, value : Seq(Symbols)]
  BY Zenon
<1>2. hs \in Seq(R)
  BY <1>1, Zenon DEF Fields
<1>3. DOMAIN hs \subseteq Nat /\ \A i \in DOMAIN hs : hs[i] \in R
  BY <1>2
<1>4. \A r \in R : r.value \in Seq(Symbols)
  BY <1>1
<1> QED BY <1>3, <1>4, Zenon DEF Of

\* A turn of the loop keeps it so.
LEMMA ScanKeeps ==
  ASSUME ScanInv, input \in Fields, headers = input, ScanToken
  PROVE  ScanInv'
<1>1. PICK C : C = Of(input, "connection")
  BY Zenon
<1>2. C \subseteq Nat /\ \A i \in C : input[i].value \in Seq(Symbols)
  BY <1>1, Placed, Zenon
<1>3. unread \subseteq C /\ unread # {}
  BY <1>1, Zenon DEF ScanInv, ScanToken
<1>4. PICK h : h = Min(unread)
  BY Zenon
<1>5. h \in unread /\ h \in C
  <2>1. unread \subseteq Nat
    BY <1>2, <1>3
  <2> QED BY <1>3, <1>4, <2>1, LeastOf, Zenon
<1>6. PICK v : v = input[h].value
  BY Zenon
<1>7. /\ v \in Seq(Symbols) /\ Len(v) \in Nat
      /\ start \in 1..(Len(v) + 1) /\ start \in Nat
      /\ start = 1 \/ v[start - 1] = Comma
  <2>1. v \in Seq(Symbols)
    BY <1>2, <1>5, <1>6, Zenon
  <2>2. start \in 1..(Len(v) + 1) /\ (start = 1 \/ v[start - 1] = Comma)
    BY <1>3, <1>4, <1>6, Zenon DEF ScanInv
  <2> QED BY <2>1, <2>2
<1>8. \A name :
        <<name>> \in tokens <=>
          \/ \E i \in C \ unread : Nominates(input[i].value, name)
          \/ \E i \in 1..(start - 1) : NominatesAt(v, i, name)
  BY <1>1, <1>3, <1>4, <1>6, Zenon DEF ScanInv
<1>9. input' = input /\ Of(input, "connection")' = C
  BY <1>1 DEF ScanToken, Of
<1>10. PICK end, commas : end = EndOf(v, start) /\ commas = CommasFrom(v, start)
  BY Zenon
<1>11. /\ tokens' = tokens \cup (IF start > Len(v) THEN {} ELSE TokenOf(v, start, end))
       /\ unread' = IF start > Len(v) \/ commas = {} THEN unread \ {h} ELSE unread
       /\ start' = IF start > Len(v) \/ commas = {} THEN 1 ELSE end + 1
  BY <1>4, <1>6, <1>10, Zenon DEF ScanToken, EndOf, CommasFrom
<1>12. CASE start > Len(v) \/ commas = {}
  <2>1. unread' = unread \ {h} /\ start' = 1
    BY <1>11, <1>12, Zenon
  <2>2. unread' \subseteq C
    BY <1>3, <2>1
  <2>3. ASSUME unread' # {}
        PROVE  start' \in 1..(Len(input[Min(unread')].value) + 1)
    <3>1. unread' \subseteq Nat
      BY <1>2, <2>2
    <3>2. Min(unread') \in C
      BY <2>2, <2>3, <3>1, LeastOf, Zenon
    <3>3. PICK w \in Seq(Symbols) : w = input[Min(unread')].value
      BY <1>2, <3>2, Zenon
    <3>4. 1 \in 1..(Len(w) + 1)
      OBVIOUS
    <3> QED BY <2>1, <3>3, <3>4, Zenon
  <2>4. ASSUME NEW name
        PROVE  <<name>> \in tokens' <=>
                 \/ \E i \in C \ unread : Nominates(input[i].value, name)
                 \/ \E i \in 1..Len(v) : NominatesAt(v, i, name)
    <3>1. CASE start > Len(v)
      <4>1. tokens' = tokens
        BY <1>11, <3>1
      <4>2. start - 1 = Len(v)
        BY <1>7, <3>1
      <4> QED BY <1>8, <4>1, <4>2, Zenon
    <3>2. CASE ~(start > Len(v))
      <4>1. start \in 1..Len(v) /\ tokens' = tokens \cup TokenOf(v, start, end)
        BY <1>7, <1>11, <3>2
      <4>2. end = Len(v) + 1
        BY <1>7, <1>10, <1>12, <3>2, <4>1, TurnEnds, Zenon
      <4>3. end - 1 = Len(v)
        BY <1>7, <4>2
      <4>4. (\E i \in 1..(end - 1) : NominatesAt(v, i, name)) <=>
              \/ \E i \in 1..(start - 1) : NominatesAt(v, i, name)
              \/ <<name>> \in TokenOf(v, start, end)
        BY <1>7, <1>10, <4>1, TurnAdds, Zenon
      <4> QED BY <1>8, <4>1, <4>3, <4>4, Zenon
    <3> QED BY <3>1, <3>2, Zenon
  <2>5. ASSUME NEW name
        PROVE  <<name>> \in tokens' <=> \E i \in C \ unread' : Nominates(input[i].value, name)
    <3>1. Nominates(v, name) <=> \E i \in 1..Len(v) : NominatesAt(v, i, name)
      BY <1>7, WordsNominate, Zenon
    <3>2. \A i : i \in C \ unread' <=> i \in C \ unread \/ i = h
      BY <1>5, <2>1, Zenon
    <3> QED BY <1>6, <2>4, <3>1, <3>2, Zenon
  <2>6. \A i \in 1..(start' - 1) : FALSE
    BY <2>1
  <2> QED BY <1>9, <2>1, <2>2, <2>3, <2>5, <2>6, Zenon DEF ScanInv
<1>13. CASE ~(start > Len(v) \/ commas = {})
  <2>1. unread' = unread /\ start' = end + 1 /\ tokens' = tokens \cup TokenOf(v, start, end)
    BY <1>11, <1>13, Zenon
  <2>2. start \in 1..Len(v)
    BY <1>7, <1>13
  <2>3. end \in 1..Len(v) /\ v[end] = Comma
    BY <1>7, <1>10, <1>13, <2>2, TurnEnds, Zenon
  <2>4. start' \in 1..(Len(v) + 1) /\ start' - 1 = end
    BY <1>7, <2>1, <2>3
  <2>5. ASSUME NEW name
        PROVE  (\E i \in 1..end : NominatesAt(v, i, name)) <=>
                 \E i \in 1..(end - 1) : NominatesAt(v, i, name)
    <3>1. ~NominatesAt(v, end, name)
      BY <2>3, Zenon DEF NominatesAt, Places
    <3>2. \A i : i \in 1..end <=> i \in 1..(end - 1) \/ i = end
      BY <1>7, <2>3
    <3> QED BY <3>1, <3>2, Zenon
  <2>6. ASSUME NEW name
        PROVE  <<name>> \in tokens' <=>
                 \/ \E i \in C \ unread : Nominates(input[i].value, name)
                 \/ \E i \in 1..end : NominatesAt(v, i, name)
    <3>1. (\E i \in 1..(end - 1) : NominatesAt(v, i, name)) <=>
            \/ \E i \in 1..(start - 1) : NominatesAt(v, i, name)
            \/ <<name>> \in TokenOf(v, start, end)
      BY <1>7, <1>10, <2>2, TurnAdds, Zenon
    <3> QED BY <1>8, <2>1, <2>5, <3>1, Zenon
  <2> QED BY <1>3, <1>4, <1>6, <1>9, <2>1, <2>3, <2>4, <2>6, Zenon DEF ScanInv
<1> QED BY <1>12, <1>13, Zenon

-----------------------------------------------------------------------------
(* The invariant. *)

\* The headers that a proxy does not set itself, and those it is to pass on.
Rest(hs) == [i \in {k \in DOMAIN hs : hs[k].name \notin Framing} |-> hs[i]]
PassedOn == [i \in {k \in DOMAIN input : EndToEnd(input[k].name)} |-> input[i]]

Arriving == phase \in {"argument", "request", "response"}
Departing == phase \in {"forwarded", "returned", "written"}

MessageTypeOK ==
  /\ phase \in {"argument", "rejected", "request", "response", "forwarded", "thrown", "returned", "written"}
  /\ argument \in Seq(Symbols) /\ input \in Fields /\ body \in BOOLEAN /\ client \in Clients

Parsed ==
  /\ phase \in {"request", "rejected", "forwarded"} => endpoint = ParseUpstream(argument)
  /\ phase \in {"request", "forwarded"} => endpoint # Rejected

Sent ==
  phase = "forwarded" =>
    /\ Only(headers, "host", HostHeader(endpoint))
    /\ Only(headers, "connection", <<"close">>)
    /\ IF body THEN Only(headers, "content-length", <<"n">>) ELSE Of(headers, "content-length") = {}

Fitted ==
  phase \in {"returned", "written"} =>
    /\ version = client.version
    /\ ConnectionFor(headers, client.version, client.keep_alive)
    /\ Only(headers, "content-length", <<"n">>)

\* The messages are as the code leaves them in every phase.
MessageInv ==
  /\ MessageTypeOK
  /\ Parsed
  /\ Arriving => headers = input /\ ScanInv
  /\ Departing => IsList(headers) /\ Rest(headers) = PassedOn
  /\ Sent
  /\ Fitted

\* Lists that are the same apart from the framing have the same rest.
LEMMA SameRest ==
  ASSUME NEW gs, NEW hs, Keeps(gs, hs, Framing)
  PROVE  Rest(gs) = Rest(hs)
<1>1. \A i : /\ i \in DOMAIN gs /\ gs[i].name \notin Framing <=> i \in DOMAIN hs /\ hs[i].name \notin Framing
             /\ i \in DOMAIN gs /\ gs[i].name \notin Framing => gs[i] = hs[i]
  BY Zenon DEF Keeps
<1>2. {k \in DOMAIN gs : gs[k].name \notin Framing} = {k \in DOMAIN hs : hs[k].name \notin Framing}
  BY <1>1, Zenon
<1> QED BY <1>1, <1>2, Zenon DEF Rest

\* What remove_hop_by_hop_headers() leaves, when the loop has ended.
LEMMA Removes ==
  ASSUME ScanInv, unread = {}, input \in Fields
  PROVE  IsList(RemoveHopByHopHeaders(input)) /\ Rest(RemoveHopByHopHeaders(input)) = PassedOn
<1>1. PICK gs : gs = RemoveHopByHopHeaders(input)
  BY Zenon
<1>2. gs = [i \in {k \in DOMAIN input : input[k].name \notin HopByHop
                         /\ <<input[k].name>> \notin tokens} |-> input[i]]
  BY <1>1, Zenon DEF RemoveHopByHopHeaders, RestrictValues, Restrict
<1>3. /\ \A i : i \in DOMAIN gs <=>
                  i \in DOMAIN input /\ input[i].name \notin HopByHop /\ <<input[i].name>> \notin tokens
      /\ \A i \in DOMAIN gs : gs[i] = input[i]
  BY <1>2, Zenon
<1>4. IsList(gs)
  <2>1. Len(input) \in Nat /\ DOMAIN input = 1..Len(input)
    BY DEF Fields
  <2>2. DOMAIN gs \subseteq 1..Len(input)
    BY <1>3, <2>1, Zenon
  <2> QED BY <2>1, <2>2, Zenon DEF IsList
<1>5. \A name : <<name>> \in tokens <=>
                  \E i \in Of(input, "connection") : Nominates(input[i].value, name)
  BY Zenon DEF ScanInv
<1>6. \A name : EndToEnd(name) <=> name \notin HopByHop /\ name \notin Framing /\ <<name>> \notin tokens
  BY <1>5, Zenon DEF EndToEnd
<1>7. \A i : (i \in DOMAIN gs /\ gs[i].name \notin Framing) <=>
               (i \in DOMAIN input /\ EndToEnd(input[i].name))
  BY <1>3, <1>6, Zenon
<1>8. {k \in DOMAIN gs : gs[k].name \notin Framing} = {k \in DOMAIN input : EndToEnd(input[k].name)}
  BY <1>7, Zenon
<1>9. Rest(gs) = PassedOn
  BY <1>3, <1>8, Zenon DEF Rest, PassedOn
<1> QED BY <1>1, <1>4, <1>9, Zenon

\* What is to be passed on depends on the message alone.
LEMMA PassedOnKept ==
  ASSUME input' = input
  PROVE  PassedOn' = PassedOn
BY DEF PassedOn, EndToEnd, Of

\* The invariant holds at first.
LEMMA MessageInitInv ==
  ASSUME MessageInit
  PROVE  MessageInv
<1>1. PICK i \in Inputs :
        /\ input = i.headers
        /\ \/ /\ phase = "argument" /\ argument = i.argument /\ body = i.body
              /\ client = [version |-> 11, keep_alive |-> TRUE]
           \/ /\ phase = "response" /\ argument = <<>> /\ body = TRUE
              /\ client \in Clients
  BY Zenon DEF MessageInit
<1>2. i.headers \in Fields /\ i.argument \in Seq(Symbols) /\ i.body \in BOOLEAN
  <2>1. i \in [argument : Seq(Symbols), headers : Fields, body : BOOLEAN]
    BY InputsAssumption, Zenon
  <2> QED BY <2>1
<1>3. [version |-> 11, keep_alive |-> TRUE] \in Clients /\ <<>> \in Seq(Symbols)
  BY DEF Clients
<1>4. MessageTypeOK
  BY <1>1, <1>2, <1>3, Zenon DEF MessageTypeOK
<1>5. PICK C : C = Of(input, "connection")
  BY Zenon
<1>6. unread = C /\ start = 1 /\ tokens = {} /\ headers = input
  BY <1>5, Zenon DEF MessageInit
<1>7. ScanInv
  <2>1. C \subseteq Nat /\ \A k \in C : input[k].value \in Seq(Symbols)
    BY <1>1, <1>2, <1>5, Placed, Zenon
  <2>2. ASSUME unread # {}
        PROVE  start \in 1..(Len(input[Min(unread)].value) + 1)
    <3>1. Min(unread) \in C
      BY <1>6, <2>1, <2>2, LeastOf, Zenon
    <3>2. PICK w \in Seq(Symbols) : w = input[Min(unread)].value
      BY <2>1, <3>1, Zenon
    <3>3. 1 \in 1..(Len(w) + 1)
      OBVIOUS
    <3> QED BY <1>6, <3>2, <3>3, Zenon
  <2>3. \A k \in 1..(start - 1) : FALSE
    BY <1>6
  <2> QED BY <1>5, <1>6, <2>2, <2>3, Zenon DEF ScanInv
<1>8. phase \in {"argument", "response"}
  BY <1>1, Zenon
<1>9. Parsed /\ ~Departing /\ Sent /\ Fitted
  BY <1>8 DEF Parsed, Departing, Sent, Fitted
<1> QED BY <1>4, <1>6, <1>7, <1>9, Zenon DEF MessageInv

\* Parsing the upstream keeps the invariant.
LEMMA ParseKeeps ==
  ASSUME MessageInv, Parse
  PROVE  MessageInv'
<1>1. /\ phase = "argument" /\ endpoint' = ParseUpstream(argument)
      /\ phase' = IF endpoint' = Rejected THEN "rejected" ELSE "request"
      /\ argument' = argument /\ input' = input /\ body' = body /\ unread' = unread /\ start' = start
      /\ tokens' = tokens /\ headers' = headers /\ client' = client
  BY DEF Parse, scan
<1>2. phase' \in {"rejected", "request"} /\ (phase' = "request" => endpoint' # Rejected)
  BY <1>1, Zenon
<1>3. MessageTypeOK'
  BY <1>1, <1>2, Zenon DEF MessageInv, MessageTypeOK
<1>4. Parsed' /\ ~Departing' /\ Sent' /\ Fitted'
  BY <1>1, <1>2, Zenon DEF Parsed, Departing, Sent, Fitted
<1>5. (headers = input /\ ScanInv)'
  <2>1. headers = input /\ ScanInv
    BY <1>1 DEF MessageInv, Arriving
  <2> QED BY <1>1, <2>1 DEF ScanInv, Of
<1> QED BY <1>3, <1>4, <1>5, Zenon DEF MessageInv

\* So does a turn of the loop,
LEMMA ScanStepKeeps ==
  ASSUME MessageInv, ScanToken
  PROVE  MessageInv'
<1>1. /\ phase \in {"request", "response"} /\ phase' = phase
      /\ argument' = argument /\ endpoint' = endpoint /\ input' = input /\ body' = body
      /\ headers' = headers /\ client' = client
  BY DEF ScanToken
<1>2. MessageTypeOK' /\ Parsed'
  BY <1>1 DEF MessageInv, MessageTypeOK, Parsed
<1>3. ~Departing' /\ Sent' /\ Fitted'
  BY <1>1 DEF Departing, Sent, Fitted
<1>4. headers = input /\ ScanInv /\ input \in Fields
  BY <1>1 DEF MessageInv, Arriving, MessageTypeOK
<1>5. ScanInv'
  BY <1>4, ScanKeeps
<1> QED BY <1>1, <1>2, <1>3, <1>4, <1>5 DEF MessageInv

\* rewriting a request,
LEMMA RunKeeps ==
  ASSUME MessageInv, Run
  PROVE  MessageInv'
<1>1. /\ phase = "request" /\ unread = {} /\ phase' = "forwarded"
      /\ headers' = Rewrite(headers, endpoint, body)
      /\ argument' = argument /\ endpoint' = endpoint /\ input' = input /\ body' = body /\ client' = client
  BY DEF Run
<1>2. MessageTypeOK' /\ Parsed'
  BY <1>1 DEF MessageInv, MessageTypeOK, Parsed
<1>3. headers = input /\ ScanInv /\ input \in Fields /\ body \in BOOLEAN
  BY <1>1 DEF MessageInv, Arriving, MessageTypeOK
<1>4. PICK kept : kept = RemoveHopByHopHeaders(headers)
  BY Zenon
<1>5. IsList(kept) /\ Rest(kept) = PassedOn
  BY <1>1, <1>3, <1>4, Removes, Zenon
<1>6. /\ IsList(headers') /\ Keeps(headers', kept, Framing)
      /\ Only(headers', "host", HostHeader(endpoint))
      /\ Only(headers', "connection", <<"close">>)
      /\ IF body THEN Only(headers', "content-length", <<"n">>)
         ELSE Of(headers', "content-length") = {}
  BY <1>1, <1>3, <1>4, <1>5, Rewrites, Zenon
<1>7. Rest(headers') = PassedOn'
  BY <1>1, <1>5, <1>6, SameRest, PassedOnKept, Zenon
<1>8. Sent'
  BY <1>1, <1>6, Zenon DEF Sent, Only, Of
<1>9. ~Arriving' /\ Fitted'
  BY <1>1 DEF Arriving, Fitted
<1> QED BY <1>2, <1>6, <1>7, <1>8, <1>9, Zenon DEF MessageInv, IsList, Rest

\* a request that cannot be sent,
LEMMA ThrowsKeeps ==
  ASSUME MessageInv, RunThrows
  PROVE  MessageInv'
<1>1. /\ phase' = "thrown"
      /\ argument' = argument /\ input' = input /\ body' = body /\ client' = client
  BY DEF RunThrows
<1>2. MessageTypeOK' /\ Parsed'
  BY <1>1 DEF MessageInv, MessageTypeOK, Parsed
<1>3. ~Arriving' /\ ~Departing' /\ Sent' /\ Fitted'
  BY <1>1 DEF Arriving, Departing, Sent, Fitted
<1> QED BY <1>2, <1>3 DEF MessageInv

\* rewriting a response,
LEMMA ReadKeeps ==
  ASSUME MessageInv, ReadResponse
  PROVE  MessageInv'
<1>1. /\ phase = "response" /\ unread = {} /\ phase' = "returned"
      /\ headers' = PrepareResponse(
                      KeepAlive(RemoveHopByHopHeaders(headers), client.version, client.keep_alive))
      /\ version' = client.version
      /\ argument' = argument /\ endpoint' = endpoint /\ input' = input /\ body' = body /\ client' = client
  BY DEF ReadResponse
<1>2. MessageTypeOK' /\ Parsed'
  BY <1>1 DEF MessageInv, MessageTypeOK, Parsed
<1>3. headers = input /\ ScanInv /\ input \in Fields /\ client \in Clients
  BY <1>1 DEF MessageInv, Arriving, MessageTypeOK
<1>4. PICK kept : kept = RemoveHopByHopHeaders(headers)
  BY Zenon
<1>5. IsList(kept) /\ Rest(kept) = PassedOn
  BY <1>1, <1>3, <1>4, Removes, Zenon
<1>6. client.version \in {10, 11} /\ client.keep_alive \in BOOLEAN
  BY <1>3 DEF Clients
<1>7. /\ IsList(headers') /\ Keeps(headers', kept, Framing)
      /\ ConnectionFor(headers', client.version, client.keep_alive)
      /\ Only(headers', "content-length", <<"n">>)
  BY <1>1, <1>4, <1>5, <1>6, Returns, Zenon
<1>8. Rest(headers') = PassedOn'
  BY <1>1, <1>5, <1>7, SameRest, PassedOnKept, Zenon
<1>9. Fitted'
  BY <1>1, <1>7, Zenon DEF Fitted, Only, Of, ConnectionFor
<1>10. ~Arriving' /\ Sent'
  BY <1>1 DEF Arriving, Sent
<1> QED BY <1>2, <1>7, <1>8, <1>9, <1>10, Zenon DEF MessageInv, IsList, Rest

\* fitting it to another client,
LEMMA WriteKeeps ==
  ASSUME MessageInv, WriteForCurrentRequest
  PROVE  MessageInv'
<1>1. /\ phase = "returned" /\ phase' = "written" /\ client' \in Clients
      /\ headers' = Fit(headers, client') /\ version' = client'.version
      /\ argument' = argument /\ endpoint' = endpoint /\ input' = input /\ body' = body
  BY DEF WriteForCurrentRequest
<1>2. MessageTypeOK' /\ Parsed'
  BY <1>1 DEF MessageInv, MessageTypeOK, Parsed
<1>3. IsList(headers) /\ Rest(headers) = PassedOn /\ Only(headers, "content-length", <<"n">>)
  BY <1>1 DEF MessageInv, Departing, Fitted
<1>4. /\ IsList(headers') /\ Keeps(headers', headers, {"connection"})
      /\ ConnectionFor(headers', client'.version, client'.keep_alive)
  BY <1>1, <1>3, Fits, Zenon
<1>5. "content-length" \notin {"connection"} /\ {"connection"} \subseteq Framing
  BY DEF Framing
<1>6. Only(headers', "content-length", <<"n">>)
  BY <1>3, <1>4, <1>5, KeepsName, Zenon
<1>7. Keeps(headers', headers, Framing)
  BY <1>4, <1>5, KeepsMore, Zenon
<1>8. Rest(headers') = PassedOn'
  BY <1>1, <1>3, <1>7, SameRest, PassedOnKept, Zenon
<1>9. Fitted'
  BY <1>1, <1>4, <1>6, Zenon DEF Fitted, Only, Of, ConnectionFor
<1>10. ~Arriving' /\ Sent'
  BY <1>1 DEF Arriving, Sent
<1> QED BY <1>2, <1>4, <1>8, <1>9, <1>10, Zenon DEF MessageInv, IsList, Rest

\* and a step that changes nothing.
LEMMA StutterKeeps ==
  ASSUME MessageInv, UNCHANGED messageVars
  PROVE  MessageInv'
<1>1. /\ phase' = phase /\ argument' = argument /\ endpoint' = endpoint /\ input' = input /\ body' = body
      /\ unread' = unread /\ start' = start /\ tokens' = tokens
      /\ headers' = headers /\ version' = version /\ client' = client
  BY DEF messageVars, scan
<1>2. MessageTypeOK' /\ Parsed'
  BY <1>1, Zenon DEF MessageInv, MessageTypeOK, Parsed
<1>3. ScanInv' <=> ScanInv
  BY <1>1 DEF ScanInv, Of
<1>4. (Arriving' <=> Arriving) /\ (Departing' <=> Departing)
  BY <1>1 DEF Arriving, Departing
<1>5. PassedOn' = PassedOn
  BY <1>1, PassedOnKept
<1>6. Sent'
  <2>1. Sent
    BY Zenon DEF MessageInv
  <2> QED BY <1>1, <2>1, Zenon DEF Sent, Only, Of
<1>7. Fitted'
  <2>1. Fitted
    BY Zenon DEF MessageInv
  <2> QED BY <1>1, <2>1, Zenon DEF Fitted, Only, Of, ConnectionFor
<1> QED BY <1>1, <1>2, <1>3, <1>4, <1>5, <1>6, <1>7, Zenon DEF MessageInv, IsList, Rest

\* Whatever the texts and the headers are, the messages are as the code means to
\* leave them.
THEOREM MessagesInvariant == MessageSpec => []MessageInv
<1>1. MessageInit => MessageInv
  BY MessageInitInv
<1>2. MessageInv /\ [MessageNext]_messageVars => MessageInv'
  BY ParseKeeps, ScanStepKeeps, RunKeeps, ThrowsKeeps, ReadKeeps, WriteKeeps, StutterKeeps DEF MessageNext, Settled
<1> QED BY <1>1, <1>2, PTL DEF MessageSpec

\* parse_upstream() accepts exactly the texts of the grammar, and reads them right.
THEOREM UpstreamsAreParsed == MessageSpec => []ParsesExactly
<1>1. MessageInv => ParsesExactly
  <2> SUFFICES ASSUME MessageInv, phase \in {"request", "rejected"}
               PROVE  {endpoint} = IF Readings(argument) = {} THEN {Rejected} ELSE Readings(argument)
    BY Zenon DEF ParsesExactly
  <2>1. endpoint = ParseUpstream(argument) /\ argument \in Seq(Symbols)
    BY DEF MessageInv, MessageTypeOK, Parsed
  <2> QED BY <2>1, ReadsExactly, Zenon
<1> QED BY <1>1, MessagesInvariant, PTL

\* A proxy passes on exactly the end-to-end headers, unchanged and in their places.
THEOREM OnlyEndToEnd == MessageSpec => []EndToEndOnly
<1>1. MessageInv => EndToEndOnly
  <2> SUFFICES ASSUME MessageInv, Departing
               PROVE  RestrictValues(headers, LAMBDA h : h.name \notin Framing)
                        = RestrictValues(input, LAMBDA h : EndToEnd(h.name))
    BY Zenon DEF EndToEndOnly, Departing
  <2>1. Rest(headers) = PassedOn
    BY Zenon DEF MessageInv
  <2> QED BY <2>1, Zenon DEF Rest, PassedOn, RestrictValues, Restrict
<1> QED BY <1>1, MessagesInvariant, PTL

\* An upstream is sent one Host, its own, one Connection, close, and the length that
\* the message calls for.
THEOREM RequestsAreFramed == MessageSpec => []UpstreamFraming
<1>1. MessageInv => UpstreamFraming
  <2> SUFFICES ASSUME MessageInv, phase = "forwarded"
               PROVE  UpstreamFraming
    BY Zenon DEF UpstreamFraming
  <2>1. /\ endpoint = ParseUpstream(argument) /\ endpoint # Rejected /\ argument \in Seq(Symbols)
        /\ body \in BOOLEAN
    BY DEF MessageInv, MessageTypeOK, Parsed
  <2>2. IsEndpoint(endpoint)
    BY <2>1, ParsesEndpoint, Zenon
  <2>3. endpoint.host[1] # "[" => ParseUpstream(HostHeader(endpoint)) = endpoint
    BY <2>2, HostReadsBack, Zenon
  <2>4. /\ Only(headers, "host", HostHeader(endpoint))
        /\ Only(headers, "connection", <<"close">>)
        /\ IF body THEN Only(headers, "content-length", <<"n">>) ELSE Of(headers, "content-length") = {}
    BY Zenon DEF MessageInv, Sent
  <2> QED BY <2>1, <2>3, <2>4, Zenon DEF UpstreamFraming, Only
<1> QED BY <1>1, MessagesInvariant, PTL

\* A response is framed for the client that receives it.
THEOREM ResponsesAreFramed == MessageSpec => []ClientFraming
<1>1. MessageInv => ClientFraming
  <2> SUFFICES ASSUME MessageInv, phase \in {"returned", "written"}
               PROVE  ClientFraming
    BY Zenon DEF ClientFraming
  <2>1. /\ version = client.version
        /\ ConnectionFor(headers, client.version, client.keep_alive)
        /\ Only(headers, "content-length", <<"n">>)
    BY Zenon DEF MessageInv, Fitted
  <2>2. client.version \in {10, 11} /\ client.keep_alive \in BOOLEAN
    BY DEF MessageInv, MessageTypeOK, Clients
  <2> QED BY <2>1, <2>2, Zenon DEF ClientFraming, ConnectionFor, Only
<1> QED BY <1>1, MessagesInvariant, PTL
=============================================================================
