--------------------------- MODULE SessionDeadline ---------------------------
(***************************************************************************)
(* The clock of one client session (src/http_session.cpp): do_read() sets  *)
(* the stream's deadline once per request, and the read of the request and *)
(* the write of its response both run under it.  In between the session    *)
(* has no operation on the stream: nothing times out while it waits for    *)
(* the fetch, which has time limits of its own (UpstreamProxy, composed    *)
(* here step by step), but the deadline keeps coming closer.  A session    *)
(* that waits for another's fetch waits no longer than for one of its own. *)
(* A write begun at or after the deadline races the timer: it may end      *)
(* either way.                                                             *)
(***************************************************************************)
EXTENDS UpstreamProxy

CONSTANTS
  SessionTimeout,    \* the 30 s of do_read()
  MaxRequests    \* bound: requests on the connection

ASSUME SessionTimeoutAssumption == SessionTimeout \in Nat \ {0}

VARIABLES
  step,        \* what the session does: reading, fetching, writing or closed
  ended,       \* how the client operation under way ended, once its handler is queued
  deadline,    \* the expiry of stream_
  requests,    \* requests read
  read_began, arrived, write_began    \* history: when the steps of this request began

session == <<step, ended, deadline, requests, read_began, arrived, write_began>>
fetch == <<stage, outcome, expiry, completed, result, began, resolved_at>>
all_vars == <<session, fetch, now>>

-----------------------------------------------------------------------------

\* run(): the first do_read(); no fetch has been made.
SessionInit ==
  /\ now = 0
  /\ step = "reading"
  /\ ended = Pending
  /\ deadline = SessionTimeout
  /\ requests = 0
  /\ read_began = 0 /\ arrived = 0 /\ write_began = 0
  /\ stage = "done" /\ outcome = Pending /\ expiry = NoExpiry
  /\ completed = TRUE /\ result = NoResult
  /\ began = 0 /\ resolved_at = 0

\* Mutant: the next request is read under the deadline of the one before.
DoReadNotRearmed ==
  /\ step' = "reading"
  /\ read_began' = now
  /\ UNCHANGED <<deadline, requests, arrived, write_began>>

\* Mutant: the deadline is counted anew from the deadline before.
DoReadFromDeadline ==
  /\ step' = "reading"
  /\ deadline' = deadline + SessionTimeout
  /\ read_began' = now
  /\ UNCHANGED <<requests, arrived, write_began>>

DoRead ==
  /\ step' = "reading"
  /\ deadline' = now + SessionTimeout
  /\ read_began' = now
  /\ UNCHANGED <<requests, arrived, write_began>>

Close ==
  /\ step' = "closed"
  /\ UNCHANGED <<deadline, requests, read_began, arrived, write_began>>

\* write_response(): async_write under the deadline as it stands.
WriteResponse ==
  /\ step' = "writing"
  /\ write_began' = now
  /\ UNCHANGED <<deadline, read_began>>

\* A new UpstreamProxy and its run(): UpstreamProxy's initial state, now.
RunFetch ==
  /\ stage' = "resolve" /\ outcome' = Pending /\ expiry' = NoExpiry
  /\ completed' = FALSE /\ result' = NoResult
  /\ began' = now /\ resolved_at' = now

\* on_read(): the end of the stream, an error or a timeout ends the session; a
\* request is answered at once (a local route, a cache hit, no upstream) or
\* after a fetch.
OnRead ==
  /\ step = "reading" /\ ended # Pending
  /\ ended' = Pending
  /\ UNCHANGED now
  /\ \/ ended # "ok" /\ Close /\ UNCHANGED fetch
     \/ /\ ended = "ok"
        /\ requests' = requests + 1
        /\ arrived' = now
        /\ \/ WriteResponse /\ UNCHANGED fetch
           \/ /\ step' = "fetching"
              /\ RunFetch
              /\ UNCHANGED <<deadline, read_began, write_began>>

\* Mutant: a session whose fetch ends after the deadline is closed unanswered.
FetchStepDroppingLate ==
  /\ step = "fetching"
  /\ Handler
  /\ IF stage' # "done" THEN UNCHANGED session
     ELSE IF now < deadline THEN WriteResponse /\ UNCHANGED <<ended, requests, arrived>>
     ELSE Close /\ UNCHANGED ended

\* A handler of the fetch; the one that ends it calls the completion handler,
\* which writes the response.
FetchStep ==
  /\ step = "fetching"
  /\ Handler
  /\ IF stage' = "done"
     THEN WriteResponse /\ UNCHANGED <<ended, requests, arrived>>
     ELSE UNCHANGED session

\* on_write(): an error ends the session, and so does a response that needs it.
OnWrite ==
  /\ step = "writing" /\ ended # Pending
  /\ ended' = Pending
  /\ Close \/ (ended = "ok" /\ DoRead)
  /\ UNCHANGED <<fetch, now>>

\* External: the client sends a request, reads its response, or goes away.
ClientActs ==
  /\ ended = Pending
  /\ step = "writing" \/ (step = "reading" /\ requests < MaxRequests)
  /\ ended' \in {"ok", "error"}
  /\ UNCHANGED <<step, deadline, requests, read_began, arrived, write_began, fetch, now>>

\* External: the stream's timer ends the operation under way.
ClientTimesOut ==
  /\ step \in {"reading", "writing"}
  /\ ended = Pending
  /\ now >= deadline
  /\ ended' = "timeout"
  /\ UNCHANGED <<step, deadline, requests, read_began, arrived, write_began, fetch, now>>

\* External: the network or the timer ends an operation of the fetch.
FetchOperationEnds ==
  /\ step = "fetching"
  /\ OperationEnds \/ StreamTimesOut
  /\ UNCHANGED session

\* The clock waits for queued handlers and for expired timers.
SessionTick ==
  /\ IF step = "fetching" THEN Waits ELSE ended = Pending /\ now < deadline
  /\ step # "closed"
  /\ now' = now + 1
  /\ UNCHANGED <<session, fetch>>

Finished == step = "closed" /\ UNCHANGED all_vars

SessionHandler == OnRead \/ FetchStep \/ OnWrite

SessionNext ==
  SessionHandler \/ ClientActs \/ ClientTimesOut \/ FetchOperationEnds \/ SessionTick \/ Finished

SessionSpec == SessionInit /\ [][SessionNext]_all_vars

\* Queued handlers run, timers fire and the resolver answers; the client and
\* the upstream need not do anything.
Fairness ==
  /\ WF_all_vars(SessionHandler)
  /\ WF_all_vars(ClientTimesOut)
  /\ WF_all_vars(step = "fetching" /\ StreamTimesOut /\ UNCHANGED session)
  /\ WF_all_vars(step = "fetching" /\ stage = "resolve" /\ OperationEnds /\ UNCHANGED session)
  /\ WF_all_vars(SessionTick)

FairSpec == SessionSpec /\ Fairness

-----------------------------------------------------------------------------

Budget == ConnectTimeout + WriteTimeout + ReadTimeout

\* How long the fetch of this request has waited for the resolver.
Lookup ==
  IF step = "fetching" /\ stage = "resolve" THEN now - arrived
  ELSE IF resolved_at > arrived THEN resolved_at - arrived ELSE 0

\* The response of a request that came while do_read()'s time still held the
\* name lookup and the three limits of a fetch is written with time left; what
\* earlier requests on the connection took is not held against it.
WritesInTime ==
  step = "writing" /\ (arrived - read_began) + Lookup + Budget < SessionTimeout
    => write_began < deadline

\* However client and upstream behave, a fetch ends when the lookup and its three
\* limits are over, and a session outlives do_read()'s time only while they
\* last: a response begun after the deadline is not waited for.
HeldBounded ==
  LET fetches == now - arrived <= Lookup + Budget IN
    /\ step = "fetching" => fetches
    /\ step \in {"reading", "writing"} => fetches \/ now - read_began <= SessionTimeout

\* The session's deadline never cuts a fetch: every fetch is answered, late or
\* not, and a silent client is dropped, so that no step of a session lasts
\* for ever.
StepsEnd ==
  /\ step = "reading" ~> step # "reading"
  /\ step = "fetching" ~> step = "writing"
  /\ step = "writing" ~> step # "writing"
=============================================================================
