--------------------------- MODULE UpstreamProxy ---------------------------
(***************************************************************************)
(* One fetch from an upstream (src/upstream_proxy.cpp), a chain of four    *)
(* asynchronous operations: resolve, connect, write, read.  Each handler   *)
(* starts the next operation or ends the fetch, always through complete(). *)
(* The stream (Beast's tcp_stream, external) ends an operation with a      *)
(* timeout error once the time last given to expires_after() is reached.   *)
(* Handlers are run promptly: the clock does not advance while one is      *)
(* queued.                                                                 *)
(***************************************************************************)
EXTENDS Integers

CONSTANTS
  ConnectTimeout, WriteTimeout, ReadTimeout,    \* ProxyTimeouts, in ticks
  MaxResolve    \* bound: how long the resolver takes

ASSUME TimeoutAssumption ==
  {ConnectTimeout, WriteTimeout, ReadTimeout, MaxResolve} \subseteq Nat \ {0}

VARIABLES
  stage,        \* the operation under way, or "done"
  outcome,      \* how it ended, once its handler is queued
  expiry,       \* when the stream times out, NoExpiry before expires_after()
  completed,    \* completed_
  result,       \* status of the response given to the completion handler
  now,
  began,        \* history: when the operation under way began
  resolved_at   \* history: when the resolver answered

vars == <<stage, outcome, expiry, completed, result, now, began, resolved_at>>

Pending == "pending"
NoExpiry == -1
NoResult == 0

-----------------------------------------------------------------------------

\* run(): the resolver is asked, and no time limit is set for it.
Init ==
  /\ stage = "resolve"
  /\ outcome = Pending
  /\ expiry = NoExpiry
  /\ completed = FALSE
  /\ result = NoResult
  /\ now = 0
  /\ began = 0
  /\ resolved_at = 0

\* complete(): the first call hands the response over and closes the stream.
Complete(status) ==
  /\ completed' = TRUE
  /\ IF completed
     THEN UNCHANGED <<stage, result>>
     ELSE stage' = "done" /\ result' = status
  /\ outcome' = Pending
  /\ UNCHANGED <<expiry, began>>

\* fail(): the status of the response for an error.
FailStatus(error) == IF error = "timeout" THEN 504 ELSE 502

\* Mutant: an operation starts under the time limit of the one before it.
StartKeepingExpiry(next, timeout) ==
  /\ stage' = next
  /\ outcome' = Pending
  /\ expiry' = IF expiry = NoExpiry THEN now + timeout ELSE expiry
  /\ began' = now
  /\ UNCHANGED <<completed, result>>

\* expires_after(timeout), then the next operation.
Start(next, timeout) ==
  /\ stage' = next
  /\ outcome' = Pending
  /\ expiry' = now + timeout
  /\ began' = now
  /\ UNCHANGED <<completed, result>>

\* The handler of operation `op', when it failed.
Fail(op) ==
  /\ stage = op
  /\ outcome \in {"error", "timeout"}
  /\ Complete(FailStatus(outcome))
  /\ resolved_at' = IF op = "resolve" THEN now ELSE resolved_at
  /\ UNCHANGED now

Succeeded(op) == stage = op /\ outcome = "ok" /\ UNCHANGED now

on_resolve ==
  \/ Fail("resolve")
  \/ Succeeded("resolve") /\ Start("connect", ConnectTimeout) /\ resolved_at' = now

on_connect ==
  \/ Fail("connect")
  \/ Succeeded("connect") /\ Start("write", WriteTimeout) /\ UNCHANGED resolved_at

on_write ==
  \/ Fail("write")
  \/ Succeeded("write") /\ Start("read", ReadTimeout) /\ UNCHANGED resolved_at

on_read ==
  \/ Fail("read")
  \/ Succeeded("read") /\ Complete(200) /\ UNCHANGED resolved_at

\* External: the resolver, the network or the upstream ends the operation.
OperationEnds ==
  /\ stage # "done"
  /\ outcome = Pending
  /\ outcome' \in {"ok", "error"}
  /\ UNCHANGED <<stage, expiry, completed, result, now, began, resolved_at>>

\* External: the stream's timer ends the operation.
StreamTimesOut ==
  /\ stage \in {"connect", "write", "read"}
  /\ outcome = Pending
  /\ now >= expiry
  /\ outcome' = "timeout"
  /\ UNCHANGED <<stage, expiry, completed, result, now, began, resolved_at>>

\* The clock waits for queued handlers and for an expired timer.
Waits ==
  /\ stage # "done"
  /\ stage = "resolve" => now - began < MaxResolve
  /\ outcome = Pending
  /\ expiry # NoExpiry => now < expiry

Tick ==
  /\ Waits
  /\ now' = now + 1
  /\ UNCHANGED <<stage, outcome, expiry, completed, result, began, resolved_at>>

Handler == on_resolve \/ on_connect \/ on_write \/ on_read

Next == Handler \/ OperationEnds \/ StreamTimesOut \/ Tick

Spec == Init /\ [][Next]_vars

-----------------------------------------------------------------------------

Timeout == [connect |-> ConnectTimeout, write |-> WriteTimeout, read |-> ReadTimeout]

\* The variables of a fetch have their types.
TypeOK ==
  /\ stage \in {"resolve", "connect", "write", "read", "done"}
  /\ outcome \in {Pending, "ok", "error", "timeout"}
  /\ expiry \in Nat \cup {NoExpiry}
  /\ completed \in BOOLEAN
  /\ result \in {NoResult, 200, 502, 504}
  /\ {now, began, resolved_at} \subseteq Nat

\* Once the resolver has answered, the fetch lasts no longer than the three time
\* limits together.
WithinBudget ==
  stage \in DOMAIN Timeout =>
    now - resolved_at <= ConnectTimeout + WriteTimeout + ReadTimeout

\* A fetch is answered with 504 exactly when one of its operations was given
\* its full time limit and did not end within it; what the operations before
\* it took is not held against it.
TimeoutsAreEarned ==
  [][result' # result =>
       (result' = 504 <=> outcome = "timeout" /\ now - began = Timeout[stage])]_vars
=============================================================================
