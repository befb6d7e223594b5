-------------------------- MODULE RequestCoalescer --------------------------
(***************************************************************************)
(* Request coalescing (src/request_coalescer.cpp) and the protocol its     *)
(* callers follow (HttpSession).  The first caller to ask for a key starts *)
(* a flight and leads it; callers that ask while the flight is open leave  *)
(* a callback.  The leader ends the flight with complete(), which takes    *)
(* the callbacks and erases the flight under the mutex and then, with the  *)
(* mutex released, invokes them one by one.  Other callers run between any *)
(* two of those steps.                                                     *)
(***************************************************************************)
EXTENDS Integers, Sequences, Functions

CONSTANTS
  Callers,      \* the sessions; a callback is the caller that left it
  Keys,         \* cache keys
  NoKey

VARIABLES
  flights,      \* flights_: for each open key, the callbacks left so far
  role,         \* what each caller is doing
  key,          \* the key of the caller's request, NoKey when idle
  waiters,      \* the vector local to a complete() that is under way
  joined        \* history: who led the flight when a waiter joined it

vars == <<flights, role, key, waiters, joined>>

ASSUME NoKeyAssumption == NoKey \notin Keys

Roles == {"idle", "leader", "notifying", "waiter"}

-----------------------------------------------------------------------------
(* The operations on flights_, as functions of its value. *)

\* try_emplace inserts iff the key has no flight.
Leads(fl, k) == k \notin DOMAIN fl

\* Mutant: a waiter's callback replaces the ones before it.
JoinedOverwriting(fl, k, c) ==
  IF Leads(fl, k)
  THEN [j \in DOMAIN fl \cup {k} |-> IF j = k THEN <<>> ELSE fl[j]]
  ELSE [fl EXCEPT ![k] = <<c>>]

\* flights_ after join_or_start(k, c).
Joined(fl, k, c) ==
  IF Leads(fl, k)
  THEN [j \in DOMAIN fl \cup {k} |-> IF j = k THEN <<>> ELSE fl[j]]
  ELSE [fl EXCEPT ![k] = Append(@, c)]

\* The callbacks complete(k) takes; none when it finds no flight.
Taken(fl, k) == IF k \in DOMAIN fl THEN fl[k] ELSE <<>>

\* Mutant: the flight is emptied and left open.
ErasedEmptied(fl, k) == [j \in DOMAIN fl |-> IF j = k THEN <<>> ELSE fl[j]]

\* flights_ after the locked part of complete(k).
Erased(fl, k) == [j \in DOMAIN fl \ {k} |-> fl[j]]

-----------------------------------------------------------------------------

Init ==
  /\ flights = [k \in {} |-> <<>>]
  /\ role = [c \in Callers |-> "idle"]
  /\ key = [c \in Callers |-> NoKey]
  /\ waiters = [c \in Callers |-> <<>>]
  /\ joined = [c \in Callers |-> {}]

Leaders(k) == {c \in Callers : role[c] = "leader" /\ key[c] = k}

\* join_or_start(k, c) returning Role::leader.
Start(c, k) ==
  /\ role[c] = "idle"
  /\ Leads(flights, k)
  /\ flights' = Joined(flights, k, c)
  /\ role' = [role EXCEPT ![c] = "leader"]
  /\ key' = [key EXCEPT ![c] = k]
  /\ UNCHANGED <<waiters, joined>>

\* join_or_start(k, c) returning Role::waiter.
Join(c, k) ==
  /\ role[c] = "idle"
  /\ ~Leads(flights, k)
  /\ flights' = Joined(flights, k, c)
  /\ role' = [role EXCEPT ![c] = "waiter"]
  /\ key' = [key EXCEPT ![c] = k]
  /\ joined' = [joined EXCEPT ![c] = Leaders(k)]
  /\ UNCHANGED waiters

\* complete(key[c]), the part under the mutex.
Take(c) ==
  /\ role[c] = "leader"
  /\ waiters' = [waiters EXCEPT ![c] = Taken(flights, key[c])]
  /\ flights' = Erased(flights, key[c])
  /\ role' = [role EXCEPT ![c] = "notifying"]
  /\ UNCHANGED <<key, joined>>

\* complete(), one turn of the loop that invokes the callbacks.
Notify(c) ==
  /\ role[c] = "notifying"
  /\ waiters[c] # <<>>
  /\ LET w == Head(waiters[c])
     IN  /\ role' = [role EXCEPT ![w] = "idle"]
         /\ key' = [key EXCEPT ![w] = NoKey]
         /\ joined' = [joined EXCEPT ![w] = {}]
  /\ waiters' = [waiters EXCEPT ![c] = Tail(@)]
  /\ UNCHANGED flights

\* Mutant: the fetch calls its completion handler, and with it complete(), again.
ReturnCompletingAgain(c) ==
  /\ role[c] = "notifying"
  /\ waiters[c] = <<>>
  /\ role' = [role EXCEPT ![c] = "leader"]
  /\ UNCHANGED <<flights, key, waiters, joined>>

\* complete() returns.
Return(c) ==
  /\ role[c] = "notifying"
  /\ waiters[c] = <<>>
  /\ role' = [role EXCEPT ![c] = "idle"]
  /\ key' = [key EXCEPT ![c] = NoKey]
  /\ UNCHANGED <<flights, waiters, joined>>

Next ==
  \E c \in Callers :
    \/ \E k \in Keys : Start(c, k) \/ Join(c, k)
    \/ Take(c)
    \/ Notify(c)
    \/ Return(c)

Spec == Init /\ [][Next]_vars

\* A leader's fetch ends (every stage of it has a deadline, or the resolver's
\* answer), and a running complete() runs to its end.  Nobody has to ask.
Fairness == \A c \in Callers : WF_vars(Take(c) \/ Notify(c) \/ Return(c))

FairSpec == Spec /\ Fairness

-----------------------------------------------------------------------------

\* Where the callback of caller w is held: in flights_, and in the local vector
\* of a complete() under way.
FlightsHolding(w) == {k \in DOMAIN flights : w \in Range(flights[k])}

VectorsHolding(w) == {c \in Callers : w \in Range(waiters[c])}

\* flights_, the callers' roles and the local vectors have their types, and a
\* caller names a key exactly while it is busy with it.
TypeOK ==
  /\ DOMAIN flights \subseteq Keys
  /\ \A k \in DOMAIN flights : flights[k] \in Seq(Callers)
  /\ role \in [Callers -> Roles]
  /\ key \in [Callers -> Keys \cup {NoKey}]
  /\ \A c \in Callers : key[c] = NoKey <=> role[c] = "idle"
  /\ waiters \in [Callers -> Seq(Callers)]
  /\ joined \in [Callers -> SUBSET Callers]

\* A key has an open flight exactly while one caller leads it, and never two:
\* no second upstream fetch starts for a key whose flight is open, and no
\* flight is left open without a leader to end it.
OneLeader ==
  \A k \in Keys :
    /\ k \in DOMAIN flights <=> Leaders(k) # {}
    /\ \A c, d \in Leaders(k) : c = d

\* The callback of a waiter is held in exactly one place, and nobody else's is
\* held at all: a waiter is neither forgotten nor answered twice.
OneCallback ==
  /\ \A k \in DOMAIN flights : IsInjective(flights[k])
  /\ \A c \in Callers : IsInjective(waiters[c])
  /\ \A w \in Callers :
       IF role[w] = "waiter"
       THEN \/ /\ \E k \in DOMAIN flights : FlightsHolding(w) = {k}
               /\ VectorsHolding(w) = {}
            \/ /\ FlightsHolding(w) = {}
               /\ \E c \in Callers : VectorsHolding(w) = {c}
       ELSE FlightsHolding(w) = {} /\ VectorsHolding(w) = {}

\* complete() answers only the callers that joined the flight it ends, for the
\* key they asked for, although others start and join flights of the same key
\* while it invokes the callbacks.
OwnFlight ==
  \A c \in Callers : \A w \in Range(waiters[c]) :
    /\ joined[w] = {c}
    /\ key[w] = key[c]

\* Every waiter is answered.
WaiterAnswered == \A c \in Callers : role[c] = "waiter" ~> role[c] # "waiter"
=============================================================================
