--------------------------- MODULE CacheContract ---------------------------
(***************************************************************************)
(* What the response cache promises the sessions: a get answers the value  *)
(* of the latest put of the key, or nothing once the value was forgotten.  *)
(* A value is forgotten because it expired or, at most one per put, to     *)
(* make room.  ResponseCache implements this; HttpSession relies on it.    *)
(***************************************************************************)
CONSTANTS Keys, Responses

VARIABLES
  stored,       \* per key, the response a get would find, or Nothing
  last          \* the last call: get or put, its key, and the response it
                \* returned or was given

vars == <<stored, last>>

Nothing == "nothing"

Init ==
  /\ stored = [k \in Keys |-> Nothing]
  /\ last = [op |-> Nothing, key |-> Nothing, response |-> Nothing]

Get(k) ==
  /\ last' = [op |-> "get", key |-> k, response |-> stored[k]]
  /\ UNCHANGED stored

Put(k, r) ==
  /\ \E evicted \in SUBSET (Keys \ {k}) :
       /\ \A i, j \in evicted : i = j
       /\ stored' = [j \in Keys |-> IF j = k THEN r
                                    ELSE IF j \in evicted THEN Nothing ELSE stored[j]]
  /\ last' = [op |-> "put", key |-> k, response |-> r]

\* Time passes.
Expire ==
  /\ \E expired \in SUBSET Keys :
       stored' = [j \in Keys |-> IF j \in expired THEN Nothing ELSE stored[j]]
  /\ UNCHANGED last

Next ==
  \/ \E k \in Keys : Get(k) \/ \E r \in Responses : Put(k, r)
  \/ Expire

Spec == Init /\ [][Next]_vars
=============================================================================
