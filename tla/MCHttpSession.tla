--------------------------- MODULE MCHttpSession ---------------------------
(* Model-checking instances of HttpSession. *)
EXTENDS HttpSession, TLC

Get(t, keep_alive) == [target |-> t, plain |-> TRUE, keep_alive |-> keep_alive]
Bypass(t, keep_alive) == [target |-> t, plain |-> FALSE, keep_alive |-> keep_alive]

\* Every kind of request of one target, on persistent connections and others,
\* and cacheable requests of the other targets.
AllKinds ==
  LET one == CHOOSE t \in Targets : TRUE
  IN  {Get(t, TRUE) : t \in Targets \cup {Local}} \cup {Get(one, FALSE), Bypass(one, TRUE)}

\* Cacheable requests on persistent connections.
Cacheable == {Get(t, TRUE) : t \in Targets}

\* Every request that is read is answered.  It is checked of one session, which
\* stands for all of them: sessions are interchangeable.
RequestAnswered == Answered(CHOOSE s \in Sessions : TRUE)

\* Sessions are interchangeable: they all start alike and no property of the
\* runs that use this names one.
Symmetry == Permutations(Sessions)
=============================================================================
