--------------------------- MODULE ResponseCache ---------------------------
(***************************************************************************)
(* The response cache (src/response_cache.cpp): a map of entries with an   *)
(* expiry time and a list of keys in order of use.  get() and put() hold   *)
(* the mutex throughout, so each is one atomic action, and each reads the  *)
(* clock once, with the mutex held.                                        *)
(***************************************************************************)
EXTENDS Integers, Sequences, FiniteSets, Functions

CONSTANTS
  Keys, Responses,
  Capacity,     \* CacheOptions::capacity
  Ttl,          \* CacheOptions::ttl, in ticks of the clock
  MaxTime,      \* bound: the clock stops here
  MaxUses       \* bound: hits and puts in a behaviour

\* The constructor throws std::invalid_argument on capacity zero.
ASSUME CacheAssumption ==
  /\ Capacity \in Nat \ {0}
  /\ Ttl \in Nat
  /\ MaxTime \in Nat
  /\ MaxUses \in Nat

VARIABLES
  entries,      \* entries_: the cached keys, with response and expires_at
  lru,          \* lru_: the front is the key used last
  now,          \* std::chrono::steady_clock
  last,         \* the last call, its key, and the response it returned or was
                \* given
  used,         \* history: per key, the number of its last hit or put
  uses,         \* history: how many hits and puts there were
  latest        \* history: per key, the response and the time of the last put

vars == <<entries, lru, now, last, used, uses, latest>>

Nothing == "nothing"    \* std::nullopt

ASSUME NothingAssumption == Nothing \notin Keys /\ Nothing \notin Responses

-----------------------------------------------------------------------------

\* Entry::lru_position: where the list holds key k.
Position(l, k) == CHOOSE i \in DOMAIN l : l[i] = k

\* lru_.erase(position)
erase(l, i) == SubSeq(l, 1, i - 1) \o SubSeq(l, i + 1, Len(l))
Unlinked(l, k) == erase(l, Position(l, k))

\* Mutant: the list keeps the order in which keys were inserted.
SplicedNowhere(l, k) == l

\* lru_.splice(lru_.begin(), lru_, position)
Spliced(l, k) == <<k>> \o Unlinked(l, k)

Erased(e, k) == [j \in DOMAIN e \ {k} |-> e[j]]

Stored(e, k, entry) == [j \in DOMAIN e \cup {k} |-> IF j = k THEN entry ELSE e[j]]

ExpiresAt(time) == time + Ttl

\* Mutant: an entry is served for one tick too long.
ExpiredLate(entry, time) == time > entry.expires_at

Expired(entry, time) == time >= entry.expires_at

\* Mutant: the cache is full one entry too late.
FullLate(e) == Cardinality(DOMAIN e) = Capacity + 1

Full(e) == Cardinality(DOMAIN e) = Capacity

\* A hit or a put of key k is the latest use of any key.
Use(k) ==
  /\ uses < MaxUses
  /\ uses' = uses + 1
  /\ used' = [used EXCEPT ![k] = uses + 1]

-----------------------------------------------------------------------------

Init ==
  /\ entries = [k \in {} |-> Nothing]
  /\ lru = <<>>
  /\ now = 0
  /\ last = [op |-> Nothing, key |-> Nothing, response |-> Nothing]
  /\ used = [k \in Keys |-> 0]
  /\ uses = 0
  /\ latest = [k \in Keys |-> [response |-> Nothing, at |-> 0]]

\* get(k), no entry.
GetUnknown(k) ==
  /\ k \notin DOMAIN entries
  /\ last' = [op |-> "get", key |-> k, response |-> Nothing]
  /\ UNCHANGED <<entries, lru, now, used, uses, latest>>

\* Mutant: an expired entry leaves its key in the list.
GetExpiredKeepsLink(k) ==
  /\ k \in DOMAIN entries
  /\ Expired(entries[k], now)
  /\ entries' = Erased(entries, k)
  /\ last' = [op |-> "get", key |-> k, response |-> Nothing]
  /\ UNCHANGED <<lru, now, used, uses, latest>>

\* get(k), an entry whose time has come.
GetExpired(k) ==
  /\ k \in DOMAIN entries
  /\ Expired(entries[k], now)
  /\ lru' = Unlinked(lru, k)
  /\ entries' = Erased(entries, k)
  /\ last' = [op |-> "get", key |-> k, response |-> Nothing]
  /\ UNCHANGED <<now, used, uses, latest>>

\* get(k), a hit.
GetHit(k) ==
  /\ k \in DOMAIN entries
  /\ ~Expired(entries[k], now)
  /\ lru' = Spliced(lru, k)
  /\ last' = [op |-> "get", key |-> k, response |-> entries[k].response]
  /\ Use(k)
  /\ UNCHANGED <<entries, now, latest>>

\* Mutant: an entry keeps its response when it is put again.
PutExistingKeeping(k, r) ==
  /\ k \in DOMAIN entries
  /\ entries' = [entries EXCEPT ![k].expires_at = ExpiresAt(now)]
  /\ lru' = Spliced(lru, k)
  /\ Use(k)
  /\ latest' = [latest EXCEPT ![k] = [response |-> r, at |-> now]]
  /\ last' = [op |-> "put", key |-> k, response |-> r]
  /\ UNCHANGED now

\* put(k, r), an entry to replace.
PutExisting(k, r) ==
  /\ k \in DOMAIN entries
  /\ entries' = Stored(entries, k, [response |-> r, expires_at |-> ExpiresAt(now)])
  /\ lru' = Spliced(lru, k)
  /\ Use(k)
  /\ latest' = [latest EXCEPT ![k] = [response |-> r, at |-> now]]
  /\ last' = [op |-> "put", key |-> k, response |-> r]
  /\ UNCHANGED now

\* lru_.back() and lru_.pop_back().
back(l) == l[Len(l)]
pop_back(l) == SubSeq(l, 1, Len(l) - 1)

\* put(k, r), a new entry, in place of the one used longest ago when the cache
\* is full.
PutNew(k, r) ==
  /\ k \notin DOMAIN entries
  /\ LET full == Full(entries)
         kept == IF full THEN Erased(entries, back(lru)) ELSE entries
     IN  /\ entries' = Stored(kept, k, [response |-> r, expires_at |-> ExpiresAt(now)])
         /\ lru' = <<k>> \o (IF full THEN pop_back(lru) ELSE lru)
  /\ Use(k)
  /\ latest' = [latest EXCEPT ![k] = [response |-> r, at |-> now]]
  /\ last' = [op |-> "put", key |-> k, response |-> r]
  /\ UNCHANGED now

Tick ==
  /\ now < MaxTime
  /\ now' = now + 1
  /\ UNCHANGED <<entries, lru, last, used, uses, latest>>

Next ==
  \/ \E k \in Keys :
       \/ GetUnknown(k) \/ GetExpired(k) \/ GetHit(k)
       \/ \E r \in Responses : PutExisting(k, r) \/ PutNew(k, r)
  \/ Tick

Spec == Init /\ [][Next]_vars

-----------------------------------------------------------------------------

\* The entries, the list, the clock and the histories have their types.
TypeOK ==
  /\ DOMAIN entries \subseteq Keys
  /\ \A k \in DOMAIN entries :
       entries[k] \in [response : Responses, expires_at : Nat]
  /\ lru \in Seq(Keys)
  /\ now \in Nat
  /\ last \in [op : {"get", "put", Nothing}, key : Keys \cup {Nothing},
              response : Responses \cup {Nothing}]
  /\ used \in [Keys -> Nat]
  /\ uses \in Nat
  /\ latest \in [Keys -> [response : Responses \cup {Nothing}, at : Nat]]

\* The list holds every cached key once and no other: no lru_position dangles,
\* and lru_.back() always names an entry to evict.
ListMatchesEntries ==
  /\ IsInjective(lru)
  /\ Range(lru) = DOMAIN entries

\* put() never lets the cache outgrow its capacity.
WithinCapacity == Cardinality(DOMAIN entries) <= Capacity

\* The list is in order of last use, the latest in front, over any sequence of
\* hits, replacements, evictions and expiries.
RecencyOrder ==
  \A i, j \in DOMAIN lru : i < j => used[lru[i]] > used[lru[j]]

\* A key that get() would hit has the response of its last put, and that put is
\* less than the TTL ago: hits do not prolong an entry's life.
HitsAreFresh ==
  \A k \in DOMAIN entries :
    ~Expired(entries[k], now) =>
      /\ entries[k].response = latest[k].response
      /\ now < latest[k].at + Ttl

\* An entry leaves the cache before it expires only when a put finds the cache
\* full, and then it is the one used longest ago.
EvictsLeastRecent ==
  [][\A k \in DOMAIN entries \ DOMAIN entries' :
       Expired(entries[k], now)
         \/ /\ Full(entries)
            /\ \A j \in DOMAIN entries : used[k] <= used[j]]_vars

\* Per key, what a get() would find now.
Found ==
  [k \in Keys |-> IF k \in DOMAIN entries /\ ~Expired(entries[k], now)
                  THEN entries[k].response ELSE Nothing]

\* The cache keeps its promise to the sessions.
Contract == INSTANCE CacheContract WITH stored <- Found

\* Every step of the cache is a step its contract allows.
KeepsContract == Contract!Spec
=============================================================================
