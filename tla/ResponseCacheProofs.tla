------------------------- MODULE ResponseCacheProofs -------------------------
(***************************************************************************)
(* Proofs about ResponseCache, for every set of keys and responses, every  *)
(* capacity and every time to live.                                        *)
(***************************************************************************)
EXTENDS ResponseCache, FiniteSetTheorems, TLAPS

\* The list l is in descending order of f.
Ordered(l, f) == \A i, j \in DOMAIN l : i < j => f[l[i]] > f[l[j]]

-----------------------------------------------------------------------------

\* Lists without repetition: k is at one place, and unlinking it closes the gap.
LEMMA PositionIsPlace ==
  ASSUME NEW S, NEW l \in Seq(S), NEW k \in Range(l)
  PROVE  Position(l, k) \in 1..Len(l) /\ l[Position(l, k)] = k
<1>1. \E i \in DOMAIN l : l[i] = k
  BY DEF Range
<1> QED
  BY <1>1 DEF Position

\* Where element i of the shortened list was before.
From(p, i) == IF i < p THEN i ELSE i + 1

\* lru_.erase() takes one key out and leaves the others in their order.
LEMMA EraseElements ==
  ASSUME NEW S, NEW l \in Seq(S), NEW p \in 1..Len(l)
  PROVE  /\ erase(l, p) \in Seq(S)
         /\ DOMAIN erase(l, p) = 1..(Len(l) - 1)
         /\ \A i \in 1..(Len(l) - 1) : From(p, i) \in 1..Len(l) /\ erase(l, p)[i] = l[From(p, i)]
<1>0. PICK n \in Nat : n = Len(l) /\ p \in 1..n
  OBVIOUS
<1>1. /\ SubSeq(l, 1, p - 1) \in Seq(S) /\ Len(SubSeq(l, 1, p - 1)) = p - 1
      /\ \A i \in 1..(p - 1) : SubSeq(l, 1, p - 1)[i] = l[i]
  BY <1>0
<1>2. /\ SubSeq(l, p + 1, n) \in Seq(S) /\ Len(SubSeq(l, p + 1, n)) = n - p
      /\ \A i \in 1..(n - p) : SubSeq(l, p + 1, n)[i] = l[p + i]
  BY <1>0
<1>3. PICK a \in Seq(S), b \in Seq(S) :
        /\ a = SubSeq(l, 1, p - 1)
        /\ b = SubSeq(l, p + 1, n)
  BY <1>1, <1>2, Zenon
<1>4. /\ Len(a) = p - 1 /\ \A i \in 1..(p - 1) : a[i] = l[i]
      /\ Len(b) = n - p /\ \A i \in 1..(n - p) : b[i] = l[p + i]
  BY <1>1, <1>2, <1>3
<1>5. PICK m : m = a \o b
  BY Zenon
<1>6. erase(l, p) = m
  BY <1>0, <1>3, <1>5 DEF erase
<1>7. /\ m \in Seq(S)
      /\ Len(m) = Len(a) + Len(b)
      /\ \A i \in 1..(Len(a) + Len(b)) : m[i] = IF i <= Len(a) THEN a[i] ELSE b[i - Len(a)]
  BY <1>5
<1>8. DOMAIN m = 1..(n - 1)
  BY <1>0, <1>4, <1>7
<1>9. ASSUME NEW i \in 1..(n - 1)
      PROVE  From(p, i) \in 1..n /\ m[i] = l[From(p, i)]
  <2>1. m[i] = IF i <= p - 1 THEN a[i] ELSE b[i - (p - 1)]
    BY <1>0, <1>4, <1>7
  <2>2. CASE i < p
    BY <1>0, <1>4, <2>1, <2>2 DEF From
  <2>3. CASE i >= p
    <3>1. i - (p - 1) \in 1..(n - p) /\ p + (i - (p - 1)) = i + 1
      BY <1>0, <2>3
    <3>2. m[i] = b[i - (p - 1)]
      BY <1>0, <2>1, <2>3
    <3>3. b[i - (p - 1)] = l[p + (i - (p - 1))]
      BY <1>4, <3>1
    <3> QED
      BY <1>0, <2>3, <3>1, <3>2, <3>3 DEF From
  <2> QED
    BY <1>0, <2>2, <2>3
<1> QED
  BY <1>0, <1>6, <1>7, <1>8, <1>9

\* The list without k holds the other keys once each, in the same order.
LEMMA UnlinkedList ==
  ASSUME NEW S, NEW l \in Seq(S), IsInjective(l), NEW k \in Range(l)
  PROVE  /\ Unlinked(l, k) \in Seq(S)
         /\ IsInjective(Unlinked(l, k))
         /\ Range(Unlinked(l, k)) = Range(l) \ {k}
         /\ \A f : Ordered(l, f) => Ordered(Unlinked(l, k), f)
<1>0. PICK n \in Nat : n = Len(l) /\ DOMAIN l = 1..n
  OBVIOUS
<1>1. PICK p \in 1..n : p = Position(l, k) /\ l[p] = k
  BY <1>0, PositionIsPlace
<1>2. PICK u : u = Unlinked(l, k)
  OBVIOUS
<1>3. /\ u \in Seq(S)
      /\ DOMAIN u = 1..(n - 1)
      /\ \A i \in 1..(n - 1) : From(p, i) \in 1..n /\ u[i] = l[From(p, i)]
  <2>1. u = erase(l, p)
    BY <1>1, <1>2 DEF Unlinked
  <2>2. /\ erase(l, p) \in Seq(S)
        /\ DOMAIN erase(l, p) = 1..(n - 1)
        /\ \A i \in 1..(n - 1) : From(p, i) \in 1..n /\ erase(l, p)[i] = l[From(p, i)]
    BY <1>0, EraseElements
  <2> QED
    BY <2>1, <2>2
<1>5. \A i \in 1..n : i # p => \E j \in 1..(n - 1) : From(p, j) = i
  <2> TAKE i \in 1..n
  <2>1. CASE i < p
    BY <2>1 DEF From
  <2>2. CASE i > p
    <3>1. i - 1 \in 1..(n - 1) /\ From(p, i - 1) = i
      BY <2>2 DEF From
    <3> QED
      BY <3>1
  <2> QED
    BY <2>1, <2>2
<1>7. IsInjective(u)
  <2> SUFFICES ASSUME NEW i \in 1..(n - 1), NEW j \in 1..(n - 1), u[i] = u[j] PROVE i = j
    BY <1>3 DEF IsInjective
  <2>1. From(p, i) = From(p, j)
    BY <1>0, <1>3 DEF IsInjective
  <2> QED
    BY <2>1 DEF From
<1>8. Range(u) = Range(l) \ {k}
  <2>1. ASSUME NEW x \in Range(u) PROVE x \in Range(l) /\ x # k
    <3>1. PICK i \in 1..(n - 1) : x = l[From(p, i)]
      BY <1>3, Zenon DEF Range
    <3>2. From(p, i) \in 1..n /\ From(p, i) # p
      BY <1>1, <3>1 DEF From
    <3> QED
      BY <1>0, <1>1, <3>1, <3>2 DEF Range, IsInjective
  <2>2. ASSUME NEW x \in Range(l), x # k PROVE x \in Range(u)
    <3>1. PICK i \in 1..n : l[i] = x /\ i # p
      BY <1>1, <1>0, <2>2 DEF Range
    <3>2. PICK j \in 1..(n - 1) : From(p, j) = i
      BY <1>5, <3>1
    <3> QED
      BY <1>3, <3>1, <3>2, Zenon DEF Range
  <2> QED
    BY <2>1, <2>2
<1>9. \A f : Ordered(l, f) => Ordered(u, f)
  <2> SUFFICES ASSUME NEW f, Ordered(l, f), NEW i \in DOMAIN u, NEW j \in DOMAIN u, i < j
               PROVE  f[u[i]] > f[u[j]]
    BY DEF Ordered
  <2>1. i \in 1..(n - 1) /\ j \in 1..(n - 1)
    BY <1>3
  <2>2. From(p, i) \in DOMAIN l /\ From(p, j) \in DOMAIN l /\ From(p, i) < From(p, j)
    <3>1. From(p, i) \in 1..n /\ From(p, j) \in 1..n
      BY <1>3, <2>1
    <3>2. From(p, i) < From(p, j)
      BY <2>1 DEF From
    <3> QED
      BY <1>0, <3>1, <3>2
  <2>3. u[i] = l[From(p, i)] /\ u[j] = l[From(p, j)]
    BY <1>3, <2>1
  <2> QED
    BY <2>2, <2>3 DEF Ordered
<1> QED
  BY <1>2, <1>3, <1>7, <1>8, <1>9

\* A key in front of a list that does not hold it.
LEMMA PushedList ==
  ASSUME NEW S, NEW l \in Seq(S), IsInjective(l), NEW k \in S, k \notin Range(l)
  PROVE  /\ <<k>> \o l \in Seq(S)
         /\ IsInjective(<<k>> \o l)
         /\ Range(<<k>> \o l) = Range(l) \cup {k}
         /\ DOMAIN (<<k>> \o l) = 1..(Len(l) + 1)
         /\ (<<k>> \o l)[1] = k
         /\ \A i \in 2..(Len(l) + 1) : i - 1 \in DOMAIN l /\ (<<k>> \o l)[i] = l[i - 1]
<1>0. PICK n \in Nat : n = Len(l) /\ DOMAIN l = 1..n
  OBVIOUS
<1>1. PICK m : m = <<k>> \o l
  BY Zenon
<1>2. /\ m \in Seq(S)
      /\ DOMAIN m = 1..(n + 1)
      /\ m[1] = k
      /\ \A i \in 2..(n + 1) : i - 1 \in DOMAIN l /\ m[i] = l[i - 1]
  BY <1>0, <1>1
<1>3. ASSUME NEW i \in 1..n PROVE i + 1 \in DOMAIN m /\ m[i + 1] = l[i]
  <2>1. i + 1 \in 2..(n + 1) /\ i + 1 \in 1..(n + 1) /\ (i + 1) - 1 = i
    BY <1>0
  <2>2. m[i + 1] = l[(i + 1) - 1]
    BY <1>2, <2>1
  <2> QED
    BY <1>2, <2>1, <2>2
<1>4. Range(m) = Range(l) \cup {k}
  <2>1. ASSUME NEW x \in Range(m) PROVE x \in Range(l) \cup {k}
    <3>1. PICK i \in 1..(n + 1) : x = m[i]
      BY <1>2 DEF Range
    <3>2. CASE i = 1
      BY <1>2, <3>1, <3>2
    <3>3. CASE i \in 2..(n + 1)
      <4>1. i - 1 \in DOMAIN l /\ x = l[i - 1]
        BY <1>2, <3>1, <3>3
      <4> QED
        BY <4>1, Zenon DEF Range
    <3> QED
      BY <1>0, <3>2, <3>3
  <2>2. ASSUME NEW x \in Range(l) PROVE x \in Range(m)
    <3>1. PICK i \in 1..n : x = l[i]
      BY <1>0 DEF Range
    <3> QED
      BY <1>3, <3>1 DEF Range
  <2>3. k \in Range(m)
    BY <1>0, <1>2 DEF Range
  <2> QED
    BY <2>1, <2>2, <2>3
<1>5. IsInjective(m)
  <2> SUFFICES ASSUME NEW i \in 1..(n + 1), NEW j \in 1..(n + 1), m[i] = m[j], i # j
               PROVE  FALSE
    BY <1>0, <1>2 DEF IsInjective
  <2>1. \A h \in 2..(n + 1) : m[h] # k
    BY <1>0, <1>2, Zenon DEF Range
  <2>2. i # 1 /\ j # 1
    BY <1>2, <2>1
  <2> QED
    BY <1>2, <2>2 DEF IsInjective
<1> QED
  BY <1>0, <1>1, <1>2, <1>4, <1>5

\* A list without its last key.
LEMMA FrontList ==
  ASSUME NEW S, NEW l \in Seq(S), IsInjective(l), l # <<>>
  PROVE  /\ pop_back(l) \in Seq(S)
         /\ IsInjective(pop_back(l))
         /\ back(l) \in Range(l)
         /\ Range(pop_back(l)) = Range(l) \ {back(l)}
         /\ DOMAIN pop_back(l) = 1..(Len(l) - 1)
         /\ \A i \in 1..(Len(l) - 1) : i \in DOMAIN l /\ pop_back(l)[i] = l[i]
<1>1. PICK m : m = pop_back(l)
  OBVIOUS
<1>2. PICK n \in Nat \ {0} : n = Len(l) /\ DOMAIN l = 1..n /\ back(l) = l[n]
  BY DEF back
<1>3. /\ m \in Seq(S)
      /\ DOMAIN m = 1..(n - 1)
      /\ \A i \in 1..(n - 1) : i \in DOMAIN l /\ m[i] = l[i]
  BY <1>1, <1>2 DEF pop_back
<1>4. IsInjective(m)
  BY <1>2, <1>3 DEF IsInjective
<1>5. back(l) \in Range(l)
  BY <1>2 DEF Range
<1>6. Range(m) = Range(l) \ {back(l)}
  <2>1. ASSUME NEW x \in Range(m) PROVE x \in Range(l) /\ x # back(l)
    <3>1. PICK i \in 1..(n - 1) : x = l[i]
      BY <1>3 DEF Range
    <3> QED
      BY <1>2, <3>1 DEF Range, IsInjective
  <2>2. ASSUME NEW x \in Range(l), x # back(l) PROVE x \in Range(m)
    <3>1. PICK i \in 1..n : x = l[i] /\ i # n
      BY <1>2, <2>2 DEF Range
    <3>2. i \in 1..(n - 1)
      BY <1>2, <3>1
    <3> QED
      BY <1>3, <3>1, <3>2 DEF Range
  <2> QED
    BY <2>1, <2>2
<1> QED
  BY <1>1, <1>2, <1>3, <1>4, <1>5, <1>6
-----------------------------------------------------------------------------

\* No key was used later than now.
UsesBounded == \A k \in Keys : used[k] <= uses

\* An entry is what the last put of its key made it, expired or not.
EntriesAreLatest ==
  \A k \in DOMAIN entries :
    /\ entries[k].response = latest[k].response
    /\ entries[k].expires_at = latest[k].at + Ttl

Inv ==
  /\ TypeOK
  /\ ListMatchesEntries
  /\ IsFiniteSet(DOMAIN entries) /\ WithinCapacity
  /\ RecencyOrder /\ UsesBounded
  /\ EntriesAreLatest

\* A key that is used comes to the front of the list, and the list stays in order.
LEMMA UseInFront ==
  ASSUME TypeOK, UsesBounded,
         NEW k \in Keys, NEW u \in Seq(Keys), IsInjective(u), k \notin Range(u), Ordered(u, used),
         lru' = <<k>> \o u, Use(k)
  PROVE  /\ lru' \in Seq(Keys)
         /\ IsInjective(lru')
         /\ Range(lru') = Range(u) \cup {k}
         /\ used' \in [Keys -> Nat] /\ uses' \in Nat
         /\ RecencyOrder' /\ UsesBounded'
<1>1. /\ lru' \in Seq(Keys)
      /\ IsInjective(lru')
      /\ Range(lru') = Range(u) \cup {k}
      /\ DOMAIN lru' = 1..(Len(u) + 1)
      /\ lru'[1] = k
      /\ \A i \in 2..(Len(u) + 1) : i - 1 \in DOMAIN u /\ lru'[i] = u[i - 1]
  BY PushedList
<1>2. /\ used \in [Keys -> Nat] /\ uses \in Nat
      /\ uses' = uses + 1 /\ used' = [used EXCEPT ![k] = uses + 1]
  BY DEF TypeOK, Use
<1>3. used' \in [Keys -> Nat] /\ uses' \in Nat
  BY <1>2
<1>4. UsesBounded'
  <2> SUFFICES ASSUME NEW j \in Keys PROVE used'[j] <= uses'
    BY DEF UsesBounded
  <2>1. used[j] \in Nat /\ used[j] <= uses
    BY <1>2 DEF UsesBounded
  <2> QED
    BY <1>2, <2>1
<1>5. RecencyOrder'
  <2> SUFFICES ASSUME NEW i \in 1..(Len(u) + 1), NEW j \in 1..(Len(u) + 1), i < j
               PROVE  used'[lru'[i]] > used'[lru'[j]]
    BY <1>1 DEF RecencyOrder
  <2>1. j \in 2..(Len(u) + 1)
    OBVIOUS
  <2>2. PICK b : b = u[j - 1]
    OBVIOUS
  <2>3. lru'[j] = b /\ b \in Keys /\ b # k
    BY <1>1, <2>1, <2>2 DEF Range
  <2>4. used'[b] = used[b] /\ used[b] \in Nat /\ used[b] <= uses
    BY <1>2, <2>3 DEF UsesBounded
  <2>5. CASE i = 1
    <3>1. used'[lru'[i]] = uses + 1
      BY <1>1, <1>2, <2>5
    <3>2. used'[lru'[j]] = used[b]
      BY <2>3, <2>4
    <3>3. uses + 1 > used[b]
      BY <1>2, <2>4
    <3> QED
      BY <3>1, <3>2, <3>3
  <2>6. CASE i # 1
    <3>1. i \in 2..(Len(u) + 1) /\ i - 1 < j - 1
      BY <2>6
    <3>2. i - 1 \in DOMAIN u /\ j - 1 \in DOMAIN u
      BY <1>1, <2>1, <3>1
    <3>3. PICK a : a = u[i - 1]
      OBVIOUS
    <3>4. lru'[i] = a /\ a \in Keys /\ a # k
      BY <1>1, <3>1, <3>3 DEF Range
    <3>5. used[a] > used[b]
      BY <2>2, <3>1, <3>2, <3>3, Zenon DEF Ordered
    <3> QED
      BY <1>2, <2>3, <2>4, <3>4, <3>5, Zenon
  <2> QED
    BY <2>5, <2>6
<1> QED
  BY <1>1, <1>3, <1>4, <1>5, Zenon

\* A put stores the entry that `latest' remembers, and leaves the others alone.
LEMMA StoreIsLatest ==
  ASSUME Inv, NEW k \in Keys, NEW r \in Responses, NEW e, DOMAIN e \subseteq DOMAIN entries,
         \A j \in DOMAIN e : e[j] = entries[j],
         entries' = Stored(e, k, [response |-> r, expires_at |-> ExpiresAt(now)]),
         latest' = [latest EXCEPT ![k] = [response |-> r, at |-> now]]
  PROVE  /\ DOMAIN entries' = DOMAIN e \cup {k}
         /\ DOMAIN entries' \subseteq Keys
         /\ \A j \in DOMAIN entries' : entries'[j] \in [response : Responses, expires_at : Nat]
         /\ latest' \in [Keys -> [response : Responses \cup {Nothing}, at : Nat]]
         /\ EntriesAreLatest'
<1>1. /\ DOMAIN entries' = DOMAIN e \cup {k}
      /\ entries'[k] = [response |-> r, expires_at |-> now + Ttl]
      /\ \A j \in DOMAIN e : j # k => entries'[j] = entries[j]
  BY DEF Stored, ExpiresAt
<1>2. now \in Nat /\ Ttl \in Nat /\ DOMAIN e \subseteq Keys
  BY CacheAssumption DEF Inv, TypeOK
<1>3. \A j \in DOMAIN entries' : entries'[j] \in [response : Responses, expires_at : Nat]
  <2> TAKE j \in DOMAIN entries'
  <2>1. CASE j = k
    BY <1>1, <1>2, <2>1
  <2>2. CASE j # k
    BY <1>1, <2>2 DEF Inv, TypeOK
  <2> QED
    BY <2>1, <2>2
<1>4. /\ latest' \in [Keys -> [response : Responses \cup {Nothing}, at : Nat]]
      /\ latest'[k] = [response |-> r, at |-> now]
      /\ \A j \in Keys : j # k => latest'[j] = latest[j]
  BY <1>2 DEF Inv, TypeOK
<1>5. EntriesAreLatest'
  BY <1>1, <1>2, <1>4 DEF Inv, EntriesAreLatest
<1> QED
  BY <1>1, <1>2, <1>3, <1>4, <1>5

\* get() of a key without an entry.
LEMMA GetUnknownStep ==
  ASSUME Inv, NEW k \in Keys, GetUnknown(k)
  PROVE  Inv'
<1>1. TypeOK'
  BY DEF Inv, TypeOK, GetUnknown
<1> QED
  BY <1>1 DEF Inv, GetUnknown, ListMatchesEntries, WithinCapacity, RecencyOrder, UsesBounded, EntriesAreLatest

\* get() of an expired entry takes it from the list and from the map.
LEMMA GetExpiredStep ==
  ASSUME Inv, NEW k \in Keys, GetExpired(k)
  PROVE  Inv'
<1>1. k \in Range(lru) /\ lru \in Seq(Keys) /\ IsInjective(lru) /\ lru' = Unlinked(lru, k)
  BY DEF Inv, TypeOK, ListMatchesEntries, GetExpired
<1>2. /\ lru' \in Seq(Keys)
      /\ IsInjective(lru')
      /\ Range(lru') = Range(lru) \ {k}
      /\ Ordered(lru, used) => Ordered(lru', used)
  BY <1>1, UnlinkedList
<1>3. /\ DOMAIN entries' = DOMAIN entries \ {k}
      /\ \A j \in DOMAIN entries' : entries'[j] = entries[j]
  BY DEF GetExpired, Erased
<1>4. TypeOK'
  BY <1>2, <1>3 DEF Inv, TypeOK, GetExpired
<1>5. ListMatchesEntries'
  BY <1>2, <1>3 DEF Inv, ListMatchesEntries
<1>6. IsFiniteSet(DOMAIN entries') /\ WithinCapacity'
  <2>1. /\ IsFiniteSet(DOMAIN entries \ {k})
        /\ Cardinality(DOMAIN entries \ {k}) = Cardinality(DOMAIN entries) - 1
        /\ Cardinality(DOMAIN entries) \in Nat
    BY FS_RemoveElement, FS_CardinalityType, Zenon DEF Inv, GetExpired
  <2> QED
    BY <1>3, <2>1, CacheAssumption DEF Inv, WithinCapacity
<1>7. RecencyOrder' /\ UsesBounded'
  BY <1>2 DEF Inv, RecencyOrder, Ordered, UsesBounded, GetExpired
<1>8. EntriesAreLatest'
  BY <1>3 DEF Inv, EntriesAreLatest, GetExpired
<1> QED
  BY <1>4, <1>5, <1>6, <1>7, <1>8 DEF Inv

\* lru_.splice() moves a key to the front and keeps the others in their order.
LEMMA SplicedInFront ==
  ASSUME Inv, NEW k \in Keys, k \in DOMAIN entries, lru' = Spliced(lru, k), Use(k)
  PROVE  /\ lru' \in Seq(Keys)
         /\ IsInjective(lru')
         /\ Range(lru') = DOMAIN entries
         /\ used' \in [Keys -> Nat] /\ uses' \in Nat
         /\ RecencyOrder' /\ UsesBounded'
<1>1. k \in Range(lru) /\ lru \in Seq(Keys) /\ IsInjective(lru) /\ Ordered(lru, used)
  BY DEF Inv, TypeOK, ListMatchesEntries, RecencyOrder, Ordered
<1>2. PICK u \in Seq(Keys) :
        u = Unlinked(lru, k) /\ IsInjective(u) /\ Range(u) = Range(lru) \ {k} /\ Ordered(u, used)
  BY <1>1, UnlinkedList
<1>3. lru' = <<k>> \o u
  BY <1>2 DEF Spliced
<1>4. TypeOK /\ UsesBounded /\ Range(lru) = DOMAIN entries
  BY DEF Inv, ListMatchesEntries
<1>5. k \notin Range(u) /\ Range(u) \cup {k} = DOMAIN entries
  BY <1>1, <1>2, <1>4, Zenon
<1>6. /\ lru' \in Seq(Keys)
      /\ IsInjective(lru')
      /\ Range(lru') = Range(u) \cup {k}
      /\ used' \in [Keys -> Nat] /\ uses' \in Nat
      /\ RecencyOrder' /\ UsesBounded'
  BY <1>2, <1>3, <1>4, <1>5, UseInFront, Zenon
<1> QED
  BY <1>5, <1>6

\* get() of a live entry makes its key the most recent.
LEMMA GetHitStep ==
  ASSUME Inv, NEW k \in Keys, GetHit(k)
  PROVE  Inv'
<1>1. /\ lru' \in Seq(Keys)
      /\ IsInjective(lru')
      /\ Range(lru') = DOMAIN entries
      /\ used' \in [Keys -> Nat] /\ uses' \in Nat
      /\ RecencyOrder' /\ UsesBounded'
  BY SplicedInFront DEF GetHit
<1>2. UNCHANGED <<entries, now, latest>> /\ last' = [op |-> "get", key |-> k, response |-> entries[k].response]
      /\ k \in DOMAIN entries
  BY DEF GetHit
<1>3. TypeOK'
  BY <1>1, <1>2 DEF Inv, TypeOK
<1> QED
  BY <1>1, <1>2, <1>3 DEF Inv, ListMatchesEntries, WithinCapacity, EntriesAreLatest

\* put() of a key that has an entry replaces it and makes it the most recent.
LEMMA PutExistingStep ==
  ASSUME Inv, NEW k \in Keys, NEW r \in Responses, PutExisting(k, r)
  PROVE  Inv'
<1>1. /\ lru' \in Seq(Keys)
      /\ IsInjective(lru')
      /\ Range(lru') = DOMAIN entries
      /\ used' \in [Keys -> Nat] /\ uses' \in Nat
      /\ RecencyOrder' /\ UsesBounded'
  BY SplicedInFront DEF PutExisting
<1>2. /\ DOMAIN entries' = DOMAIN entries
      /\ DOMAIN entries' \subseteq Keys
      /\ \A j \in DOMAIN entries' : entries'[j] \in [response : Responses, expires_at : Nat]
      /\ latest' \in [Keys -> [response : Responses \cup {Nothing}, at : Nat]]
      /\ EntriesAreLatest'
  <2>1. /\ entries' = Stored(entries, k, [response |-> r, expires_at |-> ExpiresAt(now)])
        /\ latest' = [latest EXCEPT ![k] = [response |-> r, at |-> now]]
        /\ k \in DOMAIN entries
    BY DEF PutExisting
  <2>2. PICK e : e = entries
    OBVIOUS
  <2>3. /\ DOMAIN entries' = DOMAIN e \cup {k}
        /\ DOMAIN entries' \subseteq Keys
        /\ \A j \in DOMAIN entries' : entries'[j] \in [response : Responses, expires_at : Nat]
        /\ latest' \in [Keys -> [response : Responses \cup {Nothing}, at : Nat]]
        /\ EntriesAreLatest'
    BY <2>1, <2>2, StoreIsLatest, Zenon
  <2> QED
    BY <2>1, <2>2, <2>3, Zenon
<1>3. TypeOK'
  BY <1>1, <1>2, Zenon DEF Inv, TypeOK, PutExisting
<1> QED
  BY <1>1, <1>2, <1>3 DEF Inv, ListMatchesEntries, WithinCapacity

\* What put() keeps of a cache without k: room for k, and a list that matches.
LEMMA PutNewKeeps ==
  ASSUME Inv, NEW k \in Keys, NEW r \in Responses, PutNew(k, r)
  PROVE  \E e, u :
           /\ entries' = Stored(e, k, [response |-> r, expires_at |-> ExpiresAt(now)])
           /\ lru' = <<k>> \o u
           /\ DOMAIN e \subseteq DOMAIN entries /\ \A j \in DOMAIN e : e[j] = entries[j]
           /\ u \in Seq(Keys) /\ IsInjective(u) /\ Range(u) = DOMAIN e /\ Ordered(u, used)
           /\ IsFiniteSet(DOMAIN e) /\ Cardinality(DOMAIN e) < Capacity
           /\ \/ e = entries
              \/ Full(entries) /\ lru # <<>> /\ DOMAIN e = DOMAIN entries \ {back(lru)}
<1>1. /\ lru \in Seq(Keys) /\ IsInjective(lru) /\ Range(lru) = DOMAIN entries /\ Ordered(lru, used)
      /\ IsFiniteSet(DOMAIN entries) /\ Cardinality(DOMAIN entries) \in Nat
      /\ Cardinality(DOMAIN entries) <= Capacity /\ Capacity \in Nat \ {0}
  BY CacheAssumption, FS_CardinalityType
  DEF Inv, TypeOK, ListMatchesEntries, RecencyOrder, Ordered, WithinCapacity
<1>2. CASE ~Full(entries)
  <2>1. Cardinality(DOMAIN entries) < Capacity
    BY <1>1, <1>2 DEF Full
  <2>2. /\ entries' = Stored(entries, k, [response |-> r, expires_at |-> ExpiresAt(now)])
        /\ lru' = <<k>> \o lru
    BY <1>2 DEF PutNew
  <2> QED
    BY <1>1, <2>1, <2>2
<1>3. CASE Full(entries)
  <2>1. PICK e, u : e = Erased(entries, back(lru)) /\ u = pop_back(lru)
    OBVIOUS
  <2>2. /\ entries' = Stored(e, k, [response |-> r, expires_at |-> ExpiresAt(now)])
        /\ lru' = <<k>> \o u
    BY <1>3, <2>1 DEF PutNew
  <2>3. lru # <<>>
    <3>1. SUFFICES ASSUME lru = <<>> PROVE FALSE
      OBVIOUS
    <3>2. DOMAIN entries = {}
      <4>1. DOMAIN lru = {}
        BY <3>1
      <4>2. Range(lru) = {}
        BY <4>1 DEF Range
      <4> QED
        BY <1>1, <4>2
    <3> QED
      BY <1>1, <1>3, <3>2, FS_EmptySet DEF Full
  <2>4. /\ u \in Seq(Keys) /\ IsInjective(u)
        /\ back(lru) \in Range(lru)
        /\ Range(u) = Range(lru) \ {back(lru)}
        /\ DOMAIN u = 1..(Len(lru) - 1)
        /\ \A i \in 1..(Len(lru) - 1) : i \in DOMAIN lru /\ u[i] = lru[i]
    BY <1>1, <2>1, <2>3, FrontList
  <2>5. Ordered(u, used)
    <3> SUFFICES ASSUME NEW i \in DOMAIN u, NEW j \in DOMAIN u, i < j PROVE used[u[i]] > used[u[j]]
      BY DEF Ordered
    <3>1. i \in DOMAIN lru /\ j \in DOMAIN lru /\ u[i] = lru[i] /\ u[j] = lru[j]
      BY <2>4
    <3> QED
      BY <1>1, <3>1 DEF Ordered
  <2>6. DOMAIN e = DOMAIN entries \ {back(lru)} /\ \A j \in DOMAIN e : e[j] = entries[j]
    BY <2>1 DEF Erased
  <2>7. IsFiniteSet(DOMAIN e) /\ Cardinality(DOMAIN e) = Cardinality(DOMAIN entries) - 1
    BY <1>1, <2>4, <2>6, FS_RemoveElement
  <2>8. Cardinality(DOMAIN e) < Capacity
    BY <1>1, <2>7
  <2> QED
    BY <1>1, <1>3, <2>2, <2>3, <2>4, <2>5, <2>6, <2>7, <2>8, Zenon
<1> QED
  BY <1>2, <1>3, Zenon

\* put() of a new key, in a full cache in place of the least recent one.
LEMMA PutNewStep ==
  ASSUME Inv, NEW k \in Keys, NEW r \in Responses, PutNew(k, r)
  PROVE  Inv'
<1>1. PICK e, u :
        /\ entries' = Stored(e, k, [response |-> r, expires_at |-> ExpiresAt(now)])
        /\ lru' = <<k>> \o u
        /\ DOMAIN e \subseteq DOMAIN entries /\ \A j \in DOMAIN e : e[j] = entries[j]
        /\ u \in Seq(Keys) /\ IsInjective(u) /\ Range(u) = DOMAIN e /\ Ordered(u, used)
        /\ IsFiniteSet(DOMAIN e) /\ Cardinality(DOMAIN e) < Capacity
  BY PutNewKeeps, Zenon
<1>2. k \notin DOMAIN e /\ TypeOK /\ UsesBounded /\ Use(k)
  BY <1>1 DEF PutNew, Inv
<1>3. /\ lru' \in Seq(Keys)
      /\ IsInjective(lru')
      /\ Range(lru') = DOMAIN e \cup {k}
      /\ used' \in [Keys -> Nat] /\ uses' \in Nat
      /\ RecencyOrder' /\ UsesBounded'
  BY <1>1, <1>2, UseInFront, Zenon
<1>4. /\ DOMAIN entries' = DOMAIN e \cup {k}
      /\ DOMAIN entries' \subseteq Keys
      /\ \A j \in DOMAIN entries' : entries'[j] \in [response : Responses, expires_at : Nat]
      /\ latest' \in [Keys -> [response : Responses \cup {Nothing}, at : Nat]]
      /\ EntriesAreLatest'
  BY <1>1, StoreIsLatest, Zenon DEF PutNew
<1>5. TypeOK'
  BY <1>3, <1>4, Zenon DEF Inv, TypeOK, PutNew
<1>6. IsFiniteSet(DOMAIN entries') /\ WithinCapacity'
  <2>1. /\ IsFiniteSet(DOMAIN e \cup {k})
        /\ Cardinality(DOMAIN e \cup {k}) = Cardinality(DOMAIN e) + 1
        /\ Cardinality(DOMAIN e) \in Nat
    BY <1>1, <1>2, FS_AddElement, FS_CardinalityType, Zenon
  <2>2. Cardinality(DOMAIN e \cup {k}) <= Capacity
    <3>1. PICK c, d : c = Cardinality(DOMAIN e) /\ d = Cardinality(DOMAIN e \cup {k})
      BY Zenon
    <3>2. c \in Nat /\ d = c + 1 /\ c < Capacity
      BY <1>1, <2>1, <3>1, Zenon
    <3>3. d <= Capacity
      BY <3>2, CacheAssumption
    <3> QED
      BY <3>1, <3>3, Zenon
  <2> QED
    BY <1>4, <2>1, <2>2 DEF WithinCapacity
<1> QED
  BY <1>3, <1>4, <1>5, <1>6 DEF Inv, ListMatchesEntries

-----------------------------------------------------------------------------

\* Map, list and histories keep the invariant.
THEOREM Invariance == Spec => []Inv
<1>1. Init => Inv
  <2> SUFFICES ASSUME Init PROVE Inv
    OBVIOUS
  <2>1. DOMAIN entries = {} /\ DOMAIN lru = {}
    BY DEF Init
  <2>2. TypeOK
    BY <2>1 DEF Init, TypeOK
  <2>3. ListMatchesEntries /\ RecencyOrder /\ UsesBounded /\ EntriesAreLatest
    BY <2>1 DEF Init, ListMatchesEntries, RecencyOrder, UsesBounded, EntriesAreLatest, Range, IsInjective
  <2>4. IsFiniteSet(DOMAIN entries) /\ WithinCapacity
    BY <2>1, FS_EmptySet, CacheAssumption DEF WithinCapacity
  <2> QED
    BY <2>2, <2>3, <2>4 DEF Inv
<1>2. Inv /\ [Next]_vars => Inv'
  <2> SUFFICES ASSUME Inv, [Next]_vars PROVE Inv'
    OBVIOUS
  <2>1. CASE \E k \in Keys : GetUnknown(k) \/ GetExpired(k) \/ GetHit(k)
    BY <2>1, GetUnknownStep, GetExpiredStep, GetHitStep
  <2>2. CASE \E k \in Keys, r \in Responses : PutExisting(k, r) \/ PutNew(k, r)
    BY <2>2, PutExistingStep, PutNewStep, Zenon
  <2>3. CASE Tick \/ UNCHANGED vars
    <3>1. UNCHANGED <<entries, lru, last, used, uses, latest>> /\ now' \in Nat
      BY <2>3 DEF Tick, vars, Inv, TypeOK
    <3>2. TypeOK'
      BY <3>1 DEF Inv, TypeOK
    <3> QED
      BY <3>1, <3>2
      DEF Inv, ListMatchesEntries, WithinCapacity, RecencyOrder, UsesBounded, EntriesAreLatest
  <2> QED
    BY <2>1, <2>2, <2>3 DEF Next
<1> QED
  BY <1>1, <1>2, PTL DEF Spec

\* No lru_position dangles and lru_.back() names an entry, over any sequence of
\* get() and put() (src/response_cache.cpp).
THEOREM ListAndMapAgree == Spec => []ListMatchesEntries
  BY Invariance, PTL DEF Inv

\* put() never lets the cache outgrow its capacity.
THEOREM CapacityKept == Spec => []WithinCapacity
  BY Invariance, PTL DEF Inv

\* The list is in order of use.
THEOREM ListIsByRecency == Spec => []RecencyOrder
  BY Invariance, PTL DEF Inv

\* A get() that hits returns the last put of its key, made less than the TTL ago.
THEOREM HitsFresh == Spec => []HitsAreFresh
<1>1. Inv => HitsAreFresh
  <2> SUFFICES ASSUME Inv, NEW k \in DOMAIN entries, ~Expired(entries[k], now)
               PROVE  entries[k].response = latest[k].response /\ now < latest[k].at + Ttl
    BY DEF HitsAreFresh
  <2>1. entries[k].expires_at = latest[k].at + Ttl /\ entries[k].response = latest[k].response
    BY DEF Inv, EntriesAreLatest
  <2>2. entries[k].expires_at \in Nat /\ now \in Nat
    BY DEF Inv, TypeOK
  <2> QED
    BY <2>1, <2>2 DEF Expired
<1> QED
  BY <1>1, Invariance, PTL

\* The key at the end of the list was used longest ago.
LEMMA LastIsLeastRecent ==
  ASSUME Inv, lru # <<>>, NEW j \in DOMAIN entries
  PROVE  used[back(lru)] <= used[j]
<1>1. PICK n \in Nat \ {0} : lru \in Seq(Keys) /\ n = Len(lru) /\ DOMAIN lru = 1..n /\ back(lru) = lru[n]
  BY DEF Inv, TypeOK, back
<1>2. PICK i \in 1..n : j = lru[i]
  BY <1>1 DEF Inv, ListMatchesEntries, Range
<1>3. lru[n] \in Keys /\ j \in Keys
  BY <1>1, <1>2
<1>4. used[lru[n]] \in Nat /\ used[j] \in Nat
  BY <1>3 DEF Inv, TypeOK
<1>5. CASE i = n
  BY <1>1, <1>2, <1>4, <1>5
<1>6. CASE i < n
  <2>1. used[lru[i]] > used[lru[n]]
    BY <1>1, <1>6 DEF Inv, RecencyOrder
  <2> QED
    BY <1>1, <1>2, <1>4, <2>1
<1> QED
  BY <1>5, <1>6

\* put() evicts only from a full cache, and the key used longest ago.
THEOREM LeastRecentEvicted == Spec => EvictsLeastRecent
<1> DEFINE Evicts ==
      \A k \in DOMAIN entries \ DOMAIN entries' :
        Expired(entries[k], now)
          \/ /\ Full(entries)
             /\ \A j \in DOMAIN entries : used[k] <= used[j]
<1>1. Inv /\ [Next]_vars => [Evicts]_vars
  <2> SUFFICES ASSUME Inv, Next PROVE Evicts
    BY DEF vars
  <2>1. CASE UNCHANGED entries
    <3>1. DOMAIN entries \ DOMAIN entries' = {}
      BY <2>1, Zenon
    <3> QED
      BY <3>1
  <2>2. ASSUME NEW k \in Keys, GetExpired(k) PROVE Evicts
    BY <2>2, Zenon DEF GetExpired, Erased
  <2>3. ASSUME NEW k \in Keys, NEW r \in Responses, PutExisting(k, r) PROVE Evicts
    BY <2>3, Zenon DEF PutExisting, Stored
  <2>4. ASSUME NEW k \in Keys, NEW r \in Responses, PutNew(k, r) PROVE Evicts
    <3>1. PICK e, u :
            /\ entries' = Stored(e, k, [response |-> r, expires_at |-> ExpiresAt(now)])
            /\ \/ e = entries
               \/ Full(entries) /\ lru # <<>> /\ DOMAIN e = DOMAIN entries \ {back(lru)}
      BY <2>4, PutNewKeeps, Zenon
    <3>2. DOMAIN entries' = DOMAIN e \cup {k}
      BY <3>1, Zenon DEF Stored
    <3> QED
      BY <3>1, <3>2, LastIsLeastRecent
  <2> QED
    BY <2>1, <2>2, <2>3, <2>4, Zenon DEF Next, GetUnknown, GetHit, Tick
<1> QED
  BY <1>1, Invariance, PTL DEF Spec, EvictsLeastRecent

-----------------------------------------------------------------------------

\* A get() is a get of the contract.
LEMMA GetsKeepContract ==
  ASSUME Inv, NEW k \in Keys, GetUnknown(k) \/ GetExpired(k) \/ GetHit(k)
  PROVE  Contract!Get(k)
<1>1. last' = [op |-> "get", key |-> k, response |-> Found[k]]
  BY Zenon DEF Found, GetUnknown, GetExpired, GetHit
<1>2. Found' = Found
  <2>1. CASE UNCHANGED <<entries, now>>
    BY <2>1 DEF Found
  <2>2. CASE GetExpired(k)
    BY <2>2 DEF Found, GetExpired, Erased
  <2> QED
    BY <2>1, <2>2, Zenon DEF GetUnknown, GetHit
<1> QED
  BY <1>1, <1>2 DEF Contract!Get

\* With a time to live a response that was just put is found, and at most one
\* other is lost.
LEMMA PutsKeepContract ==
  ASSUME Inv, Ttl > 0, NEW k \in Keys, NEW r \in Responses, PutExisting(k, r) \/ PutNew(k, r)
  PROVE  Contract!Put(k, r)
<1>1. PICK e :
        /\ entries' = Stored(e, k, [response |-> r, expires_at |-> ExpiresAt(now)])
        /\ DOMAIN e \subseteq DOMAIN entries /\ \A j \in DOMAIN e : e[j] = entries[j]
        /\ \E x : DOMAIN entries \ {x} \subseteq DOMAIN e
  <2>1. CASE PutExisting(k, r)
    BY <2>1 DEF PutExisting
  <2>2. CASE PutNew(k, r)
    BY <2>2, PutNewKeeps, Zenon
  <2> QED
    BY <2>1, <2>2, Zenon
<1>2. PICK evicted : evicted = (DOMAIN entries \ DOMAIN e) \ {k}
  BY Zenon
<1>3. evicted \in SUBSET (Keys \ {k}) /\ \A i, j \in evicted : i = j
  BY <1>1, <1>2, Zenon DEF Inv, TypeOK
<1>4. now' = now /\ last' = [op |-> "put", key |-> k, response |-> r]
  BY DEF PutExisting, PutNew
<1>5. Found' = [j \in Keys |-> IF j = k THEN r ELSE IF j \in evicted THEN Nothing ELSE Found[j]]
  <2>1. now \in Nat /\ Ttl \in Nat \ {0}
    BY CacheAssumption DEF Inv, TypeOK
  <2>2. /\ DOMAIN entries' = DOMAIN e \cup {k}
        /\ entries'[k] = [response |-> r, expires_at |-> now + Ttl]
        /\ \A j \in DOMAIN e : j # k => entries'[j] = entries[j]
    BY <1>1, Zenon DEF Stored, ExpiresAt
  <2>3. ~Expired(entries'[k], now)
    BY <2>1, <2>2 DEF Expired
  <2>4. Found'[k] = r
    <3>1. k \in DOMAIN entries' /\ entries'[k].response = r
      BY <2>2
    <3>2. ~Expired(entries'[k], now')
      BY <1>4, <2>3, Zenon
    <3>3. Found' = [j \in Keys |-> IF j \in DOMAIN entries' /\ ~Expired(entries'[j], now')
                                  THEN entries'[j].response ELSE Nothing]
      BY Zenon DEF Found
    <3> QED BY <3>1, <3>2, <3>3, Zenon
  <2>5. ASSUME NEW j \in Keys, j # k
        PROVE  Found'[j] = IF j \in evicted THEN Nothing ELSE Found[j]
    BY <1>1, <1>2, <1>4, <2>2, <2>5, Zenon DEF Found
  <2>6. Found' = [j \in Keys |-> Found'[j]]
    BY DEF Found
  <2> QED
    BY <2>4, <2>5, <2>6
<1> QED
  BY <1>3, <1>4, <1>5, Zenon DEF Contract!Put, Contract!Nothing, Nothing

\* When time passes the contract forgets what has expired, or stutters.
LEMMA TicksKeepContract ==
  ASSUME Inv, Tick
  PROVE  Contract!Expire
<1>1. PICK expired : expired = {j \in Keys : Found'[j] # Found[j]}
  BY Zenon
<1>2. ASSUME NEW j \in Keys PROVE Found'[j] = Found[j] \/ Found'[j] = Nothing
  <2>1. now' = now + 1 /\ now \in Nat /\ entries' = entries
    BY DEF Tick, Inv, TypeOK
  <2>2. j \in DOMAIN entries /\ Expired(entries[j], now) => Expired(entries[j], now')
    BY <2>1 DEF Expired, Inv, TypeOK
  <2> QED
    BY <2>1, <2>2 DEF Found
<1>3. Found' = [j \in Keys |-> IF j \in expired THEN Nothing ELSE Found[j]]
  <2>1. Found' = [j \in Keys |-> Found'[j]]
    BY DEF Found
  <2> QED
    BY <1>1, <1>2, <2>1
<1> QED
  BY <1>1, <1>3, Zenon DEF Contract!Expire, Contract!Nothing, Nothing, Tick

\* With any time to live but zero the cache is what the sessions take it for:
\* get() and put() implement CacheContract.
THEOREM ImplementsContract == ASSUME Ttl > 0 PROVE Spec => KeepsContract
<1>1. Init => Contract!Init
  BY DEF Init, Found, Contract!Init, Contract!Nothing, Nothing
<1>2. Inv /\ [Next]_vars => [Contract!Next]_(Contract!vars)
  <2> SUFFICES ASSUME Inv, [Next]_vars PROVE [Contract!Next]_(Contract!vars)
    OBVIOUS
  <2>1. CASE \E k \in Keys : GetUnknown(k) \/ GetExpired(k) \/ GetHit(k)
    BY <2>1, GetsKeepContract DEF Contract!Next
  <2>2. CASE \E k \in Keys, r \in Responses : PutExisting(k, r) \/ PutNew(k, r)
    BY <2>2, PutsKeepContract DEF Contract!Next
  <2>3. CASE Tick
    BY <2>3, TicksKeepContract DEF Contract!Next
  <2>4. CASE UNCHANGED vars
    BY <2>4 DEF vars, Contract!vars, Found
  <2> QED
    BY <2>1, <2>2, <2>3, <2>4 DEF Next
<1> QED
  BY <1>1, <1>2, Invariance, PTL DEF Spec, KeepsContract, Contract!Spec
=============================================================================
