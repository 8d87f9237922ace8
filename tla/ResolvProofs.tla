---------------------------- MODULE ResolvProofs ----------------------------
(***************************************************************************)
(* Proofs about the resolver's cache: that the hash table and the list of  *)
(* every cache agree, that the cache a call holds stays the right one, and *)
(* what a flush leaves, for any threads, interfaces, queries and sizes.    *)
(***************************************************************************)
EXTENDS ResolvCache, FiniteSetTheorems, WellFoundedInduction, TLAPS

\* The entries that the caches of device d may have.
Entries(d) == [query : d.queries, expires : Nat, crossed : BOOLEAN]

\* There is one entry at most for each query.
Distinct(es) == \A i, j \in 1 .. Len(es) : es[i].query = es[j].query => i = j

\* The caches of device d, before it is said how their parts belong together.
Caches(d) ==
  [ifname : d.ifaces, mru_list : Seq(Entries(d)),
   entries : [0 .. d.max_entries - 1 -> Seq(Entries(d))],
   num_entries : 0 .. d.max_entries, generation : Generations \cup {-1}, crossings : Nat]

\* A list has no entry for query q.
NoneFor(es, q) == \A e \in Range(es) : e.query # q

\* List t of distinct entries of E has those of s, and e besides.
Extended(E, s, e, t) ==
  /\ t \in Seq(E) /\ Len(t) = Len(s) + 1
  /\ Distinct(t)
  /\ \A x : x \in Range(t) <=> x \in Range(s) \/ x = e

(***************************************************************************)
(* What the hash table and the list of a cache have to do with each other: *)
(* the chain of a bucket holds the entries of the list that belong there.  *)
(***************************************************************************)
Sound(d, cache) ==
  /\ cache \in Caches(d)
  /\ Len(cache.mru_list) = cache.num_entries
  /\ Distinct(cache.mru_list)
  /\ \A b \in 0 .. d.max_entries - 1 :
       /\ Distinct(cache.entries[b])
       /\ Range(cache.entries[b]) =
            {e \in Range(cache.mru_list) : Hash[e.query] % d.max_entries = b}

\* Cache 'new' is what becomes of 'cache': it has no entry that is neither of the old
\* one nor in X.
Follows(d, cache, new, X) ==
  /\ Sound(d, new)
  /\ Range(new.mru_list) \subseteq Range(cache.mru_list) \cup X
  /\ new.ifname = cache.ifname
  /\ new.crossings = cache.crossings

\* A cache for interface i that is empty, n calls having been under way when it was made so.
Fresh(d, new, i, n) ==
  /\ Sound(d, new) /\ Range(new.mru_list) = {}
  /\ new.ifname = i /\ new.crossings = n

\* The entries of a cache from before its last flush.
Crossed(cache) == {e \in Range(cache.mru_list) : e.crossed}

\* List t has the entries of s, changed by A.
Changed(A, s, t) ==
  /\ Distinct(t)
  /\ \A x \in Range(s) : A[x] \in Range(t)
  /\ \A y \in Range(t) : \E x \in Range(s) : y = A[x]

\* A call of res_nsend, with its query and the cache it has obtained.
Calls(d) ==
  [pc : {"lookup", "asking"}, query : d.queries, cache : Nat, ifname : d.ifaces,
   crossed : BOOLEAN]

\* The calls that were under way when cache c was last flushed, and still are.
Waiting(calls, c) ==
  {t \in Threads : calls[t].pc = "asking" /\ calls[t].cache = c /\ calls[t].crossed}

\* The calls that have asked on behalf of cache c, and what a flush of it makes of them.
Asked(calls, c) == {t \in Threads : calls[t].pc = "asking" /\ calls[t].cache = c}
Overtaken(calls, c) ==
  [t \in Threads |-> IF t \in Asked(calls, c) THEN [calls[t] EXCEPT !.crossed = TRUE] ELSE calls[t]]

\* Of the calls that wait, those of X do so no longer.
Leave(calls, after, X) == \A c : Waiting(after, c) = Waiting(calls, c) \ X

\* What a cache has from before its last flush, and may yet be given.
Owed(l, calls, c) == Cardinality(Crossed(l[c])) + Cardinality(Waiting(calls, c)) <= l[c].crossings

\* A call has a cache of the list, that of its interface; and one that has yet to look
\* its query up has not been waiting.
Handles(d, l, calls) ==
  /\ calls \in [Threads -> {Idle} \cup Calls(d)]
  /\ \A t \in Threads : calls[t] # Idle =>
       calls[t].cache \in 1 .. Len(l) /\ l[calls[t].cache].ifname = calls[t].ifname
  /\ \A t \in Threads : calls[t].pc = "lookup" => ~calls[t].crossed

\* The list of caches of device d and the calls that use them.
Coherent(d, l, calls) ==
  /\ l \in Seq(Caches(d))
  /\ \A c \in 1 .. Len(l) : Sound(d, l[c])
  /\ Handles(d, l, calls)
  /\ \A c \in 1 .. Len(l) : Owed(l, calls, c)

\* The inductive invariant of the resolver's cache.  Nobody has a cache before
\* _res_cache_init is done.
ResolvIInv ==
  /\ device \in Devices
  /\ once_control \in {"init", "done"}
  /\ once_lock \in Threads \cup {Nobody}
  /\ once \in [Threads -> {"out", "lock", "locked", "called", "unlock"}]
  /\ default_ifname \in device.ifaces
  /\ once_control = "init" => list = <<>> /\ call = [t \in Threads |-> Idle]
  /\ Coherent(device, list, call)

-----------------------------------------------------------------------------
\* A nonempty set of numbers has a least one.
LEMMA MinOf ==
  ASSUME NEW I, I \subseteq Nat, I # {}
  PROVE  Min(I) \in I
<1>1. PICK x \in I : \A y \in I : ~(<<y, x>> \in OpToRel(<, Nat))
  BY NatLessThanWellFounded, WFMin, Zenon
<1>2. \A y \in I : ~(y < x)
  BY <1>1, Zenon DEF OpToRel
<1>3. \A y \in I : x =< y
  BY <1>2
<1> QED
  BY <1>3, Zenon DEF Min

\* A nonempty set of numbers up to N has a largest one.
LEMMA MaxOf ==
  ASSUME NEW N \in Nat, NEW I, I \subseteq 1 .. N, I # {}
  PROVE  Max(I) \in I
<1> DEFINE T == {N - x : x \in I}
<1>1. T \subseteq Nat /\ T # {}
  <2>1. \A x \in I : N - x \in Nat
    OBVIOUS
  <2>2. PICK x \in I : TRUE
    BY Zenon
  <2> QED
    BY <2>1, <2>2, Zenon
<1> HIDE DEF T
<1>2. PICK m \in T : \A k \in T : ~(<<k, m>> \in OpToRel(<, Nat))
  BY <1>1, NatLessThanWellFounded, WFMin, Zenon
<1>3. \A k \in T : ~(k < m)
  BY <1>1, <1>2, Zenon DEF OpToRel
<1>4. PICK x \in I : m = N - x
  BY DEF T
<1>5. \A y \in I : N - y \in T
  BY DEF T
<1>6. \A y \in I : x >= y
  BY <1>1, <1>3, <1>4, <1>5
<1> QED
  BY <1>6, Zenon DEF Max

\* The first of the places I of a list with n elements, or 0.
LEMMA FirstQuery ==
  ASSUME NEW n \in Nat, NEW I, I \subseteq 1 .. n, NEW i, i = IF I # {} THEN Min(I) ELSE 0
  PROVE  \/ i = 0 /\ I = {}
         \/ i \in 1 .. n /\ i \in I /\ i # 0
<1>1. I # {} => Min(I) \in I
  <2>1. I \subseteq Nat
    OBVIOUS
  <2> QED
    BY <2>1, MinOf, Zenon
<1>2. CASE I = {}
  BY <1>2
<1>3. CASE I # {}
  <2>1. i \in I
    BY <1>1, <1>3, Zenon
  <2> QED
    BY <2>1
<1> QED
  BY <1>2, <1>3

\* The elements of a list.
LEMMA Elements ==
  ASSUME NEW E, NEW s \in Seq(E)
  PROVE  /\ Range(s) \subseteq E
         /\ \A x : x \in Range(s) <=> \E i \in 1 .. Len(s) : s[i] = x
<1>1. DOMAIN s = 1 .. Len(s) /\ \A i \in 1 .. Len(s) : s[i] \in E
  OBVIOUS
<1> QED
  BY ONLY <1>1, Zenon DEF Range

\* t is the list s without the element at place i.
Shortened(E, s, i, t) ==
  /\ t \in Seq(E) /\ Len(t) = Len(s) - 1
  /\ \A k \in 1 .. Len(s) - 1 : t[k] = IF k < i THEN s[k] ELSE s[k + 1]

LEMMA WithoutPlace ==
  ASSUME NEW E, NEW s \in Seq(E), NEW i \in 1 .. Len(s), NEW t,
         t = SubSeq(s, 1, i - 1) \o SubSeq(s, i + 1, Len(s))
  PROVE  Shortened(E, s, i, t)
<1>0. Len(s) \in Nat
  OBVIOUS
<1>1. PICK m \in Nat, n \in Nat : m = i - 1 /\ n = Len(s) - i
  <2>1. i - 1 \in Nat /\ Len(s) - i \in Nat
    BY ONLY <1>0, i \in 1 .. Len(s)
  <2> QED
    BY ONLY <2>1, Zenon
<1>2. SubSeq(s, 1, i - 1) \in Seq(E) /\ SubSeq(s, i + 1, Len(s)) \in Seq(E)
  OBVIOUS
<1>3. Len(SubSeq(s, 1, i - 1)) = m /\ Len(SubSeq(s, i + 1, Len(s))) = n
  BY <1>1
<1>4. \A k \in 1 .. m : SubSeq(s, 1, i - 1)[k] = s[k]
  BY <1>1
<1>5. \A k \in 1 .. n : SubSeq(s, i + 1, Len(s))[k] = s[k + i]
  BY <1>1
<1>6. PICK u \in Seq(E), v \in Seq(E) : u = SubSeq(s, 1, i - 1) /\ v = SubSeq(s, i + 1, Len(s))
  BY <1>2, Zenon
<1>7. t = u \o v
  BY <1>6, Zenon
<1>8. /\ Len(u) = m /\ Len(v) = n
      /\ \A k \in 1 .. m : u[k] = s[k]
      /\ \A k \in 1 .. n : v[k] = s[k + i]
  BY ONLY <1>3, <1>4, <1>5, <1>6, Zenon
<1>9. t \in Seq(E) /\ Len(t) = m + n
  <2>1. u \o v \in Seq(E) /\ Len(u \o v) = Len(u) + Len(v)
    OBVIOUS
  <2> QED
    BY ONLY <1>7, <1>8, <2>1
<1>10. \A k \in 1 .. m + n : t[k] = IF k <= m THEN u[k] ELSE v[k - m]
  <2>1. \A k \in 1 .. Len(u) + Len(v) : (u \o v)[k] = IF k <= Len(u) THEN u[k] ELSE v[k - Len(u)]
    OBVIOUS
  <2> QED
    BY ONLY <1>7, <1>8, <2>1
<1> QED
  <2>1. Len(s) \in Nat /\ m + n = Len(s) - 1
    BY <1>1
  <2>2. ASSUME NEW k \in 1 .. Len(s) - 1
        PROVE  t[k] = IF k < i THEN s[k] ELSE s[k + 1]
    <3>1. CASE k < i
      BY ONLY <1>1, <1>8, <1>10, <2>1, <3>1, k \in 1 .. Len(s) - 1, i \in 1 .. Len(s)
    <3>2. CASE ~(k < i)
      <4>1. PICK j \in 1 .. n : j = k - m
        BY ONLY <1>1, <2>1, <3>2, k \in 1 .. Len(s) - 1, i \in 1 .. Len(s), m \in Nat, n \in Nat
      <4>2. t[k] = v[j]
        <5>1. k \in 1 .. m + n /\ ~(k <= m)
          BY ONLY <1>1, <2>1, <3>2, k \in 1 .. Len(s) - 1, i \in 1 .. Len(s), m \in Nat
        <5> QED
          BY ONLY <1>10, <4>1, <5>1
      <4>3. j + i = k + 1
        BY ONLY <1>1, <2>1, <4>1, k \in 1 .. Len(s) - 1, i \in 1 .. Len(s)
      <4> QED
        BY <1>8, <3>2, <4>1, <4>2, <4>3, Zenon
    <3> QED
      BY <3>1, <3>2, Zenon
  <2> QED
    BY <1>9, <2>1, <2>2, Zenon DEF Shortened

\* A list of distinct entries without one of them.
LEMMA WithoutEntry ==
  ASSUME NEW E, NEW s \in Seq(E), NEW e \in Range(s), Distinct(s), NEW t, t = Without(s, e)
  PROVE  /\ t \in Seq(E) /\ Len(t) = Len(s) - 1
         /\ Distinct(t)
         /\ Range(t) = Range(s) \ {e}
<1> DEFINE I == {k \in 1 .. Len(s) : s[k] = e}
<1>0. \E k \in 1 .. Len(s) : s[k] = e
  BY Elements, Zenon
<1>1. I # {} /\ I \subseteq Nat
  BY <1>0
<1>2. PICK i \in 1 .. Len(s) : i = Min(I) /\ s[i] = e
  <2>1. Min(I) \in I
    BY <1>1, MinOf, Zenon
  <2> QED
    BY <2>1, Zenon
<1>3. t = SubSeq(s, 1, i - 1) \o SubSeq(s, i + 1, Len(s))
  BY <1>1, <1>2, Zenon DEF Without
<1> HIDE DEF I
<1>4. /\ t \in Seq(E) /\ Len(t) = Len(s) - 1
      /\ \A k \in 1 .. Len(s) - 1 : t[k] = IF k < i THEN s[k] ELSE s[k + 1]
  <2>1. Shortened(E, s, i, t)
    BY ONLY <1>3, s \in Seq(E), i \in 1 .. Len(s), WithoutPlace, Zenon
  <2> QED
    BY <2>1, Zenon DEF Shortened
<1>5. Len(s) \in Nat
  OBVIOUS
<1>6. Distinct(t)
  BY <1>4, <1>5 DEF Distinct
<1>7. ASSUME NEW k \in 1 .. Len(t)
      PROVE  t[k] \in Range(s) /\ t[k] # e
  <2>1. PICK m \in 1 .. Len(s) : t[k] = s[m] /\ m # i
    BY ONLY <1>4, <1>5, k \in 1 .. Len(t), i \in 1 .. Len(s)
  <2>2. s[m] # e
    BY <1>2, <2>1, Zenon DEF Distinct
  <2> QED
    BY <2>1, <2>2, Elements, Zenon
<1>8. ASSUME NEW m \in 1 .. Len(s), s[m] # e
      PROVE  s[m] \in Range(t)
  <2>1. CASE m < i
    <3>1. m \in 1 .. Len(t) /\ t[m] = s[m]
      BY ONLY <1>4, <1>5, <2>1, m \in 1 .. Len(s), i \in 1 .. Len(s)
    <3> QED
      BY <1>4, <3>1, Elements, Zenon
  <2>2. CASE ~(m < i)
    <3>1. m # i
      BY <1>2, <1>8, Zenon
    <3>2. PICK k \in 1 .. Len(t) : t[k] = s[m]
      <4>1. m - 1 \in 1 .. Len(s) - 1 /\ ~(m - 1 < i) /\ (m - 1) + 1 = m
        BY ONLY <1>5, <2>2, <3>1, m \in 1 .. Len(s), i \in 1 .. Len(s)
      <4>2. t[m - 1] = s[m]
        BY ONLY <1>4, <4>1
      <4> QED
        BY <1>4, <4>1, <4>2
    <3> QED
      BY <1>4, <3>2, Elements, Zenon
  <2> QED
    BY <2>1, <2>2, Zenon
<1>9. ASSUME NEW x
      PROVE  x \in Range(t) <=> x \in Range(s) /\ x # e
  <2>1. x \in Range(t) <=> \E k \in 1 .. Len(t) : t[k] = x
    BY <1>4, Elements, Zenon
  <2>2. x \in Range(s) <=> \E k \in 1 .. Len(s) : s[k] = x
    BY Elements, Zenon
  <2> QED
    BY ONLY <1>7, <1>8, <2>1, <2>2, Zenon
<1> QED
  BY <1>4, <1>6, <1>9, Zenon

\* A list of distinct entries with a new one in front.
LEMMA WithFront ==
  ASSUME NEW E, NEW s \in Seq(E), NEW e \in E, Distinct(s),
         NoneFor(s, e.query), NEW t, t = <<e>> \o s
  PROVE  Extended(E, s, e, t)
<1>1. /\ t \in Seq(E) /\ Len(t) = Len(s) + 1 /\ Len(s) \in Nat
      /\ t[1] = e /\ \A k \in 1 .. Len(s) : t[k + 1] = s[k]
  OBVIOUS
<1>2. \A k \in 1 .. Len(s) : s[k].query # e.query
  BY Elements, Zenon DEF NoneFor
<1>3. \A k \in 1 .. Len(t) : k = 1 \/ \E m \in 1 .. Len(s) : k = m + 1
  <2> TAKE k \in 1 .. Len(t)
  <2>1. CASE k # 1
    <3>1. k - 1 \in 1 .. Len(s) /\ k = (k - 1) + 1
      BY <1>1, <2>1
    <3> QED
      BY <3>1
  <2> QED
    BY <2>1
<1>4. Distinct(t)
  <2> SUFFICES ASSUME NEW i \in 1 .. Len(t), NEW j \in 1 .. Len(t), t[i].query = t[j].query
               PROVE  i = j
    BY Zenon DEF Distinct
  <2>1. CASE i = 1 /\ j = 1
    BY <2>1
  <2>2. CASE i = 1 /\ j # 1
    <3>1. PICK m \in 1 .. Len(s) : j = m + 1
      BY <1>3, <2>2, Zenon
    <3> QED
      BY ONLY <1>1, <1>2, <2>2, <3>1, t[i].query = t[j].query
  <2>3. CASE i # 1 /\ j = 1
    <3>1. PICK m \in 1 .. Len(s) : i = m + 1
      BY <1>3, <2>3, Zenon
    <3> QED
      BY ONLY <1>1, <1>2, <2>3, <3>1, t[i].query = t[j].query
  <2>4. CASE i # 1 /\ j # 1
    <3>1. PICK m \in 1 .. Len(s), n \in 1 .. Len(s) : i = m + 1 /\ j = n + 1
      BY <1>3, <2>4, Zenon
    <3>2. s[m].query = s[n].query
      BY ONLY <1>1, <3>1, t[i].query = t[j].query
    <3>3. m = n
      BY <3>2, Zenon DEF Distinct
    <3> QED
      BY ONLY <3>1, <3>3
  <2> QED
    BY <2>1, <2>2, <2>3, <2>4, Zenon
<1>5. ASSUME NEW x
      PROVE  x \in Range(t) <=> x \in Range(s) \/ x = e
  <2>1. 1 \in 1 .. Len(t) /\ \A m \in 1 .. Len(s) : m + 1 \in 1 .. Len(t)
    BY <1>1
  <2> QED
    <3>0. t \in Seq(E)
      BY <1>1, Zenon
    <3>1. x \in Range(t) <=> \E k \in 1 .. Len(t) : t[k] = x
      BY ONLY <3>0, Elements, Zenon
    <3>2. x \in Range(s) <=> \E k \in 1 .. Len(s) : s[k] = x
      BY Elements, Zenon
    <3> QED
      BY ONLY <1>1, <1>3, <2>1, <3>1, <3>2
<1> QED
  BY <1>1, <1>4, <1>5, Zenon DEF Extended

\* A list of distinct entries with a new one at the end.
LEMMA WithLast ==
  ASSUME NEW E, NEW s \in Seq(E), NEW e \in E, Distinct(s),
         NoneFor(s, e.query), NEW t, t = Append(s, e)
  PROVE  Extended(E, s, e, t)
<1>1. /\ t \in Seq(E) /\ Len(t) = Len(s) + 1 /\ Len(s) \in Nat
      /\ t[Len(t)] = e /\ \A k \in 1 .. Len(s) : t[k] = s[k]
  OBVIOUS
<1>2. \A k \in 1 .. Len(s) : s[k].query # e.query
  BY Elements, Zenon DEF NoneFor
<1>3. \A k \in 1 .. Len(t) : k = Len(t) \/ k \in 1 .. Len(s)
  BY <1>1
<1>4. Distinct(t)
  <2> SUFFICES ASSUME NEW i \in 1 .. Len(t), NEW j \in 1 .. Len(t), t[i].query = t[j].query
               PROVE  i = j
    BY Zenon DEF Distinct
  <2>1. CASE i = Len(t) /\ j = Len(t)
    BY <2>1
  <2>2. CASE i = Len(t) /\ j # Len(t)
    BY <1>1, <1>2, <1>3, <2>2, Zenon
  <2>3. CASE i # Len(t) /\ j = Len(t)
    BY <1>1, <1>2, <1>3, <2>3, Zenon
  <2>4. CASE i # Len(t) /\ j # Len(t)
    BY <1>1, <1>3, <2>4, Zenon DEF Distinct
  <2> QED
    BY <2>1, <2>2, <2>3, <2>4, Zenon
<1>5. ASSUME NEW x
      PROVE  x \in Range(t) <=> x \in Range(s) \/ x = e
  <2>1. Len(t) \in 1 .. Len(t) /\ \A m \in 1 .. Len(s) : m \in 1 .. Len(t)
    BY <1>1
  <2> QED
    <3>0. t \in Seq(E)
      BY <1>1, Zenon
    <3>1. x \in Range(t) <=> \E k \in 1 .. Len(t) : t[k] = x
      BY ONLY <3>0, Elements, Zenon
    <3>2. x \in Range(s) <=> \E k \in 1 .. Len(s) : s[k] = x
      BY Elements, Zenon
    <3> QED
      BY ONLY <1>1, <1>3, <2>1, <3>1, <3>2
<1> QED
  BY <1>1, <1>4, <1>5, Zenon DEF Extended

-----------------------------------------------------------------------------
\* What is assumed of the device, in the words of the invariant.
LEMMA DeviceFacts ==
  ASSUME device \in Devices
  PROVE  /\ device.max_entries \in Nat \ {0}
         /\ NoName \in device.ifaces
         /\ \A q \in device.queries : Bucket(q) \in 0 .. device.max_entries - 1
         /\ NULL \notin Entries(device)
<1>1. device.max_entries \in Nat \ {0} /\ NoName \in device.ifaces
  BY ResolvCacheAssumption
<1>2. ASSUME NEW h \in Nat, NEW m \in Nat \ {0}
      PROVE  h % m \in 0 .. m - 1
  BY <1>2
<1>3. ASSUME NEW q \in device.queries
      PROVE  Bucket(q) \in 0 .. device.max_entries - 1
  <2>1. Hash[q] \in Nat
    BY ResolvCacheAssumption, Zenon
  <2> QED
    BY <1>1, <1>2, <2>1, Zenon DEF Bucket
<1> QED
  BY <1>1, <1>3, ResolvCacheAssumption, Zenon DEF Entries

\* What is known of a sound cache.
LEMMA SoundCache ==
  ASSUME device \in Devices, NEW cache, Sound(device, cache)
  PROVE  /\ cache \in Caches(device)
         /\ cache.mru_list \in Seq(Entries(device))
         /\ cache.entries \in [0 .. device.max_entries - 1 -> Seq(Entries(device))]
         /\ Range(cache.mru_list) \subseteq Entries(device)
         /\ \A e \in Range(cache.mru_list) : Bucket(e.query) \in 0 .. device.max_entries - 1
         /\ \A b \in 0 .. device.max_entries - 1 :
              Range(cache.entries[b]) = {e \in Range(cache.mru_list) : Bucket(e.query) = b}
         /\ EntriesOf(cache) = Range(cache.mru_list)
<1>1. /\ cache \in Caches(device)
      /\ cache.mru_list \in Seq(Entries(device))
      /\ cache.entries \in [0 .. device.max_entries - 1 -> Seq(Entries(device))]
  BY DEF Sound, Caches
<1>2. Range(cache.mru_list) \subseteq Entries(device)
  BY <1>1, Elements, Zenon
<1>3. ASSUME NEW e \in Range(cache.mru_list)
      PROVE  Bucket(e.query) \in 0 .. device.max_entries - 1
  <2>1. e.query \in device.queries
    BY <1>2 DEF Entries
  <2> QED
    BY <2>1, DeviceFacts, Zenon
<1>4. ASSUME NEW b \in 0 .. device.max_entries - 1
      PROVE  Range(cache.entries[b]) = {e \in Range(cache.mru_list) : Bucket(e.query) = b}
  BY Zenon DEF Sound, Bucket
<1>5. DOMAIN cache.entries = 0 .. device.max_entries - 1
  BY <1>1
<1>6. EntriesOf(cache) = Range(cache.mru_list)
  <2>1. ASSUME NEW x \in EntriesOf(cache)
        PROVE  x \in Range(cache.mru_list)
    <3>1. PICK b \in 0 .. device.max_entries - 1 : x \in Range(cache.entries[b])
      BY <1>5, Zenon DEF EntriesOf
    <3> QED
      BY <1>4, <3>1, Zenon
  <2>2. ASSUME NEW x \in Range(cache.mru_list)
        PROVE  x \in EntriesOf(cache)
    <3>1. x \in Range(cache.entries[Bucket(x.query)])
      BY <1>3, <1>4, Zenon
    <3> QED
      BY <1>3, <1>5, <3>1, Zenon DEF EntriesOf
  <2> QED
    BY <2>1, <2>2, Zenon
<1> QED
  BY <1>1, <1>2, <1>3, <1>4, <1>6, Zenon

\* _cache_lookup_p finds the entry for a query if there is one.
LEMMA LookupFinds ==
  ASSUME device \in Devices, NEW cache, Sound(device, cache), NEW q \in device.queries,
         NEW e, e = _cache_lookup_p(cache, q)
  PROVE  \/ e = NULL /\ NoneFor(cache.mru_list, q)
         \/ /\ e # NULL /\ e \in Range(cache.mru_list) /\ e \in Entries(device)
            /\ e.query = q
<1>1. PICK b \in 0 .. device.max_entries - 1 : b = Bucket(q)
  BY DeviceFacts, Zenon
<1>2. PICK chain \in Seq(Entries(device)) : chain = cache.entries[b]
  BY SoundCache, Zenon
<1> DEFINE I == {k \in 1 .. Len(chain) : chain[k].query = q}
<1>3. PICK i : i = IF I # {} THEN Min(I) ELSE 0
  BY Zenon
<1>4. e = IF i = 0 THEN NULL ELSE chain[i]
  <2>1. e = IF I = {} THEN NULL ELSE chain[Min(I)]
    BY <1>1, <1>2, Zenon DEF _cache_lookup_p
  <2>2. I # {} => Min(I) \in I
    <3>1. I \subseteq Nat
      OBVIOUS
    <3> QED
      BY <3>1, MinOf, Zenon
  <2>3. I # {} => Min(I) # 0
    BY <2>2
  <2> QED
    BY <1>3, <2>1, <2>3, Zenon
<1>5. \/ i = 0 /\ \A k \in 1 .. Len(chain) : chain[k].query # q
      \/ i \in 1 .. Len(chain) /\ chain[i].query = q
  <2>1. Len(chain) \in Nat /\ I \subseteq 1 .. Len(chain)
    OBVIOUS
  <2>2. \/ i = 0 /\ I = {}
        \/ i \in 1 .. Len(chain) /\ i \in I
    BY <1>3, <2>1, FirstQuery, Zenon
  <2> QED
    <3>1. CASE i = 0 /\ I = {}
      BY ONLY <3>1 DEF I
    <3>2. CASE i \in I
      BY ONLY <3>2 DEF I
    <3> QED
      BY <2>2, <3>1, <3>2, Zenon
<1> HIDE DEF I
<1>6. /\ Range(chain) \subseteq Entries(device)
      /\ \A x : x \in Range(chain) <=> \E k \in 1 .. Len(chain) : chain[k] = x
  BY Elements, Zenon
<1>7. Range(chain) = {x \in Range(cache.mru_list) : Bucket(x.query) = b}
  BY <1>2, SoundCache, Zenon
<1>8. CASE i = 0
  <2>1. e = NULL /\ \A k \in 1 .. Len(chain) : chain[k].query # q
    BY <1>4, <1>5, <1>8
  <2>2. ASSUME NEW x \in Range(cache.mru_list), x.query = q
        PROVE  FALSE
    <3>1. x \in Range(chain)
      BY <1>1, <1>7, <2>2, Zenon
    <3> QED
      BY <1>6, <2>1, <2>2, <3>1, Zenon
  <2> QED
    BY <2>1, <2>2, Zenon DEF NoneFor
<1>9. CASE i # 0
  <2>1. e = chain[i] /\ i \in 1 .. Len(chain) /\ e.query = q
    BY <1>4, <1>5, <1>9
  <2>2. e \in Entries(device) /\ e \in Range(cache.mru_list)
    BY <1>6, <1>7, <2>1, Zenon
  <2> QED
    BY <2>1, <2>2, DeviceFacts, Zenon
<1> QED
  BY <1>8, <1>9, Zenon

\* _cache_remove_p leaves a sound cache without the entry.
LEMMA RemoveSound ==
  ASSUME device \in Devices, NEW cache, Sound(device, cache), NEW e \in Range(cache.mru_list),
         NEW new, new = _cache_remove_p(cache, e)
  PROVE  Follows(device, cache, new, {}) /\ new.num_entries = cache.num_entries - 1
<1> DEFINE B == 0 .. device.max_entries - 1
<1>1. /\ cache \in Caches(device)
      /\ cache.mru_list \in Seq(Entries(device))
      /\ cache.entries \in [B -> Seq(Entries(device))]
      /\ \A c \in B : Range(cache.entries[c]) = {x \in Range(cache.mru_list) : Bucket(x.query) = c}
  BY SoundCache, Zenon
<1>2. PICK b \in B : b = Bucket(e.query)
  BY SoundCache, Zenon
<1>3. PICK mru_list : mru_list = Without(cache.mru_list, e)
  OBVIOUS
<1>4. PICK chain : chain = Without(cache.entries[b], e)
  OBVIOUS
<1>5. /\ mru_list \in Seq(Entries(device)) /\ Len(mru_list) = Len(cache.mru_list) - 1
      /\ Distinct(mru_list)
      /\ Range(mru_list) = Range(cache.mru_list) \ {e}
  <2>1. Distinct(cache.mru_list)
    BY DEF Sound
  <2> QED
    BY ONLY <1>1, <1>3, <2>1, e \in Range(cache.mru_list), WithoutEntry, Zenon
<1>6. /\ chain \in Seq(Entries(device)) /\ Distinct(chain)
      /\ Range(chain) = Range(cache.entries[b]) \ {e}
  <2>1. e \in Range(cache.entries[b]) /\ Distinct(cache.entries[b])
    BY <1>1, <1>2, Zenon DEF Sound
  <2>2. cache.entries[b] \in Seq(Entries(device))
    BY <1>1, Zenon
  <2> QED
    BY <1>4, <2>1, <2>2, WithoutEntry, Zenon
<1>7. PICK entries : entries = [cache.entries EXCEPT ![b] = chain]
  BY Zenon
<1>8. /\ entries \in [B -> Seq(Entries(device))]
      /\ \A c \in B : entries[c] = IF c = b THEN chain ELSE cache.entries[c]
  BY <1>1, <1>6, <1>7, Zenon
<1>9. PICK n : n = cache.num_entries - 1
  OBVIOUS
<1>10. new = [cache EXCEPT !.entries = entries, !.mru_list = mru_list, !.num_entries = n]
  BY <1>2, <1>3, <1>4, <1>7, <1>9, Zenon DEF _cache_remove_p
<1>11. new = [ifname |-> cache.ifname, mru_list |-> mru_list, entries |-> entries,
              num_entries |-> n, generation |-> cache.generation, crossings |-> cache.crossings]
  BY ONLY <1>1, <1>10, Zenon DEF Caches
<1>12. /\ n \in 0 .. device.max_entries /\ Len(mru_list) = n
       /\ cache.ifname \in device.ifaces /\ cache.generation \in Generations \cup {-1}
       /\ cache.crossings \in Nat
  <2>1. /\ Len(cache.mru_list) = cache.num_entries /\ cache.num_entries \in 0 .. device.max_entries
        /\ cache.ifname \in device.ifaces /\ cache.generation \in Generations \cup {-1}
        /\ cache.crossings \in Nat
    BY DEF Sound, Caches
  <2>2. Len(mru_list) \in Nat /\ device.max_entries \in Nat
    BY <1>5, DeviceFacts
  <2> QED
    BY <1>5, <1>9, <2>1, <2>2
<1>13. ASSUME NEW c \in B
       PROVE  /\ Distinct(entries[c])
              /\ Range(entries[c]) = {x \in Range(mru_list) : Bucket(x.query) = c}
  <2>1. CASE c = b
    BY <1>1, <1>5, <1>6, <1>8, <2>1, Zenon
  <2>2. CASE c # b
    <3>1. entries[c] = cache.entries[c] /\ Distinct(cache.entries[c])
      BY <1>8, <2>2, Zenon DEF Sound
    <3>2. ASSUME NEW x
          PROVE  x \in Range(cache.entries[c]) <=> x \in Range(mru_list) /\ Bucket(x.query) = c
      <4>1. x \in Range(cache.entries[c]) <=> x \in Range(cache.mru_list) /\ Bucket(x.query) = c
        BY <1>1, Zenon
      <4>2. x \in Range(mru_list) <=> x \in Range(cache.mru_list) /\ x # e
        BY <1>5, Zenon
      <4>3. x = e => Bucket(x.query) # c
        BY <1>2, <2>2, Zenon
      <4> QED
        BY ONLY <4>1, <4>2, <4>3, Zenon
    <3> QED
      BY <3>1, <3>2, Zenon
  <2> QED
    BY <2>1, <2>2, Zenon
<1>14. /\ new \in Caches(device) /\ new.mru_list = mru_list /\ new.entries = entries
       /\ new.num_entries = n /\ new.ifname = cache.ifname /\ new.crossings = cache.crossings
  BY ONLY <1>5, <1>8, <1>11, <1>12 DEF Caches
<1>15. Sound(device, new)
  BY <1>5, <1>12, <1>13, <1>14, Zenon DEF Sound, Bucket
<1> QED
  BY <1>5, <1>9, <1>14, <1>15, Zenon DEF Follows

\* _cache_add_p adds an entry to a sound cache that has room and none for the query,
\* if the link is one of the bucket's.
LEMMA AddSound ==
  ASSUME device \in Devices, NEW cache, Sound(device, cache), cache.num_entries < device.max_entries,
         NEW e \in Entries(device), NoneFor(cache.mru_list, e.query),
         NEW link \in Range(cache.entries[Bucket(e.query)]) \cup {NULL},
         NEW new, new = _cache_add_p(cache, link, e)
  PROVE  Follows(device, cache, new, {e})
<1> DEFINE B == 0 .. device.max_entries - 1
<1>1. /\ cache \in Caches(device)
      /\ cache.mru_list \in Seq(Entries(device))
      /\ cache.entries \in [B -> Seq(Entries(device))]
      /\ \A c \in B : Range(cache.entries[c]) = {x \in Range(cache.mru_list) : Bucket(x.query) = c}
  BY SoundCache, Zenon
<1>2. PICK b \in B : b = Bucket(e.query)
  <2>1. e.query \in device.queries
    BY DEF Entries
  <2> QED
    BY <2>1, DeviceFacts, Zenon
<1>3. PICK mru_list : mru_list = <<e>> \o cache.mru_list
  BY Zenon
<1>4. PICK chain : chain = Append(cache.entries[b], e)
  BY Zenon
<1>5. /\ mru_list \in Seq(Entries(device)) /\ Len(mru_list) = Len(cache.mru_list) + 1
      /\ Distinct(mru_list)
      /\ \A x : x \in Range(mru_list) <=> x \in Range(cache.mru_list) \/ x = e
  <2>1. Distinct(cache.mru_list)
    BY DEF Sound
  <2>2. Extended(Entries(device), cache.mru_list, e, mru_list)
    BY ONLY <1>1, <1>3, <2>1, e \in Entries(device), NoneFor(cache.mru_list, e.query), WithFront, Zenon
  <2> QED
    BY <2>2, Zenon DEF Extended
<1>6. /\ chain \in Seq(Entries(device)) /\ Distinct(chain)
      /\ \A x : x \in Range(chain) <=> x \in Range(cache.entries[b]) \/ x = e
  <2>1. Distinct(cache.entries[b]) /\ NoneFor(cache.entries[b], e.query)
    BY <1>1, <1>2, Zenon DEF Sound, NoneFor
  <2>2. cache.entries[b] \in Seq(Entries(device))
    BY <1>1, Zenon
  <2>3. Extended(Entries(device), cache.entries[b], e, chain)
    BY ONLY <1>4, <2>1, <2>2, e \in Entries(device), WithLast, Zenon
  <2> QED
    BY <2>3, Zenon DEF Extended
<1>7. PICK entries : entries = [cache.entries EXCEPT ![b] = chain]
  BY Zenon
<1>8. /\ entries \in [B -> Seq(Entries(device))]
      /\ \A c \in B : entries[c] = IF c = b THEN chain ELSE cache.entries[c]
  BY <1>1, <1>6, <1>7, Zenon
<1>9. PICK n : n = cache.num_entries + 1
  OBVIOUS
<1>10. new = [cache EXCEPT !.entries = entries, !.mru_list = mru_list, !.num_entries = n]
  BY <1>2, <1>3, <1>4, <1>7, <1>9, Zenon DEF _cache_add_p
<1>11. new = [ifname |-> cache.ifname, mru_list |-> mru_list, entries |-> entries,
              num_entries |-> n, generation |-> cache.generation, crossings |-> cache.crossings]
  BY ONLY <1>1, <1>10, Zenon DEF Caches
<1>12. /\ n \in 0 .. device.max_entries /\ Len(mru_list) = n
       /\ cache.ifname \in device.ifaces /\ cache.generation \in Generations \cup {-1}
       /\ cache.crossings \in Nat
  <2>1. /\ Len(cache.mru_list) = cache.num_entries /\ cache.num_entries \in 0 .. device.max_entries
        /\ cache.ifname \in device.ifaces /\ cache.generation \in Generations \cup {-1}
        /\ cache.crossings \in Nat
    BY DEF Sound, Caches
  <2>2. device.max_entries \in Nat
    BY DeviceFacts
  <2> QED
    BY <1>5, <1>9, <2>1, <2>2
<1>13. ASSUME NEW c \in B
       PROVE  /\ Distinct(entries[c])
              /\ Range(entries[c]) = {x \in Range(mru_list) : Bucket(x.query) = c}
  <2>0. ASSUME NEW x
        PROVE  x \in Range(entries[c]) <=> x \in Range(mru_list) /\ Bucket(x.query) = c
    <3>1. x \in Range(cache.entries[c]) <=> x \in Range(cache.mru_list) /\ Bucket(x.query) = c
      BY <1>1, Zenon
    <3>2. x \in Range(mru_list) <=> x \in Range(cache.mru_list) \/ x = e
      BY <1>5, Zenon
    <3>3. x \in Range(entries[c]) <=> x \in Range(cache.entries[c]) \/ (c = b /\ x = e)
      BY <1>6, <1>8, Zenon
    <3> QED
      BY ONLY <1>2, <3>1, <3>2, <3>3, Zenon
  <2>1. Distinct(entries[c])
    BY <1>6, <1>8, Zenon DEF Sound
  <2> QED
    BY <2>0, <2>1, Zenon
<1>14. /\ new \in Caches(device) /\ new.mru_list = mru_list /\ new.entries = entries
       /\ new.num_entries = n /\ new.ifname = cache.ifname /\ new.crossings = cache.crossings
  BY ONLY <1>5, <1>8, <1>11, <1>12 DEF Caches
<1>15. Sound(device, new)
  BY <1>5, <1>12, <1>13, <1>14, Zenon DEF Sound, Bucket
<1> QED
  BY <1>5, <1>14, <1>15, Zenon DEF Follows

\* A lookup that finds the entry moves it to the front of the list.
LEMMA BumpSound ==
  ASSUME device \in Devices, NEW cache, Sound(device, cache), NEW e \in Range(cache.mru_list),
         NEW new, new = Bump(cache, e)
  PROVE  /\ Sound(device, new)
         /\ Range(new.mru_list) = Range(cache.mru_list)
         /\ new.ifname = cache.ifname /\ new.crossings = cache.crossings
<1>1. /\ cache \in Caches(device)
      /\ cache.mru_list \in Seq(Entries(device))
      /\ Distinct(cache.mru_list)
      /\ Range(cache.mru_list) \subseteq Entries(device)
  BY SoundCache, Zenon DEF Sound
<1>2. PICK rest : rest = Without(cache.mru_list, e)
  OBVIOUS
<1>3. PICK mru_list : mru_list = <<e>> \o rest
  BY Zenon
<1>4. /\ rest \in Seq(Entries(device)) /\ Len(rest) = Len(cache.mru_list) - 1
      /\ Distinct(rest)
      /\ Range(rest) = Range(cache.mru_list) \ {e}
  BY ONLY <1>1, <1>2, e \in Range(cache.mru_list), WithoutEntry, Zenon
<1>5. NoneFor(rest, e.query)
  <2> SUFFICES ASSUME NEW x \in Range(cache.mru_list), x.query = e.query
               PROVE  x = e
    BY <1>4, Zenon DEF NoneFor
  <2>1. PICK i \in 1 .. Len(cache.mru_list) : cache.mru_list[i] = x
    BY <1>1, Elements, Zenon
  <2>2. PICK j \in 1 .. Len(cache.mru_list) : cache.mru_list[j] = e
    BY <1>1, Elements, Zenon
  <2> QED
    BY <1>1, <2>1, <2>2, Zenon DEF Distinct
<1>6. /\ mru_list \in Seq(Entries(device)) /\ Len(mru_list) = Len(rest) + 1
      /\ Distinct(mru_list)
      /\ \A x : x \in Range(mru_list) <=> x \in Range(rest) \/ x = e
  <2>1. e \in Entries(device)
    BY <1>1
  <2>2. Extended(Entries(device), rest, e, mru_list)
    BY ONLY <1>3, <1>4, <1>5, <2>1, WithFront, Zenon
  <2> QED
    BY <2>2, Zenon DEF Extended
<1>7. Len(mru_list) = Len(cache.mru_list) /\ Range(mru_list) = Range(cache.mru_list)
  <2>1. Len(cache.mru_list) \in Nat
    BY <1>1
  <2>2. Len(mru_list) = Len(cache.mru_list)
    BY ONLY <1>4, <1>6, <2>1
  <2> QED
    BY <1>4, <1>6, <2>2, Zenon
<1>8. new = [cache EXCEPT !.mru_list = mru_list]
  BY <1>2, <1>3, Zenon DEF Bump
<1>9. /\ new \in Caches(device) /\ new.mru_list = mru_list /\ new.entries = cache.entries
      /\ new.num_entries = cache.num_entries /\ new.ifname = cache.ifname
      /\ new.crossings = cache.crossings
  BY ONLY <1>1, <1>6, <1>8, Zenon DEF Caches
<1>10. Sound(device, new)
  BY <1>6, <1>7, <1>9, Zenon DEF Sound
<1> QED
  BY <1>7, <1>9, <1>10, Zenon

\* A full cache makes room: the last of the list is found in the hash table.
LEMMA OldestRemoved ==
  ASSUME device \in Devices, NEW cache, Sound(device, cache),
         cache.num_entries >= device.max_entries,
         NEW room, room = _cache_remove_oldest(cache)
  PROVE  /\ Follows(device, cache, room, {})
         /\ room.num_entries < device.max_entries
<1>1. /\ cache.mru_list \in Seq(Entries(device))
      /\ cache.num_entries \in 0 .. device.max_entries
      /\ cache.num_entries = Len(cache.mru_list)
  BY SoundCache DEF Sound, Caches
<1>2. device.max_entries \in Nat \ {0}
  BY DeviceFacts, Zenon
<1>3. PICK n : n = Len(cache.mru_list)
  BY Zenon
<1>4. n \in 1 .. Len(cache.mru_list)
  BY <1>1, <1>2, <1>3
<1>5. PICK last \in Range(cache.mru_list) : last = cache.mru_list[Len(cache.mru_list)]
  BY <1>1, <1>3, <1>4, Elements, Zenon
<1>6. last.query \in device.queries
  <2>1. last \in Entries(device)
    BY SoundCache, Zenon
  <2> QED
    BY <2>1 DEF Entries
<1>7. PICK e : e = _cache_lookup_p(cache, last.query)
  OBVIOUS
<1>8. e # NULL /\ e \in Range(cache.mru_list)
  BY <1>6, <1>7, LookupFinds, Zenon DEF NoneFor
<1>9. room = _cache_remove_p(cache, e)
  BY <1>5, <1>7, <1>8, Zenon DEF _cache_remove_oldest
<1>10. Follows(device, cache, room, {}) /\ room.num_entries = cache.num_entries - 1
  BY <1>8, <1>9, RemoveSound, Zenon
<1>11. room.num_entries < device.max_entries
  BY ONLY <1>1, <1>2, <1>10
<1> QED
  BY <1>10, <1>11, Zenon

\* _resolv_cache_add on a sound cache.
LEMMA AnswerSound ==
  ASSUME device \in Devices, NEW cache, Sound(device, cache), NEW q \in device.queries,
         NEW ttl \in Nat, NEW crossed \in BOOLEAN,
         NEW e, e = [query |-> q, expires |-> ttl, crossed |-> crossed],
         NEW new, new = WithAnswer(cache, q, ttl, crossed)
  PROVE  Follows(device, cache, new, {e})
<1>1. e \in Entries(device) /\ e.query = q
  BY DEF Entries
<1>2. PICK room : room = IF cache.num_entries >= device.max_entries THEN _cache_remove_oldest(cache)
                         ELSE cache
  OBVIOUS
<1>3. Follows(device, cache, room, {}) /\ room.num_entries < device.max_entries
  <2>1. CASE cache.num_entries >= device.max_entries
    BY <1>2, <2>1, OldestRemoved, Zenon
  <2>2. CASE ~(cache.num_entries >= device.max_entries)
    <3>1. room = cache
      BY <1>2, <2>2, Zenon
    <3>2. cache.num_entries \in Nat /\ device.max_entries \in Nat
      BY DeviceFacts DEF Sound, Caches
    <3>3. cache.num_entries < device.max_entries
      BY ONLY <2>2, <3>2
    <3> QED
      BY <3>1, <3>3, Zenon DEF Follows
  <2> QED
    BY <2>1, <2>2, Zenon
<1>4. Sound(device, room)
  BY <1>3, Zenon DEF Follows
<1>5. PICK x : x = _cache_lookup_p(cache, q)
  OBVIOUS
<1>6. PICK y : y = _cache_lookup_p(room, q)
  OBVIOUS
<1>7. new = IF x # NULL THEN cache
            ELSE IF ttl = 0 \/ y # NULL THEN room
            ELSE _cache_add_p(room, Link(room, q), e)
  BY <1>2, <1>5, <1>6, Zenon DEF WithAnswer
<1>8. CASE new = cache
  BY <1>8, Zenon DEF Follows
<1>9. CASE new = room
  BY <1>3, <1>9, Zenon DEF Follows
<1>10. CASE y = NULL /\ new = _cache_add_p(room, Link(room, q), e)
  <2>1. NoneFor(room.mru_list, e.query)
    BY <1>1, <1>4, <1>6, <1>10, LookupFinds, Zenon
  <2>2. PICK link : link = Link(room, q)
    OBVIOUS
  <2>3. PICK b \in 0 .. device.max_entries - 1 : b = Bucket(q)
    BY DeviceFacts, Zenon
  <2>4. PICK chain \in Seq(Entries(device)) : chain = room.entries[b]
    BY <1>4, SoundCache, Zenon
  <2>5. link \in Range(chain) \cup {NULL}
    <3>1. link = IF chain = <<>> THEN NULL ELSE chain[Len(chain)]
      BY <2>2, <2>3, <2>4, Zenon DEF Link
    <3>2. chain # <<>> => Len(chain) \in 1 .. Len(chain)
      OBVIOUS
    <3> QED
      BY <3>1, <3>2, Elements, Zenon
  <2>6. link \in Range(room.entries[Bucket(e.query)]) \cup {NULL}
    BY <1>1, <2>3, <2>4, <2>5, Zenon
  <2>7. Follows(device, room, new, {e})
    BY ONLY <1>1, <1>3, <1>4, <1>10, <2>1, <2>2, <2>6, device \in Devices, AddSound, Zenon
  <2> QED
    BY <1>3, <2>7, Zenon DEF Follows
<1> QED
  BY <1>7, <1>8, <1>9, <1>10, Zenon

\* A cache that _resolv_cache_create has made or _cache_flush_locked has emptied.
LEMMA FreshSound ==
  ASSUME device \in Devices, NEW i \in device.ifaces, NEW g \in Generations \cup {-1},
         NEW n \in Nat, NEW new,
         new = [ifname |-> i, mru_list |-> <<>>,
                entries |-> [b \in 0 .. device.max_entries - 1 |-> <<>>],
                num_entries |-> 0, generation |-> g, crossings |-> n]
  PROVE  Fresh(device, new, i, n)
<1>1. <<>> \in Seq(Entries(device)) /\ Len(<<>>) = 0
  OBVIOUS
<1>2. \A k \in 1 .. 0 : FALSE
  OBVIOUS
<1>3. Range(<<>>) = {} /\ Distinct(<<>>)
  <2>1. 1 .. Len(<<>>) = {}
    BY <1>1, <1>2
  <2>2. Distinct(<<>>)
    BY <2>1, Zenon DEF Distinct
  <2>3. \A x : x \in Range(<<>>) <=> \E k \in 1 .. Len(<<>>) : <<>>[k] = x
    BY <1>1, Elements, Zenon
  <2> QED
    BY <2>1, <2>2, <2>3, Zenon
<1>4. device.max_entries \in Nat
  BY DeviceFacts, Zenon
<1>5. /\ new \in Caches(device) /\ new.mru_list = <<>> /\ new.ifname = i /\ new.crossings = n
      /\ new.num_entries = 0
      /\ \A b \in 0 .. device.max_entries - 1 : new.entries[b] = <<>>
  BY ONLY <1>1, <1>4, i \in device.ifaces, g \in Generations \cup {-1}, n \in Nat,
          new = [ifname |-> i, mru_list |-> <<>>,
                 entries |-> [b \in 0 .. device.max_entries - 1 |-> <<>>],
                 num_entries |-> 0, generation |-> g, crossings |-> n] DEF Caches
<1>6. Len(new.mru_list) = new.num_entries
  BY <1>1, <1>5, Zenon
<1>7. Sound(device, new)
  BY <1>3, <1>5, <1>6, Zenon DEF Sound
<1> QED
  BY <1>3, <1>5, <1>7, Zenon DEF Fresh

-----------------------------------------------------------------------------
\* The entries of a list are finite in number.
LEMMA FiniteElements ==
  ASSUME NEW E, NEW s \in Seq(E)
  PROVE  IsFiniteSet(Range(s))
<1>1. Len(s) \in Int /\ 1 \in Int /\ DOMAIN s = 1 .. Len(s) /\ s \in [1 .. Len(s) -> E]
  OBVIOUS
<1>2. IsFiniteSet(1 .. Len(s))
  BY <1>1, FS_Interval, Zenon
<1>3. \A x : x \in Range(s) <=> \E k \in 1 .. Len(s) : s[k] = x
  BY Elements, Zenon
<1>4. s \in [1 .. Len(s) -> Range(s)]
  BY <1>1, <1>3
<1>5. s \in Surjection(1 .. Len(s), Range(s))
  BY <1>3, <1>4, Zenon DEF Surjection
<1> QED
  BY <1>2, <1>5, FS_Surjection, Zenon

\* The entries of a cache from before its last flush are as well.
LEMMA CrossedFinite ==
  ASSUME NEW d, NEW cache, Sound(d, cache)
  PROVE  IsFiniteSet(Crossed(cache)) /\ Cardinality(Crossed(cache)) \in Nat
<1>1. cache.mru_list \in Seq(Entries(d))
  BY DEF Sound, Caches
<1>2. IsFiniteSet(Range(cache.mru_list))
  BY <1>1, FiniteElements, Zenon
<1>3. Crossed(cache) \in SUBSET Range(cache.mru_list)
  BY Zenon DEF Crossed
<1> QED
  BY <1>2, <1>3, FS_Subset, FS_CardinalityType, Zenon

\* The entries from before the flush, in a cache that has followed another.
LEMMA CrossedKept ==
  ASSUME device \in Devices, NEW cache, Sound(device, cache), NEW new,
         Follows(device, cache, new, {})
  PROVE  /\ Cardinality(Crossed(cache)) \in Nat /\ Cardinality(Crossed(new)) \in Nat
         /\ Cardinality(Crossed(new)) <= Cardinality(Crossed(cache))
<1>1. IsFiniteSet(Range(cache.mru_list))
  BY SoundCache, FiniteElements, Zenon
<1>2. Crossed(cache) \in SUBSET Range(cache.mru_list) /\ Crossed(new) \in SUBSET Crossed(cache)
  BY Zenon DEF Crossed, Follows
<1>3. IsFiniteSet(Crossed(cache))
  BY <1>1, <1>2, FS_Subset, Zenon
<1>4. IsFiniteSet(Crossed(new)) /\ Cardinality(Crossed(new)) <= Cardinality(Crossed(cache))
  BY <1>2, <1>3, FS_Subset, Zenon
<1> QED
  BY <1>3, <1>4, FS_CardinalityType, Zenon

\* The same when the cache has been given an entry.
LEMMA CrossedAdded ==
  ASSUME device \in Devices, NEW cache, Sound(device, cache), NEW new, NEW e,
         Follows(device, cache, new, {e})
  PROVE  /\ Cardinality(Crossed(cache)) \in Nat /\ Cardinality(Crossed(new)) \in Nat
         /\ Cardinality(Crossed(new)) <= Cardinality(Crossed(cache)) + 1
         /\ ~e.crossed => Cardinality(Crossed(new)) <= Cardinality(Crossed(cache))
<1>1. IsFiniteSet(Range(cache.mru_list))
  BY SoundCache, FiniteElements, Zenon
<1>2. Crossed(cache) \in SUBSET Range(cache.mru_list)
  BY Zenon DEF Crossed
<1>3. IsFiniteSet(Crossed(cache)) /\ Cardinality(Crossed(cache)) \in Nat
  BY <1>1, <1>2, FS_Subset, FS_CardinalityType, Zenon
<1>4. /\ IsFiniteSet(Crossed(cache) \cup {e})
      /\ Cardinality(Crossed(cache) \cup {e}) \in Nat
      /\ Cardinality(Crossed(cache) \cup {e}) <= Cardinality(Crossed(cache)) + 1
  <2>1. PICK S : S = Crossed(cache) \cup {e}
    BY Zenon
  <2>2. /\ IsFiniteSet(S)
        /\ Cardinality(S) = IF e \in Crossed(cache) THEN Cardinality(Crossed(cache))
                            ELSE Cardinality(Crossed(cache)) + 1
    BY <1>3, <2>1, FS_AddElement
  <2>3. Cardinality(S) \in Nat /\ Cardinality(S) <= Cardinality(Crossed(cache)) + 1
    BY ONLY <1>3, <2>2
  <2> QED
    BY <2>1, <2>2, <2>3, Zenon
<1>5. Crossed(new) \in SUBSET (Crossed(cache) \cup {e})
  BY Zenon DEF Crossed, Follows
<1>6. /\ IsFiniteSet(Crossed(new)) /\ Cardinality(Crossed(new)) \in Nat
      /\ Cardinality(Crossed(new)) <= Cardinality(Crossed(cache) \cup {e})
  BY <1>4, <1>5, FS_Subset, FS_CardinalityType, Zenon
<1>7. Cardinality(Crossed(new)) <= Cardinality(Crossed(cache)) + 1
  BY ONLY <1>3, <1>4, <1>6
<1>8. ASSUME ~e.crossed
      PROVE  Cardinality(Crossed(new)) <= Cardinality(Crossed(cache))
  <2>1. Crossed(new) \in SUBSET Crossed(cache)
    BY <1>8, Zenon DEF Crossed, Follows
  <2> QED
    BY <1>3, <2>1, FS_Subset, Zenon
<1> QED
  BY <1>3, <1>6, <1>7, <1>8, Zenon

\* A list of entries a second later, A being what a second does to an entry.
LEMMA AgedList ==
  ASSUME NEW E, NEW A \in [E -> E], \A e \in E : A[e].query = e.query,
         NEW s \in Seq(E), NEW t, t \in Seq(E), Len(t) = Len(s), Distinct(s),
         \A k \in 1 .. Len(s) : t[k] = A[s[k]]
  PROVE  Changed(A, s, t)
<1>1. \A x : x \in Range(s) <=> \E k \in 1 .. Len(s) : s[k] = x
  BY Elements, Zenon
<1>2. \A x : x \in Range(t) <=> \E k \in 1 .. Len(s) : t[k] = x
  <2>1. \A x : x \in Range(t) <=> \E k \in 1 .. Len(t) : t[k] = x
    BY ONLY t \in Seq(E), Elements, Zenon
  <2> QED
    BY ONLY <2>1, Len(t) = Len(s), Zenon
<1>3. \A k \in 1 .. Len(s) : s[k] \in E
  OBVIOUS
<1>4. \A k \in 1 .. Len(s) : t[k].query = s[k].query
  BY <1>3, Zenon
<1>5. Distinct(t)
  BY <1>4, Zenon DEF Distinct
<1>6. ASSUME NEW x \in Range(s)
      PROVE  A[x] \in Range(t)
  <2>1. PICK k \in 1 .. Len(s) : s[k] = x
    BY <1>1, Zenon
  <2> QED
    BY <1>2, <2>1, Zenon
<1>7. ASSUME NEW y \in Range(t)
      PROVE  \E x \in Range(s) : y = A[x]
  <2>1. PICK k \in 1 .. Len(s) : t[k] = y
    BY <1>2, Zenon
  <2> QED
    BY <1>1, <2>1, Zenon
<1> QED
  BY <1>5, <1>6, <1>7, Zenon DEF Changed

\* A second passes for a sound cache.
LEMMA AgedSound ==
  ASSUME device \in Devices, NEW cache, Sound(device, cache), NEW new,
         new = [cache EXCEPT !.mru_list = Aged(cache.mru_list),
                             !.entries = [b \in DOMAIN cache.entries |-> Aged(cache.entries[b])]]
  PROVE  /\ Sound(device, new)
         /\ new.ifname = cache.ifname /\ new.crossings = cache.crossings
         /\ Cardinality(Crossed(cache)) \in Nat /\ Cardinality(Crossed(new)) \in Nat
         /\ Cardinality(Crossed(new)) <= Cardinality(Crossed(cache))
<1>1. PICK E : E = Entries(device)
  OBVIOUS
<1>2. PICK B : B = 0 .. device.max_entries - 1
  OBVIOUS
<1>3. /\ cache \in Caches(device)
      /\ cache.mru_list \in Seq(E)
      /\ cache.entries \in [B -> Seq(E)]
      /\ \A b \in B : Range(cache.entries[b]) = {e \in Range(cache.mru_list) : Bucket(e.query) = b}
      /\ Distinct(cache.mru_list)
      /\ \A b \in B : Distinct(cache.entries[b])
      /\ Range(cache.mru_list) \subseteq E
  BY <1>1, <1>2, SoundCache, Zenon DEF Sound
<1>4. PICK A : A = [e \in E |-> [e EXCEPT !.expires = IF e.expires = 0 THEN 0 ELSE e.expires - 1]]
  BY Zenon
<1>5. /\ A \in [E -> E]
      /\ \A e \in E : A[e].query = e.query /\ A[e].crossed = e.crossed
      /\ \A e \in E : A[e] = [e EXCEPT !.expires = IF e.expires = 0 THEN 0 ELSE e.expires - 1]
  BY ONLY <1>1, <1>4 DEF Entries
<1>6. ASSUME NEW s \in Seq(E)
      PROVE  /\ Aged(s) \in Seq(E) /\ Len(Aged(s)) = Len(s)
             /\ \A k \in 1 .. Len(s) : Aged(s)[k] = A[s[k]]
  <2>1. DOMAIN s = 1 .. Len(s) /\ Len(s) \in Nat /\ \A k \in 1 .. Len(s) : s[k] \in E
    OBVIOUS
  <2>2. PICK t : t = Aged(s)
    OBVIOUS
  <2>3. t = [k \in 1 .. Len(s) |-> A[s[k]]]
    BY <1>5, <2>1, <2>2, Zenon DEF Aged
  <2>4. \A k \in 1 .. Len(s) : A[s[k]] \in E
    BY ONLY <1>5, <2>1
  <2>5. t \in Seq(E) /\ Len(t) = Len(s) /\ \A k \in 1 .. Len(s) : t[k] = A[s[k]]
    BY ONLY <2>1, <2>3, <2>4
  <2> QED
    BY <2>2, <2>5, Zenon
<1>7. PICK mru_list : mru_list = Aged(cache.mru_list)
  OBVIOUS
<1>8. PICK entries : entries = [b \in B |-> Aged(cache.entries[b])]
  BY Zenon
<1>9. mru_list \in Seq(E) /\ Len(mru_list) = Len(cache.mru_list)
  BY <1>3, <1>6, <1>7, Zenon
<1>10. /\ Distinct(mru_list)
       /\ \A x \in Range(cache.mru_list) : A[x] \in Range(mru_list)
       /\ \A y \in Range(mru_list) : \E x \in Range(cache.mru_list) : y = A[x]
  <2>1. \A k \in 1 .. Len(cache.mru_list) : mru_list[k] = A[cache.mru_list[k]]
    BY <1>3, <1>6, <1>7, Zenon
  <2>2. Changed(A, cache.mru_list, mru_list)
    BY ONLY <1>3, <1>5, <1>9, <2>1, AgedList, Zenon
  <2> QED
    BY <2>2, Zenon DEF Changed
<1>11. entries \in [B -> Seq(E)] /\ \A b \in B : entries[b] = Aged(cache.entries[b])
  BY <1>3, <1>6, <1>8
<1>12. ASSUME NEW b \in B
       PROVE  /\ Distinct(entries[b])
              /\ \A x \in Range(cache.entries[b]) : A[x] \in Range(entries[b])
              /\ \A y \in Range(entries[b]) : \E x \in Range(cache.entries[b]) : y = A[x]
  <2>1. cache.entries[b] \in Seq(E) /\ entries[b] \in Seq(E)
    BY <1>3, <1>11
  <2>2. /\ Len(entries[b]) = Len(cache.entries[b])
        /\ \A k \in 1 .. Len(cache.entries[b]) : entries[b][k] = A[cache.entries[b][k]]
    <3>1. entries[b] = Aged(cache.entries[b])
      BY <1>11, Zenon
    <3>2. /\ Len(Aged(cache.entries[b])) = Len(cache.entries[b])
          /\ \A k \in 1 .. Len(cache.entries[b]) :
               Aged(cache.entries[b])[k] = A[cache.entries[b][k]]
      BY ONLY <1>6, <2>1, Zenon
    <3> QED
      BY ONLY <3>1, <3>2, Zenon
  <2>3. Distinct(cache.entries[b])
    BY <1>3, Zenon
  <2>4. Changed(A, cache.entries[b], entries[b])
    BY ONLY <1>5, <2>1, <2>2, <2>3, AgedList, Zenon
  <2> QED
    BY <2>4, Zenon DEF Changed
<1>13. ASSUME NEW b \in B
       PROVE  Range(entries[b]) = {e \in Range(mru_list) : Bucket(e.query) = b}
  <2>1. ASSUME NEW y \in Range(entries[b])
        PROVE  y \in Range(mru_list) /\ Bucket(y.query) = b
    <3>1. PICK x \in Range(cache.entries[b]) : y = A[x]
      BY <1>12, Zenon
    <3>2. x \in Range(cache.mru_list) /\ Bucket(x.query) = b
      BY <1>3, Zenon
    <3>3. x \in E
      BY <1>3, <3>2, Zenon
    <3>4. y.query = x.query
      BY <1>5, <3>1, <3>3, Zenon
    <3> QED
      BY <1>10, <3>1, <3>2, <3>4, Zenon
  <2>2. ASSUME NEW y \in Range(mru_list), Bucket(y.query) = b
        PROVE  y \in Range(entries[b])
    <3>1. PICK x \in Range(cache.mru_list) : y = A[x]
      BY <1>10, Zenon
    <3>2. x \in E
      BY <1>3, Zenon
    <3>3. y.query = x.query
      BY <1>5, <3>1, <3>2, Zenon
    <3>4. Bucket(x.query) = b
      BY <2>2, <3>3, Zenon
    <3>5. x \in Range(cache.entries[b])
      BY <1>3, <3>4, Zenon
    <3> QED
      BY <1>12, <3>1, <3>5, Zenon
  <2> QED
    BY <2>1, <2>2, Zenon
<1>14. /\ new \in Caches(device) /\ new.mru_list = mru_list /\ new.entries = entries
       /\ new.num_entries = cache.num_entries /\ new.ifname = cache.ifname
       /\ new.crossings = cache.crossings
  <2>1. DOMAIN cache.entries = B
    BY <1>3
  <2>2. new = [cache EXCEPT !.mru_list = mru_list, !.entries = entries]
    BY <1>7, <1>8, <2>1, Zenon
  <2> QED
    BY ONLY <1>1, <1>2, <1>3, <1>9, <1>11, <2>2, Zenon DEF Caches
<1>15. Len(mru_list) = cache.num_entries
  BY <1>9, Zenon DEF Sound
<1>16. Sound(device, new)
  BY <1>2, <1>10, <1>12, <1>13, <1>14, <1>15, Zenon DEF Sound, Bucket
<1>17. PICK S : S = Crossed(cache)
  OBVIOUS
<1>18. PICK T : T = Crossed(new)
  BY Zenon
<1>19. IsFiniteSet(S)
  <2>1. IsFiniteSet(Range(cache.mru_list))
    BY <1>3, FiniteElements, Zenon
  <2>2. S \in SUBSET Range(cache.mru_list)
    BY <1>17, Zenon DEF Crossed
  <2> QED
    BY <2>1, <2>2, FS_Subset, Zenon
<1>20. PICK f : f = [x \in S |-> A[x]]
  BY Zenon
<1>21. f \in Surjection(S, T)
  <2>1. ASSUME NEW x \in S
        PROVE  A[x] \in T
    <3>1. x \in Range(cache.mru_list) /\ x.crossed
      BY <1>17, Zenon DEF Crossed
    <3>2. A[x].crossed
      BY <1>3, <1>5, <3>1, Zenon
    <3> QED
      BY <1>10, <1>14, <1>18, <3>1, <3>2, Zenon DEF Crossed
  <2>2. ASSUME NEW y \in T
        PROVE  \E x \in S : f[x] = y
    <3>1. y \in Range(mru_list) /\ y.crossed
      BY <1>14, <1>18, Zenon DEF Crossed
    <3>2. PICK x \in Range(cache.mru_list) : y = A[x]
      BY <1>10, <3>1, Zenon
    <3>3. x.crossed
      BY <1>3, <1>5, <3>1, <3>2, Zenon
    <3>4. x \in S
      BY <1>17, <3>3, Zenon DEF Crossed
    <3> QED
      BY <1>20, <3>2, <3>4
  <2>3. f \in [S -> T]
    BY <1>20, <2>1
  <2> QED
    BY <2>2, <2>3, Zenon DEF Surjection
<1>22. IsFiniteSet(T) /\ Cardinality(T) <= Cardinality(S)
  BY <1>19, <1>21, FS_Surjection, Zenon
<1> QED
  BY <1>14, <1>16, <1>17, <1>18, <1>19, <1>22, FS_CardinalityType, Zenon

-----------------------------------------------------------------------------
\* The calls that wait are finite in number, and a call that ends waits no longer.
LEMMA WaitingFinite ==
  ASSUME NEW calls, NEW c
  PROVE  IsFiniteSet(Waiting(calls, c)) /\ Cardinality(Waiting(calls, c)) \in Nat
<1>1. IsFiniteSet(Threads)
  BY ResolvCacheAssumption, Zenon
<1>2. Waiting(calls, c) \in SUBSET Threads
  BY Zenon DEF Waiting
<1> QED
  BY <1>1, <1>2, FS_Subset, FS_CardinalityType, Zenon

LEMMA WaitingLess ==
  ASSUME NEW calls, NEW after, NEW c, Waiting(after, c) \subseteq Waiting(calls, c)
  PROVE  Cardinality(Waiting(after, c)) <= Cardinality(Waiting(calls, c))
<1>1. Waiting(after, c) \in SUBSET Waiting(calls, c)
  BY Zenon
<1> QED
  BY <1>1, WaitingFinite, FS_Subset, Zenon

\* One cache is replaced, and the calls of the others wait as they did, or end.
LEMMA CacheReplaced ==
  ASSUME NEW d, NEW l, NEW calls, Coherent(d, l, calls),
         NEW c \in 1 .. Len(l), NEW new, Sound(d, new), new.ifname = l[c].ifname,
         NEW after, Handles(d, l, after),
         \A k \in 1 .. Len(l) : k # c => Waiting(after, k) \subseteq Waiting(calls, k),
         Cardinality(Crossed(new)) + Cardinality(Waiting(after, c)) <= new.crossings,
         NEW m, m = [l EXCEPT ![c] = new]
  PROVE  Coherent(d, m, after)
<1>1. l \in Seq(Caches(d)) /\ new \in Caches(d)
  BY Zenon DEF Coherent, Sound
<1>2. /\ m \in Seq(Caches(d)) /\ Len(m) = Len(l)
      /\ \A k \in 1 .. Len(l) : m[k] = IF k = c THEN new ELSE l[k]
  BY <1>1
<1>3. \A k \in 1 .. Len(l) : Sound(d, m[k]) /\ m[k].ifname = l[k].ifname
  BY <1>2, Zenon DEF Coherent
<1>4. ASSUME NEW k \in 1 .. Len(l)
      PROVE  Owed(m, after, k)
  <2>1. CASE k = c
    <3>1. m[k] = new
      BY <1>2, <2>1, Zenon
    <3> QED
      BY <2>1, <3>1, Zenon DEF Owed
  <2>2. CASE k # c
    <3>1. m[k] = l[k]
      BY <1>2, <2>2, Zenon
    <3>2. Cardinality(Waiting(after, k)) <= Cardinality(Waiting(calls, k))
      BY <2>2, WaitingLess, Zenon
    <3>3. Cardinality(Waiting(after, k)) \in Nat /\ Cardinality(Waiting(calls, k)) \in Nat
      BY WaitingFinite, Zenon
    <3>4. Cardinality(Crossed(l[k])) + Cardinality(Waiting(calls, k)) <= l[k].crossings
      BY Zenon DEF Coherent, Owed
    <3>5. l[k].crossings \in Nat
      <4>1. l[k] \in Caches(d)
        BY <1>1
      <4> QED
        BY ONLY <4>1 DEF Caches
    <3>6. Cardinality(Crossed(l[k])) \in Nat
      BY CrossedFinite, Zenon DEF Coherent
    <3>7. Cardinality(Crossed(l[k])) + Cardinality(Waiting(after, k)) <= l[k].crossings
      BY ONLY <3>2, <3>3, <3>4, <3>5, <3>6
    <3> QED
      BY <3>1, <3>7, Zenon DEF Owed
  <2> QED
    BY <2>1, <2>2, Zenon
<1>5. Handles(d, m, after)
  BY <1>2, <1>3, Zenon DEF Handles
<1> QED
  BY <1>2, <1>3, <1>4, <1>5, Zenon DEF Coherent

\* A call ends: it waits no longer.
LEMMA CallEnds ==
  ASSUME NEW d, NEW l, NEW calls, Handles(d, l, calls), NEW t \in Threads,
         NEW after, after = [calls EXCEPT ![t] = Idle]
  PROVE  /\ Handles(d, l, after)
         /\ Leave(calls, after, {t})
<1>1. calls \in [Threads -> {Idle} \cup Calls(d)]
  BY Zenon DEF Handles
<1>2. /\ after \in [Threads -> {Idle} \cup Calls(d)]
      /\ \A u \in Threads : after[u] = IF u = t THEN Idle ELSE calls[u]
  BY <1>1
<1>3. Idle.pc # "asking" /\ Idle.pc # "lookup"
  BY DEF Idle
<1>4. Handles(d, l, after)
  BY <1>2, <1>3, Zenon DEF Handles
<1>5. \A c : Waiting(after, c) = Waiting(calls, c) \ {t}
  BY <1>2, <1>3, Zenon DEF Waiting
<1> QED
  BY <1>4, <1>5, Zenon DEF Leave

\* A call has looked its query up and asks: the ones that wait are the same.
LEMMA CallAsks ==
  ASSUME NEW d, NEW l, NEW calls, Handles(d, l, calls), NEW t \in Threads, calls[t].pc = "lookup",
         NEW after, after = [calls EXCEPT ![t].pc = "asking"]
  PROVE  /\ Handles(d, l, after)
         /\ Leave(calls, after, {})
<1>1. calls \in [Threads -> {Idle} \cup Calls(d)]
  BY Zenon DEF Handles
<1>2. Idle.pc # "asking" /\ Idle.pc # "lookup"
  BY DEF Idle
<1>3. calls[t] \in Calls(d) /\ calls[t] # Idle /\ ~calls[t].crossed
  BY <1>1, <1>2, Zenon DEF Handles
<1>4. PICK r : r = [calls[t] EXCEPT !.pc = "asking"]
  BY Zenon
<1>5. /\ r \in Calls(d) /\ r.pc = "asking" /\ r.cache = calls[t].cache
      /\ r.ifname = calls[t].ifname /\ r.crossed = calls[t].crossed
  BY ONLY <1>3, <1>4 DEF Calls
<1>6. /\ after \in [Threads -> {Idle} \cup Calls(d)]
      /\ \A u \in Threads : after[u] = IF u = t THEN r ELSE calls[u]
  BY <1>1, <1>4, <1>5
<1>7. "asking" # "lookup"
  OBVIOUS
<1>8. Handles(d, l, after)
  <2>1. ASSUME NEW u \in Threads, after[u] # Idle
        PROVE  after[u].cache \in 1 .. Len(l) /\ l[after[u].cache].ifname = after[u].ifname
    <3>1. CASE u = t
      <4>1. after[u] = r
        BY <1>6, <3>1, Zenon
      <4> QED
        BY <1>3, <1>5, <4>1, Zenon DEF Handles
    <3>2. CASE u # t
      <4>1. after[u] = calls[u]
        BY <1>6, <3>2, Zenon
      <4> QED
        BY <2>1, <4>1, Zenon DEF Handles
    <3> QED
      BY <3>1, <3>2, Zenon
  <2>2. ASSUME NEW u \in Threads, after[u].pc = "lookup"
        PROVE  ~after[u].crossed
    <3>1. u # t
      BY <1>5, <1>6, <1>7, <2>2, Zenon
    <3>2. after[u] = calls[u]
      BY <1>6, <3>1, Zenon
    <3> QED
      BY <2>2, <3>2, Zenon DEF Handles
  <2> QED
    BY <1>6, <2>1, <2>2, Zenon DEF Handles
<1>9. ASSUME NEW c
      PROVE  Waiting(after, c) = Waiting(calls, c)
  <2>1. t \notin Waiting(calls, c) /\ t \notin Waiting(after, c)
    BY <1>3, <1>5, <1>6, Zenon DEF Waiting
  <2>2. \A u \in Threads : u # t => (u \in Waiting(after, c) <=> u \in Waiting(calls, c))
    BY <1>6, Zenon DEF Waiting
  <2> QED
    BY <2>1, <2>2, Zenon DEF Waiting
<1> QED
  BY <1>8, <1>9, Zenon DEF Leave

\* A call begins: the ones that wait are the same.
LEMMA CallStarts ==
  ASSUME NEW d, NEW l, NEW calls, Handles(d, l, calls), NEW t \in Threads, calls[t] = Idle,
         NEW r \in Calls(d), r.pc = "lookup", ~r.crossed,
         r.cache \in 1 .. Len(l), l[r.cache].ifname = r.ifname,
         NEW after, after = [calls EXCEPT ![t] = r]
  PROVE  /\ Handles(d, l, after)
         /\ Leave(calls, after, {})
<1>1. calls \in [Threads -> {Idle} \cup Calls(d)]
  BY Zenon DEF Handles
<1>2. /\ after \in [Threads -> {Idle} \cup Calls(d)]
      /\ \A u \in Threads : after[u] = IF u = t THEN r ELSE calls[u]
  BY <1>1
<1>3. Idle.pc # "asking" /\ r.pc # "asking"
  BY DEF Idle
<1>4. ASSUME NEW u \in Threads, after[u] # Idle
      PROVE  after[u].cache \in 1 .. Len(l) /\ l[after[u].cache].ifname = after[u].ifname
  <2>1. CASE u = t
    <3>1. after[u] = r
      BY <1>2, <2>1, Zenon
    <3> QED
      BY <3>1, Zenon
  <2>2. CASE u # t
    <3>1. after[u] = calls[u]
      BY <1>2, <2>2, Zenon
    <3> QED
      BY <1>4, <3>1, Zenon DEF Handles
  <2> QED
    BY <2>1, <2>2, Zenon
<1>5. ASSUME NEW u \in Threads, after[u].pc = "lookup"
      PROVE  ~after[u].crossed
  <2>1. CASE u = t
    BY <1>2, <2>1, Zenon
  <2>2. CASE u # t
    <3>1. after[u] = calls[u]
      BY <1>2, <2>2, Zenon
    <3> QED
      BY <1>5, <3>1, Zenon DEF Handles
  <2> QED
    BY <2>1, <2>2, Zenon
<1>6. ASSUME NEW c
      PROVE  Waiting(after, c) = Waiting(calls, c)
  <2>1. t \notin Waiting(calls, c) /\ t \notin Waiting(after, c)
    BY <1>2, <1>3, Zenon DEF Waiting
  <2>2. \A u \in Threads : u # t => (u \in Waiting(after, c) <=> u \in Waiting(calls, c))
    BY <1>2, Zenon DEF Waiting
  <2> QED
    BY <2>1, <2>2, Zenon DEF Waiting
<1> QED
  BY <1>2, <1>4, <1>5, <1>6, Zenon DEF Handles, Leave

\* Only the calls change, and no more of them wait than before.
LEMMA CallsChange ==
  ASSUME NEW d, NEW l, NEW calls, Coherent(d, l, calls), NEW after, Handles(d, l, after),
         \A c : Waiting(after, c) \subseteq Waiting(calls, c)
  PROVE  Coherent(d, l, after)
<1>1. l \in Seq(Caches(d))
  BY Zenon DEF Coherent
<1>2. ASSUME NEW k \in 1 .. Len(l)
      PROVE  Owed(l, after, k)
  <2>1. Cardinality(Waiting(after, k)) <= Cardinality(Waiting(calls, k))
    BY WaitingLess, Zenon
  <2>2. Cardinality(Waiting(after, k)) \in Nat /\ Cardinality(Waiting(calls, k)) \in Nat
    BY WaitingFinite, Zenon
  <2>3. Cardinality(Crossed(l[k])) + Cardinality(Waiting(calls, k)) <= l[k].crossings
    BY Zenon DEF Coherent, Owed
  <2>4. l[k].crossings \in Nat
    <3>1. l[k] \in Caches(d)
      BY <1>1
    <3> QED
      BY ONLY <3>1 DEF Caches
  <2>5. Cardinality(Crossed(l[k])) \in Nat
    BY CrossedFinite, Zenon DEF Coherent
  <2>6. Cardinality(Crossed(l[k])) + Cardinality(Waiting(after, k)) <= l[k].crossings
    BY ONLY <2>1, <2>2, <2>3, <2>4, <2>5
  <2> QED
    BY <2>6, Zenon DEF Owed
<1> QED
  BY <1>2, Zenon DEF Coherent

\* A new cache is at the end of the list, and no call has it yet.
LEMMA CacheAppended ==
  ASSUME NEW d, NEW l, NEW calls, Coherent(d, l, calls), NEW new, Sound(d, new),
         Range(new.mru_list) = {}, NEW m, m = Append(l, new)
  PROVE  Coherent(d, m, calls) /\ Len(m) = Len(l) + 1 /\ m[Len(l) + 1] = new
<1>1. l \in Seq(Caches(d)) /\ new \in Caches(d)
  BY Zenon DEF Coherent, Sound
<1>2. PICK n : n = Len(l) + 1
  OBVIOUS
<1>3. /\ m \in Seq(Caches(d)) /\ Len(m) = n /\ n \in Nat /\ m[n] = new
      /\ \A k \in 1 .. Len(l) : m[k] = l[k]
  BY <1>1, <1>2
<1>4. \A k \in 1 .. Len(m) : k = n \/ k \in 1 .. Len(l)
  BY <1>1, <1>2, <1>3
<1>5. n \notin 1 .. Len(l) /\ \A k \in 1 .. Len(l) : k \in 1 .. Len(m)
  BY <1>1, <1>2, <1>3
<1>6. \A k \in 1 .. Len(m) : Sound(d, m[k])
  BY <1>3, <1>4, Zenon DEF Coherent
<1>7. Handles(d, m, calls)
  BY <1>3, <1>5, Zenon DEF Handles, Coherent
<1>8. ASSUME NEW k \in 1 .. Len(m)
      PROVE  Owed(m, calls, k)
  <2>1. CASE k = n
    <3>1. Crossed(m[k]) = {}
      BY <1>3, <2>1, Zenon DEF Crossed
    <3>2. Idle.pc # "asking"
      BY DEF Idle
    <3>3. Waiting(calls, k) = {}
      BY <1>5, <2>1, <3>2, Zenon DEF Coherent, Handles, Waiting
    <3>4. Cardinality(Crossed(m[k])) = 0 /\ Cardinality(Waiting(calls, k)) = 0
      BY <3>1, <3>3, FS_EmptySet, Zenon
    <3>5. m[k].crossings \in Nat
      <4>1. m[k] \in Caches(d)
        BY <1>6, Zenon DEF Sound
      <4> QED
        BY ONLY <4>1 DEF Caches
    <3> QED
      BY ONLY <3>4, <3>5 DEF Owed
  <2>2. CASE k \in 1 .. Len(l)
    <3>1. m[k] = l[k] /\ Owed(l, calls, k)
      BY <1>3, <2>2, Zenon DEF Coherent
    <3> QED
      BY <3>1, Zenon DEF Owed
  <2> QED
    BY <1>4, <2>1, <2>2, Zenon
<1> QED
  BY <1>2, <1>3, <1>6, <1>7, <1>8, Zenon DEF Coherent

\* A cache is flushed: the calls that have asked on its behalf are those that may
\* still give it an old answer.
LEMMA CacheFlushed ==
  ASSUME NEW d, NEW l, NEW calls, Coherent(d, l, calls), NEW c \in 1 .. Len(l),
         NEW new, Sound(d, new), Range(new.mru_list) = {}, new.ifname = l[c].ifname,
         new.crossings = Cardinality(Asked(calls, c)), NEW m, m = [l EXCEPT ![c] = new]
  PROVE  Coherent(d, m, Overtaken(calls, c))
<1> PICK S : S = Asked(calls, c)
  OBVIOUS
<1> PICK after : after = Overtaken(calls, c)
  OBVIOUS
<1>0. after = [t \in Threads |-> IF t \in S THEN [calls[t] EXCEPT !.crossed = TRUE] ELSE calls[t]]
  BY Zenon DEF Overtaken
<1>1. calls \in [Threads -> {Idle} \cup Calls(d)]
  BY Zenon DEF Coherent, Handles
<1>2. Idle.pc # "asking" /\ Idle.pc # "lookup" /\ "asking" # "lookup"
  BY DEF Idle
<1>3. ASSUME NEW t \in S
      PROVE  /\ t \in Threads /\ calls[t] \in Calls(d) /\ calls[t] # Idle
             /\ calls[t].pc = "asking" /\ calls[t].cache = c
  BY <1>1, <1>2, Zenon DEF Asked
<1>4. ASSUME NEW t \in S
      PROVE  /\ after[t] \in Calls(d) /\ after[t].pc = "asking" /\ after[t].cache = c
             /\ after[t].ifname = calls[t].ifname
  <2>1. after[t] = [calls[t] EXCEPT !.crossed = TRUE]
    BY <1>0, <1>3
  <2> QED
    BY ONLY <1>3, <2>1, t \in S, Zenon DEF Calls
<1>5. ASSUME NEW t \in Threads, t \notin S
      PROVE  after[t] = calls[t]
  BY <1>0, <1>5
<1>6. after \in [Threads -> {Idle} \cup Calls(d)]
  <2>1. \A t \in Threads : after[t] \in {Idle} \cup Calls(d)
    <3> TAKE t \in Threads
    <3>1. CASE t \in S
      BY <1>4, <3>1, Zenon
    <3>2. CASE t \notin S
      BY <1>1, <1>5, <3>2
    <3> QED
      BY <3>1, <3>2, Zenon
  <2>2. after = [t \in Threads |-> after[t]]
    BY <1>0
  <2> QED
    BY ONLY <2>1, <2>2
<1>7. Handles(d, l, after)
  <2>1. ASSUME NEW t \in Threads, after[t] # Idle
        PROVE  after[t].cache \in 1 .. Len(l) /\ l[after[t].cache].ifname = after[t].ifname
    <3>1. CASE t \in S
      <4>1. calls[t] # Idle /\ calls[t].cache = c
        BY <1>3, <3>1, Zenon
      <4>2. l[c].ifname = calls[t].ifname
        BY <4>1, Zenon DEF Coherent, Handles
      <4> QED
        BY <1>4, <3>1, <4>2, Zenon
    <3>2. CASE t \notin S
      <4>1. after[t] = calls[t]
        BY <1>5, <3>2, Zenon
      <4> QED
        BY <2>1, <4>1, Zenon DEF Coherent, Handles
    <3> QED
      BY <3>1, <3>2, Zenon
  <2>2. ASSUME NEW t \in Threads, after[t].pc = "lookup"
        PROVE  ~after[t].crossed
    <3>1. t \notin S
      BY <1>2, <1>4, <2>2, Zenon
    <3>2. after[t] = calls[t]
      BY <1>5, <3>1, Zenon
    <3> QED
      BY <2>2, <3>2, Zenon DEF Coherent, Handles
  <2> QED
    BY <1>6, <2>1, <2>2, Zenon DEF Handles
<1>8. ASSUME NEW k \in 1 .. Len(l), k # c
      PROVE  Waiting(after, k) \subseteq Waiting(calls, k)
  BY <1>4, <1>5, <1>8, Zenon DEF Waiting
<1>9. new.crossings = Cardinality(S)
  BY Zenon
<1>10. Cardinality(Crossed(new)) + Cardinality(Waiting(after, c)) <= new.crossings
  <2>1. Waiting(after, c) \in SUBSET S
    BY <1>5, Zenon DEF Waiting, Asked
  <2>2. S \in SUBSET Threads
    BY Zenon DEF Asked
  <2>3. IsFiniteSet(S) /\ Cardinality(S) \in Nat
    BY <2>2, ResolvCacheAssumption, FS_Subset, FS_CardinalityType, Zenon
  <2>4. Cardinality(Waiting(after, c)) <= Cardinality(S)
    BY <2>1, <2>3, FS_Subset, Zenon
  <2>5. Cardinality(Waiting(after, c)) \in Nat
    BY WaitingFinite, Zenon
  <2>6. Crossed(new) = {}
    BY Zenon DEF Crossed
  <2>7. Cardinality(Crossed(new)) = 0
    BY <2>6, FS_EmptySet, Zenon
  <2> QED
    BY ONLY <2>3, <2>4, <2>5, <2>7, <1>9
<1> QED
  BY <1>7, <1>8, <1>10, CacheReplaced, Zenon

\* A second passes for all caches.
LEMMA CachesAge ==
  ASSUME device \in Devices, NEW l, NEW calls, Coherent(device, l, calls), NEW m,
         m = [c \in DOMAIN l |->
                [l[c] EXCEPT !.mru_list = Aged(l[c].mru_list),
                             !.entries = [b \in DOMAIN l[c].entries |-> Aged(l[c].entries[b])]]]
  PROVE  Coherent(device, m, calls) /\ Len(m) = Len(l)
<1>1. l \in Seq(Caches(device)) /\ DOMAIN l = 1 .. Len(l) /\ Len(l) \in Nat
  <2>1. l \in Seq(Caches(device))
    BY Zenon DEF Coherent
  <2> QED
    BY ONLY <2>1
<1>2. ASSUME NEW c \in 1 .. Len(l)
      PROVE  /\ Sound(device, m[c])
             /\ m[c].ifname = l[c].ifname /\ m[c].crossings = l[c].crossings
             /\ Cardinality(Crossed(l[c])) \in Nat /\ Cardinality(Crossed(m[c])) \in Nat
             /\ Cardinality(Crossed(m[c])) <= Cardinality(Crossed(l[c]))
  <2>1. PICK cache : cache = l[c]
    BY Zenon
  <2>2. PICK new : new = m[c]
    BY Zenon
  <2>3. Sound(device, cache)
    BY <2>1, Zenon DEF Coherent
  <2>4. new = [cache EXCEPT !.mru_list = Aged(cache.mru_list),
                            !.entries = [b \in DOMAIN cache.entries |-> Aged(cache.entries[b])]]
    BY <1>1, <2>1, <2>2, Zenon
  <2>5. /\ Sound(device, new)
        /\ new.ifname = cache.ifname /\ new.crossings = cache.crossings
        /\ Cardinality(Crossed(cache)) \in Nat /\ Cardinality(Crossed(new)) \in Nat
        /\ Cardinality(Crossed(new)) <= Cardinality(Crossed(cache))
    BY ONLY <2>3, <2>4, device \in Devices, AgedSound, Zenon
  <2> QED
    BY <2>1, <2>2, <2>5, Zenon
<1>3. m \in Seq(Caches(device)) /\ Len(m) = Len(l)
  <2>1. \A c \in 1 .. Len(l) : m[c] \in Caches(device)
    BY <1>2, Zenon DEF Sound
  <2>2. m = [c \in 1 .. Len(l) |-> m[c]]
    BY <1>1, Zenon
  <2> QED
    BY ONLY <1>1, <2>1, <2>2
<1>4. Handles(device, m, calls)
  BY <1>2, <1>3, Zenon DEF Handles, Coherent
<1>5. ASSUME NEW c \in 1 .. Len(l)
      PROVE  Owed(m, calls, c)
  <2>1. Cardinality(Crossed(l[c])) + Cardinality(Waiting(calls, c)) <= l[c].crossings
    BY Zenon DEF Coherent, Owed
  <2>2. Cardinality(Waiting(calls, c)) \in Nat
    BY WaitingFinite, Zenon
  <2>3. l[c].crossings \in Nat
    <3>1. l[c] \in Caches(device)
      BY ONLY <1>1, c \in 1 .. Len(l)
    <3> QED
      BY ONLY <3>1 DEF Caches
  <2> QED
    BY ONLY <1>2, <2>1, <2>2, <2>3, c \in 1 .. Len(l) DEF Owed
<1> QED
  BY <1>2, <1>3, <1>4, <1>5, Zenon DEF Coherent

\* A cache has followed another, and calls of it may have ended.
LEMMA CacheFollows ==
  ASSUME device \in Devices, NEW l, NEW calls, Coherent(device, l, calls),
         NEW c \in 1 .. Len(l), NEW new, Follows(device, l[c], new, {}),
         NEW X, NEW after, Handles(device, l, after), Leave(calls, after, X),
         NEW m, m = [l EXCEPT ![c] = new]
  PROVE  Coherent(device, m, after)
<1>1. \A k : Waiting(after, k) \subseteq Waiting(calls, k)
  BY Zenon DEF Leave
<1>2. Sound(device, l[c]) /\ Owed(l, calls, c)
  BY Zenon DEF Coherent
<1>3. Sound(device, new) /\ new.ifname = l[c].ifname /\ new.crossings = l[c].crossings
  BY Zenon DEF Follows
<1>4. Cardinality(Crossed(new)) + Cardinality(Waiting(after, c)) <= new.crossings
  <2>1. /\ Cardinality(Crossed(l[c])) \in Nat /\ Cardinality(Crossed(new)) \in Nat
        /\ Cardinality(Crossed(new)) <= Cardinality(Crossed(l[c]))
    BY <1>2, CrossedKept, Zenon
  <2>2. Cardinality(Waiting(after, c)) <= Cardinality(Waiting(calls, c))
    BY <1>1, WaitingLess, Zenon
  <2>3. Cardinality(Waiting(after, c)) \in Nat /\ Cardinality(Waiting(calls, c)) \in Nat
    BY WaitingFinite, Zenon
  <2>4. new.crossings \in Nat
    BY <1>3 DEF Sound, Caches
  <2>5. Cardinality(Crossed(l[c])) + Cardinality(Waiting(calls, c)) <= new.crossings
    BY <1>2, <1>3, Zenon DEF Owed
  <2> QED
    BY ONLY <2>1, <2>2, <2>3, <2>4, <2>5
<1> QED
  BY <1>1, <1>3, <1>4, CacheReplaced, Zenon

\* A call has given its cache an answer, and ended: if the answer is from before a
\* flush, the call was one of those that waited.
LEMMA CacheAnswered ==
  ASSUME device \in Devices, NEW l, NEW calls, Coherent(device, l, calls),
         NEW t \in Threads, calls[t].pc = "asking",
         NEW c \in 1 .. Len(l), c = calls[t].cache, NEW e, e.crossed <=> calls[t].crossed,
         NEW new, Follows(device, l[c], new, {e}),
         NEW after, after = [calls EXCEPT ![t] = Idle],
         NEW m, m = [l EXCEPT ![c] = new]
  PROVE  Coherent(device, m, after)
<1>1. Handles(device, l, after) /\ Leave(calls, after, {t})
  <2>1. Handles(device, l, calls)
    BY Zenon DEF Coherent
  <2> QED
    BY <2>1, CallEnds, Zenon
<1>2. \A k : Waiting(after, k) \subseteq Waiting(calls, k)
  BY <1>1, Zenon DEF Leave
<1>3. Sound(device, l[c]) /\ Owed(l, calls, c)
  BY Zenon DEF Coherent
<1>4. Sound(device, new) /\ new.ifname = l[c].ifname /\ new.crossings = l[c].crossings
  BY Zenon DEF Follows
<1>5. /\ Cardinality(Crossed(l[c])) \in Nat /\ Cardinality(Crossed(new)) \in Nat
      /\ Cardinality(Crossed(new)) <= Cardinality(Crossed(l[c])) + 1
      /\ ~e.crossed => Cardinality(Crossed(new)) <= Cardinality(Crossed(l[c]))
  BY <1>3, CrossedAdded, Zenon
<1>6. Cardinality(Waiting(after, c)) \in Nat /\ Cardinality(Waiting(calls, c)) \in Nat
  BY WaitingFinite, Zenon
<1>7. Cardinality(Waiting(after, c)) <= Cardinality(Waiting(calls, c))
  BY <1>2, WaitingLess, Zenon
<1>8. new.crossings \in Nat
  BY <1>4 DEF Sound, Caches
<1>9. Cardinality(Crossed(l[c])) + Cardinality(Waiting(calls, c)) <= new.crossings
  BY <1>3, <1>4, Zenon DEF Owed
<1>10. CASE calls[t].crossed
  <2>1. t \in Waiting(calls, c) /\ Waiting(after, c) = Waiting(calls, c) \ {t}
    <3>1. t \in Waiting(calls, c)
      BY <1>10, Zenon DEF Waiting
    <3> QED
      BY <1>1, <3>1, Zenon DEF Leave
  <2>2. Cardinality(Waiting(after, c)) = Cardinality(Waiting(calls, c)) - 1
    <3>1. PICK S : S = Waiting(calls, c)
      OBVIOUS
    <3>2. IsFiniteSet(S) /\ t \in S
      BY <2>1, <3>1, WaitingFinite, Zenon
    <3>3. Cardinality(S \ {t}) = Cardinality(S) - 1
      BY ONLY <3>2, FS_RemoveElement, Zenon
    <3> QED
      BY <2>1, <3>1, <3>3, Zenon
  <2>3. Cardinality(Crossed(new)) + Cardinality(Waiting(after, c)) <= new.crossings
    BY ONLY <1>5, <1>6, <1>8, <1>9, <2>2
  <2> QED
    BY <1>1, <1>2, <1>4, <2>3, CacheReplaced, Zenon
<1>11. CASE ~calls[t].crossed
  <2>1. Cardinality(Crossed(new)) <= Cardinality(Crossed(l[c]))
    BY <1>5, <1>11, Zenon
  <2>2. Cardinality(Crossed(new)) + Cardinality(Waiting(after, c)) <= new.crossings
    BY ONLY <1>5, <1>6, <1>7, <1>8, <1>9, <2>1
  <2> QED
    BY <1>1, <1>2, <1>4, <2>2, CacheReplaced, Zenon
<1> QED
  BY <1>10, <1>11, Zenon

\* _find_cache_info_locked finds the cache of an interface, and the interface that is
\* used when no other is named is one of the device.
LEMMA CacheFound ==
  ASSUME ResolvIInv, NEW i, NEW c, c = _find_cache_info_locked(i)
  PROVE  c = 0 \/ (c # 0 /\ c \in 1 .. Len(list) /\ list[c].ifname = i)
<1> DEFINE I == {k \in 1 .. Len(list) : list[k].ifname = i}
<1>1. c = IF I # {} THEN Min(I) ELSE 0
  BY Zenon DEF _find_cache_info_locked
<1>2. Len(list) \in Nat /\ I \subseteq 1 .. Len(list)
  BY DEF ResolvIInv, Coherent
<1>3. \/ c = 0 /\ I = {}
      \/ c \in 1 .. Len(list) /\ c \in I /\ c # 0
  BY <1>1, <1>2, FirstQuery, Zenon
<1> QED
  BY <1>3, Zenon

LEMMA CurrentIfaceKnown ==
  ASSUME ResolvIInv
  PROVE  CurrentIface \in device.ifaces
<1> DEFINE I == {k \in 1 .. Len(list) : list[k].ifname # NoName}
<1>1. PICK n : n = IF I # {} THEN Max(I) ELSE 0
  BY Zenon
<1>2. Len(list) \in Nat /\ I \subseteq 1 .. Len(list) /\ list \in Seq(Caches(device))
  BY DEF ResolvIInv, Coherent
<1>3. \/ CurrentIface = default_ifname
      \/ n # 0 /\ CurrentIface = list[n].ifname
  <2>1. I # {} => Max(I) \in 1 .. Len(list)
    BY <1>2, MaxOf, Zenon
  <2>2. I # {} => Max(I) # 0
    BY ONLY <1>2, <2>1
  <2> QED
    BY <1>1, <2>2, Zenon DEF CurrentIface
<1>4. n # 0 => n \in 1 .. Len(list)
  BY <1>1, <1>2, MaxOf, Zenon
<1>5. n # 0 => list[n].ifname \in device.ifaces
  <2>1. n # 0 => list[n] \in Caches(device)
    BY <1>2, <1>4
  <2> QED
    BY ONLY <2>1 DEF Caches
<1>6. default_ifname \in device.ifaces
  BY DEF ResolvIInv
<1> QED
  BY <1>3, <1>5, <1>6, Zenon

-----------------------------------------------------------------------------
\* Once _res_cache_init is done, a step is a matter of the list and the calls.
LEMMA CacheStep ==
  ASSUME ResolvIInv, device' = device, UNCHANGED onceVars, once_control = "done",
         default_ifname' \in device.ifaces, Coherent(device, list', call')
  PROVE  ResolvIInv'
<1>1. "done" # "init"
  OBVIOUS
<1>2. once_control' = once_control /\ once_lock' = once_lock /\ once' = once
  BY Zenon DEF onceVars
<1>3. Coherent(device', list', call')
  BY Zenon
<1> QED
  BY <1>1, <1>2, <1>3, Zenon DEF ResolvIInv

\* What is known of a thread that is in a call.
LEMMA InCall ==
  ASSUME ResolvIInv, NEW t \in Threads, call[t].pc \in {"lookup", "asking"}
  PROVE  /\ once_control = "done"
         /\ call[t] \in Calls(device) /\ call[t].query \in device.queries
         /\ call[t].crossed \in BOOLEAN
         /\ call[t].cache \in 1 .. Len(list)
         /\ Sound(device, list[call[t].cache])
<1>1. Idle.pc # "asking" /\ Idle.pc # "lookup"
  BY DEF Idle
<1>2. call[t] # Idle
  BY <1>1, Zenon
<1>3. once_control = "done"
  <2>1. once_control # "init"
    <3> SUFFICES ASSUME call = [u \in Threads |-> Idle]
                 PROVE  FALSE
      BY Zenon DEF ResolvIInv
    <3> QED
      BY <1>2
  <2> QED
    BY <2>1, Zenon DEF ResolvIInv
<1>4. Handles(device, list, call) /\ \A c \in 1 .. Len(list) : Sound(device, list[c])
  BY Zenon DEF ResolvIInv, Coherent
<1>5. call[t] \in Calls(device)
  <2>1. call \in [Threads -> {Idle} \cup Calls(device)]
    BY <1>4, Zenon DEF Handles
  <2> QED
    BY <1>2, <2>1
<1>6. call[t].query \in device.queries /\ call[t].crossed \in BOOLEAN
  BY ONLY <1>5 DEF Calls
<1>7. call[t].cache \in 1 .. Len(list)
  BY <1>2, <1>4, Zenon DEF Handles
<1> QED
  BY <1>3, <1>4, <1>5, <1>6, <1>7, Zenon

\* pthread_once, other than the call of init_routine.
LEMMA OnceStepIInv ==
  ASSUME ResolvIInv, device' = device, NEW t \in Threads, OnceStep(t), UNCHANGED <<cacheVars, call>>
  PROVE  ResolvIInv'
<1>1. list' = list /\ default_ifname' = default_ifname /\ call' = call
  BY DEF cacheVars
<1>2. Coherent(device', list', call')
  BY <1>1, Zenon DEF ResolvIInv
<1>3. /\ once_control' \in {"init", "done"}
      /\ once_control' = "init" => once_control = "init"
      /\ once_lock' \in Threads \cup {Nobody}
      /\ once' \in [Threads -> {"out", "lock", "locked", "called", "unlock"}]
  <2>1. /\ once_control \in {"init", "done"} /\ once_lock \in Threads \cup {Nobody}
        /\ once \in [Threads -> {"out", "lock", "locked", "called", "unlock"}]
    BY Zenon DEF ResolvIInv
  <2> QED
    BY ONLY <2>1, OnceStep(t), t \in Threads
    DEF OnceStep, OnceCheck, OnceLock, OnceStore, OnceSkip, OnceUnlock, At
<1>4. once_control' = "init" => list' = <<>> /\ call' = [u \in Threads |-> Idle]
  BY <1>1, <1>3, Zenon DEF ResolvIInv
<1>5. device' \in Devices /\ default_ifname' \in device'.ifaces
  BY <1>1, Zenon DEF ResolvIInv
<1> QED
  BY <1>2, <1>3, <1>4, <1>5, Zenon DEF ResolvIInv

\* _res_cache_init, called with nobody having a cache.
LEMMA CacheInitIInv ==
  ASSUME ResolvIInv, device' = device, NEW t \in Threads, _res_cache_init(t)
  PROVE  ResolvIInv'
<1>1. once_control = "init" /\ list' = <<>> /\ default_ifname' = NoName /\ call' = call
  BY Zenon DEF _res_cache_init, OnceCall
<1>2. list = <<>> /\ call = [u \in Threads |-> Idle]
  BY <1>1, Zenon DEF ResolvIInv
<1>3. Coherent(device', list', call')
  BY <1>1, <1>2, Zenon DEF ResolvIInv
<1>4. NoName \in device.ifaces
  BY DeviceFacts, Zenon DEF ResolvIInv
<1>5. /\ once_control' = once_control /\ once_lock' = once_lock
      /\ once' \in [Threads -> {"out", "lock", "locked", "called", "unlock"}]
  <2>1. once \in [Threads -> {"out", "lock", "locked", "called", "unlock"}]
    BY Zenon DEF ResolvIInv
  <2> QED
    BY ONLY <2>1, _res_cache_init(t) DEF _res_cache_init, OnceCall, At
<1> QED
  BY <1>1, <1>2, <1>3, <1>4, <1>5, Zenon DEF ResolvIInv

\* The list that _get_res_cache_for_iface_locked leaves, and the cache it gives.
LEMMA CacheObtained ==
  ASSUME ResolvIInv, NEW i \in device.ifaces, NEW m, m = _get_res_cache_for_iface_locked(i),
         NEW p, p = Place(i)
  PROVE  Coherent(device, m, call) /\ p \in 1 .. Len(m) /\ m[p].ifname = i
<1>1. PICK c : c = _find_cache_info_locked(i)
  OBVIOUS
<1>2. /\ m = (IF c = 0 THEN Append(list, NewCache(i)) ELSE list)
      /\ p = (IF c = 0 THEN Len(list) + 1 ELSE c)
  BY <1>1, Zenon DEF _get_res_cache_for_iface_locked, Place
<1>3. Coherent(device, list, call)
  BY Zenon DEF ResolvIInv
<1>4. CASE c = 0
  <2>1. PICK new : new = NewCache(i)
    OBVIOUS
  <2>2. Sound(device, new) /\ Range(new.mru_list) = {} /\ new.ifname = i
    <3>1. -1 \in Generations \cup {-1} /\ 0 \in Nat
      OBVIOUS
    <3>2. device \in Devices
      BY Zenon DEF ResolvIInv
    <3>3. PICK g \in Generations \cup {-1} : g = -1
      BY <3>1, Zenon
    <3>4. PICK n \in Nat : n = 0
      BY <3>1, Zenon
    <3>5. new = [ifname |-> i, mru_list |-> <<>>,
                 entries |-> [b \in 0 .. device.max_entries - 1 |-> <<>>],
                 num_entries |-> 0, generation |-> g, crossings |-> n]
      BY <2>1, <3>3, <3>4, Zenon DEF NewCache
    <3>6. Fresh(device, new, i, n)
      BY ONLY <3>2, <3>5, i \in device.ifaces, g \in Generations \cup {-1}, n \in Nat, FreshSound, Zenon
    <3> QED
      BY <3>6, Zenon DEF Fresh
  <2>3. m = Append(list, new) /\ p = Len(list) + 1
    BY <1>2, <1>4, <2>1, Zenon
  <2>4. Coherent(device, m, call) /\ Len(m) = Len(list) + 1 /\ m[Len(list) + 1] = new
    BY ONLY <1>3, <2>2, <2>3, CacheAppended, Zenon
  <2>5. Len(list) \in Nat
    BY DEF ResolvIInv, Coherent
  <2>6. p \in 1 .. Len(m)
    BY ONLY <2>3, <2>4, <2>5
  <2> QED
    BY <2>2, <2>3, <2>4, <2>6, Zenon
<1>5. CASE c # 0
  <2>1. c \in 1 .. Len(list) /\ list[c].ifname = i
    BY <1>1, <1>5, CacheFound, Zenon
  <2> QED
    BY <1>2, <1>3, <1>5, <2>1, Zenon
<1> QED
  BY <1>4, <1>5, Zenon

\* __get_res_cache.
LEMMA GetCacheIInv ==
  ASSUME ResolvIInv, device' = device, NEW t \in Threads, NEW q \in device.queries,
         __get_res_cache(t, q)
  PROVE  ResolvIInv'
<1>1. PICK i \in device.ifaces : i = CurrentIface
  BY CurrentIfaceKnown, Zenon
<1>2. PICK p : p = Place(i)
  OBVIOUS
<1>3. PICK m : m = _get_res_cache_for_iface_locked(i)
  OBVIOUS
<1>4. Coherent(device, m, call) /\ p \in 1 .. Len(m) /\ m[p].ifname = i
  BY <1>2, <1>3, CacheObtained, Zenon
<1>5. PICK r : r = [pc |-> "lookup", query |-> q, cache |-> p, ifname |-> i, crossed |-> FALSE]
  BY Zenon
<1>6. /\ once_control = "done" /\ call[t] = Idle /\ list' = m /\ UNCHANGED onceVars
      /\ default_ifname' = default_ifname /\ call' = [call EXCEPT ![t] = r]
  BY <1>1, <1>2, <1>3, <1>5, Zenon DEF __get_res_cache, OncePassed
<1>7. r \in Calls(device) /\ r.pc = "lookup" /\ ~r.crossed /\ r.cache = p /\ r.ifname = i
  <2>1. p \in Nat
    <3>1. Len(m) \in Nat
      BY <1>4 DEF Coherent
    <3> QED
      BY ONLY <1>4, <3>1
  <2> QED
    BY ONLY <1>5, <2>1, i \in device.ifaces, q \in device.queries DEF Calls
<1>8. PICK after : after = [call EXCEPT ![t] = r]
  BY Zenon
<1>9. Handles(device, m, after) /\ Leave(call, after, {})
  <2>1. Handles(device, m, call)
    BY <1>4, Zenon DEF Coherent
  <2>2. r.cache \in 1 .. Len(m) /\ m[r.cache].ifname = r.ifname
    BY <1>4, <1>7, Zenon
  <2>3. Handles(device, m, after)
    BY ONLY <1>6, <1>7, <1>8, <2>1, <2>2, t \in Threads, CallStarts, Zenon
  <2>4. Leave(call, after, {})
    BY ONLY <1>6, <1>7, <1>8, <2>1, <2>2, t \in Threads, CallStarts, Zenon
  <2> QED
    BY <2>3, <2>4, Zenon
<1>10. Coherent(device, m, after)
  BY ONLY <1>4, <1>9, CallsChange, Zenon DEF Leave
<1>11. Coherent(device, list', call')
  BY <1>6, <1>8, <1>10, Zenon
<1>12. default_ifname' \in device.ifaces
  BY <1>6, Zenon DEF ResolvIInv
<1> QED
  BY <1>6, <1>11, <1>12, CacheStep, Zenon

\* _resolv_cache_lookup: the entry is not found, has expired, or is there.
LEMMA LookupIInv ==
  ASSUME ResolvIInv, device' = device, NEW t \in Threads, _resolv_cache_lookup(t)
  PROVE  ResolvIInv'
<1>1. /\ call[t].pc = "lookup" /\ UNCHANGED onceVars /\ default_ifname' = default_ifname
  BY Zenon DEF _resolv_cache_lookup
<1>2. PICK c : c = call[t].cache
  OBVIOUS
<1>3. PICK q : q = call[t].query
  OBVIOUS
<1>4. /\ once_control = "done" /\ c \in 1 .. Len(list) /\ q \in device.queries
      /\ Sound(device, list[c])
  BY <1>1, <1>2, <1>3, InCall, Zenon
<1>5. PICK e : e = _cache_lookup_p(list[c], q)
  OBVIOUS
<1>6. e # NULL => e \in Range(list[c].mru_list)
  BY <1>4, <1>5, LookupFinds, Zenon DEF ResolvIInv
<1>7. \/ list' = list /\ call' = [call EXCEPT ![t].pc = "asking"]
      \/ /\ e # NULL /\ list' = [list EXCEPT ![c] = _cache_remove_p(list[c], e)]
         /\ call' = [call EXCEPT ![t].pc = "asking"]
      \/ /\ e # NULL /\ list' = [list EXCEPT ![c] = Bump(list[c], e)]
         /\ call' = [call EXCEPT ![t] = Idle]
  BY <1>2, <1>3, <1>5, Zenon DEF _resolv_cache_lookup
<1>8. /\ device \in Devices /\ Coherent(device, list, call) /\ Handles(device, list, call)
      /\ default_ifname' \in device.ifaces
  BY <1>1, Zenon DEF ResolvIInv, Coherent
<1>9. PICK asks : asks = [call EXCEPT ![t].pc = "asking"]
  BY Zenon
<1>10. Handles(device, list, asks) /\ Leave(call, asks, {})
  BY <1>1, <1>8, <1>9, CallAsks, Zenon
<1>11. PICK ends : ends = [call EXCEPT ![t] = Idle]
  BY Zenon
<1>12. Handles(device, list, ends) /\ Leave(call, ends, {t})
  BY <1>8, <1>11, CallEnds, Zenon
<1>13. CASE list' = list /\ call' = [call EXCEPT ![t].pc = "asking"]
  <2>1. Coherent(device, list, asks)
    BY ONLY <1>8, <1>10, CallsChange, Zenon DEF Leave
  <2> QED
    BY <1>1, <1>4, <1>8, <1>9, <1>13, <2>1, CacheStep, Zenon
<1>14. CASE /\ e # NULL /\ list' = [list EXCEPT ![c] = _cache_remove_p(list[c], e)]
            /\ call' = [call EXCEPT ![t].pc = "asking"]
  <2>1. PICK new : new = _cache_remove_p(list[c], e)
    OBVIOUS
  <2>2. Follows(device, list[c], new, {})
    BY <1>4, <1>6, <1>8, <1>14, <2>1, RemoveSound, Zenon
  <2>3. PICK m : m = [list EXCEPT ![c] = new]
    BY Zenon
  <2>4. Coherent(device, m, asks)
    BY ONLY <1>4, <1>8, <1>10, <2>2, <2>3, CacheFollows, Zenon
  <2>5. list' = m /\ call' = asks
    BY <1>9, <1>14, <2>1, <2>3, Zenon
  <2> QED
    BY <1>1, <1>4, <1>8, <2>4, <2>5, CacheStep, Zenon
<1>15. CASE /\ e # NULL /\ list' = [list EXCEPT ![c] = Bump(list[c], e)]
            /\ call' = [call EXCEPT ![t] = Idle]
  <2>1. PICK new : new = Bump(list[c], e)
    OBVIOUS
  <2>2. Follows(device, list[c], new, {})
    BY <1>4, <1>6, <1>8, <1>15, <2>1, BumpSound, Zenon DEF Follows
  <2>3. PICK m : m = [list EXCEPT ![c] = new]
    BY Zenon
  <2>4. Coherent(device, m, ends)
    BY ONLY <1>4, <1>8, <1>12, <2>2, <2>3, CacheFollows, Zenon
  <2>5. list' = m /\ call' = ends
    BY <1>11, <1>15, <2>1, <2>3, Zenon
  <2> QED
    BY <1>1, <1>4, <1>8, <2>4, <2>5, CacheStep, Zenon
<1> QED
  BY <1>7, <1>13, <1>14, <1>15, Zenon

\* LookupUnsupported and SendFails: a call ends without an answer.
LEMMA CallFailsIInv ==
  ASSUME ResolvIInv, device' = device, NEW t \in Threads,
         call[t].pc \in {"lookup", "asking"}, call' = [call EXCEPT ![t] = Idle],
         UNCHANGED <<onceVars, cacheVars>>
  PROVE  ResolvIInv'
<1>1. list' = list /\ default_ifname' = default_ifname /\ UNCHANGED onceVars
  BY DEF cacheVars, onceVars
<1>2. once_control = "done"
  BY InCall, Zenon
<1>3. /\ Coherent(device, list, call) /\ Handles(device, list, call)
      /\ default_ifname' \in device.ifaces
  BY <1>1, Zenon DEF ResolvIInv, Coherent
<1>4. PICK ends : ends = [call EXCEPT ![t] = Idle]
  OBVIOUS
<1>5. Handles(device, list, ends) /\ Leave(call, ends, {t})
  BY <1>3, <1>4, CallEnds, Zenon
<1>6. Coherent(device, list, ends)
  BY ONLY <1>3, <1>5, CallsChange, Zenon DEF Leave
<1> QED
  BY <1>1, <1>2, <1>3, <1>4, <1>6, CacheStep, Zenon

\* _resolv_cache_add.
LEMMA AddIInv ==
  ASSUME ResolvIInv, device' = device, NEW t \in Threads, NEW ttl \in Ttls,
         _resolv_cache_add(t, ttl)
  PROVE  ResolvIInv'
<1>1. PICK c : c = call[t].cache
  OBVIOUS
<1>2. PICK new : new = WithAnswer(list[c], call[t].query, ttl, call[t].crossed)
  OBVIOUS
<1>3. /\ call[t].pc = "asking" /\ UNCHANGED onceVars /\ default_ifname' = default_ifname
      /\ list' = [list EXCEPT ![c] = new] /\ call' = [call EXCEPT ![t] = Idle]
  BY <1>1, <1>2, Zenon DEF _resolv_cache_add
<1>4. /\ once_control = "done" /\ c \in 1 .. Len(list)
      /\ call[t].query \in device.queries /\ call[t].crossed \in BOOLEAN
      /\ Sound(device, list[c])
  BY <1>1, <1>3, InCall, Zenon
<1>5. /\ device \in Devices /\ Coherent(device, list, call)
      /\ default_ifname' \in device.ifaces
  BY <1>3, Zenon DEF ResolvIInv
<1>6. PICK e : e = [query |-> call[t].query, expires |-> ttl, crossed |-> call[t].crossed]
  BY Zenon
<1>7. ttl \in Nat
  BY ResolvCacheAssumption, Zenon
<1>8. Follows(device, list[c], new, {e})
  BY ONLY <1>2, <1>4, <1>5, <1>6, <1>7, AnswerSound, Zenon
<1>9. e.crossed <=> call[t].crossed
  BY <1>6, Zenon
<1>10. PICK ends : ends = [call EXCEPT ![t] = Idle]
  BY Zenon
<1>11. PICK m : m = [list EXCEPT ![c] = new]
  BY Zenon
<1>12. Coherent(device, m, ends)
  BY ONLY <1>1, <1>3, <1>4, <1>5, <1>8, <1>9, <1>10, <1>11, t \in Threads, CacheAnswered, Zenon
<1> QED
  BY <1>3, <1>4, <1>5, <1>10, <1>11, <1>12, CacheStep, Zenon

\* _cache_flush_locked, as the functions that flush a cache call it.
LEMMA FlushIInv ==
  ASSUME ResolvIInv, device' = device, once_control = "done", UNCHANGED <<onceVars, default_ifname>>,
         NEW c \in 1 .. Len(list), NEW g \in Generations \cup {-1}, _cache_flush_locked(c, g)
  PROVE  ResolvIInv'
<1>1. UNCHANGED onceVars /\ default_ifname' = default_ifname
  BY DEF onceVars
<1>2. /\ device \in Devices /\ Coherent(device, list, call)
      /\ default_ifname' \in device.ifaces
  BY <1>1, Zenon DEF ResolvIInv
<1>3. PICK i : i = list[c].ifname
  OBVIOUS
<1>4. i \in device.ifaces
  <2>1. list[c] \in Caches(device)
    BY <1>2, Zenon DEF Coherent, Sound
  <2> QED
    BY ONLY <1>3, <2>1 DEF Caches
<1>5. PICK S : S = Asked(call, c)
  OBVIOUS
<1>6. PICK n : n = Cardinality(S)
  OBVIOUS
<1>7. n \in Nat
  <2>1. S \in SUBSET Threads
    BY <1>5, Zenon DEF Asked
  <2> QED
    BY <1>6, <2>1, ResolvCacheAssumption, FS_Subset, FS_CardinalityType, Zenon
<1>8. PICK new : new = [ifname |-> i, mru_list |-> <<>>,
                        entries |-> [b \in 0 .. device.max_entries - 1 |-> <<>>],
                        num_entries |-> 0, generation |-> g, crossings |-> n]
  BY Zenon
<1>9. Fresh(device, new, i, n)
  BY ONLY <1>2, <1>4, <1>7, <1>8, g \in Generations \cup {-1}, FreshSound, Zenon
<1>10. [NewCache(i) EXCEPT !.generation = g, !.crossings = n] = new
  <2>1. PICK entries : entries = [b \in 0 .. device.max_entries - 1 |-> <<>>]
    BY Zenon
  <2>2. NewCache(i) = [ifname |-> i, mru_list |-> <<>>, entries |-> entries,
                       num_entries |-> 0, generation |-> -1, crossings |-> 0]
    BY <2>1, Zenon DEF NewCache
  <2>3. new = [ifname |-> i, mru_list |-> <<>>, entries |-> entries,
               num_entries |-> 0, generation |-> g, crossings |-> n]
    BY <1>8, <2>1, Zenon
  <2>4. PICK made : made = [NewCache(i) EXCEPT !.generation = g]
    BY Zenon
  <2>5. made = [ifname |-> i, mru_list |-> <<>>, entries |-> entries,
                num_entries |-> 0, generation |-> g, crossings |-> 0]
    BY ONLY <2>2, <2>4
  <2>6. [made EXCEPT !.crossings = n] = new
    BY ONLY <2>3, <2>5
  <2>7. [NewCache(i) EXCEPT !.generation = g, !.crossings = n] = [made EXCEPT !.crossings = n]
    BY ONLY <2>2, <2>4
  <2> QED
    BY <2>6, <2>7, Zenon
<1>11. Asking(c) = S
  BY <1>5, Zenon DEF Asking, Asked
<1>12. PICK m : m = [list EXCEPT ![c] = new]
  BY Zenon
<1>13. PICK after : after = Overtaken(call, c)
  OBVIOUS
<1>14. list' = m
  BY <1>3, <1>6, <1>10, <1>11, <1>12, Zenon DEF _cache_flush_locked
<1>15. call' = after
  BY <1>5, <1>11, <1>13, Zenon DEF Overtaken, _cache_flush_locked
<1>16. /\ Sound(device, new) /\ Range(new.mru_list) = {} /\ new.ifname = list[c].ifname
       /\ new.crossings = Cardinality(Asked(call, c))
  BY <1>3, <1>5, <1>6, <1>9, Zenon DEF Fresh
<1>17. Coherent(device, m, after)
  BY ONLY <1>2, <1>12, <1>13, <1>16, c \in 1 .. Len(list), CacheFlushed, Zenon
<1> QED
  BY <1>1, <1>2, <1>14, <1>15, <1>17, CacheStep, Zenon

\* _resolv_flush_cache_for_iface; for the default interface as well.
LEMMA FlushIfaceIInv ==
  ASSUME ResolvIInv, device' = device, NEW i, _resolv_flush_cache_for_iface(i)
  PROVE  ResolvIInv'
<1>1. PICK c : c = _find_cache_info_locked(i)
  OBVIOUS
<1>2. /\ once_control = "done" /\ c # 0 /\ _cache_flush_locked(c, list[c].generation)
      /\ UNCHANGED <<onceVars, default_ifname>>
  BY <1>1, Zenon DEF _resolv_flush_cache_for_iface, System
<1>3. c \in 1 .. Len(list)
  BY <1>1, <1>2, CacheFound, Zenon
<1>4. list[c].generation \in Generations \cup {-1}
  <2>1. list[c] \in Caches(device)
    BY <1>3, Zenon DEF ResolvIInv, Coherent, Sound
  <2> QED
    BY ONLY <2>1 DEF Caches
<1> QED
  BY <1>2, <1>3, <1>4, FlushIInv, Zenon

\* _resolv_cache_reset: the cache is made, or flushed.
LEMMA ResetIInv ==
  ASSUME ResolvIInv, device' = device, NEW g \in Generations, _resolv_cache_reset(g)
  PROVE  ResolvIInv'
<1>1. PICK i \in device.ifaces : i = CurrentIface
  BY CurrentIfaceKnown, Zenon
<1>2. PICK c : c = _find_cache_info_locked(i)
  OBVIOUS
<1>3. PICK new : new = [NewCache(i) EXCEPT !.generation = g]
  BY Zenon
<1>4. /\ once_control = "done" /\ UNCHANGED <<onceVars, default_ifname>>
      /\ \/ c = 0 /\ list' = Append(list, new) /\ call' = call
         \/ c # 0 /\ _cache_flush_locked(c, g)
  BY <1>1, <1>2, <1>3, Zenon DEF _resolv_cache_reset, System
<1>5. UNCHANGED onceVars /\ default_ifname' = default_ifname
  BY <1>4 DEF onceVars
<1>6. /\ device \in Devices /\ Coherent(device, list, call)
      /\ default_ifname' \in device.ifaces
  BY <1>5, Zenon DEF ResolvIInv
<1>7. g \in Generations \cup {-1}
  OBVIOUS
<1>8. CASE c = 0 /\ list' = Append(list, new) /\ call' = call
  <2>1. PICK n \in Nat : n = 0
    OBVIOUS
  <2>2. new = [ifname |-> i, mru_list |-> <<>>,
               entries |-> [b \in 0 .. device.max_entries - 1 |-> <<>>],
               num_entries |-> 0, generation |-> g, crossings |-> n]
    BY ONLY <1>3, <2>1, Zenon DEF NewCache
  <2>3. Fresh(device, new, i, n)
    BY ONLY <1>6, <1>7, <2>2, i \in device.ifaces, n \in Nat, FreshSound, Zenon
  <2>4. Sound(device, new) /\ Range(new.mru_list) = {}
    BY <2>3, Zenon DEF Fresh
  <2>5. PICK m : m = Append(list, new)
    BY Zenon
  <2>6. Coherent(device, m, call)
    BY ONLY <1>6, <2>4, <2>5, CacheAppended, Zenon
  <2> QED
    BY <1>4, <1>5, <1>6, <1>8, <2>5, <2>6, CacheStep, Zenon
<1>9. CASE c # 0 /\ _cache_flush_locked(c, g)
  <2>1. c \in 1 .. Len(list)
    BY <1>2, <1>9, CacheFound, Zenon
  <2> QED
    BY <1>4, <1>7, <1>9, <2>1, FlushIInv, Zenon
<1> QED
  BY <1>4, <1>8, <1>9, Zenon

\* _resolv_set_default_iface and _resolv_set_nameservers_for_iface.
LEMMA SetDefaultIInv ==
  ASSUME ResolvIInv, device' = device, NEW i \in device.ifaces, _resolv_set_default_iface(i)
  PROVE  ResolvIInv'
<1>1. /\ once_control = "done" /\ default_ifname' = i /\ UNCHANGED onceVars
      /\ list' = list /\ call' = call
  BY DEF _resolv_set_default_iface, System, onceVars
<1>2. Coherent(device, list, call)
  BY Zenon DEF ResolvIInv
<1> QED
  BY <1>1, <1>2, CacheStep, Zenon

LEMMA SetNameserversIInv ==
  ASSUME ResolvIInv, device' = device, NEW i \in device.ifaces,
         _resolv_set_nameservers_for_iface(i)
  PROVE  ResolvIInv'
<1>1. PICK m : m = _get_res_cache_for_iface_locked(i)
  OBVIOUS
<1>2. /\ once_control = "done" /\ default_ifname' = default_ifname /\ UNCHANGED onceVars
      /\ list' = m /\ call' = call
  BY <1>1 DEF _resolv_set_nameservers_for_iface, System, onceVars
<1>3. Coherent(device, m, call)
  BY <1>1, CacheObtained, Zenon
<1>4. default_ifname' \in device.ifaces
  BY <1>2, Zenon DEF ResolvIInv
<1> QED
  BY <1>2, <1>3, <1>4, CacheStep, Zenon

\* Tick: before the initialisation as well.
LEMMA TickIInv ==
  ASSUME ResolvIInv, device' = device, Tick
  PROVE  ResolvIInv'
<1>1. /\ default_ifname' = default_ifname /\ call' = call
      /\ once_control' = once_control /\ once_lock' = once_lock /\ once' = once
  BY Zenon DEF Tick, onceVars
<1>2. PICK m : m = [c \in DOMAIN list |->
                     [list[c] EXCEPT !.mru_list = Aged(list[c].mru_list),
                                     !.entries = [b \in DOMAIN list[c].entries |->
                                                    Aged(list[c].entries[b])]]]
  BY Zenon
<1>3. list' = m
  BY <1>2, Zenon DEF Tick
<1>4. device \in Devices /\ Coherent(device, list, call)
  BY Zenon DEF ResolvIInv
<1>5. Coherent(device, m, call) /\ Len(m) = Len(list)
  BY ONLY <1>2, <1>4, CachesAge, Zenon
<1>6. list = <<>> => m = <<>>
  <2>1. m \in Seq(Caches(device))
    BY <1>5, Zenon DEF Coherent
  <2> QED
    BY ONLY <1>5, <2>1
<1>7. Coherent(device', list', call')
  BY <1>1, <1>3, <1>5, Zenon
<1>8. once_control' = "init" => list' = <<>> /\ call' = [t \in Threads |-> Idle]
  BY <1>1, <1>3, <1>6, Zenon DEF ResolvIInv
<1> QED
  BY <1>1, <1>7, <1>8, Zenon DEF ResolvIInv

-----------------------------------------------------------------------------
\* The inductive invariant holds at the start, and every step keeps it.
LEMMA ResolvInitIInv ==
  ASSUME ResolvInit
  PROVE  ResolvIInv
<1>1. /\ device \in Devices /\ list = <<>> /\ default_ifname = NoName
      /\ call = [t \in Threads |-> Idle]
      /\ once_control = "init" /\ once_lock = Nobody /\ once = [t \in Threads |-> "out"]
  BY Zenon DEF ResolvInit, OnceStart
<1>2. NoName \in device.ifaces
  BY <1>1, DeviceFacts, Zenon
<1>3. once \in [Threads -> {"out", "lock", "locked", "called", "unlock"}]
  BY <1>1
<1>4. list \in Seq(Caches(device)) /\ 1 .. Len(list) = {}
  BY <1>1
<1>5. Idle.pc # "lookup"
  BY DEF Idle
<1>6. Handles(device, list, call)
  <2>1. call \in [Threads -> {Idle} \cup Calls(device)] /\ \A t \in Threads : call[t] = Idle
    BY <1>1
  <2> QED
    BY <1>5, <2>1, Zenon DEF Handles
<1>7. Coherent(device, list, call)
  BY <1>4, <1>6, Zenon DEF Coherent
<1> QED
  BY <1>1, <1>2, <1>3, <1>7, Zenon DEF ResolvIInv

LEMMA ResolvNextIInv ==
  ASSUME ResolvIInv, [ResolvNext]_resolvVars
  PROVE  ResolvIInv'
<1>1. CASE UNCHANGED resolvVars
  <2>1. /\ once_control' = once_control /\ once_lock' = once_lock /\ once' = once
        /\ list' = list /\ default_ifname' = default_ifname /\ call' = call /\ device' = device
    BY <1>1 DEF resolvVars, onceVars, cacheVars
  <2> QED
    BY <2>1, Zenon DEF ResolvIInv
<1>2. CASE ResolvNext
  <2>1. ResolvStep /\ device' = device
    BY <1>2, Zenon DEF ResolvNext
  <2>2. ASSUME NEW t \in Threads, OnceStep(t), UNCHANGED <<cacheVars, call>>
        PROVE  ResolvIInv'
    BY <2>1, <2>2, OnceStepIInv, Zenon
  <2>3. ASSUME NEW t \in Threads, _res_cache_init(t)
        PROVE  ResolvIInv'
    BY <2>1, <2>3, CacheInitIInv, Zenon
  <2>4. ASSUME NEW t \in Threads, NEW q \in device.queries, __get_res_cache(t, q)
        PROVE  ResolvIInv'
    BY <2>1, <2>4, GetCacheIInv, Zenon
  <2>5. ASSUME NEW t \in Threads, _resolv_cache_lookup(t)
        PROVE  ResolvIInv'
    BY <2>1, <2>5, LookupIInv, Zenon
  <2>6. ASSUME NEW t \in Threads, LookupUnsupported(t)
        PROVE  ResolvIInv'
    BY <2>1, <2>6, CallFailsIInv, Zenon DEF LookupUnsupported
  <2>7. ASSUME NEW t \in Threads, NEW ttl \in Ttls, _resolv_cache_add(t, ttl)
        PROVE  ResolvIInv'
    BY <2>1, <2>7, AddIInv, Zenon
  <2>8. ASSUME NEW t \in Threads, SendFails(t)
        PROVE  ResolvIInv'
    BY <2>1, <2>8, CallFailsIInv, Zenon DEF SendFails
  <2>9. ASSUME NEW i \in device.ifaces, _resolv_flush_cache_for_iface(i)
        PROVE  ResolvIInv'
    BY <2>1, <2>9, FlushIfaceIInv, Zenon
  <2>10. ASSUME NEW i \in device.ifaces, _resolv_set_default_iface(i)
         PROVE  ResolvIInv'
    BY <2>1, <2>10, SetDefaultIInv, Zenon
  <2>11. ASSUME NEW i \in device.ifaces, _resolv_set_nameservers_for_iface(i)
         PROVE  ResolvIInv'
    BY <2>1, <2>11, SetNameserversIInv, Zenon
  <2>12. ASSUME _resolv_flush_cache_for_default_iface
         PROVE  ResolvIInv'
    BY <2>1, <2>12, FlushIfaceIInv, Zenon DEF _resolv_flush_cache_for_default_iface
  <2>13. ASSUME NEW g \in Generations, _resolv_cache_reset(g)
         PROVE  ResolvIInv'
    BY <2>1, <2>13, ResetIInv, Zenon
  <2>14. ASSUME Tick
         PROVE  ResolvIInv'
    BY <2>1, <2>14, TickIInv, Zenon
  <2> QED
    BY <2>1, <2>2, <2>3, <2>4, <2>5, <2>6, <2>7, <2>8, <2>9, <2>10, <2>11, <2>12, <2>13, <2>14,
       Zenon DEF ResolvStep
<1> QED
  BY <1>1, <1>2, Zenon

\* The resolver's cache keeps the inductive invariant, for every device, set of threads
\* and number of entries.
LEMMA ResolvInvariance == ResolvSpec => []ResolvIInv
  BY ResolvInitIInv, ResolvNextIInv, PTL DEF ResolvSpec

\* The variables of res_cache.c keep their types: a cache never counts fewer than zero
\* or more than max_entries entries (the type invariant).
THEOREM ResolvTypeCorrect == ResolvSpec => []ResolvTypeOK
<1>1. ASSUME ResolvIInv
      PROVE  ResolvTypeOK
  <2>1. list \in Seq(Caches(device)) /\ DOMAIN list = 1 .. Len(list)
    BY <1>1 DEF ResolvIInv, Coherent
  <2>2. ASSUME NEW c \in DOMAIN list
        PROVE  /\ list[c].ifname \in device.ifaces
               /\ list[c].num_entries \in 0 .. device.max_entries
               /\ list[c].generation \in Generations \cup {-1}
    <3>1. list[c] \in Caches(device)
      BY <2>1
    <3> QED
      BY ONLY <3>1 DEF Caches
  <2>3. ASSUME NEW t \in Threads, call[t] # Idle
        PROVE  call[t].pc \in {"lookup", "asking"}
    <3>1. call \in [Threads -> {Idle} \cup Calls(device)]
      BY <1>1, Zenon DEF ResolvIInv, Coherent, Handles
    <3>2. call[t] \in Calls(device)
      BY <2>3, <3>1
    <3> QED
      BY ONLY <3>2 DEF Calls
  <2> QED
    BY <1>1, <2>2, <2>3, Zenon DEF ResolvIInv, ResolvTypeOK
<1> QED
  BY <1>1, ResolvInvariance, PTL

\* Whatever the threads look up, add, let expire or flush, the hash table and the list
\* of every cache hold the same entries, one for each query and at most max_entries: the
\* oldest entry is always found in the hash table (res_cache.c, _cache_remove_oldest).
THEOREM TableAndListAgree == ResolvSpec => []TableMatchesList
<1>1. ASSUME ResolvIInv
      PROVE  TableMatchesList
  <2>1. device \in Devices /\ list \in Seq(Caches(device))
    BY <1>1, Zenon DEF ResolvIInv, Coherent
  <2>2. DOMAIN list = 1 .. Len(list)
    BY <2>1
  <2>3. ASSUME NEW c \in 1 .. Len(list), NEW cache, cache = list[c]
        PROVE  /\ EntriesOf(cache) = Range(cache.mru_list)
               /\ \A i \in DOMAIN cache.entries : \A e \in Range(cache.entries[i]) : Bucket(e.query) = i
               /\ \A i, j \in DOMAIN cache.mru_list :
                    cache.mru_list[i].query = cache.mru_list[j].query => i = j
               /\ Len(cache.mru_list) = cache.num_entries
               /\ cache.num_entries <= device.max_entries
    <3>1. Sound(device, cache)
      BY <1>1, <2>3, Zenon DEF ResolvIInv, Coherent
    <3>2. /\ cache \in Caches(device)
          /\ cache.mru_list \in Seq(Entries(device))
          /\ cache.entries \in [0 .. device.max_entries - 1 -> Seq(Entries(device))]
          /\ \A b \in 0 .. device.max_entries - 1 :
               Range(cache.entries[b]) = {e \in Range(cache.mru_list) : Bucket(e.query) = b}
          /\ EntriesOf(cache) = Range(cache.mru_list)
      BY <2>1, <3>1, SoundCache, Zenon
    <3>3. DOMAIN cache.entries = 0 .. device.max_entries - 1 /\ DOMAIN cache.mru_list = 1 .. Len(cache.mru_list)
      BY ONLY <3>2
    <3>4. \A i \in DOMAIN cache.entries : \A e \in Range(cache.entries[i]) : Bucket(e.query) = i
      BY <3>2, <3>3, Zenon
    <3>5. /\ \A i, j \in DOMAIN cache.mru_list :
               cache.mru_list[i].query = cache.mru_list[j].query => i = j
          /\ Len(cache.mru_list) = cache.num_entries
      BY <3>1, <3>3, Zenon DEF Sound, Distinct
    <3>6. cache.num_entries <= device.max_entries
      <4>1. device.max_entries \in Nat
        BY <2>1, DeviceFacts, Zenon
      <4> QED
        BY ONLY <3>2, <4>1 DEF Caches
    <3> QED
      BY <3>2, <3>4, <3>5, <3>6, Zenon
  <2> QED
    BY <2>2, <2>3, Zenon DEF TableMatchesList
<1> QED
  BY <1>1, ResolvInvariance, PTL

\* res_nsend adds the answer to the cache of the interface it asked on, whatever caches
\* have been made or flushed meanwhile (res_send.c keeps the pointer over the sending).
THEOREM HandlesStayValid == ResolvSpec => []HandleStaysValid
<1>1. ASSUME ResolvIInv
      PROVE  HandleStaysValid
  <2>1. DOMAIN list = 1 .. Len(list)
    BY <1>1 DEF ResolvIInv, Coherent
  <2> QED
    BY <1>1, <2>1, Zenon DEF ResolvIInv, Coherent, Handles, HandleStaysValid
<1> QED
  BY <1>1, ResolvInvariance, PTL

\* The entries of a cache from before its last flush are never more than the calls that
\* were waiting for an answer then (_cache_flush_locked; _resolv_cache_add does not ask
\* when the query was sent).
THEOREM FlushesComplete == ResolvSpec => []FlushComplete
<1>1. ASSUME ResolvIInv
      PROVE  FlushComplete
  <2>1. DOMAIN list = 1 .. Len(list)
    BY <1>1 DEF ResolvIInv, Coherent
  <2>2. ASSUME NEW c \in 1 .. Len(list)
        PROVE  Cardinality({e \in EntriesOf(list[c]) : e.crossed})
                 + Cardinality({t \in Asking(c) : call[t].crossed}) <= list[c].crossings
    <3>1. Sound(device, list[c]) /\ Owed(list, call, c) /\ device \in Devices
      BY <1>1, Zenon DEF ResolvIInv, Coherent
    <3>2. EntriesOf(list[c]) = Range(list[c].mru_list)
      BY <3>1, SoundCache, Zenon
    <3>3. {e \in EntriesOf(list[c]) : e.crossed} = Crossed(list[c])
      BY <3>2, Zenon DEF Crossed
    <3>4. {t \in Asking(c) : call[t].crossed} = Waiting(call, c)
      BY Zenon DEF Asking, Waiting
    <3> QED
      BY <3>1, <3>3, <3>4, Zenon DEF Owed
  <2> QED
    BY <2>1, <2>2, Zenon DEF FlushComplete
<1> QED
  BY <1>1, ResolvInvariance, PTL
=============================================================================
