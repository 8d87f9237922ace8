----------------------------- MODULE ResolvCache -----------------------------
(***************************************************************************)
(* The DNS cache of libc/netbsd/resolv/res_cache.c, and the threads that   *)
(* use it from res_nsend (res_send.c): the list of caches, one for each    *)
(* interface name; the hash table and the list of entries, most recently   *)
(* used first, of each cache; the functions that system programs call when *)
(* the network changes.  _res_cache_init is run by pthread_once.           *)
(*                                                                         *)
(* What is done with the lock of a cache or of the list held is one        *)
(* action.  An expiration time is the time left.  The packets, and the     *)
(* strings of name servers and addresses (which nothing in libc reads) are *)
(* left out; sending a query (ResSend) is the time between two actions.    *)
(***************************************************************************)
EXTENDS Once, Integers, Sequences, FiniteSets, FiniteSetsExt, Functions

CONSTANTS
  Devices,     \* what a device has: [max_entries, ifaces, queries]
  Hash,        \* of each query
  NoName,      \* the empty name of an interface
  Ttls,        \* of answers
  Generations, \* arguments of _resolv_cache_reset
  NULL

ASSUME ResolvCacheAssumption ==
  /\ \A d \in Devices : /\ d.max_entries \in Nat \ {0}
                        /\ NoName \in d.ifaces
                        /\ \A q \in d.queries : Hash[q] \in Nat
                        /\ NULL \notin [query : d.queries, expires : Nat, crossed : BOOLEAN]
  /\ IsFiniteSet(Threads)
  /\ Ttls \subseteq Nat
  /\ Generations \subseteq Nat

VARIABLES
  device,         \* the size of caches, the names of interfaces, the queries made
  list,           \* _res_cache_list, without its unused head
  default_ifname,
  call            \* per thread: where it is in res_nsend, with which query and cache

cacheVars == <<list, default_ifname>>
resolvVars == <<onceVars, cacheVars, call, device>>

Idle == [pc |-> "idle"]

ResolvInit ==
  /\ device \in Devices
  /\ OnceStart
  /\ list = <<>>
  /\ default_ifname = NoName
  /\ call = [t \in Threads |-> Idle]

\* _resolv_cache_create.  The field 'crossings' is not in the code: it counts the
\* calls that were under way when the cache was last flushed.
NewCache(ifname) ==
  [ifname |-> ifname, mru_list |-> <<>>, entries |-> [i \in 0 .. device.max_entries - 1 |-> <<>>],
   num_entries |-> 0, generation |-> -1, crossings |-> 0]

-----------------------------------------------------------------------------
(***************************************************************************)
(* The hash table and the list of one cache.                               *)
(***************************************************************************)
Bucket(q) == Hash[q] % device.max_entries

\* A list of entries without the first that is e.
Without(es, e) ==
  LET places == {i \in 1 .. Len(es) : es[i] = e}
      i == Min(places)
  IN
  IF places = {} THEN es ELSE SubSeq(es, 1, i - 1) \o SubSeq(es, i + 1, Len(es))

\* The entry for q, or NULL.
_cache_lookup_p(cache, q) ==
  LET chain == cache.entries[Bucket(q)]
      found == {i \in 1 .. Len(chain) : chain[i].query = q}
  IN
  IF found = {} THEN NULL ELSE chain[Min(found)]

\* The link at which a lookup of q that finds nothing ends: in the last entry of the
\* chain, or NULL for that of the bucket itself.
Link(cache, q) ==
  LET chain == cache.entries[Bucket(q)] IN IF chain = <<>> THEN NULL ELSE chain[Len(chain)]

\* A link in an entry that has been freed leads nowhere.
_cache_add_p(cache, link, e) ==
  LET b == Bucket(e.query)
      chain == cache.entries[b]
      linked == IF link \in Range(chain) \cup {NULL} THEN Append(chain, e) ELSE chain
  IN
  [cache EXCEPT !.entries = [cache.entries EXCEPT ![b] = linked],
                !.mru_list = <<e>> \o cache.mru_list,
                !.num_entries = cache.num_entries + 1]

_cache_remove_p(cache, e) ==
  LET b == Bucket(e.query) IN
  [cache EXCEPT !.entries = [cache.entries EXCEPT ![b] = Without(cache.entries[b], e)],
                !.mru_list = Without(cache.mru_list, e),
                !.num_entries = cache.num_entries - 1]

_cache_remove_oldest(cache) ==
  LET last == cache.mru_list[Len(cache.mru_list)]
      e == _cache_lookup_p(cache, last.query)
  IN
  IF e = NULL THEN cache ELSE _cache_remove_p(cache, e)

\* "bump up this entry to the top of the MRU list"
Bump(cache, e) == [cache EXCEPT !.mru_list = <<e>> \o Without(cache.mru_list, e)]

\* Mutant of WithAnswer: the link is the one found before the oldest entry is removed.
WithAnswerOldLink(cache, q, ttl, crossed) ==
  LET room == IF cache.num_entries >= device.max_entries THEN _cache_remove_oldest(cache) ELSE cache IN
  IF _cache_lookup_p(cache, q) # NULL \/ _cache_lookup_p(room, q) # NULL THEN cache
  ELSE IF ttl = 0 THEN room
  ELSE _cache_add_p(room, Link(cache, q), [query |-> q, expires |-> ttl, crossed |-> crossed])

\* What _resolv_cache_add makes of a cache: the oldest entry makes room even if the
\* answer turns out to have no time to live.
WithAnswer(cache, q, ttl, crossed) ==
  LET room == IF cache.num_entries >= device.max_entries THEN _cache_remove_oldest(cache) ELSE cache IN
  IF _cache_lookup_p(cache, q) # NULL THEN cache
  ELSE IF ttl = 0 \/ _cache_lookup_p(room, q) # NULL THEN room
  ELSE _cache_add_p(room, Link(room, q), [query |-> q, expires |-> ttl, crossed |-> crossed])

-----------------------------------------------------------------------------
(***************************************************************************)
(* The list of caches.                                                     *)
(***************************************************************************)
_find_cache_info_locked(ifname) ==
  LET found == {c \in 1 .. Len(list) : list[c].ifname = ifname} IN
  IF found = {} THEN 0 ELSE Min(found)

\* The place of the cache for an interface, at the end of the list if it is new.
Place(ifname) ==
  LET found == _find_cache_info_locked(ifname) IN IF found = 0 THEN Len(list) + 1 ELSE found

_get_res_cache_for_iface_locked(ifname) ==
  IF _find_cache_info_locked(ifname) = 0 THEN Append(list, NewCache(ifname)) ELSE list

\* The interface used when no other is named: without a default it is the last in
\* the list that has a name, the loop having no break.
CurrentIface ==
  LET named == {c \in 1 .. Len(list) : list[c].ifname # NoName} IN
  IF default_ifname = NoName /\ named # {} THEN list[Max(named)].ifname ELSE default_ifname

\* The init_routine.  Where the environment disables the cache it returns at once,
\* and the variables are zero as it is.
_res_cache_init(t) ==
  /\ OnceCall(t)
  /\ list' = <<>>
  /\ default_ifname' = NoName
  /\ UNCHANGED call

(***************************************************************************)
(* res_nsend: __get_res_cache, then _resolv_cache_lookup, and when an      *)
(* answer has come, _resolv_cache_add on the same cache.                   *)
(***************************************************************************)
__get_res_cache(t, q) ==
  /\ OncePassed(t)
  /\ call[t] = Idle
  /\ list' = _get_res_cache_for_iface_locked(CurrentIface)
  /\ call' = [call EXCEPT ![t] = [pc |-> "lookup", query |-> q, cache |-> Place(CurrentIface),
                                  ifname |-> CurrentIface, crossed |-> FALSE]]
  /\ UNCHANGED <<onceVars, default_ifname>>

_resolv_cache_lookup(t) ==
  LET c == call[t].cache
      e == _cache_lookup_p(list[c], call[t].query)
  IN
  /\ call[t].pc = "lookup"
  /\ \/ /\ e = NULL
        /\ call' = [call EXCEPT ![t].pc = "asking"]
        /\ UNCHANGED list
     \/ /\ e # NULL /\ (e # NULL => e.expires = 0)
        /\ list' = [list EXCEPT ![c] = _cache_remove_p(@, e)]
        /\ call' = [call EXCEPT ![t].pc = "asking"]
     \/ /\ e # NULL /\ (e # NULL => e.expires > 0)
        /\ list' = [list EXCEPT ![c] = Bump(@, e)]
        /\ call' = [call EXCEPT ![t] = Idle]
  /\ UNCHANGED <<onceVars, default_ifname>>

\* RESOLV_CACHE_UNSUPPORTED: the query is malformed, or the entry is longer than the
\* caller's buffer.  The answer, if there is one, will not be added.
LookupUnsupported(t) ==
  /\ call[t].pc = "lookup"
  /\ call' = [call EXCEPT ![t] = Idle]
  /\ UNCHANGED <<onceVars, cacheVars>>

_resolv_cache_add(t, ttl) ==
  /\ call[t].pc = "asking"
  /\ list' = [list EXCEPT ![call[t].cache] = WithAnswer(@, call[t].query, ttl, call[t].crossed)]
  /\ call' = [call EXCEPT ![t] = Idle]
  /\ UNCHANGED <<onceVars, default_ifname>>

\* res_nsend has no answer.
SendFails(t) ==
  /\ call[t].pc = "asking"
  /\ call' = [call EXCEPT ![t] = Idle]
  /\ UNCHANGED <<onceVars, cacheVars>>

(***************************************************************************)
(* What system programs call when the network changes, from a thread that  *)
(* has been through pthread_once as well.                                  *)
(***************************************************************************)
System == once_control = "done"

\* The calls that have asked on behalf of cache c and have no answer yet.
Asking(c) == {t \in Threads : call[t].pc = "asking" /\ call[t].cache = c}

\* Mutant of _cache_flush_locked: only the generation changes.
FlushNothing(c, generation) ==
  LET Old(es) == [i \in DOMAIN es |-> [es[i] EXCEPT !.crossed = TRUE]] IN
  /\ list' = [list EXCEPT ![c].mru_list = Old(@),
                          ![c].entries = [i \in DOMAIN @ |-> Old(@[i])],
                          ![c].generation = generation,
                          ![c].crossings = Cardinality(Asking(c))]
  /\ call' = [t \in Threads |-> IF t \in Asking(c) THEN [call[t] EXCEPT !.crossed = TRUE] ELSE call[t]]

\* Cache c becomes empty, and has the generation given.
_cache_flush_locked(c, generation) ==
  /\ list' = [list EXCEPT ![c] = [NewCache(list[c].ifname) EXCEPT !.generation = generation,
                                                                  !.crossings = Cardinality(Asking(c))]]
  /\ call' = [t \in Threads |-> IF t \in Asking(c) THEN [call[t] EXCEPT !.crossed = TRUE] ELSE call[t]]

_resolv_flush_cache_for_iface(ifname) ==
  LET c == _find_cache_info_locked(ifname) IN
  /\ System
  /\ c # 0
  /\ _cache_flush_locked(c, list[c].generation)
  /\ UNCHANGED <<onceVars, default_ifname>>

_resolv_flush_cache_for_default_iface == _resolv_flush_cache_for_iface(default_ifname)

\* The cache that __get_res_cache would give is flushed, unless the generation is
\* the one it has.
_resolv_cache_reset(generation) ==
  LET c == _find_cache_info_locked(CurrentIface) IN
  /\ System
  /\ \/ /\ c = 0
        /\ list' = Append(list, [NewCache(CurrentIface) EXCEPT !.generation = generation])
        /\ UNCHANGED call
     \/ /\ c # 0 /\ (c # 0 => list[c].generation # generation)
        /\ _cache_flush_locked(c, generation)
  /\ UNCHANGED <<onceVars, default_ifname>>

_resolv_set_default_iface(ifname) ==
  /\ System
  /\ default_ifname' = ifname
  /\ UNCHANGED <<onceVars, list, call>>

\* The cache is made if there is none; entries of an existing one stay.
_resolv_set_nameservers_for_iface(ifname) ==
  /\ System
  /\ list' = _get_res_cache_for_iface_locked(ifname)
  /\ UNCHANGED <<onceVars, default_ifname, call>>

\* Entries that are a second older.
Aged(es) == [i \in DOMAIN es |-> [es[i] EXCEPT !.expires = IF @ = 0 THEN 0 ELSE @ - 1]]

\* A second passes.
Tick ==
  /\ list' = [c \in DOMAIN list |->
                [list[c] EXCEPT !.mru_list = Aged(list[c].mru_list),
                                !.entries = [i \in DOMAIN list[c].entries |-> Aged(list[c].entries[i])]]]
  /\ UNCHANGED <<onceVars, default_ifname, call>>

ResolvStep ==
  \/ \E t \in Threads :
       \/ OnceStep(t) /\ UNCHANGED <<cacheVars, call>>
       \/ _res_cache_init(t)
       \/ \E q \in device.queries : __get_res_cache(t, q)
       \/ _resolv_cache_lookup(t) \/ LookupUnsupported(t)
       \/ \E ttl \in Ttls : _resolv_cache_add(t, ttl)
       \/ SendFails(t)
  \/ \E i \in device.ifaces : \/ _resolv_flush_cache_for_iface(i)
                       \/ _resolv_set_default_iface(i)
                       \/ _resolv_set_nameservers_for_iface(i)
  \/ _resolv_flush_cache_for_default_iface
  \/ \E g \in Generations : _resolv_cache_reset(g)
  \/ Tick

ResolvNext == ResolvStep /\ UNCHANGED device

ResolvSpec == ResolvInit /\ [][ResolvNext]_resolvVars

-----------------------------------------------------------------------------
EntriesOf(cache) == UNION {Range(cache.entries[i]) : i \in DOMAIN cache.entries}

\* The type invariant.
ResolvTypeOK ==
  /\ once_control \in {"init", "done"}
  /\ once_lock \in Threads \cup {Nobody}
  /\ once \in [Threads -> {"out", "lock", "locked", "called", "unlock"}]
  /\ default_ifname \in device.ifaces
  /\ \A c \in DOMAIN list : /\ list[c].ifname \in device.ifaces
                            /\ list[c].num_entries \in 0 .. device.max_entries
                            /\ list[c].generation \in Generations \cup {-1}
  /\ \A t \in Threads : call[t] # Idle => call[t].pc \in {"lookup", "asking"}

\* The hash table and the list of a cache hold the same entries, each once, in the
\* bucket of its hash, num_entries of them and at most max_entries: lookups,
\* evictions and flushes of several threads never leave an entry in one and not in
\* the other ("OLDEST NOT IN HTABLE ?", "should not happen").
TableMatchesList ==
  \A c \in DOMAIN list :
    LET cache == list[c] IN
    /\ EntriesOf(cache) = Range(cache.mru_list)
    /\ \A i \in DOMAIN cache.entries : \A e \in Range(cache.entries[i]) : Bucket(e.query) = i
    /\ \A i, j \in DOMAIN cache.mru_list :
         cache.mru_list[i].query = cache.mru_list[j].query => i = j
    /\ Len(cache.mru_list) = cache.num_entries
    /\ cache.num_entries <= device.max_entries

\* "when network settings change, the cache must be flushed": what a cache holds
\* from before its last flush are answers to the calls of res_nsend that were
\* waiting for one then, at most one for each.
FlushComplete ==
  \A c \in DOMAIN list :
    Cardinality({e \in EntriesOf(list[c]) : e.crossed})
      + Cardinality({t \in Asking(c) : call[t].crossed}) <= list[c].crossings

\* The cache that res_nsend has obtained before sending is, when the answer comes,
\* still the one of the interface it was asked on: caches are made once, stay in the
\* list, and _res_cache_init does not run again.
HandleStaysValid ==
  \A t \in Threads : call[t] # Idle =>
    call[t].cache \in DOMAIN list /\ list[call[t].cache].ifname = call[t].ifname
=============================================================================
