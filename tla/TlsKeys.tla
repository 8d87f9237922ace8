------------------------------ MODULE TlsKeys ------------------------------
(***************************************************************************)
(* Thread-specific data of libc/bionic/pthread.c: the map of keys with     *)
(* their destructors, the TLS area of every thread, and the destructor     *)
(* loop of pthread_exit.                                                   *)
(*                                                                         *)
(* What is done inside _tlsmap_lock is one action; the destructor loop     *)
(* holds that lock from one destructor call to the next.  A value is       *)
(* either 0 (NULL) or the number of the key_create call after which it was *)
(* set, so that values that outlive their key can be told apart.           *)
(***************************************************************************)
EXTENDS Integers, FiniteSets, FiniteSetsExt

CONSTANTS
  TlsThreads,
  NumKeys,   \* the keys TLSMAP_START .. TLSMAP_SIZE-1 are 1 .. NumKeys
  PTHREAD_DESTRUCTOR_ITERATIONS,
  MaxCreate, \* bound: calls of pthread_key_create
  Joined     \* threads that another thread waits for in pthread_join

ASSUME TlsKeysAssumption ==
  /\ NumKeys \in Nat \ {0}
  /\ PTHREAD_DESTRUCTOR_ITERATIONS \in Nat \ {0}
  /\ MaxCreate \in Nat
  /\ Joined \subseteq TlsThreads

Keys == 1 .. NumKeys

VARIABLES
  map,     \* of each key: 0 (free) or the number of the call that created it
  dtors,   \* the keys that have a destructor
  created, \* calls of pthread_key_create so far
  stage,   \* of each thread, see TlsTypeOK
  listed,  \* the threads in gThreadList
  tls,     \* the TLS area of each thread that has one
  clean    \* the locals of pthread_key_clean_all: rounds, kk, count

tlsVars == <<map, dtors, created, stage, listed, tls, clean>>

NoData == [k \in Keys |-> 0]

NotCleaning == [rounds |-> 0, kk |-> 0, count |-> 0]

\* The threads have been created and listed, and have not begun to run.
TlsInit ==
  /\ map = [k \in Keys |-> 0]
  /\ dtors = {}
  /\ created = 0
  /\ stage = [t \in TlsThreads |-> "new"]
  /\ listed = TlsThreads
  /\ tls = [t \in TlsThreads |-> NoData]
  /\ clean = [t \in TlsThreads |-> NotCleaning]

\* t executes the callers' code: its own, or a destructor.
InCallersCode(t) == stage[t] \in {"running", "dtor"}

\* The memory of the TLS area of t is there.
HasTls(t) == stage[t] \in {"running", "dtor", "scan", "cleaned"}

-----------------------------------------------------------------------------
\* __thread_entry calls __init_tls, which clears the area.
__init_tls(t) ==
  /\ stage[t] = "new"
  /\ stage' = [stage EXCEPT ![t] = "running"]
  /\ tls' = [tls EXCEPT ![t] = NoData]
  /\ UNCHANGED <<map, dtors, created, listed, clean>>

\* The first free key; without one tlsmap_alloc returns -1.
tlsmap_alloc == Min({k \in Keys : map[k] = 0})

pthread_key_create(t, hasDtor) ==
  /\ InCallersCode(t)
  /\ created < MaxCreate
  /\ \E k \in Keys : map[k] = 0
  /\ created' = created + 1
  /\ map' = [map EXCEPT ![tlsmap_alloc] = created + 1]
  /\ dtors' = IF hasDtor THEN dtors \cup {tlsmap_alloc} ELSE dtors \ {tlsmap_alloc}
  /\ UNCHANGED <<stage, listed, tls, clean>>

(***************************************************************************)
(* The threads whose area key_delete writes to: in the list, join_count    *)
(* not negative (it is when the thread has ended and nobody waits for it), *)
(* and with a pointer to an area, which __thread_entry sets.               *)
(***************************************************************************)
Erased ==
  {t \in listed : stage[t] # "new" /\ ~(stage[t] = "dead" /\ t \notin Joined)}

pthread_key_delete(t, k) ==
  /\ InCallersCode(t)
  /\ map[k] # 0
  /\ tls' = [u \in TlsThreads |-> IF u \in Erased THEN [tls[u] EXCEPT ![k] = 0] ELSE tls[u]]
  /\ map' = [map EXCEPT ![k] = 0]
  /\ dtors' = dtors \ {k}
  /\ UNCHANGED <<created, stage, listed, clean>>

\* A null pointer may be stored too, as pthread_key_delete does.
pthread_setspecific(t, k, isNull) ==
  /\ InCallersCode(t)
  /\ map[k] # 0
  /\ tls' = [tls EXCEPT ![t][k] = IF isNull THEN 0 ELSE map[k]]
  /\ UNCHANGED <<map, dtors, created, stage, listed, clean>>

\* Mutant of Exit: the thread leaves the list before its destructors run.
ExitUnlisted(t) ==
  /\ stage[t] = "running"
  /\ stage' = [stage EXCEPT ![t] = "scan"]
  /\ clean' = [clean EXCEPT ![t] =
                 [rounds |-> PTHREAD_DESTRUCTOR_ITERATIONS, kk |-> 1, count |-> 0]]
  /\ listed' = listed \ {t}
  /\ UNCHANGED <<map, dtors, created, tls>>

-----------------------------------------------------------------------------
\* pthread_exit calls pthread_key_clean_all.
Exit(t) ==
  /\ stage[t] = "running"
  /\ stage' = [stage EXCEPT ![t] = "scan"]
  /\ clean' = [clean EXCEPT ![t] =
                 [rounds |-> PTHREAD_DESTRUCTOR_ITERATIONS, kk |-> 1, count |-> 0]]
  /\ UNCHANGED <<map, dtors, created, listed, tls>>

\* The keys from k on for which the loop calls a destructor.
Due(t, k) == {j \in k .. NumKeys : map[j] # 0 /\ tls[t][j] # 0 /\ j \in dtors}

\* Clears the value of key k and calls its destructor, outside the lock.
CallDestructor(t, k, round, count) ==
  /\ tls' = [tls EXCEPT ![t][k] = 0]
  /\ clean' = [clean EXCEPT ![t] = [rounds |-> round, kk |-> k + 1, count |-> count]]
  /\ stage' = [stage EXCEPT ![t] = "dtor"]

\* Mutant of CleanScan: there is one round only.
CleanScanOnce(t) ==
  LET c == clean[t]
      again == FALSE
  IN
  /\ stage[t] = "scan"
  /\ \/ /\ Due(t, c.kk) # {}
        /\ CallDestructor(t, Min(Due(t, c.kk)), c.rounds, c.count + 1)
     \/ /\ Due(t, c.kk) = {} /\ again /\ Due(t, 1) # {}
        /\ CallDestructor(t, Min(Due(t, 1)), c.rounds - 1, 1)
     \/ /\ Due(t, c.kk) = {} /\ ~(again /\ Due(t, 1) # {})
        /\ stage' = [stage EXCEPT ![t] = "cleaned"]
        /\ UNCHANGED <<tls, clean>>
  /\ UNCHANGED <<map, dtors, created, listed>>

\* Mutant of CleanScan: the rounds are not counted.
CleanScanForever(t) ==
  LET c == clean[t]
      again == c.count > 0
  IN
  /\ stage[t] = "scan"
  /\ \/ /\ Due(t, c.kk) # {}
        /\ CallDestructor(t, Min(Due(t, c.kk)), c.rounds, c.count + 1)
     \/ /\ Due(t, c.kk) = {} /\ again /\ Due(t, 1) # {}
        /\ CallDestructor(t, Min(Due(t, 1)), c.rounds, 1)
     \/ /\ Due(t, c.kk) = {} /\ ~(again /\ Due(t, 1) # {})
        /\ stage' = [stage EXCEPT ![t] = "cleaned"]
        /\ UNCHANGED <<tls, clean>>
  /\ UNCHANGED <<map, dtors, created, listed>>

(***************************************************************************)
(* From the lock to the next destructor call: in this round; in the next   *)
(* one, if this one has called a destructor and it is not the last; or to  *)
(* the end of the loop.                                                    *)
(***************************************************************************)
CleanScan(t) ==
  LET c == clean[t]
      again == c.count > 0 /\ c.rounds > 1
  IN
  /\ stage[t] = "scan"
  /\ \/ /\ Due(t, c.kk) # {}
        /\ CallDestructor(t, Min(Due(t, c.kk)), c.rounds, c.count + 1)
     \/ /\ Due(t, c.kk) = {} /\ again /\ Due(t, 1) # {}
        /\ CallDestructor(t, Min(Due(t, 1)), c.rounds - 1, 1)
     \/ /\ Due(t, c.kk) = {} /\ ~(again /\ Due(t, 1) # {})
        /\ stage' = [stage EXCEPT ![t] = "cleaned"]
        /\ UNCHANGED <<tls, clean>>
  /\ UNCHANGED <<map, dtors, created, listed>>

DestructorReturns(t) ==
  /\ stage[t] = "dtor"
  /\ stage' = [stage EXCEPT ![t] = "scan"]
  /\ UNCHANGED <<map, dtors, created, listed, tls, clean>>

(***************************************************************************)
(* The rest of pthread_exit: a detached thread leaves the list; the others *)
(* stay, with join_count -1 or, if somebody waits in pthread_join,         *)
(* positive.  Then the stack, which holds the TLS area, is unmapped.       *)
(***************************************************************************)
Leave(t, detached) ==
  /\ stage[t] = "cleaned"
  /\ stage' = [stage EXCEPT ![t] = "dead"]
  /\ listed' = IF detached THEN listed \ {t} ELSE listed
  /\ t \in Joined => ~detached
  /\ tls' = [tls EXCEPT ![t] = NoData]
  /\ clean' = [clean EXCEPT ![t] = NotCleaning]
  /\ UNCHANGED <<map, dtors, created>>

TlsNext ==
  \E t \in TlsThreads :
    \/ __init_tls(t)
    \/ \E b \in BOOLEAN : pthread_key_create(t, b) \/ Leave(t, b)
    \/ \E k \in Keys : pthread_key_delete(t, k) \/ \E b \in BOOLEAN : pthread_setspecific(t, k, b)
    \/ Exit(t) \/ CleanScan(t) \/ DestructorReturns(t)

TlsSpec == TlsInit /\ [][TlsNext]_tlsVars

\* A thread that has begun to exit goes on, and destructors return.
TlsFairness ==
  \A t \in TlsThreads :
    WF_tlsVars(CleanScan(t) \/ DestructorReturns(t) \/ \E b \in BOOLEAN : Leave(t, b))

FairTlsSpec == TlsSpec /\ TlsFairness

-----------------------------------------------------------------------------
\* Type invariant.
TlsTypeOK ==
  /\ map \in [Keys -> 0 .. MaxCreate]
  /\ dtors \subseteq {k \in Keys : map[k] # 0}
  /\ created \in 0 .. MaxCreate
  /\ stage \in [TlsThreads -> {"new", "running", "scan", "dtor", "cleaned", "dead"}]
  /\ listed \subseteq TlsThreads
  /\ tls \in [TlsThreads -> [Keys -> 0 .. MaxCreate]]
  /\ clean \in [TlsThreads -> [rounds : 0 .. PTHREAD_DESTRUCTOR_ITERATIONS,
                            kk : 0 .. NumKeys + 1, count : 0 .. NumKeys]]

\* "if the key was not allocated, the value read from the TLS should always be
\* NULL due to pthread_key_delete() clearing the values for all threads"
\* (pthread_getspecific): a thread reads NULL or a value set since the key was
\* last created, whatever other threads and its own destructors delete and create.
NoStaleValue ==
  \A t \in TlsThreads, k \in Keys :
    HasTls(t) /\ tls[t][k] # 0 => tls[t][k] = map[k]

\* "this must call the destructor of all keys that have a non-NULL data value"
\* (pthread_key_clean_all): when the loop ends before its last round is used up,
\* no value that has a destructor is left.
AllDestroyed ==
  \A t \in TlsThreads :
    stage[t] = "cleaned" /\ (clean[t].count = 0 \/ clean[t].rounds > 1) => Due(t, 1) = {}

\* "these are really already dead and don't have a TLS area anymore"
\* (pthread_key_delete): it writes only to TLS areas that exist, except that of a
\* thread that has ended while another waits to join it.
ErasesExistingTls ==
  \A t \in Erased : HasTls(t) \/ (t \in Joined /\ stage[t] = "dead")

\* pthread_exit ends even if the destructors set values again and create keys
\* without end.
ExitEnds ==
  \A t \in TlsThreads : stage[t] = "scan" ~> stage[t] = "dead"
=============================================================================
