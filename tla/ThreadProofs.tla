---------------------------- MODULE ThreadProofs ----------------------------
(***************************************************************************)
(* Proofs about thread-specific data, for any set of threads, any number   *)
(* of keys and any number of destructor rounds, and then about the life of *)
(* threads, for any finite set of threads.                                 *)
(***************************************************************************)
EXTENDS ThreadLife, TlsKeys, WellFoundedInduction, FiniteSetTheorems, TLAPS

\* Min of a nonempty set of numbers is one of them.
LEMMA MinIn ==
  ASSUME NEW S, S \subseteq Nat, S # {}
  PROVE  Min(S) \in S
<1>1. \E x \in S : \A y \in S : ~(<<y, x>> \in OpToRel(<, Nat))
  BY NatLessThanWellFounded, WFMin, Zenon
<1>2. \E x \in S : \A y \in S : x <= y
  <2>1. PICK x \in S : \A y \in S : ~(<<y, x>> \in OpToRel(<, Nat))
    BY <1>1, Zenon
  <2>2. \A y \in S : ~(y < x)
    BY <2>1, Zenon DEF OpToRel
  <2> QED
    BY <2>2
<1> QED
  BY <1>2, Zenon DEF Min

-----------------------------------------------------------------------------
\* The types the argument needs.
TlsTypes ==
  /\ map \in [Keys -> Nat]
  /\ created \in Nat
  /\ stage \in [TlsThreads -> {"new", "running", "scan", "dtor", "cleaned", "dead"}]
  /\ tls \in [TlsThreads -> [Keys -> Nat]]
  /\ clean \in [TlsThreads -> [rounds : Int, kk : Nat, count : Nat]]

\* Threads that have not ended are in the list, so that pthread_key_delete reaches
\* those that have begun to run.
Reached == \A t \in TlsThreads : stage[t] # "dead" => t \in listed

\* A scan that begins a round without a destructor call behind it begins at the
\* first key.
FromTheStart ==
  \A t \in TlsThreads :
    /\ stage[t] = "scan" /\ clean[t].count = 0 => clean[t].kk = 1
    /\ stage[t] = "dtor" => clean[t].count > 0

\* The inductive invariant.
TlsIInv == TlsTypes /\ Reached /\ FromTheStart /\ NoStaleValue /\ AllDestroyed

LEMMA TlsInitIInv == TlsInit => TlsIInv
BY TlsKeysAssumption
   DEF TlsInit, TlsIInv, TlsTypes, Reached, FromTheStart, NoStaleValue, AllDestroyed,
       HasTls, NoData, NotCleaning, Keys

\* tlsmap_alloc returns a free key.
LEMMA AllocFree ==
  ASSUME NEW k \in Keys, map[k] = 0
  PROVE  tlsmap_alloc \in Keys /\ map[tlsmap_alloc] = 0
<1>1. {j \in Keys : map[j] = 0} \subseteq Nat /\ {j \in Keys : map[j] = 0} # {}
  BY DEF Keys
<1>2. Min({j \in Keys : map[j] = 0}) \in {j \in Keys : map[j] = 0}
  BY <1>1, MinIn
<1> QED
  BY <1>2 DEF tlsmap_alloc

\* The first key that is due is a number.
LEMMA DueNumber ==
  ASSUME NEW t \in TlsThreads, NEW k \in Nat, Due(t, k) # {}
  PROVE  Min(Due(t, k)) \in Nat
<1>1. Due(t, k) \subseteq Nat
  BY TlsKeysAssumption DEF Due
<1> QED
  BY <1>1, MinIn

LEMMA TlsNextIInv == TlsIInv /\ [TlsNext]_tlsVars => TlsIInv'
<1> SUFFICES ASSUME TlsIInv, [TlsNext]_tlsVars
             PROVE  TlsIInv'
  OBVIOUS
<1> USE TlsKeysAssumption
<1>0. TlsTypes /\ Reached /\ FromTheStart /\ NoStaleValue /\ AllDestroyed
  BY DEF TlsIInv
<1> USE DEF TlsTypes, Reached, FromTheStart, NoStaleValue, HasTls, InCallersCode
<1>1. ASSUME NEW t \in TlsThreads, __init_tls(t)
      PROVE  TlsIInv'
  <2>1. TlsTypes'
    BY <1>0, <1>1 DEF __init_tls, NoData
  <2>2. Reached'
    BY <1>0, <1>1 DEF __init_tls, NoData
  <2>3. FromTheStart'
    BY <1>0, <1>1 DEF __init_tls, NoData
  <2>4. NoStaleValue'
    BY <1>0, <1>1 DEF __init_tls, NoData
  <2>5. AllDestroyed'
    BY <1>0, <1>1 DEF __init_tls, NoData, AllDestroyed, Due
  <2> QED
    BY <2>1, <2>2, <2>3, <2>4, <2>5 DEF TlsIInv
<1>2. ASSUME NEW t \in TlsThreads, NEW b \in BOOLEAN, pthread_key_create(t, b)
      PROVE  TlsIInv'
  <2>1. TlsTypes'
    BY <1>0, <1>2, AllocFree DEF pthread_key_create
  <2>2. Reached'
    BY <1>0, <1>2, AllocFree DEF pthread_key_create
  <2>3. FromTheStart'
    BY <1>0, <1>2, AllocFree DEF pthread_key_create
  <2>4. NoStaleValue'
    BY <1>0, <1>2, AllocFree DEF pthread_key_create
  <2>5. AllDestroyed'
    BY <1>0, <1>2, AllocFree DEF pthread_key_create, AllDestroyed, Due
  <2> QED
    BY <2>1, <2>2, <2>3, <2>4, <2>5 DEF TlsIInv
<1>3. ASSUME NEW t \in TlsThreads, NEW k \in Keys, pthread_key_delete(t, k)
      PROVE  TlsIInv'
  <2>1. TlsTypes'
    BY <1>0, <1>3 DEF pthread_key_delete, Erased
  <2>2. Reached'
    BY <1>0, <1>3 DEF pthread_key_delete, Erased
  <2>3. FromTheStart'
    BY <1>0, <1>3 DEF pthread_key_delete, Erased
  <2>4. NoStaleValue'
    BY <1>0, <1>3 DEF pthread_key_delete, Erased
  <2>5. AllDestroyed'
    BY <1>0, <1>3 DEF pthread_key_delete, Erased, AllDestroyed, Due
  <2> QED
    BY <2>1, <2>2, <2>3, <2>4, <2>5 DEF TlsIInv
<1>4. ASSUME NEW t \in TlsThreads, NEW k \in Keys, NEW b \in BOOLEAN, pthread_setspecific(t, k, b)
      PROVE  TlsIInv'
  <2>1. TlsTypes'
    BY <1>0, <1>4 DEF pthread_setspecific
  <2>2. Reached'
    BY <1>0, <1>4 DEF pthread_setspecific
  <2>3. FromTheStart'
    BY <1>0, <1>4 DEF pthread_setspecific
  <2>4. NoStaleValue'
    BY <1>0, <1>4 DEF pthread_setspecific
  <2>5. AllDestroyed'
    BY <1>0, <1>4 DEF pthread_setspecific, AllDestroyed, Due
  <2> QED
    BY <2>1, <2>2, <2>3, <2>4, <2>5 DEF TlsIInv
<1>5. ASSUME NEW t \in TlsThreads, Exit(t)
      PROVE  TlsIInv'
  <2>1. TlsTypes'
    BY <1>0, <1>5 DEF Exit
  <2>2. Reached'
    BY <1>0, <1>5 DEF Exit
  <2>3. FromTheStart'
    BY <1>0, <1>5 DEF Exit
  <2>4. NoStaleValue'
    BY <1>0, <1>5 DEF Exit
  <2>5. AllDestroyed'
    BY <1>0, <1>5 DEF Exit, AllDestroyed, Due
  <2> QED
    BY <2>1, <2>2, <2>3, <2>4, <2>5 DEF TlsIInv
<1>6. ASSUME NEW t \in TlsThreads, CleanScan(t)
      PROVE  TlsIInv'
  <2>0. ASSUME NEW k \in Nat, NEW round \in Int, NEW count \in Nat,
               CallDestructor(t, Min(Due(t, k)), round, count), Due(t, k) # {}
        PROVE  /\ stage' \in [TlsThreads -> {"new", "running", "scan", "dtor", "cleaned", "dead"}]
               /\ tls' \in [TlsThreads -> [Keys -> Nat]]
               /\ clean' \in [TlsThreads -> [rounds : Int, kk : Nat, count : Nat]]
    <3>1. Min(Due(t, k)) + 1 \in Nat
      BY <2>0, DueNumber
    <3> QED
      BY <1>0, <2>0, <3>1, Zenon DEF CallDestructor
  <2>1. TlsTypes'
    <3>0. /\ clean[t].kk \in Nat /\ clean[t].rounds \in Int /\ clean[t].rounds - 1 \in Int
          /\ clean[t].count + 1 \in Nat
          /\ UNCHANGED <<map, created>>
      BY <1>0, <1>6 DEF CleanScan
    <3>1. CASE Due(t, clean[t].kk) # {}
      <4>1. CallDestructor(t, Min(Due(t, clean[t].kk)), clean[t].rounds, clean[t].count + 1)
        BY <1>6, <3>1 DEF CleanScan
      <4> HIDE DEF TlsTypes
      <4>2. /\ stage' \in [TlsThreads -> {"new", "running", "scan", "dtor", "cleaned", "dead"}]
            /\ tls' \in [TlsThreads -> [Keys -> Nat]]
            /\ clean' \in [TlsThreads -> [rounds : Int, kk : Nat, count : Nat]]
        BY <2>0, <3>0, <3>1, <4>1, Zenon
      <4> QED
        BY <1>0, <3>0, <4>2 DEF TlsTypes
    <3>2. CASE Due(t, clean[t].kk) = {} /\ clean[t].count > 0 /\ clean[t].rounds > 1
                 /\ Due(t, 1) # {}
      <4>1. CallDestructor(t, Min(Due(t, 1)), clean[t].rounds - 1, 1)
        BY <1>6, <3>2 DEF CleanScan
      <4> HIDE DEF TlsTypes
      <4>2. /\ stage' \in [TlsThreads -> {"new", "running", "scan", "dtor", "cleaned", "dead"}]
            /\ tls' \in [TlsThreads -> [Keys -> Nat]]
            /\ clean' \in [TlsThreads -> [rounds : Int, kk : Nat, count : Nat]]
        BY <2>0, <3>0, <3>2, <4>1, Zenon
      <4> QED
        BY <1>0, <3>0, <4>2 DEF TlsTypes
    <3>3. CASE stage' = [stage EXCEPT ![t] = "cleaned"] /\ UNCHANGED <<tls, clean>>
      BY <1>0, <1>6, <3>3 DEF CleanScan
    <3> QED
      BY <1>6, <3>1, <3>2, <3>3 DEF CleanScan
  <2>2. Reached'
    BY <1>0, <1>6 DEF CleanScan, CallDestructor
  <2>3. FromTheStart'
    BY <1>0, <1>6 DEF CleanScan, CallDestructor
  <2>4. NoStaleValue'
    BY <1>0, <1>6 DEF CleanScan, CallDestructor
  <2>5. AllDestroyed'
    BY <1>0, <1>6, SMTT(30) DEF CleanScan, CallDestructor, AllDestroyed, Due
  <2> QED
    BY <2>1, <2>2, <2>3, <2>4, <2>5 DEF TlsIInv
<1>7. ASSUME NEW t \in TlsThreads, DestructorReturns(t)
      PROVE  TlsIInv'
  <2>1. TlsTypes'
    BY <1>0, <1>7 DEF DestructorReturns
  <2>2. Reached'
    BY <1>0, <1>7 DEF DestructorReturns
  <2>3. FromTheStart'
    BY <1>0, <1>7 DEF DestructorReturns
  <2>4. NoStaleValue'
    BY <1>0, <1>7 DEF DestructorReturns
  <2>5. AllDestroyed'
    BY <1>0, <1>7 DEF DestructorReturns, AllDestroyed, Due
  <2> QED
    BY <2>1, <2>2, <2>3, <2>4, <2>5 DEF TlsIInv
<1>8. ASSUME NEW t \in TlsThreads, NEW b \in BOOLEAN, Leave(t, b)
      PROVE  TlsIInv'
  <2>1. TlsTypes'
    BY <1>0, <1>8 DEF Leave, NoData, NotCleaning
  <2>2. Reached'
    BY <1>0, <1>8 DEF Leave, NoData, NotCleaning
  <2>3. FromTheStart'
    BY <1>0, <1>8 DEF Leave, NoData, NotCleaning
  <2>4. NoStaleValue'
    BY <1>0, <1>8 DEF Leave, NoData, NotCleaning
  <2>5. AllDestroyed'
    BY <1>0, <1>8 DEF Leave, NoData, NotCleaning, AllDestroyed, Due
  <2> QED
    BY <2>1, <2>2, <2>3, <2>4, <2>5 DEF TlsIInv
<1>9. CASE UNCHANGED tlsVars
  <2>1. AllDestroyed'
    BY <1>0, <1>9 DEF tlsVars, AllDestroyed, Due
  <2> QED
    BY <1>0, <1>9, <2>1 DEF tlsVars, TlsIInv
<1> QED
  BY <1>1, <1>2, <1>3, <1>4, <1>5, <1>6, <1>7, <1>8, <1>9 DEF TlsNext

LEMMA TlsInvariance == TlsSpec => []TlsIInv
BY TlsInitIInv, TlsNextIInv, PTL DEF TlsSpec

\* pthread_getspecific returns NULL or a value that was set since the key was last
\* created, whichever threads create and delete keys and exit meanwhile.
THEOREM NoValueOutlivesItsKey == TlsSpec => []NoStaleValue
<1>1. TlsIInv => NoStaleValue
  BY DEF TlsIInv
<1> QED
  BY <1>1, TlsInvariance, PTL

\* When pthread_key_clean_all ends before its last round, no value with a
\* destructor is left, and none comes back before the thread ends.
THEOREM DestructorsComplete == TlsSpec => []AllDestroyed
<1>1. TlsIInv => AllDestroyed
  BY DEF TlsIInv
<1> QED
  BY <1>1, TlsInvariance, PTL

-----------------------------------------------------------------------------
Stages == {"none", "cloned", "released", "running", "dropping", "keeping", "dead"}

\* The types the argument needs; it does not need the bound of join_count.
Types ==
  /\ life \in [Actors -> Stages]
  /\ memory \in [Actors -> {"none", "allocated", "freed"}]
  /\ gThreadList \subseteq Actors /\ detached \subseteq Actors
  /\ join_count \in [Actors -> Int]
  /\ op \in [Actors -> {"none", "init", "release", "waiting", "awake"}]
  /\ target \in [Actors -> Threads \cup {None}]
  /\ claimed \subseteq Threads /\ joined \subseteq Threads /\ cut \subseteq Threads

\* A descriptor is listed while its thread can run, and only while it is allocated;
\* the exceptions are the threads of which an interrupted join has returned.
Listing ==
  \A t \in Threads :
    /\ t \in gThreadList => memory[t] = "allocated" /\ life[t] # "none"
    /\ life[t] \in {"released", "running", "dropping", "keeping"} =>
         t \in gThreadList \/ t \in cut
    /\ memory[t] = "freed" => (life[t] = "dead" \/ t \in cut) /\ t \notin gThreadList
    /\ life[t] = "dropping" => t \in detached \/ memory[t] = "freed"
    /\ life[t] # "none" => memory[t] # "none"

\* What a create in progress knows of its thread, which is its alone.
Creating(a) == op[a] \in {"init", "release"}

Creation ==
  \A a \in Actors : Creating(a) =>
    /\ target[a] \in Threads
    /\ life[target[a]] = "cloned"
    /\ memory[target[a]] = "allocated"
    /\ op[a] = "init" => target[a] \notin gThreadList
    /\ op[a] = "release" => target[a] \in gThreadList
    /\ \A b \in Actors : Creating(b) /\ target[b] = target[a] => a = b

\* What a join in progress knows of its thread.
Joining(a) == op[a] \in {"waiting", "awake"}

JoinTargets ==
  /\ \A a \in Actors : op[a] = "none" => target[a] = None
  /\ \A a \in Actors : Joining(a) =>
       /\ target[a] \in gThreadList \cap claimed \cap Threads
       /\ target[a] \notin detached
       /\ life[target[a]] \notin {"none", "cloned"}
       /\ op[a] = "awake" => life[target[a]] = "dead"

\* join_count counts the joins in progress; JoinCountExact says the same of the
\* listed threads.
Joiners(t) == {a \in Actors : Joining(a) /\ target[a] = t}

Counts ==
  \A t \in gThreadList \cap Threads :
    \/ join_count[t] = Cardinality(Joiners(t))
    \/ join_count[t] = -1 /\ Joiners(t) = {} /\ life[t] = "dead"

\* The inductive invariant.
IInv ==
  /\ Types /\ Listing /\ Creation /\ JoinTargets /\ Counts /\ WokenAfterExit

LEMMA JoinersFinite == \A t : IsFiniteSet(Joiners(t))
<1>1. IsFiniteSet(Actors)
  BY ThreadLifeAssumption, FS_AddElement DEF Actors
<1> QED
  BY <1>1, FS_Subset DEF Joiners

LEMMA InitIInv == Init => IInv
BY ThreadLifeAssumption
   DEF Init, IInv, Types, Stages, Actors, Listing, Creation, Creating,
       JoinTargets, Joining, Counts, WokenAfterExit

\* A step that neither begins nor ends a join, nor changes a count, keeps Counts.
LEMMA CountsKept ==
  ASSUME IInv, \A a \in Actors : Joining(a)' <=> Joining(a),
         \A a \in Actors : Joining(a) => target'[a] = target[a],
         \A t \in gThreadList' \cap Threads :
           t \in gThreadList /\ join_count'[t] = join_count[t]
             /\ (life[t] = "dead" => life'[t] = "dead")
  PROVE  Counts'
<1>1. \A t \in Threads : Joiners(t)' = Joiners(t)
  BY DEF Joiners
<1> QED
  BY <1>1 DEF Counts, IInv

LEMMA NextIInv == IInv /\ [Next]_vars => IInv'
<1> SUFFICES ASSUME IInv, [Next]_vars
             PROVE  IInv'
  OBVIOUS
<1> USE ThreadLifeAssumption
    DEF Types, Stages, Actors, Listing, Creation, Creating, JoinTargets,
        Joining, WokenAfterExit, Begin, End, Free, Known, WaitsFor, MayDetach,
        _pthread_internal_add, _pthread_internal_remove, _pthread_internal_free
<1>types. Types
  BY DEF IInv
<1>listing. Listing
  BY DEF IInv
<1>creation. Creation
  BY DEF IInv
<1>joins. JoinTargets
  BY DEF IInv
<1>counts. Counts
  BY DEF IInv
<1>exits. WokenAfterExit
  BY DEF IInv
<1>1. ASSUME NEW a \in Actors, NEW t \in Threads, CreateClone(a, t)
      PROVE  IInv'
  <2>1. Types'
    BY <1>types, <1>1 DEF CreateClone
  <2>2. Listing'
    BY <1>types, <1>listing, <1>1 DEF CreateClone
  <2>3. Creation'
    BY <1>types, <1>listing, <1>creation, <1>1 DEF CreateClone
  <2>4. JoinTargets'
    BY <1>types, <1>joins, <1>1 DEF CreateClone
  <2>5. WokenAfterExit'
    BY <1>exits, <1>1 DEF CreateClone
  <2>6. Counts'
    BY <1>counts, <1>1, CountsKept DEF CreateClone
  <2> QED
    BY <2>1, <2>2, <2>3, <2>4, <2>5, <2>6, Zenon DEF IInv
<1>2. ASSUME NEW a \in Actors, NEW isDetached \in BOOLEAN, CreateInit(a, isDetached)
      PROVE  IInv'
  <2>1. Types'
    BY <1>types, <1>creation, <1>2 DEF CreateInit
  <2>2. Listing'
    BY <1>listing, <1>creation, <1>2 DEF CreateInit
  <2>3. Creation'
    BY <1>types, <1>creation, <1>2 DEF CreateInit
  <2>4. JoinTargets'
    BY <1>creation, <1>joins, <1>2 DEF CreateInit
  <2>5. WokenAfterExit'
    BY <1>exits, <1>2 DEF CreateInit
  <2>6. Counts'
    <3>1. Joiners(target[a]) = {}
      BY <1>creation, <1>joins, <1>2 DEF CreateInit, Joiners
    <3>2. \A u \in Threads : Joiners(u)' = Joiners(u)
      BY <1>2 DEF CreateInit, Joiners
    <3>3. /\ join_count' = [join_count EXCEPT ![target[a]] = 0]
          /\ gThreadList' = gThreadList \cup {target[a]} /\ life' = life
      BY <1>2 DEF CreateInit
    <3> SUFFICES ASSUME NEW u \in gThreadList' \cap Threads
                 PROVE  \/ join_count'[u] = Cardinality(Joiners(u)')
                        \/ join_count'[u] = -1 /\ Joiners(u)' = {} /\ life'[u] = "dead"
      BY DEF Counts
    <3>4. CASE u = target[a]
      <4>1. join_count'[u] = 0
        BY <1>types, <3>3, <3>4
      <4>2. Joiners(u)' = {}
        BY <3>1, <3>2, <3>4
      <4> QED
        BY <4>1, <4>2, FS_EmptySet
    <3>5. CASE u # target[a]
      BY <1>counts, <3>2, <3>3, <3>5 DEF Counts
    <3> QED
      BY <3>4, <3>5
  <2> QED
    BY <2>1, <2>2, <2>3, <2>4, <2>5, <2>6, Zenon DEF IInv
<1>3. ASSUME NEW a \in Actors, CreateRelease(a)
      PROVE  IInv'
  <2>1. Types'
    BY <1>types, <1>3, Zenon DEF CreateRelease
  <2>2. Listing'
    BY <1>listing, <1>creation, <1>3 DEF CreateRelease
  <2>3. Creation'
    BY <1>types, <1>creation, <1>3 DEF CreateRelease
  <2>4. JoinTargets'
    BY <1>types, <1>creation, <1>joins, <1>3 DEF CreateRelease
  <2>5. WokenAfterExit'
    BY <1>creation, <1>exits, <1>3 DEF CreateRelease
  <2>6. Counts'
    BY <1>creation, <1>counts, <1>3, CountsKept DEF CreateRelease
  <2> QED
    BY <2>1, <2>2, <2>3, <2>4, <2>5, <2>6, Zenon DEF IInv
<1>4. ASSUME NEW a \in Actors, NEW t \in Threads, Join(a, t)
      PROVE  IInv'
  <2>0. /\ t \in gThreadList \ detached /\ op[a] = "none" /\ a # t
        /\ life[t] \notin {"none", "cloned"} /\ claimed' = claimed \cup {t}
        /\ UNCHANGED <<life, detached, cut>>
    BY <1>4 DEF Join
  <2>1. CASE join_count[t] >= 0
    <3>1. /\ join_count' = [join_count EXCEPT ![t] = @ + 1]
          /\ op' = [op EXCEPT ![a] = "waiting"] /\ target' = [target EXCEPT ![a] = t]
          /\ UNCHANGED <<memory, gThreadList, joined>>
      BY <1>types, <1>4, <2>1 DEF Join
    <3>2. Types' /\ Listing' /\ WokenAfterExit'
      BY <1>types, <1>listing, <1>exits, <2>0, <3>1
    <3>3. Creation'
      BY <1>creation, <2>0, <3>1
    <3>4. JoinTargets'
      BY <1>types, <1>joins, <2>0, <3>1
    <3>5. Counts'
      <4>1. Joiners(t)' = Joiners(t) \cup {a} /\ a \notin Joiners(t)
        BY <1>types, <2>0, <3>1 DEF Joiners
      <4>2. \A u \in Threads \ {t} : Joiners(u)' = Joiners(u)
        BY <1>types, <2>0, <3>1 DEF Joiners
      <4>3. Cardinality(Joiners(t)') = Cardinality(Joiners(t)) + 1
        BY <4>1, JoinersFinite, FS_AddElement, Zenon
      <4>4. join_count[t] = Cardinality(Joiners(t))
        BY <1>counts, <2>0, <2>1 DEF Counts
      <4> QED
        BY <1>types, <1>counts, <2>0, <3>1, <4>2, <4>3, <4>4 DEF Counts
    <3> QED
      BY <3>2, <3>3, <3>4, <3>5, Zenon DEF IInv
  <2>2. CASE join_count[t] < 0
    <3>1. /\ joined' = joined \cup {t} /\ gThreadList' = gThreadList \ {t}
          /\ memory' = [memory EXCEPT ![t] = "freed"]
          /\ UNCHANGED <<join_count, op, target>>
      BY <1>types, <1>4, <2>2 DEF Join
    <3>2. Joiners(t) = {} /\ life[t] = "dead"
      <4>1. Cardinality(Joiners(t)) \in Nat
        BY JoinersFinite, FS_CardinalityType
      <4> QED
        BY <1>counts, <2>0, <2>2, <4>1 DEF Counts
    <3>3. Types' /\ Listing' /\ WokenAfterExit'
      BY <1>types, <1>listing, <1>exits, <2>0, <3>1, <3>2
    <3>4. Creation'
      BY <1>creation, <2>0, <3>1
    <3>5. JoinTargets'
      BY <1>joins, <2>0, <3>1, <3>2 DEF Joiners
    <3>6. Counts'
      BY <1>counts, <2>0, <3>1, CountsKept
    <3> QED
      BY <3>3, <3>4, <3>5, <3>6, Zenon DEF IInv
  <2> QED
    BY <1>types, <2>1, <2>2
<1>5. ASSUME NEW a \in Actors, JoinReturn(a)
      PROVE  IInv'
  <2> PICK t \in Threads : t = target[a]
    BY <1>joins, <1>5, Zenon DEF JoinReturn, WaitEnds
  <2>0. /\ Joining(a) /\ t \in gThreadList /\ life[t] # "cloned"
        /\ join_count' = [join_count EXCEPT ![t] = @ - 1]
        /\ \/ life[t] = "dead" /\ joined' = joined \cup {t} /\ cut' = cut
           \/ joined' = joined /\ cut' = cut \cup {t}
        /\ op' = [op EXCEPT ![a] = "none"] /\ target' = [target EXCEPT ![a] = None]
        /\ UNCHANGED <<life, detached, claimed>>
    BY <1>joins, <1>5 DEF JoinReturn, WaitEnds
  <2>1. /\ Joiners(t)' = Joiners(t) \ {a} /\ a \in Joiners(t)
        /\ \A u \in Threads \ {t} : Joiners(u)' = Joiners(u)
    BY <1>types, <2>0 DEF Joiners
  <2>2. /\ join_count[t] = Cardinality(Joiners(t))
        /\ join_count'[t] = Cardinality(Joiners(t)')
    <3>1. Cardinality(Joiners(t)') = Cardinality(Joiners(t)) - 1
      BY <2>1, JoinersFinite, FS_RemoveElement, Zenon
    <3>2. join_count[t] = Cardinality(Joiners(t))
      BY <1>counts, <2>0, <2>1, Zenon DEF Counts
    <3> QED
      BY <1>types, <2>0, <3>1, <3>2, Zenon
  <2>3. join_count[t] \in Int
    BY <1>types
  <2>4. Types' /\ WokenAfterExit'
    BY <1>types, <1>exits, <1>5, <2>0 DEF JoinReturn
  <2>5. CASE join_count[t] - 1 > 0
    <3>1. UNCHANGED <<memory, gThreadList>>
      BY <1>types, <1>5, <2>5 DEF JoinReturn
    <3>2. Listing'
      BY <1>listing, <2>0, <3>1
    <3>3. Creation'
      BY <1>creation, <2>0, <3>1
    <3>4. JoinTargets'
      BY <1>types, <1>joins, <2>0, <3>1
    <3>5. Counts'
      <4> SUFFICES ASSUME NEW u \in gThreadList' \cap Threads, u # t
                   PROVE  \/ join_count'[u] = Cardinality(Joiners(u)')
                          \/ join_count'[u] = -1 /\ Joiners(u)' = {} /\ life'[u] = "dead"
        BY <2>2, Zenon DEF Counts
      <4>1. Joiners(u)' = Joiners(u) /\ join_count'[u] = join_count[u]
        BY <2>0, <2>1
      <4> QED
        BY <1>counts, <2>0, <3>1, <4>1 DEF Counts
    <3> QED
      BY <2>4, <3>2, <3>3, <3>4, <3>5, Zenon DEF IInv
  <2>6. CASE join_count[t] - 1 <= 0
    <3>1. memory' = [memory EXCEPT ![t] = "freed"] /\ gThreadList' = gThreadList \ {t}
      BY <1>types, <1>5, <2>6 DEF JoinReturn
    <3>2. Joiners(t) \ {a} = {}
      <4>1. /\ IsFiniteSet(Joiners(t) \ {a})
            /\ Cardinality(Joiners(t) \ {a}) = Cardinality(Joiners(t)) - 1
        BY <2>1, JoinersFinite, FS_RemoveElement
      <4>2. Cardinality(Joiners(t) \ {a}) \in Nat
        BY <4>1, FS_CardinalityType
      <4>3. Cardinality(Joiners(t) \ {a}) = 0
        BY <2>2, <2>6, <2>3, <4>1, <4>2
      <4> QED
        BY <4>1, <4>3, FS_EmptySet
    <3>3. Listing'
      BY <1>listing, <2>0, <3>1
    <3>4. Creation'
      BY <1>creation, <2>0, <3>1
    <3>5. JoinTargets'
      BY <1>types, <1>joins, <2>0, <3>1, <3>2 DEF Joiners
    <3>6. Counts'
      BY <1>counts, <2>0, <2>1, <3>1 DEF Counts
    <3> QED
      BY <2>4, <3>3, <3>4, <3>5, <3>6, Zenon DEF IInv
  <2> QED
    BY <2>5, <2>6, <2>3
<1>6. ASSUME NEW a \in Actors, NEW t \in Threads, Detach(a, t)
      PROVE  IInv'
  <2>1. Types'
    BY <1>types, <1>6 DEF Detach
  <2>2. Listing'
    BY <1>listing, <1>6 DEF Detach
  <2>3. Creation'
    BY <1>creation, <1>6, Zenon DEF Detach
  <2>4. JoinTargets'
    BY <1>joins, <1>6 DEF Detach
  <2>5. WokenAfterExit'
    BY <1>exits, <1>6 DEF Detach
  <2>6. Counts'
    BY <1>counts, <1>6, CountsKept, Zenon DEF Detach
  <2> QED
    BY <2>1, <2>2, <2>3, <2>4, <2>5, <2>6, Zenon DEF IInv
<1>7. ASSUME NEW t \in Threads, Start(t)
      PROVE  IInv'
  <2>1. Types'
    BY <1>types, <1>7 DEF Start
  <2>2. Listing'
    BY <1>listing, <1>7 DEF Start
  <2>3. Creation'
    BY <1>creation, <1>7 DEF Start
  <2>4. JoinTargets'
    BY <1>joins, <1>7 DEF Start
  <2>5. WokenAfterExit'
    BY <1>exits, <1>7 DEF Start
  <2>6. Counts'
    BY <1>counts, <1>7, CountsKept DEF Start
  <2> QED
    BY <2>1, <2>2, <2>3, <2>4, <2>5, <2>6, Zenon DEF IInv
<1>8. ASSUME NEW t \in Threads, ExitReadFlags(t)
      PROVE  IInv'
  <2>0. PICK exit \in {"dropping", "keeping"} :
          /\ life' = [life EXCEPT ![t] = exit] /\ life[t] = "running" /\ op[t] = "none"
          /\ exit = "dropping" => t \in detached \/ memory[t] = "freed"
          /\ UNCHANGED <<memory, gThreadList, detached, join_count, op, target, claimed,
                         joined, cut>>
    BY <1>8, Zenon DEF ExitReadFlags
  <2>1. Types'
    BY <1>types, <2>0
  <2>2. Listing'
    BY <1>types, <1>listing, <2>0
  <2>3. Creation'
    BY <1>types, <1>creation, <2>0
  <2>4. JoinTargets'
    BY <1>types, <1>joins, <2>0
  <2>5. WokenAfterExit'
    BY <1>types, <1>exits, <2>0
  <2>6. Counts'
    BY <1>types, <1>counts, <2>0, CountsKept
  <2> QED
    BY <2>1, <2>2, <2>3, <2>4, <2>5, <2>6, Zenon DEF IInv
<1>9. ASSUME NEW t \in Threads, ExitDrop(t)
      PROVE  IInv'
  <2>1. Types'
    BY <1>types, <1>9 DEF ExitDrop
  <2>2. Listing'
    BY <1>types, <1>listing, <1>9 DEF ExitDrop
  <2>3. Creation'
    BY <1>creation, <1>9 DEF ExitDrop
  <2>4. JoinTargets'
    BY <1>listing, <1>joins, <1>9 DEF ExitDrop
  <2>5. WokenAfterExit'
    BY <1>exits, <1>9 DEF ExitDrop
  <2>6. Counts'
    BY <1>counts, <1>9, CountsKept DEF ExitDrop
  <2> QED
    BY <2>1, <2>2, <2>3, <2>4, <2>5, <2>6, Zenon DEF IInv
<1>10. ASSUME NEW t \in Threads, ExitKeep(t)
      PROVE  IInv'
  <2>1. Types'
    BY <1>types, <1>10 DEF ExitKeep
  <2>2. Listing'
    BY <1>listing, <1>10 DEF ExitKeep
  <2>3. Creation'
    BY <1>creation, <1>10 DEF ExitKeep
  <2>4. JoinTargets'
    BY <1>types, <1>joins, <1>10 DEF ExitKeep
  <2>5. WokenAfterExit'
    BY <1>exits, <1>10 DEF ExitKeep
  <2>6. Counts'
    <3>1. \A u \in Threads : Joiners(u)' = Joiners(u)
      BY <1>10 DEF ExitKeep, Joiners
    <3>2. /\ life[t] # "dead" /\ life' = [life EXCEPT ![t] = "dead"]
          /\ gThreadList' = gThreadList
      BY <1>10 DEF ExitKeep
    <3>4. /\ Counts /\ gThreadList' = gThreadList
          /\ \A u \in Threads : life[u] = "dead" => life'[u] = "dead"
      BY <1>counts, <3>2
    <3>5. CASE join_count' = join_count
      BY ONLY <3>1, <3>4, <3>5, Zenon DEF Counts
    <3>6. CASE /\ join_count' = [join_count EXCEPT ![t] = -1]
               /\ join_count[t] <= 0 \/ memory[t] = "freed"
      <4>1. t \in gThreadList => Joiners(t) = {}
        <5> SUFFICES ASSUME t \in gThreadList
                     PROVE  Joiners(t) = {}
          OBVIOUS
        <5>1. join_count[t] <= 0
          BY <1>listing, <3>6
        <5>2. join_count[t] = Cardinality(Joiners(t)) /\ Cardinality(Joiners(t)) \in Nat
          BY <1>counts, <3>2, JoinersFinite, FS_CardinalityType DEF Counts
        <5> QED
          BY <5>1, <5>2, JoinersFinite, FS_EmptySet
      <4>3. /\ join_count'[t] = -1 /\ life'[t] = "dead"
            /\ \A u \in Threads \ {t} : join_count'[u] = join_count[u]
        BY <1>types, <3>2, <3>6
      <4>4. t \in gThreadList => Joiners(t)' = {}
        BY <3>1, <4>1, Zenon
      <4> QED
        BY ONLY <3>1, <3>4, <4>3, <4>4, Zenon DEF Counts
    <3> QED
      BY <1>10, <3>5, <3>6, Zenon DEF ExitKeep
  <2> QED
    BY <2>1, <2>2, <2>3, <2>4, <2>5, <2>6, Zenon DEF IInv
<1>11. CASE UNCHANGED vars
  <2>1. Counts'
    BY <1>counts, <1>11, CountsKept, Zenon DEF vars
  <2> QED
    BY <1>11, <2>1, Zenon DEF vars, IInv
<1> HIDE DEF Actors
<1> QED
  BY <1>1, <1>2, <1>3, <1>4, <1>5, <1>6, <1>7, <1>8, <1>9, <1>10, <1>11 DEF Next

LEMMA Invariance == Spec => []IInv
BY InitIInv, NextIInv, PTL DEF Spec

\* The descriptor of a thread is freed only when it is not in the list any more, no
\* join of it is in progress and the thread has ended, or one of its joins was
\* interrupted: pthread_exit, pthread_join and pthread_detach leave exactly the last
\* user to free it.
THEOREM DescriptorSafe == Spec => []NoUseAfterFree
<1>1. IInv => NoUseAfterFree
  BY ThreadLifeAssumption
     DEF IInv, Types, Listing, Creation, Creating, JoinTargets, Joining,
         NoUseAfterFree, Actors
<1> QED
  BY <1>1, Invariance, PTL

\* pthread_join returns 0 only when the thread has ended, if its own wait is not
\* interrupted, whatever becomes of other joins of that thread.
THEOREM JoinWaits == Spec => []WokenAfterExit
<1>1. IInv => WokenAfterExit
  BY DEF IInv
<1> QED
  BY <1>1, Invariance, PTL

\* join_count is the number of joins of a listed thread in progress, interrupted ones
\* included, or -1 for a thread that has ended without any.
THEOREM JoinsCounted == Spec => []JoinCountExact
<1>1. IInv => JoinCountExact
  BY ThreadLifeAssumption
     DEF IInv, Types, Counts, Joiners, Joining, JoinCountExact, Actors
<1> QED
  BY <1>1, Invariance, PTL
=============================================================================
