--------------------------- MODULE PthreadProofs ---------------------------
(***************************************************************************)
(* Proofs about mutexes of every type: normal ones, for any set of         *)
(* threads, and then recursive and error-checking ones, whose module is    *)
(* here R, for any set of threads, any size of the counter field, and any  *)
(* recursion depth, also beyond it; then about the timers, and about       *)
(* fork and its handlers, for any number of timers and any sets of threads *)
(* and handlers.                                                           *)
(***************************************************************************)
EXTENDS Mutex, Fork, TLAPS

(***************************************************************************)
(* The word tells whether the mutex is held: it is 1 or 2 exactly while    *)
(* some thread holds it.  This is what makes mutual exclusion inductive:   *)
(* a thread enters only by changing the word from 0.                       *)
(***************************************************************************)
WordTellsHeld ==
  value \in {Locked, Contended} <=> \E t \in Threads : Holds(t)

(***************************************************************************)
(* What the callers' discipline for destroy keeps true.                    *)
(***************************************************************************)
DestroyAlone ==
  /\ value = Dead => \A t \in Threads : pc[t] \in {"idle", "wake"}
  /\ \A t \in Threads : pc[t] = "destroy" =>
       \A u \in Threads \ {t} : pc[u] \in {"idle", "wake"}

\* The inductive invariant.
IInv ==
  /\ TypeOK
  /\ MutualExclusion
  /\ WordTellsHeld
  /\ DestroyAlone
  /\ NoOrphan

LEMMA InitIInv == Init => IInv
BY DEF Init, IInv, TypeOK, MutualExclusion, WordTellsHeld, DestroyAlone,
       NoOrphan, Holds, Waiting, Sleepers, OthersDone, Labels,
       Unlocked, Locked, Contended, Dead

LEMMA NextIInv == IInv /\ [Next]_vars => IInv'
<1> SUFFICES ASSUME IInv, [Next]_vars
             PROVE  IInv'
  OBVIOUS
<1> USE DEF IInv, TypeOK, MutualExclusion, WordTellsHeld, DestroyAlone,
            NoOrphan, Holds, Waiting, Sleepers, OthersDone, Usable, Labels,
            Goto, Unlocked, Locked, Contended, Dead
<1>1. ASSUME NEW t \in Threads, NEW limit \in {"none", "ahead"}, Lock(t, limit)
      PROVE  IInv'
  BY <1>1 DEF Lock
<1>2. ASSUME NEW t \in Threads, Swap(t)
      PROVE  IInv'
  BY <1>2 DEF Swap
<1>3. ASSUME NEW t \in Threads, CheckClock(t)
      PROVE  IInv'
  BY <1>3 DEF CheckClock
<1>4. ASSUME NEW t \in Threads, FutexWait(t)
      PROVE  IInv'
  BY <1>4 DEF FutexWait
<1>5. ASSUME NEW t \in Threads, Interrupted(t) \/ TimedOut(t)
      PROVE  IInv'
  BY <1>5 DEF Interrupted, TimedOut
<1>6. ASSUME NEW t \in Threads, Expire(t)
      PROVE  IInv'
  BY <1>6 DEF Expire
<1>7. ASSUME NEW t \in Threads, TryLock(t)
      PROVE  IInv'
  BY <1>7 DEF TryLock
<1>8. ASSUME NEW t \in Threads, UnlockDec(t)
      PROVE  IInv'
  BY <1>8 DEF UnlockDec
<1>9. ASSUME NEW t \in Threads, UnlockStore(t)
      PROVE  IInv'
  BY <1>9 DEF UnlockStore
<1>10. ASSUME NEW t \in Threads, UnlockWake(t)
       PROVE  IInv'
  <2>1. CASE Sleepers = {}
    BY <1>10, <2>1 DEF UnlockWake
  <2>2. ASSUME NEW s \in Sleepers,
               pc' = [pc EXCEPT ![t] = "idle", ![s] = "swap"]
        PROVE  IInv'
    <3>1. s # t /\ pc[s] = "asleep" /\ pc[t] = "wake" /\ UNCHANGED <<value, deadline>>
      BY <1>10, <2>2 DEF UnlockWake
    <3>2. TypeOK' /\ MutualExclusion' /\ WordTellsHeld'
      BY <2>2, <3>1
    <3>3. DestroyAlone' /\ NoOrphan'
      BY <2>2, <3>1
    <3> QED
      BY <3>2, <3>3
  <2> QED
    BY <1>10, <2>1, <2>2 DEF UnlockWake
<1>11. ASSUME NEW t \in Threads, DestroyTryLock(t)
       PROVE  IInv'
  BY <1>11 DEF DestroyTryLock
<1>12. ASSUME NEW t \in Threads, DestroyStore(t)
       PROVE  IInv'
  BY <1>12 DEF DestroyStore
<1>13. ASSUME NEW t \in Threads, MutexInit(t)
       PROVE  IInv'
  BY <1>13 DEF MutexInit
<1>14. CASE UNCHANGED vars
  BY <1>14 DEF vars
<1> HIDE DEF IInv
<1> QED
  BY <1>1, <1>2, <1>3, <1>4, <1>5, <1>6, <1>7, <1>8, <1>9, <1>10, <1>11,
     <1>12, <1>13, <1>14 DEF Next

LEMMA Invariance == Spec => []IInv
BY InitIInv, NextIInv, PTL DEF Spec

\* The word and the threads' positions keep their types in every behaviour of
\* the lock, unlock, trylock, timed lock, destroy and init calls.
THEOREM TypeCorrect == Spec => []TypeOK
<1>1. IInv => TypeOK
  BY DEF IInv
<1> QED
  BY <1>1, Invariance, PTL

\* Any number of threads using _normal_lock, trylock, the timed lock and
\* _normal_unlock exclude one another.
THEOREM MutexSafe == Spec => []MutualExclusion
<1>1. IInv => MutualExclusion
  BY DEF IInv
<1> QED
  BY <1>1, Invariance, PTL

\* No thread is orphaned on the wait queue of the futex, as the comment in
\* _normal_unlock claims, for any number of threads.
THEOREM NobodyOrphaned == Spec => []NoOrphan
<1>1. IInv => NoOrphan
  BY DEF IInv
<1> QED
  BY <1>1, Invariance, PTL

\* _normal_unlock never writes the word of a mutex that its next owner has
\* destroyed in the meantime.
THEOREM UnlockLeavesDestroyedAlone == Spec => DestroyedUntouched
<1>1. IInv /\ [Next]_vars =>
        [value = Dead => UNCHANGED value \/ \E t \in Threads : MutexInit(t)]_vars
  <2> SUFFICES ASSUME IInv, [Next]_vars, value = Dead
               PROVE  UNCHANGED value \/ \E t \in Threads : MutexInit(t)
    OBVIOUS
  <2>1. \A t \in Threads : pc[t] \in {"idle", "wake"}
    BY DEF IInv, DestroyAlone
  <2> QED
    BY <2>1 DEF Next, vars, Lock, Swap, CheckClock, FutexWait, Interrupted,
       TimedOut, Expire, TryLock, UnlockDec, UnlockStore, UnlockWake,
       DestroyTryLock, DestroyStore, MutexInit, Usable
<1> QED
  BY <1>1, Invariance, PTL DEF Spec, DestroyedUntouched

(***************************************************************************)
(* The refinement: Owner is the thread that holds, and there is one.       *)
(***************************************************************************)
LEMMA OwnerHolds ==
  ASSUME IInv
  PROVE  /\ \A t \in Threads : Holds(t) => Owner = t
         /\ (\A t \in Threads : ~Holds(t)) => Owner = NoOwner
BY Zenon DEF IInv, MutualExclusion, Owner

LEMMA OwnerHoldsNext ==
  ASSUME IInv'
  PROVE  /\ \A t \in Threads : Holds(t)' => Owner' = t
         /\ (\A t \in Threads : ~Holds(t)') => Owner' = NoOwner
BY DEF IInv, MutualExclusion, Owner

\* _normal_lock, trylock, the timed lock, _normal_unlock and destroy implement
\* an abstract lock, for any number of threads.
THEOREM NormalMutexImplementsLock == Spec => ImplementsLock
<1>1. Init => AL!Init
  BY DEF Init, AL!Init, Owner, Holds
<1>2. IInv /\ IInv' /\ [Next]_vars => [AL!Next]_Owner
  <2> SUFFICES ASSUME IInv, IInv', [Next]_vars
               PROVE  AL!Next \/ Owner' = Owner
    BY DEF AL!Next
  <2>1. ASSUME \A u \in Threads : Holds(u)' = Holds(u)
        PROVE  Owner' = Owner
    BY <2>1, Zenon DEF Owner
  <2>2. ASSUME NEW t \in Threads, value = Unlocked, Holds(t)'
        PROVE  AL!Acquire(t)
    <3>1. Owner = NoOwner
      BY <2>2, OwnerHolds
         DEF IInv, WordTellsHeld, Unlocked, Locked, Contended
    <3> QED
      BY <3>1, <2>2, OwnerHoldsNext DEF AL!Acquire
  <2>3. ASSUME NEW t \in Threads, Holds(t),
               \A u \in Threads : ~Holds(u)'
        PROVE  AL!Release(t)
    BY <2>3, OwnerHolds, OwnerHoldsNext DEF AL!Release
  <2>4. ASSUME NEW t \in Threads,
               \/ \E limit \in {"none", "ahead"} : Lock(t, limit)
               \/ Swap(t) \/ TryLock(t) \/ DestroyTryLock(t)
        PROVE  (value = Unlocked /\ Holds(t)') \/ \A u \in Threads : Holds(u)' = Holds(u)
    BY <2>4 DEF Lock, Swap, TryLock, DestroyTryLock, Goto, Holds, IInv, TypeOK
  <2>5. ASSUME NEW t \in Threads,
               \/ CheckClock(t) \/ FutexWait(t) \/ Interrupted(t) \/ TimedOut(t)
               \/ Expire(t) \/ UnlockWake(t) \/ MutexInit(t)
        PROVE  \A u \in Threads : Holds(u)' = Holds(u)
    BY <2>5 DEF CheckClock, FutexWait, Interrupted, TimedOut, Expire,
                UnlockWake, MutexInit, Goto, Holds, Sleepers, IInv, TypeOK
  <2>6. ASSUME NEW t \in Threads,
               UnlockDec(t) \/ UnlockStore(t) \/ DestroyStore(t)
        PROVE  \/ Holds(t) /\ \A u \in Threads : ~Holds(u)'
               \/ \A u \in Threads : Holds(u)' = Holds(u)
    <3>1. Holds(t)
      BY <2>6 DEF UnlockDec, UnlockStore, DestroyStore, Holds
    <3>2. \A u \in Threads \ {t} : ~Holds(u)
      BY <3>1 DEF IInv, MutualExclusion
    <3> QED
      BY <2>6, <3>1, <3>2
         DEF UnlockDec, UnlockStore, DestroyStore, Goto, Holds, IInv, TypeOK
  <2>7. CASE UNCHANGED vars
    BY <2>7, <2>1 DEF vars, Holds
  <2> QED
    BY <2>1, <2>2, <2>3, <2>4, <2>5, <2>6, <2>7 DEF Next, AL!Next
<1> QED
  BY <1>1, <1>2, Invariance, PTL DEF Spec, ImplementsLock, AL!Spec

-----------------------------------------------------------------------------
(***************************************************************************)
(* The state field says whether the mutex is owned: the loop and trylock   *)
(* take it only when the whole value is that of a free mutex.              *)
(***************************************************************************)
StateTellsOwned ==
  /\ rvalue.owner = NoOwner => rvalue \in {R!Free, R!Dead}
  /\ rvalue.owner # NoOwner => rvalue.state \in {1, 2}

\* A thread that sleeps, or decided to, has promised to lock with state 2.
SleeperContends ==
  \A t \in Threads : rpc[t] \in {"clock", "wait", "asleep"} => rnew[t] = 2

\* A thread about to sleep compares with a contended or a dead value.
ComparesContended ==
  \A t \in Threads : rpc[t] \in {"clock", "wait"} => roldv[t].state = 2

\* Destroy finds no thread in the lock loop.
DestroyFindsNobody == rvalue = R!Dead => \A t \in Threads : ~R!Waiting(t)

\* The inductive invariant.
RecursiveIInv ==
  /\ R!TypeOK
  /\ R!OwnerCountsDepth
  /\ R!OwnerNeverWaits
  /\ StateTellsOwned
  /\ SleeperContends
  /\ ComparesContended
  /\ DestroyFindsNobody
  /\ R!NoOrphan

LEMMA SmallMod ==
  ASSUME NEW a \in Nat, NEW n \in Nat, a < n
  PROVE  a % n = a
OBVIOUS

LEMMA RecursiveInitIInv == R!Init => RecursiveIInv
BY RecursiveAssumption, NoOwnerAssumption
   DEF R!Init, RecursiveIInv, R!TypeOK, R!Values, R!Free, R!Dead, R!OwnerCountsDepth, R!OwnerNeverWaits,
       StateTellsOwned, SleeperContends, ComparesContended, DestroyFindsNobody,
       R!NoOrphan, R!Waiting, R!Sleepers
LEMMA RecursiveNextIInv == RecursiveIInv /\ [R!Next]_(R!vars) => RecursiveIInv'
<1> SUFFICES ASSUME RecursiveIInv, [R!Next]_(R!vars)
             PROVE  RecursiveIInv'
  OBVIOUS
<1> USE RecursiveAssumption, NoOwnerAssumption
    DEF RecursiveIInv, R!TypeOK, R!Values, R!Free, R!Dead, R!OwnerCountsDepth, R!OwnerNeverWaits,
        StateTellsOwned, SleeperContends, ComparesContended, DestroyFindsNobody,
        R!NoOrphan, R!Waiting, R!Sleepers, R!Goto
<1>1. ASSUME NEW t \in Threads, NEW limit \in {"none", "ahead"}, R!Lock(t, limit)
      PROVE  RecursiveIInv'
  BY <1>1 DEF R!Lock
<1>2. ASSUME NEW t \in Threads, R!Relock(t)
      PROVE  RecursiveIInv'
  <2>0. /\ rvalue.counter \in Nat /\ rvalue.counter < CounterSize /\ CounterSize \in Nat
        /\ rvalue' = [rvalue EXCEPT !.counter = (rvalue.counter + 1) % CounterSize]
        /\ rwrapped' = IF rvalue.counter + 1 = CounterSize THEN rwrapped \cup {t} ELSE rwrapped
        /\ rdepth' = [rdepth EXCEPT ![t] = rdepth[t] + 1]
        /\ rpc[t] = "idle" /\ rvalue.owner = t
        /\ UNCHANGED <<rpc, rnew, roldv, rdeadline>>
    BY <1>2 DEF R!Relock
  <2>1. PICK c \in 0 .. CounterSize - 1 :
          /\ rvalue' = [rvalue EXCEPT !.counter = c]
          /\ \/ c = rvalue.counter + 1 /\ rwrapped' = rwrapped
             \/ c = 0 /\ rwrapped' = rwrapped \cup {t}
    <3>1. CASE rvalue.counter + 1 < CounterSize
      <4>1. (rvalue.counter + 1) % CounterSize = rvalue.counter + 1
        <5>1. rvalue.counter + 1 \in Nat
          BY ONLY <2>0
        <5> QED
          BY ONLY <2>0, <3>1, <5>1, SmallMod
      <4>2. rvalue.counter + 1 \in 0 .. CounterSize - 1 /\ rvalue.counter + 1 # CounterSize
        BY ONLY <2>0, <3>1
      <4> QED
        BY ONLY <2>0, <4>1, <4>2, Zenon
    <3>2. CASE rvalue.counter + 1 = CounterSize
      <4>1. (rvalue.counter + 1) % CounterSize = 0 /\ 0 \in 0 .. CounterSize - 1
        BY <2>0, <3>2
      <4> QED
        BY ONLY <2>0, <3>2, <4>1, Zenon
    <3>3. rvalue.counter + 1 < CounterSize \/ rvalue.counter + 1 = CounterSize
      BY ONLY <2>0
    <3> QED
      BY ONLY <3>1, <3>2, <3>3, Zenon
  <2>2. R!TypeOK'
    BY <2>0, <2>1
  <2>3. R!OwnerCountsDepth'
    <3>1. /\ rvalue'.owner = t /\ rvalue'.counter = c /\ t # NoOwner
          /\ rdepth'[t] = rdepth[t] + 1 /\ \A u \in Threads \ {t} : rdepth'[u] = rdepth[u]
          /\ rdepth[t] \in Nat /\ rvalue.counter < rdepth[t]
      BY <2>0, <2>1
    <3>2. c < rdepth'[t] /\ rdepth'[t] > 0 /\ (c = rvalue.counter + 1 /\ rvalue.counter = rdepth[t] - 1 => c = rdepth'[t] - 1)
      BY ONLY <2>0, <2>1, <3>1
    <3>3. rwrapped' = {} => c = rvalue.counter + 1 /\ rwrapped = {}
      BY ONLY <2>1, Zenon
    <3>4. rvalue # R!Dead /\ rdepth[t] > 0
      BY <2>0, <3>1
    <3>5. rwrapped = {} => rvalue.counter = rdepth[t] - 1 /\ \A u \in Threads \ {t} : ~(rdepth[u] > 0)
      BY <2>0, <3>4
    <3> QED
      BY ONLY <3>1, <3>2, <3>3, <3>5, Zenon DEF R!OwnerCountsDepth
  <2>4. /\ rvalue'.owner = rvalue.owner /\ rvalue'.state = rvalue.state
        /\ rvalue'.owner # NoOwner /\ rvalue # R!Dead /\ rvalue' # R!Dead
    BY <2>0, <2>1
  <2>5. R!OwnerNeverWaits' /\ StateTellsOwned' /\ DestroyFindsNobody'
    BY <2>0, <2>4
  <2>6. SleeperContends' /\ ComparesContended' /\ R!NoOrphan'
    BY <2>0, <2>4
  <2> QED
    BY <2>2, <2>3, <2>5, <2>6, Zenon
<1>3. ASSUME NEW t \in Threads, R!Try(t)
      PROVE  RecursiveIInv'
  <2>1. CASE rvalue = R!Free
    <3>1. /\ rvalue' = [owner |-> t, counter |-> 0, state |-> rnew[t]]
          /\ rpc' = [rpc EXCEPT ![t] = "idle"]
          /\ rdepth' = [rdepth EXCEPT ![t] = @ + 1] /\ rwrapped' = rwrapped
          /\ rdeadline' = [rdeadline EXCEPT ![t] = "none"]
          /\ rnew' = [rnew EXCEPT ![t] = 1]
          /\ roldv' = roldv
      BY <1>3, <2>1 DEF R!Try
    <3>2. R!TypeOK'
      BY <1>3, <2>1, <3>1 DEF R!Try
    <3>3. R!OwnerCountsDepth'
      BY <1>3, <2>1, <3>1 DEF R!Try
    <3>4. R!OwnerNeverWaits'
      BY <1>3, <2>1, <3>1 DEF R!Try
    <3>5. StateTellsOwned'
      BY <1>3, <2>1, <3>1 DEF R!Try
    <3>6. SleeperContends'
      BY <1>3, <2>1, <3>1 DEF R!Try
    <3>7. ComparesContended'
      BY <1>3, <2>1, <3>1 DEF R!Try
    <3>8. DestroyFindsNobody'
      BY <1>3, <2>1, <3>1 DEF R!Try
    <3>9. R!NoOrphan'
      BY <1>3, <2>1, <3>1 DEF R!Try
    <3> QED
      BY <3>2, <3>3, <3>4, <3>5, <3>6, <3>7, <3>8, <3>9
  <2>2. CASE rvalue # R!Free
    <3>1. /\ rvalue' \in R!Values
          /\ rvalue'.owner = rvalue.owner
          /\ rvalue'.counter = rvalue.counter
          /\ rvalue'.state = 2
          /\ roldv' = [roldv EXCEPT ![t] = rvalue']
          /\ rnew' = [rnew EXCEPT ![t] = 2]
          /\ rpc' = [rpc EXCEPT ![t] = IF rdeadline[t] = "none" THEN "wait" ELSE "clock"]
          /\ UNCHANGED <<rdeadline, rdepth, rwrapped>>
      BY <1>3, <2>2 DEF R!Try
    <3>2. R!TypeOK'
      BY <1>3, <2>2, <3>1 DEF R!Try
    <3>3. R!OwnerCountsDepth'
      BY <1>3, <2>2, <3>1 DEF R!Try
    <3>4. R!OwnerNeverWaits'
      BY <1>3, <2>2, <3>1 DEF R!Try
    <3>5. StateTellsOwned'
      BY <1>3, <2>2, <3>1 DEF R!Try
    <3>6. SleeperContends'
      BY <1>3, <2>2, <3>1 DEF R!Try
    <3>7. ComparesContended'
      BY <1>3, <2>2, <3>1 DEF R!Try
    <3>8. DestroyFindsNobody'
      BY <1>3, <2>2, <3>1 DEF R!Try
    <3>9. R!NoOrphan'
      BY <1>3, <2>2, <3>1 DEF R!Try
    <3> QED
      BY <3>2, <3>3, <3>4, <3>5, <3>6, <3>7, <3>8, <3>9
  <2> QED
    BY <2>1, <2>2, Zenon
<1>4. ASSUME NEW t \in Threads, R!CheckClock(t)
      PROVE  RecursiveIInv'
  <2>1. CASE rdeadline[t] = "past"
    <3>1. /\ rpc' = [rpc EXCEPT ![t] = "idle"]
          /\ rdeadline' = [rdeadline EXCEPT ![t] = "none"]
          /\ rnew' = [rnew EXCEPT ![t] = 1]
          /\ roldv' = [roldv EXCEPT ![t] = R!Free]
          /\ UNCHANGED <<rvalue, rdepth, rwrapped>>
      BY <1>4, <2>1 DEF R!CheckClock
    <3>2. R!TypeOK' /\ R!OwnerCountsDepth' /\ R!OwnerNeverWaits' /\ StateTellsOwned'
      BY <3>1
    <3>3. SleeperContends' /\ ComparesContended' /\ DestroyFindsNobody'
      BY <3>1
    <3>4. R!NoOrphan'
      BY <1>4, <3>1 DEF R!CheckClock
    <3> QED
      BY <3>2, <3>3, <3>4, Zenon
  <2>2. CASE rdeadline[t] # "past"
    <3>1. /\ rpc[t] = "clock"
          /\ rpc' = [rpc EXCEPT ![t] = "wait"]
          /\ UNCHANGED <<rvalue, rnew, roldv, rdeadline, rdepth, rwrapped>>
      BY <1>4, <2>2 DEF R!CheckClock
    <3>2. R!TypeOK' /\ R!OwnerCountsDepth' /\ R!OwnerNeverWaits' /\ StateTellsOwned'
      BY <3>1
    <3>3. SleeperContends' /\ ComparesContended' /\ DestroyFindsNobody'
      BY <3>1
    <3>4. R!NoOrphan'
      BY <3>1
    <3> QED
      BY <3>2, <3>3, <3>4
  <2> QED
    BY <2>1, <2>2, Zenon
<1>5. ASSUME NEW t \in Threads, R!FutexWait(t)
      PROVE  RecursiveIInv'
  BY <1>5 DEF R!FutexWait
<1>6. ASSUME NEW t \in Threads, R!Interrupted(t) \/ R!TimedOut(t)
      PROVE  RecursiveIInv'
  <2>1. /\ rpc[t] = "asleep"
        /\ rpc' = [rpc EXCEPT ![t] = "try"]
        /\ UNCHANGED <<rvalue, rnew, roldv, rdeadline, rdepth, rwrapped>>
    BY <1>6 DEF R!Interrupted, R!TimedOut
  <2>2. R!TypeOK' /\ R!OwnerCountsDepth' /\ R!OwnerNeverWaits' /\ StateTellsOwned'
    BY <2>1
  <2>3. SleeperContends' /\ ComparesContended' /\ DestroyFindsNobody'
    BY <2>1
  <2>4. R!NoOrphan'
    BY <2>1
  <2> QED
    BY <2>2, <2>3, <2>4
<1>7. ASSUME NEW t \in Threads, R!Expire(t)
      PROVE  RecursiveIInv'
  BY <1>7 DEF R!Expire
<1>8. ASSUME NEW t \in Threads, R!TryLock(t)
      PROVE  RecursiveIInv'
  BY <1>8 DEF R!TryLock
<1>9. ASSUME NEW t \in Threads, R!Unlock(t)
      PROVE  RecursiveIInv'
  BY <1>9 DEF R!Unlock
<1>10. ASSUME NEW t \in Threads, R!UnlockWake(t)
       PROVE  RecursiveIInv'
  <2>1. CASE R!Sleepers = {} /\ R!Goto(t, "idle")
    BY <1>10, <2>1 DEF R!UnlockWake
  <2>2. ASSUME NEW s \in R!Sleepers,
               rpc' = [rpc EXCEPT ![t] = "idle", ![s] = "try"]
        PROVE  RecursiveIInv'
    <3>1. /\ s # t /\ rpc[s] = "asleep" /\ rpc[t] = "wake"
          /\ UNCHANGED <<rvalue, rnew, roldv, rdeadline, rdepth, rwrapped>>
      BY <1>10, <2>2 DEF R!UnlockWake
    <3>2. R!OwnerCountsDepth' /\ StateTellsOwned'
      BY <3>1
    <3>3. R!TypeOK' /\ R!OwnerNeverWaits'
      <4>1. /\ rpc'[s] = "try" /\ rpc'[t] = "idle"
            /\ \A u \in Threads \ {s, t} : rpc'[u] = rpc[u]
        BY <2>2, <3>1
      <4>2. rpc' \in [Threads -> {"idle", "try", "clock", "wait", "asleep", "wake"}]
        BY <2>2
      <4>3. \A u \in Threads : R!Waiting(u) => R!Waiting(u)'
        BY <3>1, <4>1
      <4>4. R!OwnerNeverWaits'
        BY <3>1, <4>1
      <4> QED
        BY <3>1, <4>2, <4>3, <4>4
    <3>4. SleeperContends' /\ ComparesContended' /\ DestroyFindsNobody'
      BY <2>2, <3>1
    <3>5. R!NoOrphan'
      BY <2>2, <3>1
    <3> QED
      BY <3>2, <3>3, <3>4, <3>5
  <2> QED
    BY <1>10, <2>1, <2>2, Zenon DEF R!UnlockWake
<1>11. ASSUME NEW t \in Threads, R!Destroy(t)
       PROVE  RecursiveIInv'
  BY <1>11 DEF R!Destroy
<1>12. ASSUME NEW t \in Threads, R!MutexInit(t)
       PROVE  RecursiveIInv'
  BY <1>12 DEF R!MutexInit
<1>13. CASE UNCHANGED R!vars
  BY <1>13 DEF R!vars
<1> HIDE DEF RecursiveIInv
<1> QED
  BY <1>1, <1>2, <1>3, <1>4, <1>5, <1>6, <1>7, <1>8, <1>9, <1>10, <1>11, <1>12, <1>13 DEF R!Next

LEMMA RecursiveInvariance == R!Spec => []RecursiveIInv
BY RecursiveInitIInv, RecursiveNextIInv, PTL DEF R!Spec

\* The owner and counter fields agree with the calls the threads have made:
\* the mutex is freed by the last unlock and by no other, until an owner locks it more
\* often than the counter field can tell or the mutex is destroyed.
THEOREM OwnerCorrect == R!Spec => []R!OwnerCountsDepth
<1>1. RecursiveIInv => R!OwnerCountsDepth
  BY DEF RecursiveIInv
<1> QED
  BY <1>1, RecursiveInvariance, PTL

\* The loop of pthread_mutex_lock, with new_lock_type raised to 2 once it has
\* met a locked mutex, leaves no thread asleep without a wake call to come.
THEOREM RecursiveNobodyOrphaned == R!Spec => []R!NoOrphan
<1>1. RecursiveIInv => R!NoOrphan
  BY DEF RecursiveIInv
<1> QED
  BY <1>1, RecursiveInvariance, PTL

\* No thread waits for a mutex it owns, for both types.
THEOREM NoSelfDeadlock == R!Spec => []R!OwnerNeverWaits
<1>1. RecursiveIInv => R!OwnerNeverWaits
  BY DEF RecursiveIInv
<1> QED
  BY <1>1, RecursiveInvariance, PTL

\* A recursive or error-checking mutex implements the abstract lock.
THEOREM RecursiveMutexImplementsLock == R!Spec => R!ImplementsLock
<1>1. R!Init => R!AL!Init
  BY DEF R!Init, R!AL!Init, R!Free
<1>2. RecursiveIInv /\ [R!Next]_(R!vars) => [R!AL!Next]_(rvalue.owner)
  <2> SUFFICES ASSUME RecursiveIInv, [R!Next]_(R!vars)
               PROVE  R!AL!Next \/ rvalue'.owner = rvalue.owner
    BY DEF R!AL!Next
  <2> USE RecursiveAssumption, NoOwnerAssumption DEF RecursiveIInv, R!TypeOK, R!Values, R!Free, R!Dead
  <2>1. ASSUME NEW t \in Threads, R!Relock(t) \/ R!MutexInit(t)
        PROVE  rvalue'.owner = rvalue.owner
    BY <2>1 DEF R!Relock, R!MutexInit
  <2>2. ASSUME NEW t \in Threads, R!Try(t)
        PROVE  R!AL!Acquire(t) \/ rvalue'.owner = rvalue.owner
    BY <2>2 DEF R!Try, R!AL!Acquire
  <2>3. ASSUME NEW t \in Threads, R!TryLock(t)
        PROVE  R!AL!Acquire(t)
    BY <2>3 DEF R!TryLock, R!AL!Acquire
  <2>4. ASSUME NEW t \in Threads, R!Unlock(t)
        PROVE  R!AL!Release(t) \/ rvalue'.owner = rvalue.owner
    BY <2>4 DEF R!Unlock, R!AL!Release
  <2>5. ASSUME NEW t \in Threads, R!Destroy(t)
        PROVE  R!AL!Release(t) \/ rvalue'.owner = rvalue.owner
    BY <2>5 DEF R!Destroy, R!AL!Release
  <2>6. ASSUME NEW t \in Threads,
               \/ \E limit \in {"none", "ahead"} : R!Lock(t, limit)
               \/ R!CheckClock(t) \/ R!FutexWait(t) \/ R!Interrupted(t) \/ R!TimedOut(t)
               \/ R!Expire(t) \/ R!UnlockWake(t)
        PROVE  rvalue'.owner = rvalue.owner
    BY <2>6, Zenon DEF R!Lock, R!CheckClock, R!FutexWait, R!Interrupted, R!TimedOut, R!Expire, R!UnlockWake
  <2>7. CASE UNCHANGED R!vars
    BY <2>7 DEF R!vars
  <2> HIDE DEF RecursiveIInv
  <2> QED
    BY <2>1, <2>2, <2>3, <2>4, <2>5, <2>6, <2>7, Zenon DEF R!Next, R!AL!Next
<1> QED
  BY <1>1, <1>2, RecursiveInvariance, PTL DEF R!Spec, R!ImplementsLock, R!AL!Spec

-----------------------------------------------------------------------------
(***************************************************************************)
(* A mutex of whatever type: pthread_mutex_init picks the code by the type *)
(* field, and the variables of the other code stay as they are, so that a  *)
(* behaviour of the whole is one of each.                                  *)
(***************************************************************************)
LEMMA MutexIsEither == MutexSpec => Spec /\ R!Spec
<1>1. MutexInitial => Init /\ R!Init
  BY DEF MutexInitial
<1>2. [Dispatch]_<<normal, vars, recursiveVars>> => [Next]_vars /\ [R!Next]_(R!vars)
  BY DEF Dispatch, recursiveVars, R!vars
<1> QED
  BY <1>1, <1>2, PTL DEF MutexSpec, Spec, R!Spec

\* A mutex that pthread_mutex_init made recursive or error-checking has owner and
\* counter fields that agree with the calls until the counter overflows or the mutex
\* is destroyed, and orphans no sleeper at any time, for any set of threads, any
\* counter size and any depth of recursion.
THEOREM RecursiveMutexSafe == MutexSpec => []RecursiveSafe
<1>1. RecursiveIInv => RecursiveSafe
  BY DEF RecursiveIInv, RecursiveSafe
<1> QED
  BY <1>1, MutexIsEither, RecursiveInvariance, PTL

-----------------------------------------------------------------------------
(***************************************************************************)
(* The timers, and fork.                                                   *)
(***************************************************************************)
\* Program thread p is creating, using or deleting timer s, or has made it.
Uses(p, s) == subject[p] = s \/ s \in made[p]

\* A timer is in the hands of one thread of the program.
OneUser ==
  \A s \in Timers : \A p, q \in Programs : Uses(p, s) /\ Uses(q, s) => p = q

(***************************************************************************)
(* The thread of a timer frees its entry when it finds done set, and done  *)
(* is set by the one thread that had the timer, which has let go of it:    *)
(* nobody frees an entry that is in use.                                   *)
(***************************************************************************)
DoneUnused ==
  \A s \in Timers :
    /\ thread[s] = "free" => s \in done
    /\ s \in done /\ thread[s] # "none" => \A p \in Programs : ~Uses(p, s)

\* A new timer has no thread yet, and timer_delete forgets the timer first.
Subjects ==
  \A p \in Programs :
    /\ op[p] \in {"create", "signal", "delete"} => subject[p] \in Timers
    /\ op[p] = "create" => thread[subject[p]] = "none"
    /\ op[p] = "delete" => subject[p] \notin made[p]

\* The inductive invariant of the timers.
TimersInv ==
  /\ TimersTypeOK
  /\ FreeMeansUnused
  /\ OneUser
  /\ DoneUnused
  /\ Subjects

(***************************************************************************)
(* Whoever is between the prepare handlers and the end of the parent's     *)
(* holds the mutex, so that nobody else registers a handler.               *)
(***************************************************************************)
ForkerHolds ==
  \A p \in Programs : op[p] \in {"fork", "start", "parent"} => handler_mutex = p

\* The inductive invariant of fork.
ForkIInv ==
  /\ TimersInv
  /\ atfork_head \in Seq(Handlers)
  /\ ForkerHolds
  /\ HandlersPaired

LEMMA NoneIsNoTimer == None \notin Timers
BY ThreadTimersAssumption DEF Timers

\* Sequences of the same length with the same elements are the same.
LEMMA SameList ==
  ASSUME NEW S, NEW s \in Seq(S), NEW t \in Seq(S), Len(s) = Len(t),
         \A i \in 1 .. Len(s) : s[i] = t[i]
  PROVE  s = t
OBVIOUS

LEMMA ListElements ==
  ASSUME NEW S, NEW s \in Seq(S)
  PROVE  Range(s) = {s[i] : i \in 1 .. Len(s)} /\ Range(s) \subseteq S
BY DEF Range

LEMMA Joined ==
  ASSUME NEW S, NEW s \in Seq(S), NEW t \in Seq(S)
  PROVE  /\ s \o t \in Seq(S)
         /\ Len(s \o t) = Len(s) + Len(t)
         /\ \A i \in 1 .. Len(s) + Len(t) :
              (s \o t)[i] = IF i <= Len(s) THEN s[i] ELSE t[i - Len(s)]
OBVIOUS

LEMMA ReverseElements ==
  ASSUME NEW S, NEW s \in Seq(S)
  PROVE  /\ Backwards(s) \in Seq(S)
         /\ Len(Backwards(s)) = Len(s)
         /\ \A i \in 1 .. Len(s) : Backwards(s)[i] = s[(Len(s) - i) + 1]
BY DEF Backwards

LEMMA ReverseReverse ==
  ASSUME NEW S, NEW s \in Seq(S)
  PROVE  Backwards(Backwards(s)) = s
<1>1. PICK r \in Seq(S) : r = Backwards(s)
  BY ReverseElements
<1>2. Len(r) = Len(s) /\ \A i \in 1 .. Len(s) : r[i] = s[(Len(s) - i) + 1]
  BY <1>1, ReverseElements
<1>3. /\ Backwards(r) \in Seq(S) /\ Len(Backwards(r)) = Len(r)
      /\ \A i \in 1 .. Len(r) : Backwards(r)[i] = r[(Len(r) - i) + 1]
  BY ReverseElements
<1>4. \A i \in 1 .. Len(s) : Backwards(r)[i] = s[i]
  BY <1>2, <1>3
<1> QED
  BY <1>1, <1>2, <1>3, <1>4, SameList

LEMMA TailOfList ==
  ASSUME NEW S, NEW s \in Seq(S), s # <<>>, IsInjective(s)
  PROVE  /\ Head(s) \in S /\ Head(s) \in Range(s)
         /\ Tail(s) \in Seq(S) /\ IsInjective(Tail(s))
         /\ Range(Tail(s)) = Range(s) \ {Head(s)}
<1>1. /\ Tail(s) \in Seq(S) /\ Len(Tail(s)) = Len(s) - 1 /\ Len(s) \in Nat \ {0}
      /\ \A i \in 1 .. Len(Tail(s)) : Tail(s)[i] = s[i + 1]
      /\ Head(s) = s[1] /\ DOMAIN s = 1 .. Len(s) /\ DOMAIN Tail(s) = 1 .. Len(s) - 1
  OBVIOUS
<1>2. IsInjective(Tail(s))
  BY <1>1 DEF IsInjective
<1>3. Range(s) = {s[i] : i \in 1 .. Len(s)} /\ Range(Tail(s)) = {s[i + 1] : i \in 1 .. Len(s) - 1}
  BY <1>1, Zenon DEF Range
<1>4. Range(Tail(s)) = Range(s) \ {Head(s)}
  <2>1. ASSUME NEW i \in 1 .. Len(s) - 1
        PROVE  s[i + 1] \in Range(s) \ {Head(s)}
    BY <1>1, <1>3 DEF IsInjective
  <2>2. ASSUME NEW i \in 1 .. Len(s), s[i] # Head(s)
        PROVE  s[i] \in Range(Tail(s))
    <3>1. i - 1 \in 1 .. Len(s) - 1 /\ s[i] = s[(i - 1) + 1]
      BY <1>1, <2>2
    <3> QED
      BY <1>3, <3>1, Zenon
  <2> QED
    BY <1>3, <2>1, <2>2
<1> QED
  BY <1>1, <1>2, <1>3, <1>4

LEMMA ConsToList ==
  ASSUME NEW S, NEW s \in Seq(S), IsInjective(s), NEW e \in S, e \notin Range(s)
  PROVE  /\ <<e>> \o s \in Seq(S) /\ IsInjective(<<e>> \o s)
         /\ Range(<<e>> \o s) = Range(s) \cup {e}
<1>1. <<e>> \in Seq(S) /\ Len(<<e>>) = 1 /\ <<e>>[1] = e /\ Range(<<e>>) = {e}
  BY DEF Range
<1>2. /\ <<e>> \o s \in Seq(S)
      /\ Len(<<e>> \o s) = Len(s) + 1
      /\ \A i \in 1 .. Len(s) + 1 : (<<e>> \o s)[i] = IF i = 1 THEN e ELSE s[i - 1]
  BY <1>1, Joined
<1>3. \A i \in 1 .. Len(s) : s[i] # e
  BY DEF Range
<1>4. IsInjective(<<e>> \o s)
  <2> SUFFICES ASSUME NEW i \in 1 .. Len(s) + 1, NEW j \in 1 .. Len(s) + 1,
                      (<<e>> \o s)[i] = (<<e>> \o s)[j]
               PROVE  i = j
    BY <1>2 DEF IsInjective
  <2>1. CASE i = 1 \/ j = 1
    BY <1>2, <1>3, <2>1
  <2>2. CASE i # 1 /\ j # 1
    <3>1. i - 1 \in 1 .. Len(s) /\ j - 1 \in 1 .. Len(s) /\ s[i - 1] = s[j - 1]
      BY <1>2, <2>2
    <3> QED
      BY <3>1 DEF IsInjective
  <2> QED
    BY <2>1, <2>2
<1>5. Range(<<e>> \o s) = Range(s) \cup {e}
  <2>1. PICK t \in Seq(S) : t = <<e>> \o s
    BY <1>2, Zenon
  <2>2. /\ Len(t) = Len(s) + 1 /\ t[1] = e
        /\ \A i \in 1 .. Len(s) : t[i + 1] = s[i]
        /\ \A i \in 2 .. Len(t) : t[i] = s[i - 1]
    BY <1>2, <2>1
  <2>3. Range(t) = {t[i] : i \in 1 .. Len(t)} /\ Range(s) = {s[i] : i \in 1 .. Len(s)}
    BY ListElements
  <2>4. \A x \in Range(s) : x \in Range(t)
    BY <2>2, <2>3
  <2>5. ASSUME NEW i \in 1 .. Len(t)
        PROVE  t[i] \in Range(s) \cup {e}
    <3>1. CASE i = 1
      BY <2>2, <3>1
    <3>2. CASE i # 1
      <4>1. i - 1 \in 1 .. Len(s) /\ t[i] = s[i - 1]
        BY <2>2, <3>2
      <4> QED
        BY <2>3, <4>1
    <3> QED
      BY <3>1, <3>2
  <2>6. e \in Range(t)
    BY <2>2, <2>3
  <2>7. \A x \in Range(t) : x \in Range(s) \cup {e}
    BY <2>3, <2>5
  <2> QED
    BY <2>1, <2>4, <2>6, <2>7, Zenon
<1> QED
  BY <1>2, <1>4, <1>5

-----------------------------------------------------------------------------
\* What the timers' part of the invariant says when no program thread takes or lets go
\* of a timer, and no timer thread starts or ends.
LEMMA SameUsers ==
  ASSUME TimersInv, TimersTypeOK',
         UNCHANGED <<free_timer, done, made>>,
         \A s \in Timers : /\ thread'[s] = "none" <=> thread[s] = "none"
                           /\ thread'[s] = "free" => thread[s] = "free" \/ s \in done,
         \A p \in Programs : /\ subject'[p] # None => Uses(p, subject'[p])
                             /\ op'[p] \in {"create", "delete"} =>
                                  op[p] = op'[p] /\ subject'[p] = subject[p]
                             /\ op'[p] = "signal" => subject'[p] \in Timers
  PROVE  TimersInv'
<1>1. None \notin Timers
  BY NoneIsNoTimer
<1>2. \A p \in Programs, s \in Timers : Uses(p, s)' => Uses(p, s)
  BY <1>1 DEF Uses
<1>3. free_timer \in Seq(Timers) /\ Range(free_timer) \subseteq Timers
  BY ListElements, Zenon DEF TimersInv, TimersTypeOK
<1>4. FreeMeansUnused'
  BY <1>2, <1>3, Zenon DEF TimersInv, FreeMeansUnused, Uses
<1>5. OneUser'
  BY <1>2 DEF TimersInv, OneUser
<1>6. DoneUnused'
  BY <1>2 DEF TimersInv, DoneUnused
<1>7. Subjects'
  BY DEF TimersInv, Subjects
<1> QED
  BY <1>4, <1>5, <1>6, <1>7 DEF TimersInv

LEMMA TimersTypeStep ==
  ASSUME TimersTypeOK, Subjects, TimersNext
  PROVE  TimersTypeOK'
<1> USE ThreadTimersAssumption DEF table, timer, loop, Begin, End, Signalled, Subjects
<1>1. ASSUME NEW p \in Programs, thr_timer_table_alloc(p)
      PROVE  TimersTypeOK'
  <2>1. Head(free_timer) \in Timers /\ Tail(free_timer) \in Seq(Timers)
    BY <1>1 DEF TimersTypeOK, thr_timer_table_alloc
  <2> QED
    BY <1>1, <2>1 DEF TimersTypeOK, thr_timer_table_alloc
<1>2. ASSUME NEW p \in Programs, NEW o \in {"ok", "fail"}, timer_create(p, o)
      PROVE  TimersTypeOK'
  BY <1>2 DEF TimersTypeOK, timer_create
<1>3. ASSUME NEW p \in Programs, NEW s \in Timers, DeleteRemove(p, s)
      PROVE  TimersTypeOK'
  BY <1>3 DEF TimersTypeOK, DeleteRemove
<1>4. ASSUME NEW p \in Programs, NEW s \in Timers, NEW setting \in Settings,
             timer_settime(p, s, setting)
      PROVE  TimersTypeOK'
  BY <1>4 DEF TimersTypeOK, timer_settime, SetTimer
<1>5. ASSUME NEW p \in Programs, SettimeSignal(p) \/ timer_delete(p)
      PROVE  TimersTypeOK'
  <2>1. subject[p] \in Timers
    BY <1>5, Zenon DEF SettimeSignal, timer_delete
  <2>2. thread' \in [Timers -> {"none", "loop", "wait", "timedwait", "timedout", "callback", "free"}]
    BY <1>5, <2>1 DEF TimersTypeOK, SettimeSignal, timer_delete
  <2>3. op' = [op EXCEPT ![p] = "none"] /\ subject' = [subject EXCEPT ![p] = None]
    BY <1>5, Zenon DEF SettimeSignal, timer_delete
  <2>4. done' \subseteq Timers
    BY <1>5, <2>1 DEF TimersTypeOK, SettimeSignal, timer_delete
  <2> QED
    BY <1>5, <2>2, <2>3, <2>4 DEF TimersTypeOK, SettimeSignal, timer_delete
<1>6. ASSUME NEW s \in Timers, Loop(s)
      PROVE  TimersTypeOK'
  <2>1. thread' \in [Timers -> {"none", "loop", "wait", "timedwait", "timedout", "callback", "free"}]
    BY <1>6 DEF TimersTypeOK, Loop, Reload
  <2>2. expires' \in [Timers -> {"zero", "ahead", "past"}]
    BY <1>6 DEF TimersTypeOK, Loop, Reload
  <2>3. alarm' \in [Timers -> {"zero", "ahead", "past"}]
    BY <1>6 DEF TimersTypeOK, Loop, Reload, NoAlarm
  <2>4. alarmPeriod' \in [Timers -> {"zero", "some"}]
    BY <1>6 DEF TimersTypeOK, Loop, Reload, NoAlarm
  <2> QED
    BY <1>6, <2>1, <2>2, <2>3, <2>4, Zenon DEF TimersTypeOK, Loop
<1>7. ASSUME NEW s \in Timers, TimerTimedOut(s) \/ TimerInterrupted(s) \/ CallbackReturns(s)
      PROVE  TimersTypeOK'
  BY <1>7 DEF TimersTypeOK, TimerTimedOut, TimerInterrupted, CallbackReturns
<1>8. ASSUME NEW s \in Timers, LoopTimedOut(s)
      PROVE  TimersTypeOK'
  BY <1>8 DEF TimersTypeOK, LoopTimedOut, Reload, NoAlarm
<1>9. ASSUME NEW s \in Timers, thr_timer_table_free(s)
      PROVE  TimersTypeOK'
  <2>1. <<s>> \o free_timer \in Seq(Timers)
    BY DEF TimersTypeOK
  <2> QED
    BY <1>9, <2>1 DEF TimersTypeOK, thr_timer_table_free
<1>10. ASSUME NEW s \in Timers, NEW setting \in Settings, CallbackSettime(s, setting)
       PROVE  TimersTypeOK'
  BY <1>10 DEF TimersTypeOK, CallbackSettime, SetTimer
<1>11. ASSUME NEW s \in Timers, TimerExpire(s) \/ ExpireOld(s)
       PROVE  TimersTypeOK'
  BY <1>11 DEF TimersTypeOK, TimerExpire, ExpireOld
<1> QED
  BY <1>1, <1>2, <1>3, <1>4, <1>5, <1>6, <1>7, <1>8, <1>9, <1>10, <1>11, Zenon DEF TimersNext

\* A program thread takes the first entry of the free list, which nobody else has.
LEMMA AllocStep ==
  ASSUME TimersInv, TimersTypeOK', NEW p \in Programs, thr_timer_table_alloc(p)
  PROVE  TimersInv'
<1>1. /\ free_timer \in Seq(Timers) /\ free_timer # <<>> /\ IsInjective(free_timer)
      /\ free_timer' = Tail(free_timer)
      /\ UNCHANGED <<done, thread, made>>
  BY DEF TimersInv, TimersTypeOK, FreeMeansUnused, thr_timer_table_alloc, timer, loop
<1>2. PICK e \in Timers : e = Head(free_timer)
  BY <1>1, TailOfList
<1>3. /\ e \in Range(free_timer)
      /\ Range(free_timer') = Range(free_timer) \ {e} /\ IsInjective(free_timer')
      /\ Range(free_timer) \subseteq Timers
  BY <1>1, <1>2, TailOfList, ListElements
<1>4. thread[e] = "none" /\ \A q \in Programs : ~Uses(q, e)
  BY <1>3 DEF TimersInv, FreeMeansUnused, Uses
<1>5. op' = [op EXCEPT ![p] = "create"] /\ subject' = [subject EXCEPT ![p] = e]
  BY <1>2 DEF thr_timer_table_alloc, Begin
<1>6. /\ op \in [Programs -> {"none", "create", "signal", "delete", "prepare", "fork", "start", "parent"}]
      /\ subject \in [Programs -> Timers \cup {None}]
  BY DEF TimersInv, TimersTypeOK
<1>7. \A q \in Programs, s \in Timers : Uses(q, s)' => Uses(q, s) \/ (q = p /\ s = e)
  BY <1>1, <1>5, <1>6, Zenon DEF Uses
<1>8. FreeMeansUnused'
  BY <1>1, <1>3, <1>7, Zenon DEF TimersInv, FreeMeansUnused, Uses
<1>9. OneUser'
  BY <1>4, <1>7 DEF TimersInv, OneUser
<1>10. DoneUnused'
  BY <1>1, <1>4, <1>7 DEF TimersInv, DoneUnused
<1>11. Subjects'
  BY <1>1, <1>4, <1>5, <1>6, Zenon DEF TimersInv, Subjects, Uses
<1> QED
  BY <1>8, <1>9, <1>10, <1>11 DEF TimersInv

\* The thread of a timer that is done puts the entry back: it was in nobody's hands.
LEMMA FreeStep ==
  ASSUME TimersInv, TimersTypeOK', NEW e \in Timers, thr_timer_table_free(e)
  PROVE  TimersInv'
<1>1. /\ free_timer \in Seq(Timers) /\ IsInjective(free_timer)
      /\ free_timer' = <<e>> \o free_timer
      /\ thread[e] = "free" /\ thread' = [thread EXCEPT ![e] = "none"]
      /\ UNCHANGED <<done, op, subject, made>>
  BY DEF TimersInv, TimersTypeOK, FreeMeansUnused, thr_timer_table_free, timer
<1>2. e \notin Range(free_timer)
  BY <1>1, Zenon DEF TimersInv, FreeMeansUnused
<1>3. /\ IsInjective(free_timer')
      /\ Range(free_timer') = Range(free_timer) \cup {e}
      /\ Range(free_timer) \subseteq Timers
  <2>1. Range(free_timer) \subseteq Timers
    BY <1>1, ListElements, Zenon
  <2>2. /\ IsInjective(<<e>> \o free_timer)
        /\ Range(<<e>> \o free_timer) = Range(free_timer) \cup {e}
    BY ONLY <1>1, <1>2, e \in Timers, ConsToList
  <2> QED
    BY <1>1, <2>1, <2>2, Zenon
<1>4. \A q \in Programs : ~Uses(q, e)
  BY <1>1 DEF TimersInv, DoneUnused
<1>5. \A q \in Programs, s \in Timers : Uses(q, s)' = Uses(q, s)
  BY <1>1, Zenon DEF Uses
<1>6. \A s \in Timers : thread'[s] = IF s = e THEN "none" ELSE thread[s]
  BY <1>1 DEF TimersInv, TimersTypeOK
<1>7. FreeMeansUnused'
  <2>1. \A s \in Range(free_timer) : thread[s] = "none" /\ \A p \in Programs : ~Uses(p, s)
    BY Zenon DEF TimersInv, FreeMeansUnused, Uses
  <2>2. \A s \in Range(free_timer') : thread'[s] = "none" /\ \A p \in Programs : ~Uses(p, s)
    BY <1>3, <1>4, <1>6, <2>1, Zenon
  <2> QED
    BY <1>1, <1>3, <2>2, Zenon DEF FreeMeansUnused, Uses
<1>8. OneUser' /\ DoneUnused'
  BY <1>1, <1>5, <1>6 DEF TimersInv, OneUser, DoneUnused
<1>9. Subjects'
  BY <1>1, <1>6 DEF TimersInv, Subjects
<1> QED
  BY <1>7, <1>8, <1>9 DEF TimersInv

LEMMA CreateStep ==
  ASSUME TimersInv, TimersTypeOK', NEW p \in Programs, NEW o \in {"ok", "fail"}, timer_create(p, o)
  PROVE  TimersInv'
<1>1. PICK e \in Timers : e = subject[p]
  BY Zenon DEF TimersInv, Subjects, timer_create
<1>2. /\ op[p] = "create"
      /\ op' = [op EXCEPT ![p] = "none"] /\ subject' = [subject EXCEPT ![p] = None]
      /\ made' = [made EXCEPT ![p] = @ \cup {e}]
      /\ done' = done \ {e}
      /\ thread' = [thread EXCEPT ![e] = IF o = "ok" THEN "loop" ELSE "none"]
      /\ UNCHANGED free_timer
  BY <1>1 DEF timer_create, Begin, End, table
<1>3. /\ op \in [Programs -> {"none", "create", "signal", "delete", "prepare", "fork", "start", "parent"}]
      /\ subject \in [Programs -> Timers \cup {None}]
      /\ made \in [Programs -> SUBSET Timers]
      /\ thread \in [Timers -> {"none", "loop", "wait", "timedwait", "timedout", "callback", "free"}]
      /\ free_timer \in Seq(Timers)
  BY DEF TimersInv, TimersTypeOK
<1>4. None \notin Timers /\ Range(free_timer) \subseteq Timers
  BY <1>3, NoneIsNoTimer, ListElements, Zenon
<1>5. \A q \in Programs, s \in Timers : Uses(q, s)' => Uses(q, s)
  BY <1>1, <1>2, <1>3, <1>4 DEF Uses
<1>6. Uses(p, e) /\ e \notin Range(free_timer)
  BY <1>1 DEF TimersInv, FreeMeansUnused, Uses
<1>7. \A s \in Timers \ {e} : thread'[s] = thread[s]
  BY <1>2, <1>3
<1>8. FreeMeansUnused'
  BY <1>2, <1>4, <1>5, <1>6, <1>7 DEF TimersInv, FreeMeansUnused, Uses
<1>9. OneUser'
  BY <1>5 DEF TimersInv, OneUser
<1>10. DoneUnused'
  <2>1. thread'[e] # "free"
    BY <1>2, <1>3
  <2> QED
    BY <1>2, <1>5, <1>7, <2>1 DEF TimersInv, DoneUnused
<1>11. Subjects'
  <2>1. \A q \in Programs \ {p} : subject[q] # e
    BY <1>6, Zenon DEF TimersInv, OneUser, Uses
  <2> QED
    BY <1>2, <1>3, <1>7, <2>1 DEF TimersInv, Subjects
<1> QED
  BY <1>8, <1>9, <1>10, <1>11 DEF TimersInv

LEMMA RemoveStep ==
  ASSUME TimersInv, TimersTypeOK', NEW p \in Programs, NEW e \in Timers, DeleteRemove(p, e)
  PROVE  TimersInv'
<1>1. /\ op[p] = "none" /\ e \in made[p]
      /\ op' = [op EXCEPT ![p] = "delete"] /\ subject' = [subject EXCEPT ![p] = e]
      /\ made' = [made EXCEPT ![p] = @ \ {e}]
      /\ UNCHANGED <<free_timer, done, thread>>
  BY DEF DeleteRemove, Begin, timer, loop
<1>2. /\ op \in [Programs -> {"none", "create", "signal", "delete", "prepare", "fork", "start", "parent"}]
      /\ subject \in [Programs -> Timers \cup {None}]
      /\ made \in [Programs -> SUBSET Timers]
      /\ free_timer \in Seq(Timers)
  BY DEF TimersInv, TimersTypeOK
<1>3. Range(free_timer) \subseteq Timers
  BY <1>2, ListElements, Zenon
<1>4. \A q \in Programs, s \in Timers : Uses(q, s)' => Uses(q, s)
  BY <1>1, <1>2 DEF Uses
<1>5. FreeMeansUnused'
  BY <1>1, <1>3, <1>4 DEF TimersInv, FreeMeansUnused, Uses
<1>6. OneUser' /\ DoneUnused'
  BY <1>1, <1>4 DEF TimersInv, OneUser, DoneUnused
<1>7. Subjects'
  BY <1>1, <1>2 DEF TimersInv, Subjects
<1> QED
  BY <1>5, <1>6, <1>7 DEF TimersInv

\* timer_delete lets go of the timer, which is from now on its thread's.
LEMMA DeleteStep ==
  ASSUME TimersInv, TimersTypeOK', NEW p \in Programs, timer_delete(p)
  PROVE  TimersInv'
<1>1. PICK e \in Timers : e = subject[p]
  BY Zenon DEF TimersInv, Subjects, timer_delete
<1>2. /\ op[p] = "delete"
      /\ op' = [op EXCEPT ![p] = "none"] /\ subject' = [subject EXCEPT ![p] = None]
      /\ done' = done \cup {e}
      /\ UNCHANGED <<free_timer, made>>
  BY <1>1 DEF timer_delete, Begin, End, table
<1>3. /\ op \in [Programs -> {"none", "create", "signal", "delete", "prepare", "fork", "start", "parent"}]
      /\ subject \in [Programs -> Timers \cup {None}]
      /\ thread \in [Timers -> {"none", "loop", "wait", "timedwait", "timedout", "callback", "free"}]
      /\ free_timer \in Seq(Timers)
  BY DEF TimersInv, TimersTypeOK
<1>4. None \notin Timers /\ Range(free_timer) \subseteq Timers
  BY <1>3, NoneIsNoTimer, ListElements, Zenon
<1>5. \A s \in Timers : /\ thread'[s] = "none" <=> thread[s] = "none"
                        /\ thread'[s] = "free" <=> thread[s] = "free"
  BY <1>1, <1>3 DEF timer_delete, Signalled
<1>6. \A q \in Programs, s \in Timers : Uses(q, s)' => Uses(q, s)
  BY <1>2, <1>3, <1>4, Zenon DEF Uses
<1>7. \A q \in Programs : ~Uses(q, e)'
  <2>1. ~Uses(p, e)'
    BY <1>1, <1>2, <1>3, <1>4 DEF TimersInv, Subjects, Uses
  <2>2. Uses(p, e)
    BY <1>1 DEF Uses
  <2> QED
    BY <1>6, <2>1, <2>2 DEF TimersInv, OneUser
<1>8. FreeMeansUnused'
  BY <1>2, <1>4, <1>5, <1>6, Zenon DEF TimersInv, FreeMeansUnused, Uses
<1>9. OneUser'
  BY <1>6 DEF TimersInv, OneUser
<1>10. DoneUnused'
  BY <1>2, <1>5, <1>6, <1>7, Zenon DEF TimersInv, DoneUnused
<1>11. Subjects'
  BY <1>2, <1>3, <1>5, Zenon DEF TimersInv, Subjects
<1> QED
  BY <1>8, <1>9, <1>10, <1>11 DEF TimersInv

LEMMA TimersStep == TimersInv /\ TimersNext => TimersInv'
<1> SUFFICES ASSUME TimersInv, TimersNext
             PROVE  TimersInv'
  OBVIOUS
<1>1. TimersTypeOK'
  BY TimersTypeStep DEF TimersInv
<1>2. /\ op \in [Programs -> {"none", "create", "signal", "delete", "prepare", "fork", "start", "parent"}]
      /\ subject \in [Programs -> Timers \cup {None}]
      /\ thread \in [Timers -> {"none", "loop", "wait", "timedwait", "timedout", "callback", "free"}]
      /\ \A p \in Programs : op[p] = "signal" => subject[p] \in Timers
  BY DEF TimersInv, TimersTypeOK, Subjects
<1> USE DEF table, timer, loop, Begin, End, Signalled
<1>3. ASSUME NEW p \in Programs, NEW s \in Timers, NEW setting \in Settings,
             timer_settime(p, s, setting)
      PROVE  TimersInv'
  BY <1>1, <1>2, <1>3, SameUsers, Zenon DEF timer_settime, SetTimer, Uses
<1>4. ASSUME NEW p \in Programs, SettimeSignal(p)
      PROVE  TimersInv'
  BY <1>1, <1>2, <1>4, SameUsers, Zenon DEF SettimeSignal, Uses
<1>5. ASSUME NEW s \in Timers,
             UNCHANGED <<free_timer, done, op, subject, made>>,
             \E next \in {"loop", "wait", "timedwait", "timedout", "callback", "free"} :
               /\ thread' = [thread EXCEPT ![s] = next]
               /\ thread[s] # "none"
               /\ next = "free" => s \in done
      PROVE  TimersInv'
  BY <1>1, <1>2, <1>5, SameUsers, Zenon DEF Uses
<1>6. ASSUME NEW s \in Timers,
             \/ Loop(s) \/ TimerTimedOut(s) \/ LoopTimedOut(s) \/ TimerInterrupted(s) \/ CallbackReturns(s)
      PROVE  TimersInv'
  <2>1. UNCHANGED <<free_timer, done, op, subject, made>>
    BY <1>6, Zenon DEF Loop, TimerTimedOut, LoopTimedOut, TimerInterrupted, CallbackReturns
  <2>2. \E next \in {"loop", "wait", "timedwait", "timedout", "callback", "free"} :
               /\ thread' = [thread EXCEPT ![s] = next]
               /\ thread[s] # "none"
               /\ next = "free" => s \in done
    BY <1>6, Zenon DEF Loop, TimerTimedOut, LoopTimedOut, TimerInterrupted, CallbackReturns, Reload
  <2> QED
    BY <1>5, <2>1, <2>2, Zenon
<1>7. ASSUME NEW s \in Timers, 
             \/ \E setting \in Settings : CallbackSettime(s, setting)
             \/ TimerExpire(s) \/ ExpireOld(s)
      PROVE  TimersInv'
  <2>1. UNCHANGED <<free_timer, done, thread, op, subject, made>>
    BY <1>7, Zenon DEF CallbackSettime, SetTimer, TimerExpire, ExpireOld
  <2> QED
    BY <1>1, <1>2, <2>1, SameUsers, Zenon DEF Uses
<1> QED
  BY <1>1, <1>3, <1>4, <1>6, <1>7, AllocStep, FreeStep, CreateStep, RemoveStep, DeleteStep, Zenon
     DEF TimersNext

\* A step that leaves the timers alone.
LEMMA TimersSame ==
  ASSUME TimersInv, UNCHANGED timerVars
  PROVE  TimersInv'
<1>1. UNCHANGED <<free_timer, id, done, stopped, expires, period, stale, thread, alarm, alarmPeriod,
                  op, subject, made>>
  BY Zenon DEF timerVars, table, timer, loop
<1>2. TimersTypeOK'
  BY ONLY <1>1, TimersInv DEF TimersInv, TimersTypeOK
<1>3. FreeMeansUnused'
  BY <1>1, Zenon DEF TimersInv, FreeMeansUnused, Uses
<1>4. OneUser' /\ DoneUnused' /\ Subjects'
  BY <1>1, Zenon DEF TimersInv, OneUser, DoneUnused, Subjects, Uses
<1> QED
  BY <1>2, <1>3, <1>4, Zenon DEF TimersInv

\* The timers' part of the steps of fork.
LEMMA ForkTimersStep ==
  ASSUME TimersInv, NEW p \in Programs, ForkNext(p)
  PROVE  TimersInv'
<1>1. /\ op \in [Programs -> {"none", "create", "signal", "delete", "prepare", "fork", "start", "parent"}]
      /\ subject \in [Programs -> Timers \cup {None}]
      /\ thread \in [Timers -> {"none", "loop", "wait", "timedwait", "timedout", "callback", "free"}]
      /\ \A q \in Programs : op[q] = "signal" => subject[q] \in Timers
  BY DEF TimersInv, TimersTypeOK, Subjects
<1>2. CASE ForkStop(p) \/ ForkStart(p)
  <2>1. \A s \in Timers : /\ thread'[s] = "none" <=> thread[s] = "none"
                          /\ thread'[s] = "free" <=> thread[s] = "free"
    BY <1>1, <1>2, Zenon DEF ForkStop, ForkStart, WakeAll, Signalled
  <2>2. thread' \in [Timers -> {"none", "loop", "wait", "timedwait", "timedout", "callback", "free"}]
    BY <1>1, <1>2, Zenon DEF ForkStop, ForkStart, WakeAll, Signalled
  <2>3. TimersTypeOK'
    BY <1>2, <2>2 DEF TimersInv, TimersTypeOK, ForkStop, ForkStart, Begin, Valid, table
  <2> QED
    BY <1>1, <1>2, <2>1, <2>3, SameUsers, Zenon DEF ForkStop, ForkStart, Begin, table, Uses
<1>3. ASSUME NEW step \in {"fork", "start", "none"}, To(p, step)
      PROVE  TimersInv'
  <2>1. TimersTypeOK'
    BY <1>3, Zenon DEF TimersInv, TimersTypeOK, To, table, timer, loop
  <2> QED
    BY <1>1, <1>3, <2>1, SameUsers, Zenon DEF To, table, timer, loop, Uses
<1>4. ASSUME UNCHANGED timerVars
      PROVE  TimersInv'
  BY <1>4, Zenon DEF timerVars, table, timer, loop, TimersInv, TimersTypeOK, FreeMeansUnused, OneUser,
              DoneUnused, Subjects, Uses
<1> QED
  BY <1>2, <1>3, <1>4, Zenon
     DEF ForkNext, Restart, pthread_atfork, __bionic_atfork_run_prepare, __fork,
         __bionic_atfork_run_parent

-----------------------------------------------------------------------------
LEMMA ForkInitIInv == ForkInit => ForkIInv
<1> SUFFICES ASSUME ForkInit
             PROVE  ForkIInv
  OBVIOUS
<1>1. free_timer \in Seq(Timers) /\ IsInjective(free_timer)
  BY ThreadTimersAssumption DEF ForkInit, TimersInit, Timers, IsInjective
<1>2. Range(free_timer) \subseteq Timers
  BY <1>1, ListElements, Zenon DEF ForkInit, TimersInit
<1>3. TimersTypeOK
  BY <1>1 DEF ForkInit, TimersInit, TimersTypeOK
<1>4. FreeMeansUnused
  BY <1>1, <1>2, NoneIsNoTimer DEF ForkInit, TimersInit, FreeMeansUnused
<1>5. OneUser /\ DoneUnused /\ Subjects
  <2>1. \A p \in Programs, s \in Timers : ~Uses(p, s)
    BY NoneIsNoTimer DEF ForkInit, TimersInit, Uses
  <2>2. done = {} /\ \A p \in Programs : op[p] = "none"
    BY DEF ForkInit, TimersInit
  <2> QED
    BY <2>1, <2>2, <1>3, Zenon DEF OneUser, DoneUnused, Subjects, ForkInit, TimersInit
<1>6. atfork_head \in Seq(Handlers) /\ ForkerHolds /\ HandlersPaired
  BY DEF ForkInit, TimersInit, ForkerHolds, HandlersPaired
<1> QED
  BY <1>3, <1>4, <1>5, <1>6 DEF ForkIInv, TimersInv

LEMMA ForkNextIInv == ForkIInv /\ [ProcessNext]_forkVars => ForkIInv'
<1> SUFFICES ASSUME ForkIInv, [ProcessNext]_forkVars
             PROVE  ForkIInv'
  OBVIOUS
<1>1. op \in [Programs -> {"none", "create", "signal", "delete", "prepare", "fork", "start", "parent"}]
  BY DEF ForkIInv, TimersInv, TimersTypeOK
<1>2. None \notin Programs
  BY ThreadTimersAssumption
<1>3. ASSUME NEW new \in Registrable(atfork_head)
      PROVE  new \in Seq(Handlers) /\ atfork_head \o new \in Seq(Handlers)
  <2>1. new \in Seq(Handlers)
    <3>1. CASE new = <<>>
      BY <3>1
    <3>2. CASE \E h \in Handlers : new = <<h>>
      BY <3>2
    <3> QED
      BY <3>1, <3>2 DEF Registrable
  <2> QED
    BY <2>1, Joined, Zenon DEF ForkIInv
<1>4. CASE TimersNext /\ UNCHANGED handlerVars
  <2>1. \/ UNCHANGED op
        \/ \E p \in Programs, step \in {"none", "create", "signal", "delete"} :
             op' = [op EXCEPT ![p] = step]
    <3>1. CASE \E p \in Programs :
                 \/ thr_timer_table_alloc(p) \/ \E o \in {"ok", "fail"} : timer_create(p, o)
                 \/ \E s \in Timers :
                      DeleteRemove(p, s) \/ \E setting \in Settings : timer_settime(p, s, setting)
                 \/ SettimeSignal(p) \/ timer_delete(p)
      BY <3>1, Zenon
         DEF thr_timer_table_alloc, timer_create, DeleteRemove, timer_settime, SettimeSignal,
             timer_delete, Begin, End
    <3>2. CASE \E s \in Timers :
                 \/ Loop(s) \/ TimerTimedOut(s) \/ LoopTimedOut(s) \/ TimerInterrupted(s)
                 \/ CallbackReturns(s) \/ thr_timer_table_free(s)
                 \/ \E setting \in Settings : CallbackSettime(s, setting)
                 \/ TimerExpire(s) \/ ExpireOld(s)
      BY <3>2, Zenon
         DEF Loop, TimerTimedOut, LoopTimedOut, TimerInterrupted, CallbackReturns, thr_timer_table_free,
             CallbackSettime, TimerExpire, ExpireOld
    <3> QED
      BY <1>4, <3>1, <3>2, Zenon DEF TimersNext
  <2>2. \A p \in Programs : op'[p] \in {"fork", "start", "parent"} => op'[p] = op[p]
    BY <1>1, <2>1
  <2> QED
    BY <1>4, <2>2, TimersStep, Zenon DEF ForkIInv, ForkerHolds, HandlersPaired, handlerVars
<1>5. ASSUME NEW p \in Programs, ForkStop(p) \/ ForkStart(p), UNCHANGED handlerVars, ForkNext(p)
      PROVE  ForkIInv'
  <2>1. /\ \A q \in Programs : op'[q] = IF q = p THEN op'[p] ELSE op[q]
        /\ op'[p] = "prepare" \/ (op[p] = "start" /\ op'[p] = "parent")
    BY <1>1, <1>5 DEF ForkStop, ForkStart, Begin
  <2> QED
    BY <1>5, <2>1, ForkTimersStep, Zenon DEF ForkIInv, ForkerHolds, HandlersPaired, handlerVars
<1>6. ASSUME NEW p \in Programs, NEW h \in Handlers, pthread_atfork(p, h)
      PROVE  ForkIInv'
  <2>1. \A q \in Programs : op[q] \notin {"fork", "start", "parent"}
    BY <1>2, <1>6 DEF pthread_atfork, ForkIInv, ForkerHolds
  <2>2. atfork_head' \in Seq(Handlers)
    BY <1>6 DEF pthread_atfork, ForkIInv
  <2> QED
    BY <1>6, <2>1, <2>2, ForkTimersStep, Zenon
       DEF pthread_atfork, ForkNext, timerVars, ForkIInv, ForkerHolds, HandlersPaired
<1>7. ASSUME NEW p \in Programs, __bionic_atfork_run_prepare(p)
      PROVE  ForkIInv'
  <2>1. PICK new \in Registrable(atfork_head) : added' = new /\ atfork_head' = atfork_head \o new
    BY <1>7 DEF __bionic_atfork_run_prepare
  <2>2. /\ \A q \in Programs : op[q] \notin {"fork", "start", "parent"}
        /\ op' = [op EXCEPT ![p] = "fork"] /\ handler_mutex' = p
        /\ prepared' = Backwards(atfork_head) /\ UNCHANGED child
    BY <1>2, <1>7 DEF __bionic_atfork_run_prepare, To, ForkIInv, ForkerHolds
  <2>3. Backwards(prepared') \o added' = atfork_head'
    BY <2>1, <2>2, ReverseReverse, Zenon DEF ForkIInv
  <2>4. atfork_head' \in Seq(Handlers)
    BY <1>3, <2>1
  <2>5. ForkerHolds' /\ HandlersPaired'
    BY <1>1, <2>2, <2>3, Zenon DEF ForkIInv, ForkerHolds, HandlersPaired
  <2> QED
    BY <1>7, <2>4, <2>5, ForkTimersStep DEF ForkIInv, ForkNext
<1>8. ASSUME NEW p \in Programs, __fork(p)
      PROVE  ForkIInv'
  <2>1. /\ handler_mutex = p /\ op' = [op EXCEPT ![p] = "start"]
        /\ atfork_head = Backwards(prepared) \o added
        /\ UNCHANGED <<atfork_head, handler_mutex, prepared, added>>
    BY <1>8, Zenon DEF __fork, To, ForkIInv, ForkerHolds, HandlersPaired
  <2>2. ForkerHolds'
    BY <1>1, <2>1 DEF ForkIInv, ForkerHolds
  <2>3. child' # None => /\ child'.atfork_head = Backwards(child'.prepared) \o child'.added
                         /\ child'.handler_mutex = child'.kernel_id
    <3>1. PICK c : c = [kernel_id |-> p, atfork_head |-> atfork_head,
                        handler_mutex |-> handler_mutex, prepared |-> prepared, added |-> added]
      BY Zenon
    <3>2. child' \in {None, c}
      BY <1>8, <3>1 DEF __fork
    <3>3. /\ c.atfork_head = atfork_head /\ c.handler_mutex = p /\ c.kernel_id = p
          /\ c.prepared = prepared /\ c.added = added
      BY <2>1, <3>1
    <3> QED
      BY <2>1, <3>2, <3>3, Zenon
  <2>4. HandlersPaired'
    BY <1>1, <2>1, <2>3, Zenon DEF ForkIInv, HandlersPaired
  <2> QED
    BY <1>8, <2>1, <2>2, <2>4, ForkTimersStep DEF ForkIInv, ForkNext
<1>9. ASSUME NEW p \in Programs, __bionic_atfork_run_parent(p)
      PROVE  ForkIInv'
  <2>1. /\ handler_mutex = p /\ op' = [op EXCEPT ![p] = "none"] /\ UNCHANGED child
    BY <1>9 DEF __bionic_atfork_run_parent, To, ForkIInv, ForkerHolds
  <2>2. \A q \in Programs : op'[q] \notin {"fork", "start", "parent"}
    BY <1>1, <2>1 DEF ForkIInv, ForkerHolds
  <2>3. ForkerHolds' /\ HandlersPaired'
    BY <2>1, <2>2, Zenon DEF ForkIInv, ForkerHolds, HandlersPaired
  <2>4. atfork_head' \in Seq(Handlers)
    BY <1>3, <1>9 DEF __bionic_atfork_run_parent
  <2> QED
    BY <1>9, <2>3, <2>4, ForkTimersStep DEF ForkIInv, ForkNext
<1>10. CASE __bionic_atfork_run_child \/ UNCHANGED forkVars
  <2>1. TimersInv'
    <3>1. UNCHANGED timerVars
      BY <1>10, Zenon DEF __bionic_atfork_run_child, forkVars
    <3> QED
      BY <3>1, TimersSame, Zenon DEF ForkIInv
  <2> QED
    BY <1>10, <2>1, Zenon DEF __bionic_atfork_run_child, forkVars, handlerVars, timerVars, ForkIInv, ForkerHolds,
                       HandlersPaired
<1> QED
  BY <1>4, <1>5, <1>6, <1>7, <1>8, <1>9, <1>10, Zenon DEF ProcessNext, ForkNext, Restart

LEMMA ForkInvariance == ForkSpec => []ForkIInv
BY ForkInitIInv, ForkNextIInv, PTL DEF ForkSpec

\* The table, the timers and the threads keep their types through every timer_xxx call,
\* expiration and fork.
THEOREM TimersTypeCorrect == ForkSpec => []TimersTypeOK
<1>1. ForkIInv => TimersTypeOK
  BY DEF ForkIInv, TimersInv
<1> QED
  BY <1>1, ForkInvariance, PTL

\* An entry that thr_timer_table_free puts into the free list is in nobody's hands, and
\* is there once, for any number of timers and of threads that use or fork them.
THEOREM FreeTimersUnused == ForkSpec => []FreeMeansUnused
<1>1. ForkIInv => FreeMeansUnused
  BY DEF ForkIInv, TimersInv
<1> QED
  BY <1>1, ForkInvariance, PTL

\* handler_mutex, held from the prepare handlers to those of the parent and of the
\* child, pairs the handlers of fork, for any number of threads and handlers.
THEOREM ForkPairsHandlers == ForkSpec => []HandlersPaired
<1>1. ForkIInv => HandlersPaired
  BY DEF ForkIInv
<1> QED
  BY <1>1, ForkInvariance, PTL
=============================================================================
