------------------------- MODULE BlockingCallsProofs -------------------------
(***************************************************************************)
(* Proofs about semaphores, for any set of threads and any maximum; about  *)
(* condition variables, for any set of threads and any size of the         *)
(* counter; and about read/write locks, for any finite set of threads.     *)
(***************************************************************************)
EXTENDS Semaphore, CondVar, RWLock, FiniteSetTheorems, TLAPS

\* A destroyed semaphore has no waiters and no permits.
SemDestroyAlone ==
  status = "destroyed" => count = 0 /\ \A t \in Threads : ~SemWaiting(t)

\* The inductive invariant.
SemIInv == SemTypeOK /\ NoOrphan /\ SemDestroyAlone /\ PermitsConserved

LEMMA SemInitIInv == SemInitial => SemIInv
BY MaxValueAssumption
   DEF SemInitial, SemIInv, SemTypeOK, NoOrphan, SemDestroyAlone, SemWaiting, SemSleepers,
       Contended, PermitsConserved, Value

LEMMA SemNextIInv == SemIInv /\ [SemNext]_semVars => SemIInv'
<1> SUFFICES ASSUME SemIInv, [SemNext]_semVars
             PROVE  SemIInv'
  OBVIOUS
<1> USE MaxValueAssumption
    DEF SemIInv, SemTypeOK, NoOrphan, SemDestroyAlone, SemWaiting, SemSleepers, Contended,
        PermitsConserved, Value, TakePermit, Goto, Return, Loop
<1>1. ASSUME NEW t \in Threads, SemWait(t)
      PROVE  SemIInv'
  BY <1>1 DEF SemWait
<1>2. ASSUME NEW t \in Threads, NEW limit \in {"ahead", "past"}, SemTimedWait(t, limit)
      PROVE  SemIInv'
  BY <1>2 DEF SemTimedWait
<1>3. ASSUME NEW t \in Threads, CheckClock(t)
      PROVE  SemIInv'
  BY <1>3 DEF CheckClock
<1>4. ASSUME NEW t \in Threads, SemDec(t)
      PROVE  SemIInv'
  BY <1>4 DEF SemDec
<1>5. ASSUME NEW t \in Threads, SemFutexWait(t)
      PROVE  SemIInv'
  BY <1>5 DEF SemFutexWait
<1>6. ASSUME NEW t \in Threads, SemInterrupted(t) \/ SemTimedOut(t)
      PROVE  SemIInv'
  BY <1>6 DEF SemInterrupted, SemTimedOut
<1>7. ASSUME NEW t \in Threads, SemExpire(t)
      PROVE  SemIInv'
  BY <1>7 DEF SemExpire
<1>8. ASSUME NEW t \in Threads, SemTryWait(t)
      PROVE  SemIInv'
  BY <1>8 DEF SemTryWait
<1>9. ASSUME NEW t \in Threads, SemPost(t)
      PROVE  SemIInv'
  <2>1. /\ count \in Int /\ count < MaxValue
        /\ count' = IF count < 0 THEN 1 ELSE count + 1
        /\ due' = due + 1 /\ status = "live"
        /\ UNCHANGED <<status, deadline>>
    BY <1>9 DEF SemPost
  <2>2. pc' \in {pc, [pc EXCEPT ![t] = "wake"]} /\ pc[t] = "idle"
    BY <1>9 DEF SemPost
  <2>3. count' \in -1 .. MaxValue
    BY <2>1
  <2>4. SemTypeOK'
    BY <2>1, <2>2, <2>3
  <2>5. NoOrphan'
    BY <1>9 DEF SemPost
  <2>6. SemDestroyAlone'
    BY <2>1
  <2>7. PermitsConserved'
    BY <2>1
  <2> QED
    BY <2>4, <2>5, <2>6, <2>7
<1>10. ASSUME NEW t \in Threads, SemPostWake(t)
       PROVE  SemIInv'
  BY <1>10 DEF SemPostWake
<1>11. ASSUME NEW t \in Threads, SemDestroy(t)
       PROVE  SemIInv'
  <2>1. SemTypeOK'
    BY <1>11 DEF SemDestroy
  <2>2. NoOrphan'
    BY <1>11 DEF SemDestroy
  <2>3. SemDestroyAlone'
    BY <1>11 DEF SemDestroy
  <2>4. PermitsConserved'
    BY <1>11 DEF SemDestroy
  <2> QED
    BY <2>1, <2>2, <2>3, <2>4
<1>12. ASSUME NEW t \in Threads, SemInit(t)
       PROVE  SemIInv'
  BY <1>12 DEF SemInit
<1>13. CASE UNCHANGED semVars
  BY <1>13 DEF semVars
<1> HIDE DEF SemIInv
<1> QED
  BY <1>1, <1>2, <1>3, <1>4, <1>5, <1>6, <1>7, <1>8, <1>9, <1>10, <1>11,
     <1>12, <1>13 DEF SemNext

LEMMA SemInvariance == SemSpec => []SemIInv
BY SemInitIInv, SemNextIInv, PTL DEF SemSpec

\* The value stays between -1 and SEM_MAX_VALUE, and the threads' positions
\* keep their types.
THEOREM SemTypeCorrect == SemSpec => []SemTypeOK
<1>1. SemIInv => SemTypeOK
  BY DEF SemIInv
<1> QED
  BY <1>1, SemInvariance, PTL

\* No thread sleeps in sem_wait or sem_timedwait on a semaphore whose next
\* sem_post would not wake it.
THEOREM NobodyOrphaned == SemSpec => []NoOrphan
<1>1. SemIInv => NoOrphan
  BY DEF SemIInv
<1> QED
  BY <1>1, SemInvariance, PTL

\* sem_wait, sem_trywait, sem_timedwait and sem_post neither lose nor invent a
\* permit.
THEOREM NoPermitLost == SemSpec => []PermitsConserved
<1>1. SemIInv => PermitsConserved
  BY DEF SemIInv
<1> QED
  BY <1>1, SemInvariance, PTL

\* As its callers see it a semaphore is a counting semaphore, for any threads
\* and any maximum.
THEOREM SemaphoreCounts == SemSpec => ImplementsCounting
<1>1. SemInitial => CS!Init
  BY MaxValueAssumption DEF SemInitial, CS!Init
<1>2. SemIInv /\ [SemNext]_semVars => [CS!Next]_<<status, due>>
  <2> SUFFICES ASSUME SemIInv, [SemNext]_semVars
               PROVE  CS!Next \/ UNCHANGED <<status, due>>
    BY DEF CS!Next
  <2> USE MaxValueAssumption DEF SemIInv, SemTypeOK, PermitsConserved, Value
  <2>1. ASSUME NEW t \in Threads,
               \/ \E limit \in {"ahead", "past"} : SemTimedWait(t, limit)
               \/ SemDec(t) \/ SemTryWait(t)
        PROVE  CS!Take \/ UNCHANGED <<status, due>>
    BY <2>1 DEF SemTimedWait, SemDec, SemTryWait, TakePermit, SemDestroyAlone,
                SemWaiting, CS!Take
  <2>2. ASSUME NEW t \in Threads, SemPost(t)
        PROVE  CS!Give
    BY <2>2 DEF SemPost, CS!Give
  <2>3. ASSUME NEW t \in Threads, SemDestroy(t)
        PROVE  CS!Discard
    BY <2>3 DEF SemDestroy, CS!Discard
  <2>4. ASSUME NEW t \in Threads, SemInit(t)
        PROVE  CS!Create
    BY <2>4 DEF SemInit, CS!Create
  <2>5. ASSUME NEW t \in Threads,
               \/ SemWait(t) \/ CheckClock(t) \/ SemFutexWait(t) \/ SemInterrupted(t)
               \/ SemTimedOut(t) \/ SemExpire(t) \/ SemPostWake(t)
        PROVE  UNCHANGED <<status, due>>
    BY <2>5 DEF SemWait, CheckClock, SemFutexWait, SemInterrupted, SemTimedOut, SemExpire,
                SemPostWake
  <2>6. CASE UNCHANGED semVars
    BY <2>6 DEF semVars
  <2> HIDE DEF SemIInv
  <2> QED
    BY <2>1, <2>2, <2>3, <2>4, <2>5, <2>6 DEF SemNext, CS!Next
<1> QED
  BY <1>1, <1>2, SemInvariance, PTL DEF SemSpec, ImplementsCounting, CS!Spec

-----------------------------------------------------------------------------
\* What % does to the differences of two values of the counter.
LEMMA ModSmall ==
  ASSUME NEW n \in Nat \ {0}, NEW a \in 0 .. n - 1
  PROVE  a % n = a
BY SMT

LEMMA ModNegative ==
  ASSUME NEW n \in Nat \ {0}, NEW a \in Int, -n <= a, a < 0
  PROVE  a % n = a + n
BY SMT

\* A pulse keeps the counter in its range, and a thread that has read the counter
\* and is not CounterSize - 1 pulses behind will find it changed.
LEMMA PulseNoticed ==
  ASSUME NEW cur \in 0 .. CounterSize - 1
  PROVE  /\ (cur - 1) % CounterSize \in 0 .. CounterSize - 1
         /\ \A old \in 0 .. CounterSize - 1 :
              (old - cur) % CounterSize < CounterSize - 1 =>
                old # (cur - 1) % CounterSize
<1> USE CondVarAssumption
<1>1. (cur - 1) % CounterSize = IF cur = 0 THEN CounterSize - 1 ELSE cur - 1
  <2>1. CASE cur = 0
    BY <2>1, ModNegative
  <2>2. CASE cur # 0
    BY <2>2, ModSmall
  <2> QED
    BY <2>1, <2>2
<1>2. ASSUME NEW old \in 0 .. CounterSize - 1
      PROVE  (old - cur) % CounterSize =
               IF old < cur THEN old - cur + CounterSize ELSE old - cur
  <2>1. CASE old < cur
    BY <2>1, ModNegative
  <2>2. CASE ~(old < cur)
    BY <2>2, ModSmall
  <2> QED
    BY <2>1, <2>2
<1> QED
  BY <1>1, <1>2

-----------------------------------------------------------------------------
\* While the caller of a pulse holds the mutex no thread begins to wait: whoever
\* waits was waiting at the decrement, and will find the counter changed.
PulseWithMutex ==
  \A t \in Threads : pc[t] = "wake" /\ owner = t =>
    \A u \in Threads : CondWaiting(u) =>
      u \in targets[t] /\ (InWindow(u) => oldvalue[u] # value)

\* Nobody waits on or pulses a destroyed condition variable.
DestroyedAlone ==
  value = Destroyed => \A u \in Threads : ~CondWaiting(u) /\ pc[u] # "wake"

\* The inductive invariant.
CondIInv == CondTypeOK /\ DestroyedAlone /\ NoMissedBroadcast /\ PulseWithMutex

LEMMA CondInitIInv == CondInitial => CondIInv
BY CondVarAssumption
   DEF CondInitial, CondIInv, CondTypeOK, DestroyedAlone, NoMissedBroadcast, PulseWithMutex,
       CondWaiting, InWindow, Destroyed

LEMMA CondNextIInv == CondIInv /\ [CondNext]_condVars => CondIInv'
<1> SUFFICES ASSUME CondIInv, [CondNext]_condVars
             PROVE  CondIInv'
  OBVIOUS
<1> USE CondVarAssumption
    DEF CondIInv, CondTypeOK, DestroyedAlone, NoMissedBroadcast, PulseWithMutex,
        CondWaiting, InWindow, Destroyed, Goto
<1>1. ASSUME NEW t \in Threads, MutexLock(t)
      PROVE  CondIInv'
  <2>1. CondTypeOK'
    BY <1>1 DEF MutexLock
  <2>2. DestroyedAlone'
    BY <1>1 DEF MutexLock
  <2>3. NoMissedBroadcast'
    BY <1>1 DEF MutexLock
  <2>4. PulseWithMutex'
    BY <1>1 DEF MutexLock
  <2> QED
    BY <2>1, <2>2, <2>3, <2>4
<1>2. ASSUME NEW t \in Threads, MutexUnlock(t)
      PROVE  CondIInv'
  <2>1. CondTypeOK'
    BY <1>2 DEF MutexUnlock
  <2>2. DestroyedAlone'
    BY <1>2 DEF MutexUnlock
  <2>3. NoMissedBroadcast'
    BY <1>2 DEF MutexUnlock
  <2>4. PulseWithMutex'
    BY <1>2 DEF MutexUnlock
  <2> QED
    BY <2>1, <2>2, <2>3, <2>4
<1>3. ASSUME NEW t \in Threads, NEW limit \in {"none", "ahead"}, WaitRead(t, limit)
      PROVE  CondIInv'
  <2>1. CondTypeOK'
    BY <1>3 DEF WaitRead
  <2>2. DestroyedAlone'
    BY <1>3 DEF WaitRead
  <2>3. NoMissedBroadcast'
    BY <1>3 DEF WaitRead
  <2>4. PulseWithMutex'
    BY <1>3 DEF WaitRead
  <2> QED
    BY <2>1, <2>2, <2>3, <2>4
<1>4. ASSUME NEW t \in Threads, WaitUnlock(t)
      PROVE  CondIInv'
  <2>1. CondTypeOK'
    BY <1>4 DEF WaitUnlock
  <2>2. DestroyedAlone'
    BY <1>4 DEF WaitUnlock
  <2>3. NoMissedBroadcast'
    BY <1>4 DEF WaitUnlock
  <2>4. PulseWithMutex'
    BY <1>4 DEF WaitUnlock
  <2> QED
    BY <2>1, <2>2, <2>3, <2>4
<1>5. ASSUME NEW t \in Threads, CondFutexWait(t)
      PROVE  CondIInv'
  <2>1. CondTypeOK'
    BY <1>5 DEF CondFutexWait
  <2>2. DestroyedAlone'
    BY <1>5 DEF CondFutexWait
  <2>3. NoMissedBroadcast'
    BY <1>5 DEF CondFutexWait
  <2>4. PulseWithMutex'
    BY <1>5 DEF CondFutexWait
  <2> QED
    BY <2>1, <2>2, <2>3, <2>4
<1>6. ASSUME NEW t \in Threads, WaitRelock(t)
      PROVE  CondIInv'
  <2>1. CondTypeOK'
    BY <1>6 DEF WaitRelock
  <2>2. DestroyedAlone'
    BY <1>6 DEF WaitRelock
  <2>3. NoMissedBroadcast'
    BY <1>6 DEF WaitRelock
  <2>4. PulseWithMutex'
    BY <1>6 DEF WaitRelock
  <2> QED
    BY <2>1, <2>2, <2>3, <2>4
<1>7. ASSUME NEW t \in Threads, CondInterrupted(t) \/ CondTimedOut(t)
      PROVE  CondIInv'
  <2>1. CondTypeOK'
    BY <1>7 DEF CondInterrupted, CondTimedOut
  <2>2. DestroyedAlone'
    BY <1>7 DEF CondInterrupted, CondTimedOut
  <2>3. NoMissedBroadcast'
    BY <1>7 DEF CondInterrupted, CondTimedOut
  <2>4. PulseWithMutex'
    BY <1>7 DEF CondInterrupted, CondTimedOut
  <2> QED
    BY <2>1, <2>2, <2>3, <2>4
<1>8. ASSUME NEW t \in Threads, CondExpire(t)
      PROVE  CondIInv'
  <2>1. CondTypeOK'
    BY <1>8 DEF CondExpire
  <2>2. DestroyedAlone'
    BY <1>8 DEF CondExpire
  <2>3. NoMissedBroadcast'
    BY <1>8 DEF CondExpire
  <2>4. PulseWithMutex'
    BY <1>8 DEF CondExpire
  <2> QED
    BY <2>1, <2>2, <2>3, <2>4
<1>9. ASSUME NEW t \in Threads, NEW n \in {"one", "all"}, PulseDec(t, n)
      PROVE  CondIInv'
  <2>1. /\ value' \in 0 .. CounterSize - 1
        /\ \A u \in Threads : InWindow(u) => oldvalue[u] # value'
    <3>1. value \in 0 .. CounterSize - 1 /\ value' = (value - 1) % CounterSize
      BY <1>9 DEF PulseDec
    <3>2. \A u \in Threads : InWindow(u) =>
            (oldvalue[u] - value) % CounterSize < CounterSize - 1
      BY <1>9 DEF PulseDec, Behind
    <3> QED
      BY <3>1, <3>2, PulseNoticed
  <2>2. /\ pc[t] \in {"idle", "locked"} /\ pc' = [pc EXCEPT ![t] = "wake"]
        /\ number' = [number EXCEPT ![t] = n]
        /\ called' = IF n = "all" THEN called \cup {u \in Threads : CondWaiting(u)}
                                  ELSE called
        /\ targets' = [targets EXCEPT ![t] = {u \in Threads : CondWaiting(u)}]
        /\ UNCHANGED <<owner, oldvalue, deadline>>
    BY <1>9 DEF PulseDec
  <2>3. CondTypeOK'
    BY <2>1, <2>2
  <2>4. DestroyedAlone'
    BY <2>1
  <2>5. NoMissedBroadcast'
    <3> SUFFICES ASSUME NEW u \in called'
                 PROVE  /\ InWindow(u)' => oldvalue'[u] # value'
                        /\ pc'[u] = "oncond" =>
                             \E w \in Threads : pc'[w] = "wake" /\ number'[w] = "all"
                                                /\ u \in targets'[w]
      BY DEF NoMissedBroadcast
    <3>1. u \in Threads
      BY <2>3
    <3>2. CASE u \in called
      BY <2>1, <2>2, <3>1, <3>2
    <3>3. CASE n = "all" /\ CondWaiting(u)
      BY <2>1, <2>2, <3>1, <3>3
    <3> QED
      BY <2>2, <3>2, <3>3
  <2>6. PulseWithMutex'
    BY <2>1, <2>2
  <2> QED
    BY <2>3, <2>4, <2>5, <2>6
<1>10. ASSUME NEW t \in Threads, PulseWake(t)
       PROVE  CondIInv'
  <2> PICK W \in Woken(number[t]) :
        pc' = [u \in Threads |-> IF u = t THEN Caller(t)
                                 ELSE IF u \in W THEN "relock" ELSE pc[u]]
    BY <1>10 DEF PulseWake
  <2>1. W \subseteq CondSleepers /\ (number[t] = "all" => W = CondSleepers)
    BY DEF Woken
  <2>2. /\ pc[t] = "wake"
        /\ targets' = [targets EXCEPT ![t] = {}]
        /\ number' = [number EXCEPT ![t] = "one"]
        /\ UNCHANGED <<value, owner, oldvalue, deadline, called>>
    BY <1>10 DEF PulseWake
  <2>3. CondTypeOK'
    BY <2>1, <2>2 DEF CondSleepers, Caller
  <2>4. DestroyedAlone'
    BY <2>2
  <2>5. NoMissedBroadcast'
    BY <2>1, <2>2 DEF CondSleepers, Caller
  <2>6. PulseWithMutex'
    BY <2>1, <2>2 DEF CondSleepers, Caller
  <2> QED
    BY <2>3, <2>4, <2>5, <2>6, Zenon
<1>11. ASSUME NEW t \in Threads, CondDestroy(t)
      PROVE  CondIInv'
  <2>1. CondTypeOK'
    BY <1>11 DEF CondDestroy
  <2>2. DestroyedAlone'
    BY <1>11 DEF CondDestroy
  <2>3. NoMissedBroadcast'
    BY <1>11 DEF CondDestroy
  <2>4. PulseWithMutex'
    BY <1>11 DEF CondDestroy
  <2> QED
    BY <2>1, <2>2, <2>3, <2>4
<1>12. ASSUME NEW t \in Threads, CondInit(t)
      PROVE  CondIInv'
  <2>1. CondTypeOK'
    BY <1>12 DEF CondInit
  <2>2. DestroyedAlone'
    BY <1>12 DEF CondInit
  <2>3. NoMissedBroadcast'
    BY <1>12 DEF CondInit
  <2>4. PulseWithMutex'
    BY <1>12 DEF CondInit
  <2> QED
    BY <2>1, <2>2, <2>3, <2>4
<1>13. CASE UNCHANGED condVars
  BY <1>13 DEF condVars
<1> HIDE DEF CondIInv
<1> QED
  BY <1>1, <1>2, <1>3, <1>4, <1>5, <1>6, <1>7, <1>8, <1>9, <1>10, <1>11,
     <1>12, <1>13 DEF CondNext

LEMMA CondInvariance == CondSpec => []CondIInv
BY CondInitIInv, CondNextIInv, PTL DEF CondSpec

\* No broadcast is missed: a thread that is between reading the counter and the
\* futex call of its wait when a broadcast decrements it will not fall asleep,
\* and one that sleeps already is woken by a wake call that is still to come.
THEOREM BroadcastsSeen == CondSpec => []NoMissedBroadcast
<1>1. CondIInv => NoMissedBroadcast
  BY DEF CondIInv
<1> QED
  BY <1>1, CondInvariance, PTL

\* A pulse made with the mutex held unblocks one of the threads that waited for
\* it, whatever happens between its decrement and its wake call.
THEOREM SignalsDelivered == CondSpec => SignalDelivered
<1> DEFINE Delivers ==
      \A t \in Threads :
        pc[t] = "wake" /\ pc'[t] # "wake" /\ owner = t /\ targets[t] # {} =>
          \E u \in targets[t] : ~Blocked(u)'
<1>1. CondIInv /\ [CondNext]_condVars => [Delivers]_condVars
  <2> SUFFICES ASSUME CondIInv, CondNext, NEW t \in Threads, pc[t] = "wake",
                      pc'[t] # "wake", owner = t, targets[t] # {}
               PROVE  \E u \in targets[t] : ~Blocked(u)'
    OBVIOUS
  <2> USE DEF CondIInv, CondTypeOK, PulseWithMutex, CondWaiting, InWindow
  <2>1. PulseWake(t)
    <3>1. ASSUME NEW u \in Threads, PulseWake(u), u # t
          PROVE  pc'[t] = pc[t]
      BY <3>1 DEF PulseWake, Woken, CondSleepers
    <3>2. ASSUME NEW u \in Threads,
                 \/ MutexLock(u) \/ MutexUnlock(u)
                 \/ \E limit \in {"none", "ahead"} : WaitRead(u, limit)
                 \/ WaitUnlock(u) \/ WaitRelock(u)
                 \/ \E n \in {"one", "all"} : PulseDec(u, n)
          PROVE  pc'[t] = pc[t]
      BY <3>2 DEF MutexLock, MutexUnlock, WaitRead, WaitUnlock, WaitRelock,
                  PulseDec, Goto
    <3>3. ASSUME NEW u \in Threads,
                 \/ CondFutexWait(u) \/ CondInterrupted(u) \/ CondTimedOut(u) \/ CondExpire(u)
                 \/ CondDestroy(u) \/ CondInit(u)
          PROVE  pc'[t] = pc[t]
      BY <3>3 DEF CondFutexWait, CondInterrupted, CondTimedOut, CondExpire, CondDestroy,
                  CondInit, Goto
    <3> QED
      BY <3>1, <3>2, <3>3 DEF CondNext
  <2> PICK W \in Woken(number[t]) :
        pc' = [u \in Threads |-> IF u = t THEN Caller(t)
                                 ELSE IF u \in W THEN "relock" ELSE pc[u]]
    BY <2>1 DEF PulseWake
  <2>2. UNCHANGED <<value, oldvalue>> /\ W \subseteq CondSleepers
    BY <2>1 DEF PulseWake, Woken
  <2>3. CASE \E u \in W : TRUE
    BY <2>2, <2>3 DEF CondSleepers, Blocked
  <2>4. CASE W = {}
    <3>1. CondSleepers = {}
      BY <2>4 DEF Woken
    <3>2. PICK u \in targets[t] : TRUE
      OBVIOUS
    <3>3. u \in Threads /\ pc[u] # "oncond" /\ (InWindow(u) => oldvalue[u] # value)
      BY <3>1, <3>2 DEF CondSleepers
    <3> QED
      BY <2>2, <2>4, <3>3 DEF Blocked, Caller
  <2> QED
    BY <2>3, <2>4
<1> HIDE DEF Delivers
<1>2. CondSpec => [][Delivers]_condVars
  BY <1>1, CondInvariance, PTL DEF CondSpec
<1> QED
  BY <1>2 DEF SignalDelivered, Delivers

-----------------------------------------------------------------------------
(***************************************************************************)
(* numLocks counts the pairs <<t, i>> such that t holds the lock at least  *)
(* i times.  Counting pairs turns the sum of held into a cardinality.      *)
(***************************************************************************)
HoldsOf(h) == {p \in Threads \X (1 .. MaxHold) : p[2] <= h[p[1]]}

LEMMA HoldsFinite ==
  ASSUME NEW h
  PROVE  IsFiniteSet(HoldsOf(h))
<1>1. IsFiniteSet(Threads \X (1 .. MaxHold))
  <2>1. IsFiniteSet(1 .. MaxHold)
    BY RWLockAssumption, FS_Interval
  <2> QED
    BY <2>1, RWLockAssumption, FS_Product
<1>2. HoldsOf(h) \subseteq Threads \X (1 .. MaxHold)
  BY DEF HoldsOf
<1> QED
  BY <1>1, <1>2, FS_Subset

LEMMA HoldOnce ==
  ASSUME NEW h \in [Threads -> 0 .. MaxHold], NEW t \in Threads, h[t] < MaxHold
  PROVE  Cardinality(HoldsOf([h EXCEPT ![t] = @ + 1])) = Cardinality(HoldsOf(h)) + 1
<1> DEFINE x == <<t, h[t] + 1>>
<1>1. HoldsOf([h EXCEPT ![t] = @ + 1]) = HoldsOf(h) \cup {x}
  BY RWLockAssumption DEF HoldsOf
<1>2. x \notin HoldsOf(h)
  BY DEF HoldsOf
<1> QED
  BY <1>1, <1>2, HoldsFinite, FS_AddElement, Zenon

LEMMA ReleaseOnce ==
  ASSUME NEW h \in [Threads -> 0 .. MaxHold], NEW t \in Threads, h[t] > 0
  PROVE  Cardinality(HoldsOf([h EXCEPT ![t] = @ - 1])) = Cardinality(HoldsOf(h)) - 1
<1> DEFINE x == <<t, h[t]>>
<1>1. HoldsOf([h EXCEPT ![t] = @ - 1]) = HoldsOf(h) \ {x}
  BY RWLockAssumption DEF HoldsOf
<1>2. x \in HoldsOf(h)
  BY RWLockAssumption DEF HoldsOf
<1> QED
  BY <1>1, <1>2, HoldsFinite, FS_RemoveElement, Zenon

LEMMA NoHolds ==
  ASSUME NEW h \in [Threads -> 0 .. MaxHold]
  PROVE  Cardinality(HoldsOf(h)) = 0 <=> \A t \in Threads : h[t] = 0
<1>1. Cardinality(HoldsOf(h)) = 0 <=> HoldsOf(h) = {}
  BY HoldsFinite, FS_EmptySet
<1>2. ASSUME NEW t \in Threads, h[t] # 0
      PROVE  <<t, 1>> \in HoldsOf(h)
  BY <1>2, RWLockAssumption DEF HoldsOf
<1>3. ASSUME \A t \in Threads : h[t] = 0
      PROVE  HoldsOf(h) = {}
  BY <1>3, RWLockAssumption DEF HoldsOf
<1> QED
  BY <1>1, <1>2, <1>3, Zenon

LEMMA OneHold ==
  ASSUME NEW h \in [Threads -> 0 .. MaxHold], NEW t \in Threads, h[t] = 1,
         \A u \in Threads : u # t => h[u] = 0
  PROVE  Cardinality(HoldsOf(h)) = 1
<1>1. HoldsOf(h) = {<<t, 1>>}
  BY RWLockAssumption DEF HoldsOf
<1> QED
  BY <1>1, FS_Singleton, Zenon

-----------------------------------------------------------------------------
\* How a call's begin and end change the set of the threads in a call.
LEMMA CallBegins ==
  ASSUME NEW t \in Threads, NEW m \in {"r", "w"}, TypeOK, TypeOK',
         pc[t] = "idle", pc'[t] # "idle", mode'[t] = m,
         \A u \in Threads \ {t} : /\ pc'[u] = "idle" <=> pc[u] = "idle"
                                  /\ mode'[u] = mode[u]
  PROVE  /\ Cardinality(InCall(m)') = Cardinality(InCall(m)) + 1
         /\ \A n \in {"r", "w"} \ {m} : InCall(n)' = InCall(n)
<1>1. InCall(m)' = InCall(m) \cup {t} /\ t \notin InCall(m)
  BY DEF InCall, TypeOK
<1>2. IsFiniteSet(InCall(m))
  BY RWLockAssumption, FS_Subset DEF InCall
<1>3. \A n \in {"r", "w"} \ {m} : InCall(n)' = InCall(n)
  BY DEF InCall, TypeOK
<1>4. Cardinality(InCall(m) \cup {t}) = Cardinality(InCall(m)) + 1
  BY <1>1, <1>2, FS_AddElement, Zenon
<1> QED
  BY <1>1, <1>3, <1>4

LEMMA CallEnds ==
  ASSUME NEW t \in Threads, NEW m \in {"r", "w"}, TypeOK, TypeOK',
         pc[t] # "idle", pc'[t] = "idle", mode[t] = m, mode' = mode,
         \A u \in Threads \ {t} : pc'[u] = "idle" <=> pc[u] = "idle"
  PROVE  /\ Cardinality(InCall(m)') = Cardinality(InCall(m)) - 1
         /\ \A n \in {"r", "w"} \ {m} : InCall(n)' = InCall(n)
<1>1. InCall(m)' = InCall(m) \ {t} /\ t \in InCall(m)
  BY DEF InCall, TypeOK
<1>2. IsFiniteSet(InCall(m))
  BY RWLockAssumption, FS_Subset DEF InCall
<1>3. \A n \in {"r", "w"} \ {m} : InCall(n)' = InCall(n)
  BY DEF InCall, TypeOK
<1>4. Cardinality(InCall(m) \ {t}) = Cardinality(InCall(m)) - 1
  BY <1>1, <1>2, FS_RemoveElement, Zenon
<1> QED
  BY <1>1, <1>3, <1>4

-----------------------------------------------------------------------------
\* The pending counters count the threads in a call, and a thread in a call
\* that waits may still be given the lock once more.
PendingCounted ==
  /\ pendingReaders = Cardinality(InCall("r"))
  /\ pendingWriters = Cardinality(InCall("w"))
  /\ \A t \in Threads : pc[t] # "idle" => held[t] < MaxHold

\* numLocks counts every hold, and the writer is the thread that holds for writing.
HoldersCounted ==
  /\ numLocks = Cardinality(HoldsOf(held))
  /\ \A t \in Threads : writerThreadId = t <=> held[t] > 0 /\ mode[t] = "w"

\* The inductive invariant.
IInv == TypeOK /\ PendingCounted /\ HoldersCounted /\ Exclusion

LEMMA InitIInv == Init => IInv
<1> SUFFICES ASSUME Init PROVE IInv
  OBVIOUS
<1> USE RWLockAssumption DEF Init
<1>1. TypeOK
  BY DEF TypeOK
<1>2. InCall("r") = {} /\ InCall("w") = {}
  BY DEF InCall
<1>3. PendingCounted
  BY <1>2, FS_EmptySet DEF PendingCounted
<1>4. HoldersCounted
  <2>1. Cardinality(HoldsOf(held)) = 0
    BY NoHolds
  <2> QED
    BY <2>1 DEF HoldersCounted
<1>5. Exclusion
  BY DEF Exclusion
<1> QED
  BY <1>1, <1>3, <1>4, <1>5 DEF IInv

\* Taking the lock, with the precondition of its mode, keeps the holders' part.
LEMMA GrantKeeps ==
  ASSUME IInv, NEW t \in Threads, NEW m \in {"r", "w"}, Grant(t, m),
         precondition(t, m), held[t] < MaxHold, held[t] > 0 => mode[t] = m,
         mode' = [mode EXCEPT ![t] = m]
  PROVE  /\ HoldersCounted' /\ Exclusion'
         /\ numLocks' \in Nat /\ writerThreadId' \in Threads \cup {NoThread}
         /\ held' \in [Threads -> 0 .. MaxHold]
<1> USE RWLockAssumption DEF IInv, TypeOK
<1>1. /\ numLocks' = numLocks + 1
      /\ writerThreadId' = IF m = "w" THEN t ELSE writerThreadId
      /\ held' = [held EXCEPT ![t] = @ + 1]
  BY DEF Grant
<1>2. numLocks' = Cardinality(HoldsOf(held))'
  BY <1>1, HoldOnce, Zenon DEF HoldersCounted
<1>3. CASE m = "w"
  <2>1. \A u \in Threads : u # t => held[u] = 0
    <3>1. CASE numLocks = 0
      BY <3>1, NoHolds, Zenon DEF HoldersCounted
    <3>2. CASE writerThreadId = t
      BY <3>2 DEF HoldersCounted, Exclusion
    <3> QED
      BY <1>3, <3>1, <3>2 DEF precondition, write_precondition
  <2> QED
    BY <1>1, <1>2, <1>3, <2>1 DEF HoldersCounted, Exclusion
<1>4. CASE m = "r"
  <2>1. writerThreadId = NoThread
    BY <1>4 DEF precondition, read_precondition, HoldersCounted
  <2>2. \A u \in Threads : ~(held[u] > 0 /\ mode[u] = "w")
    BY <2>1 DEF HoldersCounted
  <2> QED
    BY <1>1, <1>2, <1>4, <2>1, <2>2 DEF HoldersCounted, Exclusion
<1> QED
  BY <1>3, <1>4

\* A call that is not over leaves the holders' part alone.
LEMMA HoldersKept ==
  ASSUME IInv, UNCHANGED <<numLocks, writerThreadId, held>>,
         mode' \in [Threads -> {"r", "w"}],
         \A t \in Threads : held[t] > 0 => mode'[t] = mode[t]
  PROVE  HoldersCounted' /\ Exclusion'
BY DEF IInv, HoldersCounted, Exclusion, TypeOK

\* A step that begins and ends no call keeps the pending counters exact.
LEMMA PendingKept ==
  ASSUME IInv, TypeOK', UNCHANGED <<pendingReaders, pendingWriters>>,
         \A u \in Threads : /\ pc'[u] = "idle" <=> pc[u] = "idle"
                            /\ pc[u] # "idle" => mode'[u] = mode[u]
                            /\ pc[u] # "idle" => held'[u] = held[u]
  PROVE  PendingCounted'
<1>1. InCall("r")' = InCall("r") /\ InCall("w")' = InCall("w")
  BY DEF InCall, IInv, TypeOK
<1> QED
  BY <1>1 DEF PendingCounted, IInv, TypeOK

\* So does one that ends a call and counts it off.
LEMMA PendingEnds ==
  ASSUME IInv, TypeOK', NEW t \in Threads, pc[t] # "idle",
         AddPending(mode[t], -1), Goto(t, "idle"), mode' = mode,
         \A u \in Threads \ {t} : held'[u] = held[u]
  PROVE  PendingCounted'
<1>1. PICK m \in {"r", "w"} : m = mode[t]
  BY DEF IInv, TypeOK
<1>2. /\ Cardinality(InCall(m)') = Cardinality(InCall(m)) - 1
      /\ \A n \in {"r", "w"} \ {m} : InCall(n)' = InCall(n)
  BY <1>1, CallEnds DEF IInv, TypeOK, Goto
<1>3. PendingCounted /\ TypeOK
  BY DEF IInv
<1>4. pc' = [pc EXCEPT ![t] = "idle"]
  BY DEF Goto
<1>5. \A u \in Threads : pc'[u] # "idle" => held'[u] < MaxHold
  BY <1>3, <1>4 DEF PendingCounted, TypeOK
<1>6. CASE m = "r"
  <2>1. pendingReaders' = Cardinality(InCall("r")') /\ pendingWriters' = Cardinality(InCall("w")')
    BY <1>1, <1>2, <1>3, <1>6 DEF PendingCounted, AddPending, TypeOK
  <2> QED
    BY <1>5, <2>1 DEF PendingCounted
<1>7. CASE m = "w"
  <2>1. pendingReaders' = Cardinality(InCall("r")') /\ pendingWriters' = Cardinality(InCall("w")')
    BY <1>1, <1>2, <1>3, <1>7 DEF PendingCounted, AddPending, TypeOK
  <2> QED
    BY <1>5, <2>1 DEF PendingCounted
<1> QED
  BY <1>6, <1>7

\* A thread in a call has been counted, so counting it off leaves a natural number.
LEMMA PendingPositive ==
  ASSUME IInv, NEW t \in Threads, pc[t] # "idle", AddPending(mode[t], -1)
  PROVE  pendingReaders' \in Nat /\ pendingWriters' \in Nat
<1>1. \A m \in {"r", "w"} : IsFiniteSet(InCall(m))
  BY RWLockAssumption, FS_Subset DEF InCall
<1>2. t \in InCall(mode[t]) /\ mode[t] \in {"r", "w"}
  BY DEF InCall, IInv, TypeOK
<1>3. CASE mode[t] = "r"
  <2>1. pendingReaders # 0
    BY <1>1, <1>2, <1>3, FS_EmptySet DEF IInv, PendingCounted
  <2> QED
    BY <1>3, <2>1 DEF AddPending, IInv, TypeOK
<1>4. CASE mode[t] = "w"
  <2>1. pendingWriters # 0
    BY <1>1, <1>2, <1>4, FS_EmptySet DEF IInv, PendingCounted
  <2> QED
    BY <1>4, <2>1 DEF AddPending, IInv, TypeOK
<1> QED
  BY <1>2, <1>3, <1>4

-----------------------------------------------------------------------------
LEMMA NextIInv == IInv /\ [Next]_vars => IInv'
<1> SUFFICES ASSUME IInv, [Next]_vars
             PROVE  IInv'
  OBVIOUS
<1> USE RWLockAssumption
<1>0. TypeOK
  BY DEF IInv
<1>1. ASSUME NEW t \in Threads, NEW m \in {"r", "w"},
             MayAsk(t, m), precondition(t, m), Grant(t, m),
             mode' = [mode EXCEPT ![t] = m],
             UNCHANGED <<pendingReaders, pendingWriters, pc, deadline>>
      PROVE  IInv'
  <2>1. /\ HoldersCounted' /\ Exclusion'
        /\ numLocks' \in Nat /\ writerThreadId' \in Threads \cup {NoThread}
        /\ held' \in [Threads -> 0 .. MaxHold]
    BY <1>1, GrantKeeps, Zenon DEF MayAsk
  <2>2. TypeOK'
    BY <1>0, <1>1, <2>1, Zenon DEF TypeOK
  <2>3. PendingCounted'
    BY <1>0, <1>1, <2>2, PendingKept DEF MayAsk, Grant, TypeOK
  <2> QED
    BY <2>1, <2>2, <2>3 DEF IInv
<1>2. ASSUME NEW t \in Threads, NEW m \in {"r", "w"}, TryLock(t, m)
      PROVE  IInv'
  BY <1>1, <1>2, Zenon DEF TryLock
<1>3. ASSUME NEW t \in Threads, NEW m \in {"r", "w"}, NEW limit \in Limits,
             LockCall(t, m, limit)
      PROVE  IInv'
  <2>1. CASE precondition(t, m)
    BY <1>1, <1>3, <2>1, Zenon DEF LockCall
  <2>2. CASE ~precondition(t, m)
    <3>1. /\ MayAsk(t, m) /\ AddPending(m, 1) /\ Goto(t, "waiting")
          /\ mode' = [mode EXCEPT ![t] = m]
          /\ deadline' = [deadline EXCEPT ![t] = limit]
          /\ UNCHANGED <<numLocks, writerThreadId, held>>
      BY <1>3, <2>2 DEF LockCall
    <3>2. TypeOK'
      BY <1>0, <3>1 DEF TypeOK, AddPending, Goto
    <3>3. HoldersCounted' /\ Exclusion'
      BY <1>0, <3>1, <3>2, HoldersKept DEF MayAsk, TypeOK
    <3>4. /\ Cardinality(InCall(m)') = Cardinality(InCall(m)) + 1
          /\ \A n \in {"r", "w"} \ {m} : InCall(n)' = InCall(n)
      BY <1>0, <3>1, <3>2, CallBegins DEF MayAsk, Goto, TypeOK
    <3>5. /\ pendingReaders' = Cardinality(InCall("r")')
          /\ pendingWriters' = Cardinality(InCall("w")')
      <4>1. CASE m = "r"
        BY <1>0, <3>1, <3>4, <4>1 DEF IInv, PendingCounted, AddPending
      <4>2. CASE m = "w"
        BY <1>0, <3>1, <3>4, <4>2 DEF IInv, PendingCounted, AddPending
      <4> QED
        BY <4>1, <4>2
    <3>6. \A u \in Threads : pc'[u] # "idle" => held'[u] < MaxHold
      BY <1>0, <3>1 DEF IInv, PendingCounted, MayAsk, Goto, TypeOK
    <3> QED
      BY <3>2, <3>3, <3>5, <3>6, Zenon DEF IInv, PendingCounted
  <2> QED
    BY <2>1, <2>2
<1>4. ASSUME NEW t \in Threads, pc[t] # "idle", AddPending(mode[t], -1),
             Goto(t, "idle"), deadline' = [deadline EXCEPT ![t] = "none"],
             UNCHANGED <<numLocks, writerThreadId, mode, held>>
      PROVE  IInv'
  <2>1. TypeOK'
    BY <1>0, <1>4, PendingPositive DEF TypeOK, Goto
  <2>2. PendingCounted'
    BY <1>4, <2>1, PendingEnds
  <2>3. HoldersCounted' /\ Exclusion'
    BY <1>0, <1>4, HoldersKept DEF TypeOK
  <2> QED
    BY <2>1, <2>2, <2>3 DEF IInv
<1>5. ASSUME NEW t \in Threads, Recheck(t)
      PROVE  IInv'
  <2>1. CASE ~precondition(t, mode[t]) /\ deadline[t] = "past"
    BY <1>4, <1>5, <2>1, Zenon DEF Recheck
  <2>2. CASE ~precondition(t, mode[t]) /\ deadline[t] # "past"
    <3>1. pc[t] = "awake" /\ Goto(t, "waiting") /\ UNCHANGED <<fields, deadline, held, mode>>
      BY <1>5, <2>2, Zenon DEF Recheck
    <3>2. TypeOK'
      BY <1>0, <3>1 DEF TypeOK, Goto, fields
    <3>3. HoldersCounted' /\ Exclusion'
      BY <1>0, <3>1, HoldersKept DEF TypeOK, fields
    <3>4. PendingCounted'
      BY <1>0, <3>1, <3>2, PendingKept DEF TypeOK, Goto, fields
    <3> QED
      BY <3>2, <3>3, <3>4 DEF IInv
  <2>3. CASE precondition(t, mode[t])
    <3>1. /\ pc[t] = "awake" /\ AddPending(mode[t], -1) /\ Grant(t, mode[t])
          /\ Goto(t, "idle") /\ deadline' = [deadline EXCEPT ![t] = "none"]
          /\ UNCHANGED mode
      BY <1>5, <2>3, Zenon DEF Recheck
    <3>2. /\ HoldersCounted' /\ Exclusion'
          /\ numLocks' \in Nat /\ writerThreadId' \in Threads \cup {NoThread}
          /\ held' \in [Threads -> 0 .. MaxHold]
      <4>1. PICK m \in {"r", "w"} : m = mode[t]
        BY <1>0 DEF TypeOK
      <4>2. held[t] < MaxHold /\ mode' = [mode EXCEPT ![t] = m]
        BY <1>0, <3>1, <4>1 DEF IInv, PendingCounted, TypeOK
      <4> QED
        BY <2>3, <3>1, <4>1, <4>2, GrantKeeps, Zenon
    <3>3. TypeOK'
      BY <1>0, <3>1, <3>2, PendingPositive, Zenon DEF TypeOK, Goto
    <3>4. PendingCounted'
      BY <1>0, <3>1, <3>3, PendingEnds DEF Grant, TypeOK
    <3> QED
      BY <3>2, <3>3, <3>4 DEF IInv
  <2> QED
    BY <2>1, <2>2, <2>3
<1>6. ASSUME NEW t \in Threads, GiveUp(t)
      PROVE  IInv'
  BY <1>4, <1>6, Zenon DEF GiveUp
<1>7. ASSUME NEW t \in Threads, Interrupted(t) \/ TimedOut(t) \/ Expire(t)
      PROVE  IInv'
  <2>1. TypeOK'
    BY <1>0, <1>7 DEF Interrupted, TimedOut, Expire, Waiting, Goto, fields, TypeOK
  <2>2. UNCHANGED <<fields, mode, held>>
    BY <1>7 DEF Interrupted, TimedOut, Expire
  <2>3. \A u \in Threads : pc'[u] = "idle" <=> pc[u] = "idle"
    BY <1>0, <1>7 DEF Interrupted, TimedOut, Expire, Waiting, Goto, TypeOK
  <2>4. HoldersCounted' /\ Exclusion'
    BY <1>0, <2>2, HoldersKept DEF TypeOK, fields
  <2>5. PendingCounted'
    BY <2>1, <2>2, <2>3, PendingKept DEF fields
  <2> QED
    BY <2>1, <2>4, <2>5 DEF IInv
<1>8. ASSUME NEW t \in Threads, Unlock(t)
      PROVE  IInv'
  <2>1. /\ pc[t] = "idle" /\ held[t] > 0 /\ numLocks > 0
        /\ writerThreadId \in {NoThread, t}
        /\ numLocks' = numLocks - 1
        /\ held' = [held EXCEPT ![t] = @ - 1]
        /\ writerThreadId' = IF numLocks = 1 THEN NoThread ELSE writerThreadId
        /\ UNCHANGED <<pendingReaders, pendingWriters, mode, deadline>>
    BY <1>8 DEF Unlock
  <2>2. /\ pc' \in [Threads -> {"idle", "waiting", "awake", "timedout"}]
        /\ \A u \in Threads : pc'[u] = "idle" <=> pc[u] = "idle"
    BY <1>0, <1>8 DEF Unlock, Pulse, Waiting, TypeOK
  <2>3. TypeOK'
    <3>1. held' \in [Threads -> 0 .. MaxHold]
      BY <1>0, <2>1 DEF TypeOK
    <3>2. numLocks' \in Nat /\ writerThreadId' \in Threads \cup {NoThread}
      BY <1>0, <2>1 DEF TypeOK
    <3> QED
      BY <1>0, <2>1, <2>2, <3>1, <3>2 DEF TypeOK
  <2>4. numLocks' = Cardinality(HoldsOf(held'))
    <3>1. held \in [Threads -> 0 .. MaxHold] /\ numLocks = Cardinality(HoldsOf(held))
      BY <1>0 DEF IInv, HoldersCounted, TypeOK
    <3>2. Cardinality(HoldsOf([held EXCEPT ![t] = @ - 1])) = Cardinality(HoldsOf(held)) - 1
      BY <2>1, <3>1, ReleaseOnce, Zenon
    <3> QED
      BY <2>1, <3>1, <3>2
  <2>5. \A u \in Threads : writerThreadId' = u <=> held'[u] > 0 /\ mode'[u] = "w"
    <3>1. CASE numLocks = 1
      <4>1. \A u \in Threads : held'[u] = 0
        <5>1. numLocks' = 0 /\ held' \in [Threads -> 0 .. MaxHold]
          BY <2>1, <2>3, <3>1 DEF TypeOK
        <5> QED
          BY <2>4, <5>1, NoHolds, Zenon
      <4> QED
        BY <2>1, <3>1, <4>1
    <3>2. CASE numLocks # 1 /\ writerThreadId = t
      <4>1. \A u \in Threads : u # t => held[u] = 0
        BY <1>0, <3>2 DEF IInv, HoldersCounted, Exclusion, TypeOK
      <4>2. held[t] # 1
        BY <1>0, <3>2, <4>1, OneHold DEF IInv, HoldersCounted, TypeOK
      <4> QED
        BY <1>0, <2>1, <3>2, <4>1, <4>2 DEF IInv, HoldersCounted, TypeOK
    <3>3. CASE numLocks # 1 /\ writerThreadId = NoThread
      BY <1>0, <2>1, <3>3 DEF IInv, HoldersCounted, TypeOK
    <3> QED
      BY <2>1, <3>1, <3>2, <3>3, Zenon
  <2>6. Exclusion'
    BY <1>0, <2>1 DEF IInv, Exclusion, TypeOK
  <2>7. PendingCounted'
    BY <1>0, <2>1, <2>2, <2>3, PendingKept DEF TypeOK
  <2> QED
    BY <2>3, <2>4, <2>5, <2>6, <2>7 DEF IInv, HoldersCounted
<1>9. CASE UNCHANGED vars
  <2>1. UNCHANGED <<fields, pc, mode, deadline, held>>
    BY <1>9 DEF vars
  <2>2. TypeOK'
    BY <1>0, <2>1 DEF TypeOK, fields
  <2>3. HoldersCounted' /\ Exclusion'
    BY <1>0, <2>1, HoldersKept DEF TypeOK, fields
  <2>4. PendingCounted'
    BY <2>1, <2>2, PendingKept DEF fields
  <2> QED
    BY <2>2, <2>3, <2>4 DEF IInv
<1> QED
  BY <1>2, <1>3, <1>5, <1>6, <1>7, <1>8, <1>9 DEF Next

LEMMA Invariance == Spec => []IInv
BY InitIInv, NextIInv, PTL DEF Spec

\* The fields keep their types: no pending counter and no lock count becomes negative.
THEOREM TypeCorrect == Spec => []TypeOK
<1>1. IInv => TypeOK
  BY DEF IInv
<1> QED
  BY <1>1, Invariance, PTL

\* A thread that holds the lock for writing is the only one that holds it.
THEOREM WriterAlone == Spec => []Exclusion
<1>1. IInv => Exclusion
  BY DEF IInv
<1> QED
  BY <1>1, Invariance, PTL

\* The lock's fields agree with who really waits for it and who holds it.
THEOREM FieldsExact == Spec => []PendingIsExact
<1>1. IInv => PendingIsExact
  BY NoHolds DEF IInv, TypeOK, PendingCounted, HoldersCounted, PendingIsExact
<1> QED
  BY <1>1, Invariance, PTL
==============================================================================
