------------------------------- MODULE CondVar -------------------------------
(***************************************************************************)
(* Condition variables of libc/bionic/pthread.c, with the mutex their      *)
(* callers use, which is an abstract lock.  value is the counter in the    *)
(* upper 31 bits of cond->value; the shared bit is left out.               *)
(*                                                                         *)
(* A wait call reads the counter, unlocks the mutex, sleeps in a futex     *)
(* call while the counter is still what it read, and locks the mutex       *)
(* again.  A pulse (signal or broadcast) decrements the counter and then   *)
(* wakes sleepers; its caller may hold the mutex or not.                   *)
(***************************************************************************)
EXTENDS BlockingCalls, Integers

CONSTANTS
  NoOwner,
  CounterSize   \* values of the counter: 2^31 in the code

ASSUME CondVarAssumption ==
  /\ NoOwner \notin Threads
  /\ CounterSize \in Nat \ {0, 1}

VARIABLES
  value,      \* the counter of cond->value; CounterSize once destroyed
  owner,      \* owner of the mutex
  oldvalue,   \* the counter a thread has read and not yet compared, else 0
  number,     \* how many threads a pulse wakes: "one" or "all"
  called,     \* waiters for which a broadcast has been made since they began
  targets     \* per pulse, the threads that were waiting when it decremented

condVars == <<value, owner, pc, oldvalue, deadline, number, called, targets>>

Destroyed == CounterSize

\* Where a call made without blocking returns to.
Caller(t) == IF owner = t THEN "locked" ELSE "idle"

CondSleepers == {t \in Threads : pc[t] = "oncond"}

\* A thread that has read the counter and not yet compared it.
InWindow(t) == pc[t] \in {"unlock", "wait"}

CondWaiting(t) == InWindow(t) \/ pc[t] = "oncond"

CondInitial ==
  /\ value = 0
  /\ owner = NoOwner
  /\ pc = [t \in Threads |-> "idle"]
  /\ oldvalue = [t \in Threads |-> 0]
  /\ deadline = [t \in Threads |-> "none"]
  /\ number = [t \in Threads |-> "one"]
  /\ called = {}
  /\ targets = [t \in Threads |-> {}]

-----------------------------------------------------------------------------
\* The callers' use of the mutex.
MutexLock(t) ==
  /\ pc[t] = "idle"
  /\ owner = NoOwner
  /\ owner' = t
  /\ Goto(t, "locked")
  /\ UNCHANGED <<value, oldvalue, deadline, number, called, targets>>

MutexUnlock(t) ==
  /\ pc[t] = "locked"
  /\ owner' = NoOwner
  /\ Goto(t, "idle")
  /\ UNCHANGED <<value, oldvalue, deadline, number, called, targets>>

\* Mutant of WaitUnlock: the counter is read after the mutex was unlocked.
WaitUnlockRereads(t) ==
  /\ pc[t] = "unlock"
  /\ owner' = NoOwner
  /\ oldvalue' = [oldvalue EXCEPT ![t] = value]
  /\ Goto(t, "wait")
  /\ UNCHANGED <<value, deadline, number, called, targets>>

(***************************************************************************)
(* pthread_cond_wait and the timed variants.  A time limit that has passed *)
(* already makes them return ETIMEDOUT with the mutex still locked, which  *)
(* changes nothing.                                                        *)
(***************************************************************************)
WaitRead(t, limit) ==
  /\ pc[t] = "locked"
  /\ value # Destroyed
  /\ oldvalue' = [oldvalue EXCEPT ![t] = value]
  /\ deadline' = [deadline EXCEPT ![t] = limit]
  /\ called' = called \ {t}
  /\ Goto(t, "unlock")
  /\ UNCHANGED <<value, owner, number, targets>>

\* Mutant of FutexWait: sleeps without comparing the counter.
FutexWaitAlways(t) ==
  /\ pc[t] = "wait"
  /\ Goto(t, "oncond")
  /\ oldvalue' = [oldvalue EXCEPT ![t] = 0]
  /\ UNCHANGED <<value, owner, deadline, number, called, targets>>

WaitUnlock(t) ==
  /\ pc[t] = "unlock"
  /\ owner' = NoOwner
  /\ Goto(t, "wait")
  /\ UNCHANGED <<value, oldvalue, deadline, number, called, targets>>

CondFutexWait(t) ==
  /\ pc[t] = "wait"
  /\ Goto(t, IF value = oldvalue[t] THEN "oncond" ELSE "relock")
  /\ oldvalue' = [oldvalue EXCEPT ![t] = 0]
  /\ UNCHANGED <<value, owner, deadline, number, called, targets>>

\* A signal handler ran, or the time limit passed: the wait call returns.
CondInterrupted(t) ==
  /\ pc[t] = "oncond"
  /\ Goto(t, "relock")
  /\ UNCHANGED <<value, owner, oldvalue, deadline, number, called, targets>>

CondTimedOut(t) ==
  /\ pc[t] = "oncond"
  /\ deadline[t] = "past"
  /\ Goto(t, "relock")
  /\ UNCHANGED <<value, owner, oldvalue, deadline, number, called, targets>>

CondExpire(t) ==
  /\ deadline[t] = "ahead"
  /\ pc[t] = "oncond"
  /\ deadline' = [deadline EXCEPT ![t] = "past"]
  /\ UNCHANGED <<value, owner, pc, oldvalue, number, called, targets>>

WaitRelock(t) ==
  /\ pc[t] = "relock"
  /\ owner = NoOwner
  /\ owner' = t
  /\ deadline' = [deadline EXCEPT ![t] = "none"]
  /\ called' = called \ {t}
  /\ Goto(t, "locked")
  /\ UNCHANGED <<value, oldvalue, number, targets>>

\* Mutant of PulseDec: the pulse only wakes and does not count.
PulseDecNothing(t, n) ==
  /\ pc[t] \in {"idle", "locked"}
  /\ value # Destroyed
  /\ number' = [number EXCEPT ![t] = n]
  /\ called' = IF n = "all" THEN called \cup {u \in Threads : CondWaiting(u)} ELSE called
  /\ targets' = [targets EXCEPT ![t] = {u \in Threads : CondWaiting(u)}]
  /\ Goto(t, "wake")
  /\ UNCHANGED <<value, owner, oldvalue, deadline>>

(***************************************************************************)
(* __pthread_cond_pulse.  The bound on a pulse is the known limit of the   *)
(* design (comment at COND_COUNTER_MASK): while a thread is between        *)
(* reading the counter and the futex call, the counter must not run        *)
(* through all its values.                                                 *)
(***************************************************************************)
Behind(t) == (oldvalue[t] - value) % CounterSize

PulseDec(t, n) ==
  /\ pc[t] \in {"idle", "locked"}
  /\ value # Destroyed
  /\ \A u \in Threads : InWindow(u) => Behind(u) < CounterSize - 1
  /\ value' = (value - 1) % CounterSize
  /\ number' = [number EXCEPT ![t] = n]
  /\ called' = IF n = "all" THEN called \cup {u \in Threads : CondWaiting(u)} ELSE called
  /\ targets' = [targets EXCEPT ![t] = {u \in Threads : CondWaiting(u)}]
  /\ Goto(t, "wake")
  /\ UNCHANGED <<owner, oldvalue, deadline>>

\* The outcomes of a futex wake call by t: the sets of threads it wakes.
Woken(n) ==
  IF n = "all" THEN {CondSleepers}
  ELSE IF CondSleepers = {} THEN {{}} ELSE {{s} : s \in CondSleepers}

PulseWake(t) ==
  /\ pc[t] = "wake"
  /\ \E W \in Woken(number[t]) :
       pc' = [u \in Threads |-> IF u = t THEN Caller(t)
                                ELSE IF u \in W THEN "relock" ELSE pc[u]]
  /\ targets' = [targets EXCEPT ![t] = {}]
  /\ number' = [number EXCEPT ![t] = "one"]
  /\ UNCHANGED <<value, owner, oldvalue, deadline, called>>

(***************************************************************************)
(* pthread_cond_destroy and pthread_cond_init; the callers destroy it only *)
(* when no thread waits on it or pulses it.                                *)
(***************************************************************************)
CondDestroy(t) ==
  /\ pc[t] \in {"idle", "locked"}
  /\ \A u \in Threads : ~CondWaiting(u) /\ pc[u] # "wake"
  /\ value # Destroyed
  /\ value' = Destroyed
  /\ UNCHANGED <<owner, pc, oldvalue, deadline, number, called, targets>>

CondInit(t) ==
  /\ pc[t] \in {"idle", "locked"}
  /\ value = Destroyed
  /\ value' = 0
  /\ UNCHANGED <<owner, pc, oldvalue, deadline, number, called, targets>>

CondNext ==
  \E t \in Threads :
    \/ MutexLock(t) \/ MutexUnlock(t)
    \/ \E limit \in {"none", "ahead"} : WaitRead(t, limit)
    \/ WaitUnlock(t) \/ CondFutexWait(t) \/ WaitRelock(t)
    \/ CondInterrupted(t) \/ CondTimedOut(t) \/ CondExpire(t)
    \/ \E n \in {"one", "all"} : PulseDec(t, n)
    \/ PulseWake(t)
    \/ CondDestroy(t) \/ CondInit(t)

CondSpec == CondInitial /\ [][CondNext]_condVars

\* The steps of a thread inside a wait or pulse call that wait for nobody else.
CondStep(t) == WaitUnlock(t) \/ CondFutexWait(t) \/ CondTimedOut(t) \/ PulseWake(t)

(***************************************************************************)
(* A thread inside such a call is scheduled again.  Nothing is assumed of  *)
(* the mutex: an owner may keep it, and others may be first to lock it.    *)
(***************************************************************************)
CondFairness == \A t \in Threads : WF_condVars(CondStep(t))

FairCondSpec == CondSpec /\ CondFairness

-----------------------------------------------------------------------------
\* Type invariant; a thread at "locked" or about to unlock owns the mutex.
CondTypeOK ==
  /\ value \in 0 .. CounterSize
  /\ owner \in Threads \cup {NoOwner}
  /\ pc \in [Threads -> {"idle", "locked", "unlock", "wait", "oncond", "relock",
                         "wake"}]
  /\ oldvalue \in [Threads -> 0 .. CounterSize - 1]
  /\ deadline \in [Threads -> {"none", "ahead", "past"}]
  /\ number \in [Threads -> {"one", "all"}]
  /\ called \subseteq Threads
  /\ targets \in [Threads -> SUBSET Threads]
  /\ \A t \in Threads : pc[t] \in {"locked", "unlock"} => owner = t

\* No broadcast is missed: a thread that had read the counter when a broadcast
\* decremented it will find the counter changed, or is asleep and that
\* broadcast's wake call is still to come.
NoMissedBroadcast ==
  \A t \in called :
    /\ InWindow(t) => oldvalue[t] # value
    /\ pc[t] = "oncond" =>
         \E u \in Threads : pc[u] = "wake" /\ number[u] = "all" /\ t \in targets[u]

\* The thread will sleep, or sleeps.
Blocked(t) == pc[t] = "oncond" \/ (InWindow(t) /\ oldvalue[t] = value)

\* A signal or broadcast made with the mutex held unblocks at least one of the
\* threads that were waiting: no thread that begins to wait between the
\* decrement and the wake call can take the wake-up away from them.
SignalDelivered ==
  [][\A t \in Threads :
       pc[t] = "wake" /\ pc'[t] # "wake" /\ owner = t /\ targets[t] # {} =>
         \E u \in targets[t] : ~Blocked(u)']_condVars

\* Every thread that was waiting when a broadcast was made is released: it leaves
\* its sleep, or does not begin it, and goes on to lock the mutex again, however
\* the broadcast and the steps of its wait call interleave.
BroadcastReleases ==
  \A t \in Threads : t \in called ~> ~CondWaiting(t)
=============================================================================
