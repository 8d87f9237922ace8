----------------------------- MODULE NormalMutex -----------------------------
(***************************************************************************)
(* Normal (non-recursive) mutexes of libc/bionic/pthread.c: _normal_lock,  *)
(* _normal_unlock, and the normal-type paths of pthread_mutex_trylock,     *)
(* pthread_mutex_lock_timeout_np, pthread_mutex_init and                   *)
(* pthread_mutex_destroy, over the futex system call they use.             *)
(*                                                                         *)
(* The mutex is the state field of its 32-bit value; the process-shared    *)
(* bit only selects the futex opcode and every operation writes it back    *)
(* as it was.  An action is one atomic instruction, one plain store, or    *)
(* one system call, together with the thread-local steps that follow it.   *)
(***************************************************************************)
EXTENDS LockThreads, Integers

(***************************************************************************)
(* The mutex states: 0 unlocked, 1 locked and no waiter, 2 locked and      *)
(* maybe waiters; pthread_mutex_destroy leaves 0xdead10cc, here Dead.      *)
(***************************************************************************)
Unlocked  == 0
Locked    == 1
Contended == 2
Dead      == 3

VARIABLES
  value,     \* mutex->value
  pc,        \* where each thread is
  deadline   \* of a lock call in its loop: "none", still "ahead", or "past"

vars == <<value, pc, deadline>>

Goto(t, label) == pc' = [pc EXCEPT ![t] = label]

Sleepers == {t \in Threads : pc[t] = "asleep"}

Waiting(t) == pc[t] \in {"swap", "clock", "wait", "asleep"}

Holds(t) == pc[t] \in {"held", "store", "destroy"}

(***************************************************************************)
(* The callers' discipline: a mutex is destroyed only when no other thread *)
(* is in a lock call or owns it; a thread may still be inside its unlock   *)
(* call, which the destroyer cannot see.  A mutex is not used while it is  *)
(* being destroyed and until it is initialised again.                      *)
(***************************************************************************)
Usable == value # Dead /\ \A u \in Threads : pc[u] # "destroy"

OthersDone(t) == \A u \in Threads \ {t} : pc[u] \in {"idle", "store", "wake"}

Init ==
  /\ value = Unlocked
  /\ pc = [t \in Threads |-> "idle"]
  /\ deadline = [t \in Threads |-> "none"]

-----------------------------------------------------------------------------
(***************************************************************************)
(* _normal_lock, and pthread_mutex_lock_timeout_np when limit = "ahead":   *)
(* the first compare-and-exchange, from unlocked to locked.                *)
(***************************************************************************)
Lock(t, limit) ==
  /\ pc[t] = "idle"
  /\ Usable
  /\ \/ /\ value = Unlocked
        /\ value' = Locked
        /\ Goto(t, "held")
        /\ UNCHANGED deadline
     \/ /\ value # Unlocked
        /\ Goto(t, "swap")
        /\ deadline' = [deadline EXCEPT ![t] = limit]
        /\ UNCHANGED value

\* Mutant of Swap: takes the mutex when the old value was locked, too.
SwapTakesLocked(t) ==
  /\ pc[t] = "swap"
  /\ value' = Contended
  /\ \/ /\ value \in {Unlocked, Locked}
        /\ Goto(t, "held")
        /\ deadline' = [deadline EXCEPT ![t] = "none"]
     \/ /\ value = Contended
        /\ Goto(t, IF deadline[t] = "none" THEN "wait" ELSE "clock")
        /\ UNCHANGED deadline

\* Mutant of Swap: a thread that slept takes the mutex in state 1, not 2.
SwapForgetsOthers(t) ==
  /\ pc[t] = "swap"
  /\ \/ /\ value = Unlocked
        /\ value' = Locked
        /\ Goto(t, "held")
        /\ deadline' = [deadline EXCEPT ![t] = "none"]
     \/ /\ value # Unlocked
        /\ value' = Contended
        /\ Goto(t, IF deadline[t] = "none" THEN "wait" ELSE "clock")
        /\ UNCHANGED deadline

(***************************************************************************)
(* The swap at the head of the loop marks the mutex contended, and takes   *)
(* it when the old value was unlocked.  A timed call that did not get it   *)
(* looks at the clock next.                                                *)
(***************************************************************************)
Swap(t) ==
  /\ pc[t] = "swap"
  /\ value' = Contended
  /\ \/ /\ value = Unlocked
        /\ Goto(t, "held")
        /\ deadline' = [deadline EXCEPT ![t] = "none"]
     \/ /\ value # Unlocked
        /\ Goto(t, IF deadline[t] = "none" THEN "wait" ELSE "clock")
        /\ UNCHANGED deadline

(***************************************************************************)
(* A timed call returns EBUSY once its limit has passed.                   *)
(***************************************************************************)
CheckClock(t) ==
  /\ pc[t] = "clock"
  /\ \/ /\ deadline[t] = "past"
        /\ Goto(t, "idle")
        /\ deadline' = [deadline EXCEPT ![t] = "none"]
     \/ /\ deadline[t] # "past"
        /\ Goto(t, "wait")
        /\ UNCHANGED deadline
  /\ UNCHANGED value

(***************************************************************************)
(* The futex wait system call: sleeps only if the value is still 2, and    *)
(* the loop goes round otherwise.                                          *)
(***************************************************************************)
FutexWait(t) ==
  /\ pc[t] = "wait"
  /\ Goto(t, IF value = Contended THEN "asleep" ELSE "swap")
  /\ UNCHANGED <<value, deadline>>

(***************************************************************************)
(* The kernel ends a sleep without a wake call: because of a signal, or    *)
(* because the time limit has passed.                                      *)
(***************************************************************************)
Interrupted(t) ==
  /\ pc[t] = "asleep"
  /\ Goto(t, "swap")
  /\ UNCHANGED <<value, deadline>>

TimedOut(t) ==
  /\ pc[t] = "asleep"
  /\ deadline[t] = "past"
  /\ Goto(t, "swap")
  /\ UNCHANGED <<value, deadline>>

(***************************************************************************)
(* The monotonic clock passes a time limit.                                *)
(***************************************************************************)
Expire(t) ==
  /\ deadline[t] = "ahead"
  /\ deadline' = [deadline EXCEPT ![t] = "past"]
  /\ UNCHANGED <<value, pc>>

\* Mutant of TryLock: a swap instead of a compare-and-exchange.
TryLockUnguarded(t) ==
  /\ pc[t] = "idle"
  /\ Usable
  /\ value' = Locked
  /\ Goto(t, "held")
  /\ UNCHANGED deadline

(***************************************************************************)
(* pthread_mutex_trylock: one compare-and-exchange; EBUSY when it fails.   *)
(***************************************************************************)
TryLock(t) ==
  /\ pc[t] = "idle"
  /\ Usable
  /\ value = Unlocked
  /\ value' = Locked
  /\ Goto(t, "held")
  /\ UNCHANGED deadline

\* Mutant of UnlockDec: frees the mutex at once, and stores 0 again later.
UnlockDecFrees(t) ==
  /\ pc[t] = "held"
  /\ value' = Unlocked
  /\ Goto(t, IF value = Locked THEN "idle" ELSE "store")
  /\ UNCHANGED deadline

\* Mutant of UnlockDec: frees the mutex without ever waking a sleeper.
UnlockDecSkipsWake(t) ==
  /\ pc[t] = "held"
  /\ value' = Unlocked
  /\ Goto(t, "idle")
  /\ UNCHANGED deadline

(***************************************************************************)
(* _normal_unlock.  The decrement frees an uncontended mutex.  From the    *)
(* contended state it leaves it locked; the store then frees it and one    *)
(* sleeping thread, if there is any, is woken.                             *)
(***************************************************************************)
UnlockDec(t) ==
  /\ pc[t] = "held"
  /\ value' = value - 1
  /\ Goto(t, IF value = Locked THEN "idle" ELSE "store")
  /\ UNCHANGED deadline

UnlockStore(t) ==
  /\ pc[t] = "store"
  /\ value' = Unlocked
  /\ Goto(t, "wake")
  /\ UNCHANGED deadline

UnlockWake(t) ==
  /\ pc[t] = "wake"
  /\ \/ /\ Sleepers = {}
        /\ Goto(t, "idle")
     \/ \E s \in Sleepers : pc' = [pc EXCEPT ![t] = "idle", ![s] = "swap"]
  /\ UNCHANGED <<value, deadline>>

(***************************************************************************)
(* pthread_mutex_destroy: a trylock, whose failure it returns, and then    *)
(* the store of the dead value.                                            *)
(***************************************************************************)
DestroyTryLock(t) ==
  /\ pc[t] = "idle"
  /\ Usable
  /\ OthersDone(t)
  /\ value = Unlocked
  /\ value' = Locked
  /\ Goto(t, "destroy")
  /\ UNCHANGED deadline

DestroyStore(t) ==
  /\ pc[t] = "destroy"
  /\ value' = Dead
  /\ Goto(t, "idle")
  /\ UNCHANGED deadline

(***************************************************************************)
(* pthread_mutex_init of a mutex that was destroyed.                       *)
(***************************************************************************)
MutexInit(t) ==
  /\ pc[t] = "idle"
  /\ value = Dead
  /\ value' = Unlocked
  /\ UNCHANGED <<pc, deadline>>

Next ==
  \E t \in Threads :
    \/ \E limit \in {"none", "ahead"} : Lock(t, limit)
    \/ Swap(t) \/ CheckClock(t) \/ FutexWait(t)
    \/ Interrupted(t) \/ TimedOut(t) \/ Expire(t)
    \/ TryLock(t)
    \/ UnlockDec(t) \/ UnlockStore(t) \/ UnlockWake(t)
    \/ DestroyTryLock(t) \/ DestroyStore(t) \/ MutexInit(t)

Spec == Init /\ [][Next]_vars

(***************************************************************************)
(* A thread inside a lock, unlock or destroy call is scheduled again, its  *)
(* time limits pass, and a thread that holds the mutex releases it.        *)
(* Nothing is assumed of signals, nor of threads calling lock again.       *)
(***************************************************************************)
Fairness ==
  \A t \in Threads :
    /\ WF_vars(Swap(t) \/ CheckClock(t) \/ FutexWait(t) \/ TimedOut(t))
    /\ WF_vars(Expire(t))
    /\ WF_vars(UnlockDec(t) \/ UnlockStore(t) \/ UnlockWake(t) \/ DestroyStore(t))

FairSpec == Spec /\ Fairness

-----------------------------------------------------------------------------
Labels == {"idle", "swap", "clock", "wait", "asleep", "held", "store", "wake",
           "destroy"}

\* Type invariant: the word has one of the three states or the dead value,
\* and only a call in its wait loop has a time limit.
TypeOK ==
  /\ value \in {Unlocked, Locked, Contended, Dead}
  /\ pc \in [Threads -> Labels]
  /\ deadline \in [Threads -> {"none", "ahead", "past"}]
  /\ \A t \in Threads : deadline[t] # "none" => Waiting(t)

\* Mutual exclusion: whatever mix of lock, trylock and timed lock the threads
\* use, at most one of them is past its lock call and not yet past the
\* releasing write of its unlock call.
MutualExclusion ==
  \A t, u \in Threads : Holds(t) /\ Holds(u) => t = u

\* "nobody is orphaned on the wait queue" (comment in _normal_unlock): while a
\* thread sleeps on the futex, either the word is 2, so that the next unlock
\* wakes somebody, or an unlock call has its wake call still to make, or an
\* awake thread is about to swap the 2 back in.
NoOrphan ==
  Sleepers # {} =>
    \/ value = Contended
    \/ \E t \in Threads : pc[t] \in {"store", "wake", "swap"}

\* The unlock call writes the word for the last time when it frees the mutex:
\* a thread that takes the mutex next may destroy it while the first thread is
\* still in its unlock call, and the dead value is then not overwritten.
DestroyedUntouched ==
  [][value = Dead => UNCHANGED value \/ \E t \in Threads : MutexInit(t)]_vars

\* While somebody waits, the mutex is always taken again after it is released,
\* unless the waiters leave because their time limits pass.
Progress ==
  (\E t \in Threads : Waiting(t)) ~>
    (\/ \E t \in Threads : Holds(t)
     \/ \A t \in Threads : ~Waiting(t))

\* pthread_mutex_lock_timeout_np returns once its limit has passed, with the
\* mutex or with EBUSY, however the other threads behave.
TimedLockReturns ==
  \A t \in Threads : deadline[t] = "past" ~> ~Waiting(t)

(***************************************************************************)
(* The abstract lock it implements: its owner is the thread that holds.    *)
(***************************************************************************)
Owner == IF \E t \in Threads : Holds(t)
           THEN CHOOSE t \in Threads : Holds(t)
           ELSE NoOwner

AL == INSTANCE AbstractLock WITH owner <- Owner

\* The word, futex and loop together implement an abstract lock: every step of
\* every thread leaves the owner alone, hands a free mutex to one thread, or
\* is the owner's release.
ImplementsLock == AL!Spec
=============================================================================
