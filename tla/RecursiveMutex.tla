--------------------------- MODULE RecursiveMutex ---------------------------
(***************************************************************************)
(* Recursive and error-checking mutexes of libc/bionic/pthread.c: the      *)
(* paths of pthread_mutex_lock, _trylock, _lock_timeout_np, _unlock,       *)
(* _destroy and _init for these two types.                                 *)
(*                                                                         *)
(* The owner, counter and state fields of mutex->value change only inside  *)
(* a critical section of the process-wide __recursive_lock, a normal       *)
(* mutex, so a section is one action (NormalMutex implements an abstract   *)
(* lock).  The test "tid == MUTEX_OWNER(mutex)" before a section is made   *)
(* with it: only the thread itself makes it true or false.                 *)
(***************************************************************************)
EXTENDS RecursiveFields

VARIABLES
  value,     \* mutex->value: its owner, counter and state fields
  pc,        \* where each thread is
  new,       \* new_lock_type of a thread in the lock loop, else 1
  oldv,      \* the value a thread is about to give to the futex call, else Free
  deadline,  \* of a lock call in its loop: "none", still "ahead", or "past"
  depth,     \* lock calls less unlock calls that succeeded since the mutex was
             \* initialised, as callers count
  wrapped    \* the threads whose lock calls have made the counter overflow since then

vars == <<value, pc, new, oldv, deadline, depth, wrapped>>

Free == [owner |-> NoOwner, counter |-> 0, state |-> 0]
Dead == [owner |-> NoOwner, counter |-> 0, state |-> 3]

Goto(t, label) == pc' = [pc EXCEPT ![t] = label]

Sleepers == {t \in Threads : pc[t] = "asleep"}

Waiting(t) == pc[t] \in {"try", "clock", "wait", "asleep"}

Init ==
  /\ value = Free
  /\ pc = [t \in Threads |-> "idle"]
  /\ new = [t \in Threads |-> 1]
  /\ oldv = [t \in Threads |-> Free]
  /\ deadline = [t \in Threads |-> "none"]
  /\ depth = [t \in Threads |-> 0]
  /\ wrapped = {}

-----------------------------------------------------------------------------
(***************************************************************************)
(* pthread_mutex_lock, _lock_timeout_np and _trylock by the owner: an      *)
(* error-checking mutex answers EDEADLK and nothing changes; a recursive   *)
(* one counts the call, in 11 bits.                                        *)
(***************************************************************************)
Relock(t) ==
  /\ pc[t] = "idle"
  /\ value.owner = t
  /\ Type = "recursive"
  /\ depth[t] < MaxDepth
  /\ value' = [value EXCEPT !.counter = (@ + 1) % CounterSize]
  /\ depth' = [depth EXCEPT ![t] = @ + 1]
  /\ wrapped' = IF value.counter + 1 = CounterSize THEN wrapped \cup {t} ELSE wrapped
  /\ UNCHANGED <<pc, new, oldv, deadline>>

(***************************************************************************)
(* A lock call by another thread enters the loop with new_lock_type = 1.   *)
(***************************************************************************)
Lock(t, limit) ==
  /\ pc[t] = "idle"
  /\ value # Dead
  /\ value.owner # t
  /\ depth[t] < MaxDepth
  /\ Goto(t, "try")
  /\ deadline' = [deadline EXCEPT ![t] = limit]
  /\ UNCHANGED <<value, new, oldv, depth, wrapped>>

(***************************************************************************)
(* One pass of the loop up to the futex call: take a free mutex, or mark a *)
(* locked one contended and remember that others may be waiting.           *)
(***************************************************************************)
Try(t) ==
  /\ pc[t] = "try"
  /\ \/ /\ value = Free
        /\ value' = [owner |-> t, counter |-> 0, state |-> new[t]]
        /\ Goto(t, "idle")
        /\ depth' = [depth EXCEPT ![t] = @ + 1]
        /\ deadline' = [deadline EXCEPT ![t] = "none"]
        /\ new' = [new EXCEPT ![t] = 1]
        /\ UNCHANGED oldv
     \/ /\ value # Free
        /\ value' = [value EXCEPT !.state = IF @ = 1 THEN 2 ELSE @]
        /\ oldv' = [oldv EXCEPT ![t] = value']
        /\ new' = [new EXCEPT ![t] = 2]
        /\ Goto(t, IF deadline[t] = "none" THEN "wait" ELSE "clock")
        /\ UNCHANGED <<deadline, depth>>
  /\ UNCHANGED wrapped

CheckClock(t) ==
  /\ pc[t] = "clock"
  /\ \/ /\ deadline[t] = "past"
        /\ Goto(t, "idle")
        /\ deadline' = [deadline EXCEPT ![t] = "none"]
        /\ new' = [new EXCEPT ![t] = 1]
        /\ oldv' = [oldv EXCEPT ![t] = Free]
     \/ /\ deadline[t] # "past"
        /\ Goto(t, "wait")
        /\ UNCHANGED <<new, oldv, deadline>>
  /\ UNCHANGED <<value, depth, wrapped>>

(***************************************************************************)
(* The futex call compares the whole value, owner and counter included.    *)
(***************************************************************************)
FutexWait(t) ==
  /\ pc[t] = "wait"
  /\ Goto(t, IF value = oldv[t] THEN "asleep" ELSE "try")
  /\ oldv' = [oldv EXCEPT ![t] = Free]
  /\ UNCHANGED <<value, new, deadline, depth, wrapped>>

Interrupted(t) ==
  /\ pc[t] = "asleep"
  /\ Goto(t, "try")
  /\ UNCHANGED <<value, new, oldv, deadline, depth, wrapped>>

TimedOut(t) ==
  /\ pc[t] = "asleep"
  /\ deadline[t] = "past"
  /\ Goto(t, "try")
  /\ UNCHANGED <<value, new, oldv, deadline, depth, wrapped>>

Expire(t) ==
  /\ deadline[t] = "ahead"
  /\ deadline' = [deadline EXCEPT ![t] = "past"]
  /\ UNCHANGED <<value, pc, new, oldv, depth, wrapped>>

(***************************************************************************)
(* pthread_mutex_trylock by a thread that is not the owner; EBUSY when the *)
(* mutex is not free.                                                      *)
(***************************************************************************)
TryLock(t) ==
  /\ pc[t] = "idle"
  /\ value = Free
  /\ depth[t] < MaxDepth
  /\ value' = [owner |-> t, counter |-> 0, state |-> 1]
  /\ depth' = [depth EXCEPT ![t] = @ + 1]
  /\ UNCHANGED <<pc, new, oldv, deadline, wrapped>>

\* Mutant of Unlock: frees the mutex however often it was locked.
UnlockAtOnce(t) ==
  /\ pc[t] = "idle"
  /\ value.owner = t
  /\ value' = Free
  /\ Goto(t, IF value.state = 2 THEN "wake" ELSE "idle")
  /\ depth' = [depth EXCEPT ![t] = @ - 1]
  /\ UNCHANGED <<new, oldv, deadline, wrapped>>

(***************************************************************************)
(* pthread_mutex_unlock: EPERM unless the caller is the owner; undoes one  *)
(* lock call or frees the mutex, which wakes a sleeper if it was contended.*)
(***************************************************************************)
Unlock(t) ==
  /\ pc[t] = "idle"
  /\ value.owner = t
  /\ \/ /\ value.counter # 0
        /\ value' = [value EXCEPT !.counter = @ - 1]
        /\ UNCHANGED pc
     \/ /\ value.counter = 0
        /\ value' = Free
        /\ Goto(t, IF value.state = 2 THEN "wake" ELSE "idle")
  /\ depth' = [depth EXCEPT ![t] = @ - 1]
  /\ UNCHANGED <<new, oldv, deadline, wrapped>>

UnlockWake(t) ==
  /\ pc[t] = "wake"
  /\ \/ /\ Sleepers = {}
        /\ Goto(t, "idle")
     \/ \E s \in Sleepers : pc' = [pc EXCEPT ![t] = "idle", ![s] = "try"]
  /\ UNCHANGED <<value, new, oldv, deadline, depth, wrapped>>

(***************************************************************************)
(* pthread_mutex_destroy: a trylock, then the store of the dead value.     *)
(* The trylock succeeds on a free mutex, and on a recursive one that the   *)
(* caller owns; its other results, EBUSY and EDEADLK, are returned.  The   *)
(* callers' discipline is that of NormalMutex: no other thread is in a     *)
(* lock call or owns the mutex.                                            *)
(***************************************************************************)
Destroy(t) ==
  /\ pc[t] = "idle"
  /\ \A u \in Threads \ {t} : ~Waiting(u)
  /\ value = Free \/ (value.owner = t /\ Type = "recursive")
  /\ value' = Dead
  /\ UNCHANGED <<pc, new, oldv, deadline, depth, wrapped>>

MutexInit(t) ==
  /\ pc[t] = "idle"
  /\ value = Dead
  /\ value' = Free
  /\ depth' = [u \in Threads |-> 0]
  /\ wrapped' = {}
  /\ UNCHANGED <<pc, new, oldv, deadline>>

Next ==
  \E t \in Threads :
    \/ Relock(t)
    \/ \E limit \in {"none", "ahead"} : Lock(t, limit)
    \/ Try(t) \/ CheckClock(t) \/ FutexWait(t)
    \/ Interrupted(t) \/ TimedOut(t) \/ Expire(t)
    \/ TryLock(t) \/ Unlock(t) \/ UnlockWake(t)
    \/ Destroy(t) \/ MutexInit(t)

Spec == Init /\ [][Next]_vars

-----------------------------------------------------------------------------
Values == [owner : Threads \cup {NoOwner}, counter : 0 .. CounterSize - 1,
           state : 0 .. 3]

\* Type invariant of the three fields and of the threads' local variables.
TypeOK ==
  /\ value \in Values
  /\ pc \in [Threads -> {"idle", "try", "clock", "wait", "asleep", "wake"}]
  /\ new \in [Threads -> {1, 2}]
  /\ oldv \in [Threads -> Values]
  /\ deadline \in [Threads -> {"none", "ahead", "past"}]
  /\ depth \in [Threads -> Nat] /\ wrapped \subseteq Threads
  /\ \A t \in Threads : deadline[t] # "none" => Waiting(t)

\* The fields agree with what the callers have done: exactly the thread with
\* lock calls to undo is the owner, and the counter is the number of its lock
\* calls but one, until an owner locks it more often than the counter field can
\* tell or the mutex is destroyed.  Even then it is never held for longer than the
\* owner has lock calls to undo.
OwnerCountsDepth ==
  /\ value # Dead /\ wrapped = {} =>
       \A t \in Threads :
         /\ depth[t] > 0 <=> value.owner = t
         /\ depth[t] > 0 => value.counter = depth[t] - 1
  /\ \A t \in Threads : value.owner = t => value.counter < depth[t]

\* "use trylock to ensure that the mutex value is valid and is not already locked"
\* (pthread_mutex_destroy): a destroyed mutex is one that no thread has locked.
DestroyedUnlocked ==
  value = Dead => \A t \in Threads : depth[t] = 0

\* While a thread sleeps on the futex, the state is 2, or a wake call is still
\* to come, or an awake thread in the loop will lock with state 2.
NoOrphan ==
  Sleepers # {} =>
    \/ value.state = 2
    \/ \E t \in Threads : pc[t] = "wake" \/ (pc[t] = "try" /\ new[t] = 2)

\* A thread never waits for a mutex it owns itself: an error-checking mutex
\* answers EDEADLK and a recursive one counts, at every point of the loop.
OwnerNeverWaits ==
  \A t \in Threads : value.owner = t => ~Waiting(t)

AL == INSTANCE AbstractLock WITH owner <- value.owner

\* Seen through its owner field the mutex is an abstract lock: taken only when
\* free, given back only by its owner, whatever EPERM and EDEADLK refuse.
ImplementsLock == AL!Spec
=============================================================================
