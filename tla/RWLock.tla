------------------------------- MODULE RWLock -------------------------------
(***************************************************************************)
(* Read/write locks of libc/bionic/pthread-rwlocks.c.                      *)
(*                                                                         *)
(* Every operation works inside the lock's own mutex, so the part of a     *)
(* call up to its return or to the wait on the condition variable is one   *)
(* action.  The condition variable is used only inside the mutex and only  *)
(* with broadcast; as CondVar shows, a broadcast then makes every thread   *)
(* that waits return from its wait.  Destroying and initialising a lock    *)
(* nobody uses leaves all fields 0, as they are.                           *)
(***************************************************************************)
EXTENDS BlockingCalls, Integers, FiniteSets

CONSTANTS
  NoThread,
  Writers,   \* threads that ask for the write lock
  Limits,    \* "none": calls without a time limit, "ahead": with one
  MaxHold    \* bound: how often a thread holds the lock at a time

ASSUME RWLockAssumption ==
  /\ IsFiniteSet(Threads)
  /\ NoThread \notin Threads
  /\ Writers \subseteq Threads
  /\ Limits \subseteq {"none", "ahead"}
  /\ MaxHold \in Nat \ {0}

VARIABLES
  numLocks, pendingReaders, pendingWriters, writerThreadId,
  mode,      \* "r" or "w": what a thread asks for or holds
  held       \* how often each thread holds the lock, as callers count

\* pc is "idle" or, in a lock call, "waiting" on the condition variable, or "awake" or
\* "timedout" and about to lock the mutex again.

fields == <<numLocks, pendingReaders, pendingWriters, writerThreadId>>
vars == <<fields, pc, mode, deadline, held>>

Init ==
  /\ numLocks = 0
  /\ pendingReaders = 0
  /\ pendingWriters = 0
  /\ writerThreadId = NoThread
  /\ pc = [t \in Threads |-> "idle"]
  /\ mode = [t \in Threads |-> "r"]
  /\ deadline = [t \in Threads |-> "none"]
  /\ held = [t \in Threads |-> 0]

Waiting(t) == pc[t] = "waiting"

\* Mutant of read_precondition: no writer bias.
read_preconditionUnbiased(t) == writerThreadId \in {NoThread, t}

\* Mutant of write_precondition: looks for a writer only.
write_preconditionNoReaders(t) == writerThreadId \in {NoThread, t}

read_precondition(t) ==
  pendingWriters = 0 /\ writerThreadId \in {NoThread, t}

write_precondition(t) == numLocks = 0 \/ writerThreadId = t

precondition(t, m) == IF m = "r" THEN read_precondition(t) ELSE write_precondition(t)

\* What taking the lock does to the fields that count holders.
Grant(t, m) ==
  /\ numLocks' = numLocks + 1
  /\ writerThreadId' = IF m = "w" THEN t ELSE writerThreadId
  /\ held' = [held EXCEPT ![t] = @ + 1]

AddPending(m, n) ==
  /\ pendingReaders' = IF m = "r" THEN pendingReaders + n ELSE pendingReaders
  /\ pendingWriters' = IF m = "w" THEN pendingWriters + n ELSE pendingWriters

(***************************************************************************)
(* The callers: a thread that holds the lock asks for it only in the same  *)
(* mode (anything else is undefined), and only Writers ask for writing.    *)
(***************************************************************************)
MayAsk(t, m) ==
  /\ pc[t] = "idle"
  /\ held[t] < MaxHold
  /\ held[t] > 0 => mode[t] = m
  /\ m = "w" => t \in Writers

-----------------------------------------------------------------------------
(***************************************************************************)
(* pthread_rwlock_timedrdlock and _timedwrlock (rdlock and wrlock are      *)
(* calls without a limit) up to their return or their first wait.  A limit *)
(* that is past already makes the call return and changes nothing.         *)
(***************************************************************************)
LockCall(t, m, limit) ==
  /\ MayAsk(t, m)
  /\ mode' = [mode EXCEPT ![t] = m]
  /\ \/ /\ precondition(t, m)
        /\ Grant(t, m)
        /\ UNCHANGED <<pendingReaders, pendingWriters, pc, deadline>>
     \/ /\ ~precondition(t, m)
        /\ AddPending(m, 1)
        /\ Goto(t, "waiting")
        /\ deadline' = [deadline EXCEPT ![t] = limit]
        /\ UNCHANGED <<numLocks, writerThreadId, held>>

(***************************************************************************)
(* The loop after a wait that returned 0: take the lock, or wait again,    *)
(* which fails at once if the limit has passed.                            *)
(***************************************************************************)
Recheck(t) ==
  /\ pc[t] = "awake"
  /\ \/ /\ precondition(t, mode[t])
        /\ AddPending(mode[t], -1)
        /\ Grant(t, mode[t])
        /\ Goto(t, "idle")
        /\ deadline' = [deadline EXCEPT ![t] = "none"]
     \/ /\ ~precondition(t, mode[t])
        /\ deadline[t] # "past"
        /\ Goto(t, "waiting")
        /\ UNCHANGED <<fields, deadline, held>>
     \/ /\ ~precondition(t, mode[t])
        /\ deadline[t] = "past"
        /\ AddPending(mode[t], -1)
        /\ Goto(t, "idle")
        /\ deadline' = [deadline EXCEPT ![t] = "none"]
        /\ UNCHANGED <<numLocks, writerThreadId, held>>
  /\ UNCHANGED mode

\* Mutant of GiveUp: ETIMEDOUT is returned from inside the loop.
GiveUpStillPending(t) ==
  /\ pc[t] = "timedout"
  /\ Goto(t, "idle")
  /\ deadline' = [deadline EXCEPT ![t] = "none"]
  /\ UNCHANGED <<fields, mode, held>>

(***************************************************************************)
(* A wait that returned ETIMEDOUT ends the call.                           *)
(***************************************************************************)
GiveUp(t) ==
  /\ pc[t] = "timedout"
  /\ AddPending(mode[t], -1)
  /\ Goto(t, "idle")
  /\ deadline' = [deadline EXCEPT ![t] = "none"]
  /\ UNCHANGED <<numLocks, writerThreadId, mode, held>>

\* The wait returns without a broadcast: after a signal, or with the limit.
Interrupted(t) ==
  /\ Waiting(t)
  /\ Goto(t, "awake")
  /\ UNCHANGED <<fields, mode, deadline, held>>

TimedOut(t) ==
  /\ Waiting(t)
  /\ deadline[t] = "past"
  /\ Goto(t, "timedout")
  /\ UNCHANGED <<fields, mode, deadline, held>>

Expire(t) ==
  /\ deadline[t] = "ahead"
  /\ deadline' = [deadline EXCEPT ![t] = "past"]
  /\ UNCHANGED <<fields, pc, mode, held>>

\* pthread_rwlock_tryrdlock and _trywrlock; EBUSY changes nothing.
TryLock(t, m) ==
  /\ MayAsk(t, m)
  /\ precondition(t, m)
  /\ Grant(t, m)
  /\ mode' = [mode EXCEPT ![t] = m]
  /\ UNCHANGED <<pendingReaders, pendingWriters, pc, deadline>>

(***************************************************************************)
(* _pthread_rwlock_pulse: everybody who waits returns from the wait.       *)
(***************************************************************************)
Pulse ==
  pc' = IF pendingReaders > 0 \/ pendingWriters > 0
          THEN [t \in Threads |-> IF Waiting(t) THEN "awake" ELSE pc[t]]
          ELSE pc

(***************************************************************************)
(* pthread_rwlock_unlock by a thread that holds the lock.                  *)
(***************************************************************************)
Unlock(t) ==
  /\ pc[t] = "idle"
  /\ held[t] > 0
  /\ numLocks > 0
  /\ writerThreadId \in {NoThread, t}
  /\ numLocks' = numLocks - 1
  /\ held' = [held EXCEPT ![t] = @ - 1]
  /\ \/ /\ numLocks = 1
        /\ writerThreadId' = NoThread
        /\ Pulse
     \/ /\ numLocks # 1
        /\ UNCHANGED <<writerThreadId, pc>>
  /\ UNCHANGED <<pendingReaders, pendingWriters, mode, deadline>>

Next ==
  \E t \in Threads :
    \/ \E m \in {"r", "w"} : TryLock(t, m) \/ \E limit \in Limits : LockCall(t, m, limit)
    \/ Recheck(t) \/ GiveUp(t)
    \/ Interrupted(t) \/ TimedOut(t) \/ Expire(t)
    \/ Unlock(t)

Spec == Init /\ [][Next]_vars

\* The steps of a thread inside a lock call.
RWStep(t) == Recheck(t) \/ GiveUp(t) \/ TimedOut(t)

(***************************************************************************)
(* A thread in a lock call is scheduled again and gets the mutex of the    *)
(* lock, time limits pass, and holders unlock.                             *)
(***************************************************************************)
Fairness ==
  \A t \in Threads : WF_vars(RWStep(t)) /\ WF_vars(Expire(t)) /\ WF_vars(Unlock(t))

FairSpec == Spec /\ Fairness

-----------------------------------------------------------------------------
\* Type invariant.
TypeOK ==
  /\ numLocks \in Nat /\ pendingReaders \in Nat /\ pendingWriters \in Nat
  /\ writerThreadId \in Threads \cup {NoThread}
  /\ pc \in [Threads -> {"idle", "waiting", "awake", "timedout"}]
  /\ mode \in [Threads -> {"r", "w"}]
  /\ deadline \in [Threads -> {"none", "ahead", "past"}]
  /\ held \in [Threads -> 0 .. MaxHold]

\* A thread that holds the lock for writing (timedwrlock, trywrlock) is the only
\* holder, whatever waits, time-outs and interruptions came before.
Exclusion ==
  \A t, u \in Threads :
    held[t] > 0 /\ held[u] > 0 /\ mode[t] = "w" => t = u

\* The threads inside a lock call of mode m, after its first wait began.
InCall(m) == {t \in Threads : pc[t] \in {"waiting", "awake", "timedout"} /\ mode[t] = m}

\* The fields agree with who really holds and who really waits: a call that times
\* out or is interrupted leaves no pending reader or writer behind, which would
\* keep all later readers out.
PendingIsExact ==
  /\ pendingReaders = Cardinality(InCall("r"))
  /\ pendingWriters = Cardinality(InCall("w"))
  /\ \A t \in Threads : writerThreadId = t <=> held[t] > 0 /\ mode[t] = "w"
  /\ numLocks = 0 <=> \A t \in Threads : held[t] = 0

\* A writer is never left waiting on a lock that is free unless some thread in a
\* lock call is awake: one that finds the lock taken or is beaten to it has the
\* next broadcast (_pthread_rwlock_pulse) before it.
WritersAwakened ==
  numLocks = 0 /\ (\E t \in Threads : Waiting(t) /\ mode[t] = "w") =>
    \E t \in Threads : pc[t] \in {"awake", "timedout"}

\* "readers block as soon as there is a waiting writer" (technical note): readers
\* do not starve the writers; as long as writers wait one of them gets the lock,
\* unless a reader that holds the lock asks for it again and so waits for them.
WritersNotStarved ==
  pendingWriters > 0 ~>
    \/ writerThreadId # NoThread \/ pendingWriters = 0
    \/ \E t \in Threads : held[t] > 0 /\ pc[t] # "idle"

\* "One of them should be able to grab it after that" (comment on the pulse):
\* nobody, reader or writer, is left waiting on a lock that is free, unless some
\* other thread in a lock call is awake and will take it.
NoSleeperOnFreeLock ==
  numLocks = 0 /\ (\E t \in Threads : Waiting(t)) =>
    \E t \in Threads : pc[t] \in {"awake", "timedout"}
=============================================================================
