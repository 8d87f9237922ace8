------------------------------ MODULE Semaphore ------------------------------
(***************************************************************************)
(* Semaphores of libc/bionic/semaphore.c.  count is the 31-bit signed      *)
(* value of sem->count; the shared bit only selects the futex opcode.      *)
(* __sem_dec, __sem_trydec and __sem_inc are compare-and-exchange loops    *)
(* whose failed rounds change nothing, so each is one atomic step.         *)
(***************************************************************************)
EXTENDS BlockingCalls, Integers

CONSTANT
  MaxValue   \* SEM_MAX_VALUE, 2^30 - 1 in the code

ASSUME MaxValueAssumption == MaxValue \in Nat \ {0}

VARIABLES
  count,     \* the value: -1 is 0 with, perhaps, threads waiting
  status,    \* "live" from sem_init to sem_destroy, as the callers know
  due        \* permits as callers count them: initial value, plus posts that
             \* succeeded, less waits that succeeded

semVars == <<count, status, pc, deadline, due>>

Contended == -1

Return(t) == Goto(t, "idle") /\ deadline' = [deadline EXCEPT ![t] = "none"]

TakePermit == count' = count - 1 /\ due' = due - 1

SemSleepers == {t \in Threads : pc[t] = "asleep"}

SemWaiting(t) == pc[t] \in {"dec", "clock", "wait", "asleep"}

\* The head of the loop of sem_wait, and of that of sem_timedwait.
Loop(t) == IF deadline[t] = "none" THEN "dec" ELSE "clock"

SemInitial ==
  /\ count \in 0 .. MaxValue
  /\ status = "live"
  /\ pc = [t \in Threads |-> "idle"]
  /\ deadline = [t \in Threads |-> "none"]
  /\ due = count

-----------------------------------------------------------------------------
SemWait(t) ==
  /\ pc[t] = "idle"
  /\ status = "live"
  /\ Goto(t, "dec")
  /\ UNCHANGED <<count, status, deadline, due>>

(***************************************************************************)
(* sem_timedwait tries __sem_trydec before it looks at the clock; the      *)
(* limit may be past already.                                              *)
(***************************************************************************)
SemTimedWait(t, limit) ==
  /\ pc[t] = "idle"
  /\ status = "live"
  /\ \/ /\ count > 0
        /\ TakePermit
        /\ UNCHANGED <<pc, deadline>>
     \/ /\ count <= 0
        /\ Goto(t, "clock")
        /\ deadline' = [deadline EXCEPT ![t] = limit]
        /\ UNCHANGED <<count, due>>
  /\ UNCHANGED status

CheckClock(t) ==
  /\ pc[t] = "clock"
  /\ \/ deadline[t] = "past"  /\ Return(t)
     \/ deadline[t] = "ahead" /\ Goto(t, "dec") /\ UNCHANGED deadline
  /\ UNCHANGED <<count, status, due>>

\* Mutant of SemDec: takes 0 for a permit.
SemDecOffByOne(t) ==
  /\ pc[t] = "dec"
  /\ \/ /\ count >= 0
        /\ TakePermit
        /\ Return(t)
     \/ /\ count < 0
        /\ Goto(t, "wait")
        /\ UNCHANGED <<count, deadline, due>>
  /\ UNCHANGED status

(***************************************************************************)
(* __sem_dec: takes a permit, or leaves -1 behind and goes to wait.        *)
(***************************************************************************)
SemDec(t) ==
  /\ pc[t] = "dec"
  /\ \/ /\ count > 0
        /\ TakePermit
        /\ Return(t)
     \/ /\ count <= 0
        /\ count' = Contended
        /\ Goto(t, "wait")
        /\ UNCHANGED <<deadline, due>>
  /\ UNCHANGED status

SemFutexWait(t) ==
  /\ pc[t] = "wait"
  /\ Goto(t, IF count = Contended THEN "asleep" ELSE Loop(t))
  /\ UNCHANGED <<count, status, deadline, due>>

(***************************************************************************)
(* A signal: sem_wait goes round, sem_timedwait returns EINTR.             *)
(***************************************************************************)
SemInterrupted(t) ==
  /\ pc[t] = "asleep"
  /\ \/ deadline[t] = "none" /\ Goto(t, "dec") /\ UNCHANGED deadline
     \/ deadline[t] # "none" /\ Return(t)
  /\ UNCHANGED <<count, status, due>>

\* sem_timedwait returns ETIMEDOUT when its sleep ends with the time limit.
SemTimedOut(t) ==
  /\ pc[t] = "asleep"
  /\ deadline[t] = "past"
  /\ Return(t)
  /\ UNCHANGED <<count, status, due>>

SemExpire(t) ==
  /\ deadline[t] = "ahead"
  /\ deadline' = [deadline EXCEPT ![t] = "past"]
  /\ UNCHANGED <<count, status, pc, due>>

SemTryWait(t) ==
  /\ pc[t] = "idle"
  /\ status = "live"
  /\ count > 0
  /\ TakePermit
  /\ UNCHANGED <<status, pc, deadline>>

\* Mutant of SemPost: forgets the sleepers of a contended semaphore.
SemPostSilent(t) ==
  /\ pc[t] = "idle"
  /\ status = "live"
  /\ count # MaxValue
  /\ count' = IF count < 0 THEN 1 ELSE count + 1
  /\ due' = due + 1
  /\ UNCHANGED <<status, pc, deadline>>

(***************************************************************************)
(* sem_post: __sem_inc takes -1 directly to 1, and all sleepers are then   *)
(* woken; at the maximum it fails with EOVERFLOW and changes nothing.      *)
(***************************************************************************)
SemPost(t) ==
  /\ pc[t] = "idle"
  /\ status = "live"
  /\ count # MaxValue
  /\ \/ count < 0  /\ count' = 1 /\ Goto(t, "wake")
     \/ count >= 0 /\ count' = count + 1 /\ UNCHANGED pc
  /\ due' = due + 1
  /\ UNCHANGED <<status, deadline>>

SemPostWake(t) ==
  /\ pc[t] = "wake"
  /\ pc' = [u \in Threads |-> IF u = t THEN "idle"
                              ELSE IF pc[u] = "asleep" THEN Loop(u) ELSE pc[u]]
  /\ UNCHANGED <<count, status, deadline, due>>

(***************************************************************************)
(* sem_destroy: EBUSY on -1.  The callers destroy a semaphore only when no *)
(* thread is in a wait call; a sem_post may still have its wake to make.   *)
(***************************************************************************)
SemDestroy(t) ==
  /\ pc[t] = "idle"
  /\ status = "live"
  /\ \A u \in Threads : ~SemWaiting(u)
  /\ count >= 0
  /\ count' = 0
  /\ due' = 0
  /\ status' = "destroyed"
  /\ UNCHANGED <<pc, deadline>>

SemInit(t) ==
  /\ pc[t] = "idle"
  /\ status = "destroyed"
  /\ count' \in 0 .. MaxValue
  /\ due' = count'
  /\ status' = "live"
  /\ UNCHANGED <<pc, deadline>>

SemNext ==
  \E t \in Threads :
    \/ SemWait(t) \/ \E limit \in {"ahead", "past"} : SemTimedWait(t, limit)
    \/ CheckClock(t) \/ SemDec(t) \/ SemFutexWait(t)
    \/ SemInterrupted(t) \/ SemTimedOut(t) \/ SemExpire(t)
    \/ SemTryWait(t)
    \/ SemPost(t) \/ SemPostWake(t)
    \/ SemDestroy(t) \/ SemInit(t)

SemSpec == SemInitial /\ [][SemNext]_semVars

(***************************************************************************)
(* A thread inside a call is scheduled again and time limits pass; nobody  *)
(* has to post, and no signal has to come.                                 *)
(***************************************************************************)
SemFairness ==
  \A t \in Threads :
    /\ WF_semVars(CheckClock(t) \/ SemDec(t) \/ SemFutexWait(t) \/ SemTimedOut(t))
    /\ WF_semVars(SemExpire(t))
    /\ WF_semVars(SemPostWake(t))

FairSemSpec == SemSpec /\ SemFairness

-----------------------------------------------------------------------------
\* Type invariant; the range of count says that it never wraps above its
\* maximum and is never below -1.
SemTypeOK ==
  /\ count \in -1 .. MaxValue
  /\ status \in {"live", "destroyed"}
  /\ pc \in [Threads -> {"idle", "dec", "clock", "wait", "asleep", "wake"}]
  /\ deadline \in [Threads -> {"none", "ahead", "past"}]
  /\ due \in Int
  /\ \A t \in Threads : deadline[t] # "none" => SemWaiting(t)

\* A thread sleeps in sem_wait or sem_timedwait only while the value is -1, so
\* that the next sem_post wakes it, or while a sem_post has its wake to make.
NoOrphan ==
  SemSleepers # {} =>
    \/ count = Contended
    \/ \E t \in Threads : pc[t] = "wake"

\* A permit does not lie idle: if the semaphore has permits and a thread is in
\* a wait call, then the thread returns, unless the permits are taken first.
PermitTaken ==
  \A t \in Threads : (SemWaiting(t) /\ count > 0) ~> (~SemWaiting(t) \/ count <= 0)

\* What sem_getvalue reports: a contended semaphore has no permits.
Value == IF count < 0 THEN 0 ELSE count

\* No permit is lost or invented on the detour of the value through -1 and
\* back to 1: sem_getvalue reports the initial value plus the posts less the
\* waits that succeeded.
PermitsConserved == Value = due

CS == INSTANCE CountingSemaphore WITH permits <- due

\* Wait calls succeed only when a permit is due and posts only below the
\* maximum: as its callers see it, this is a counting semaphore.
ImplementsCounting == CS!Spec
=============================================================================
