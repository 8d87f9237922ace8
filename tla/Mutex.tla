------------------------------- MODULE Mutex -------------------------------
(***************************************************************************)
(* A mutex of libc/bionic/pthread.c of any type: the type field, which     *)
(* pthread_mutex_init sets from the attribute, sends every call to the     *)
(* code of a normal mutex (NormalMutex) or to that of a recursive or       *)
(* error-checking one (RecursiveMutex).                                    *)
(***************************************************************************)
EXTENDS NormalMutex, RecursiveFields

VARIABLES
  normal,  \* whether the type field says so
  \* the variables of RecursiveMutex:
  rvalue, rpc, rnew, roldv, rdeadline, rdepth, rwrapped

recursiveVars == <<rvalue, rpc, rnew, roldv, rdeadline, rdepth, rwrapped>>

R == INSTANCE RecursiveMutex
       WITH value <- rvalue, pc <- rpc, new <- rnew, oldv <- roldv, deadline <- rdeadline,
            depth <- rdepth, wrapped <- rwrapped

MutexInitial == normal \in BOOLEAN /\ Init /\ R!Init

Dispatch ==
  \/ normal /\ Next /\ UNCHANGED <<normal, recursiveVars>>
  \/ ~normal /\ R!Next /\ UNCHANGED <<normal, vars>>

MutexSpec == MutexInitial /\ [][Dispatch]_<<normal, vars, recursiveVars>> /\ Fairness

-----------------------------------------------------------------------------
\* The lock calls of a normal mutex make progress: while threads wait it is taken again
\* after each release or the waiters time out (Progress), and a call with a time limit
\* returns once that has passed, whatever the others do (TimedLockReturns).
LockCallsProgress == Progress /\ TimedLockReturns

\* Of a recursive mutex: owner and counter agree with the calls made, until the counter
\* overflows or the mutex is destroyed, and no thread sleeps without a wake call or a
\* contending write to come.
RecursiveSafe == R!OwnerCountsDepth /\ R!NoOrphan
=============================================================================
