-------------------------------- MODULE Once --------------------------------
(***************************************************************************)
(* pthread_once of libc/bionic/pthread.c for one control variable: the     *)
(* check without the lock, the check with it, the call of init_routine and *)
(* the store that follows it.  What init_routine does is left to the       *)
(* module that uses this one, and it does not call pthread_once itself.    *)
(***************************************************************************)
CONSTANTS Threads, Nobody

ASSUME OnceAssumption == Nobody \notin Threads

VARIABLES
  once_control, \* "init" (PTHREAD_ONCE_INIT) or "done"
  once_lock,    \* the thread that holds the mutex, or Nobody
  once          \* where a thread is in pthread_once

onceVars == <<once_control, once_lock, once>>

OnceStart ==
  /\ once_control = "init"
  /\ once_lock = Nobody
  /\ once = [t \in Threads |-> "out"]

At(t, from, to) ==
  /\ once[t] = from
  /\ once' = [once EXCEPT ![t] = to]

\* The first test finds PTHREAD_ONCE_INIT.
OnceCheck(t) ==
  /\ once_control = "init"
  /\ At(t, "out", "lock")
  /\ UNCHANGED <<once_control, once_lock>>

OnceLock(t) ==
  /\ once_lock = Nobody
  /\ once_lock' = t
  /\ At(t, "lock", "locked")
  /\ UNCHANGED once_control

\* Mutant of OnceCall: the control variable is not tested again.
OnceCallUntested(t) ==
  /\ At(t, "locked", "called")
  /\ UNCHANGED <<once_control, once_lock>>

\* The second test; init_routine is called and returns.
OnceCall(t) ==
  /\ once_control = "init"
  /\ At(t, "locked", "called")
  /\ UNCHANGED <<once_control, once_lock>>

OnceStore(t) ==
  /\ At(t, "called", "unlock")
  /\ once_control' = "done"
  /\ UNCHANGED once_lock

\* The second test finds that another thread has been faster.
OnceSkip(t) ==
  /\ once_control = "done"
  /\ At(t, "locked", "unlock")
  /\ UNCHANGED <<once_control, once_lock>>

OnceUnlock(t) ==
  /\ At(t, "unlock", "out")
  /\ once_lock' = Nobody
  /\ UNCHANGED once_control

\* The steps other than the call of init_routine.
OnceStep(t) == OnceCheck(t) \/ OnceLock(t) \/ OnceStore(t) \/ OnceSkip(t) \/ OnceUnlock(t)

\* The thread may go on: it has returned, or the first test lets it pass.
OncePassed(t) == once[t] = "out" /\ once_control = "done"
=============================================================================
