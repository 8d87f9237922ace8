------------------------------ MODULE MCMutex ------------------------------
(***************************************************************************)
(* Three threads on one mutex: an owner, a sleeper and a thread that takes *)
(* the mutex between the release and the wake call.  The counter field of  *)
(* a recursive mutex is cut down to two values, and a thread may lock it   *)
(* once more often than the field can tell.  An error-checking mutex has a *)
(* part of these behaviours: those without Relock.                         *)
(***************************************************************************)
EXTENDS Mutex
=============================================================================
