---------------------------- MODULE AbstractLock ----------------------------
(***************************************************************************)
(* What a bionic mutex promises its callers: at any time at most one       *)
(* thread owns it, a thread takes it only when it is free, and only its    *)
(* owner gives it back.  NormalMutex is shown to implement this module;    *)
(* the components that use a mutex to make a critical section atomic rely  *)
(* on nothing else.                                                        *)
(***************************************************************************)
CONSTANTS Threads,   \* threads of the process
          NoOwner    \* the mutex is free

VARIABLE owner

Init == owner = NoOwner

Acquire(t) == owner = NoOwner /\ owner' = t

Release(t) == owner = t /\ owner' = NoOwner

Next == \E t \in Threads : Acquire(t) \/ Release(t)

Spec == Init /\ [][Next]_owner
=============================================================================
