-------------------------- MODULE RecursiveFields --------------------------
(***************************************************************************)
(* The fields of mutex->value that only recursive and error-checking       *)
(* mutexes have (libc/bionic/pthread.c).                                   *)
(***************************************************************************)
EXTENDS LockThreads, Integers

CONSTANTS
  Type,         \* "recursive" or "errorcheck"
  CounterSize,  \* values of the counter field: 2^11 in the code
  MaxDepth      \* bound: lock calls of one thread that are not yet undone

ASSUME RecursiveAssumption ==
  /\ Type \in {"recursive", "errorcheck"}
  /\ CounterSize \in Nat \ {0}
  /\ MaxDepth \in Nat \ {0}
=============================================================================
