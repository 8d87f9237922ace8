--------------------------- MODULE BlockingCalls ---------------------------
(***************************************************************************)
(* The threads of a process inside the blocking calls of semaphores,       *)
(* condition variables and read/write locks.                               *)
(***************************************************************************)
CONSTANT Threads

VARIABLES
  pc,       \* where each thread is
  deadline  \* of a call in progress: "none", still "ahead", or "past"

Goto(t, label) == pc' = [pc EXCEPT ![t] = label]
=============================================================================
