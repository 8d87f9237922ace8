-------------------------- MODULE MCBlockingObject --------------------------
(***************************************************************************)
(* Three threads.  The semaphore has at most two permits; the counter of   *)
(* the condition variable has three values, so that it comes round; two of *)
(* the threads ask a read/write lock for writing, and a holder asks for it *)
(* once more.                                                              *)
(***************************************************************************)
EXTENDS BlockingObject
=============================================================================
