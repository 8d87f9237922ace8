---------------------------- MODULE LockThreads ----------------------------
(***************************************************************************)
(* The threads of a process, as the mutexes of libc/bionic/pthread.c know  *)
(* them: by kernel thread ids, none of which is the one that stands for no *)
(* owner.                                                                  *)
(***************************************************************************)
CONSTANTS Threads, NoOwner

ASSUME NoOwnerAssumption == NoOwner \notin Threads
=============================================================================
