--------------------------- MODULE MCThreadCalls ---------------------------
(***************************************************************************)
(* The main thread and three threads that it and they create; or two       *)
(* threads, one of which another waits to join, and two keys, which are    *)
(* created up to three times.  The destructor loop has three rounds (four  *)
(* in the code).                                                           *)
(***************************************************************************)
EXTENDS ThreadCalls
=============================================================================
