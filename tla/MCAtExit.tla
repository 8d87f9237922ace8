------------------------------ MODULE MCAtExit ------------------------------
(***************************************************************************)
(* One shared object and the program, pages of two entries, five handlers, *)
(* and three calls of __cxa_finalize.                                      *)
(***************************************************************************)
EXTENDS AtExit
=============================================================================
