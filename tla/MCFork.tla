------------------------------- MODULE MCFork -------------------------------
(***************************************************************************)
(* Three program threads, two of which fork, and a table of one entry, so  *)
(* that it is full and reused often; one-shot and periodic settings.       *)
(***************************************************************************)
EXTENDS Fork

AllSettings ==
  {[value |-> "zero", period |-> "zero"], [value |-> "ahead", period |-> "zero"],
   [value |-> "ahead", period |-> "some"], [value |-> "past", period |-> "some"]}
=============================================================================
