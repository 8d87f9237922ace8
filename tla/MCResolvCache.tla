--------------------------- MODULE MCResolvCache ---------------------------
(***************************************************************************)
(* Two threads of a program, on a device with two interface names and      *)
(* caches of one entry, or with one cache of two entries and three queries *)
(* of which two collide.                                                   *)
(***************************************************************************)
EXTENDS ResolvCache, TLC

CONSTANTS q1, q2, q3, wlan

TwoDevices ==
  {[max_entries |-> 1, ifaces |-> {NoName, wlan}, queries |-> {q1, q2}],
   [max_entries |-> 2, ifaces |-> {NoName}, queries |-> {q1, q2, q3}]}

Hashes == (q1 :> 0) @@ (q2 :> 2) @@ (q3 :> 1)

Symmetry == Permutations(Threads)
=============================================================================
