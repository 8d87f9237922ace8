------------------------ MODULE MCSystemProperties ------------------------
(***************************************************************************)
(* Two properties with values of up to two words, one reader; the counter  *)
(* of a serial number is cut down so that it comes round.                  *)
(***************************************************************************)
EXTENDS SystemProperties
===========================================================================
