------------------------------ MODULE MCResSend ------------------------------
(***************************************************************************)
(* Instance of ResSend for TLC: three servers and two tries, as MAXNS and  *)
(* RES_DFLRETRY say.  The program replaces the second server.              *)
(***************************************************************************)
EXTENDS ResSend

MCOptions == {{"stayopen", "pfcode"}, {"usevc", "stayopen"}, {"igntc"}}
=============================================================================
