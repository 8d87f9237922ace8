----------------------------- MODULE ThreadCalls -----------------------------
(***************************************************************************)
(* A program that creates, joins and detaches threads, or one whose        *)
(* threads are there and use keys of thread-specific data.  The two parts  *)
(* of pthread.c have no state in common but the list of threads, of which  *)
(* TlsKeys has its own view (listed).                                      *)
(***************************************************************************)
EXTENDS ThreadLife, TlsKeys

VARIABLE part   \* "life" or "keys"

CallsInit == part \in {"life", "keys"} /\ Init /\ TlsInit

CallsNext ==
  \/ part = "life" /\ Next /\ UNCHANGED <<part, tlsVars>>
  \/ part = "keys" /\ TlsNext /\ UNCHANGED <<part, vars>>

CallsSpec ==
  CallsInit /\ [][CallsNext]_<<part, vars, tlsVars>> /\ Fairness /\ TlsFairness
=============================================================================
