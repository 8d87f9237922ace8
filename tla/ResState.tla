------------------------------ MODULE ResState ------------------------------
(***************************************************************************)
(* The resolver state of a thread, libc/netbsd/resolv/res_state.c, and how *)
(* it follows the system properties net.dns1, net.dns2, ...: each use of   *)
(* the state compares the serial number of the property net.change with    *)
(* the one recorded, and reads the name servers again if they differ.      *)
(*                                                                         *)
(* The properties are written by the property service, another process,    *)
(* which changes net.change after any other property net.*.  A name server *)
(* is represented by how often its property has been written.              *)
(***************************************************************************)
EXTENDS Integers

CONSTANTS
  NsCount,   \* nscount: the properties net.dnsN that exist
  MaxChanges \* bound: changes of them

ASSUME ResStateAssumption == NsCount \in Nat \ {0} /\ MaxChanges \in Nat

Servers == 1 .. NsCount

VARIABLES
  dns,     \* the properties net.dnsN
  change,  \* the serial number of net.change: odd while it is being written, 0
           \* before the property exists
  service, \* the step of the property service
  rt       \* the thread's _res_thread: step, recorded serial number, servers read

stateVars == <<dns, change, service, rt>>

StateInit ==
  /\ dns = [n \in Servers |-> 0]
  /\ change = 0
  /\ service = "idle"
  /\ rt = [pc |-> "none", _serial |-> 0, nsaddr_list |-> [n \in Servers |-> 0], n |-> 1]

-----------------------------------------------------------------------------
(***************************************************************************)
(* The property service.                                                   *)
(***************************************************************************)
SetDns(n) ==
  /\ service = "idle"
  /\ change < 2 * MaxChanges
  /\ dns' = [dns EXCEPT ![n] = @ + 1]
  /\ service' = "announce"
  /\ UNCHANGED <<change, rt>>

\* net.change is marked as being written, then written; when new it appears complete.
Announce ==
  /\ service # "idle"
  /\ change' = change + IF change = 0 THEN 2 ELSE 1
  /\ service' = IF change % 2 = 0 /\ change # 0 THEN "write" ELSE "idle"
  /\ UNCHANGED <<dns, rt>>

-----------------------------------------------------------------------------
\* _res_thread_get finds nothing changed: it returns the state as it is.
Unchanged == rt.pc = "ready" /\ rt._serial = change

\* It has a new state, or one it has to reset: the serial number is recorded first.
_res_thread_get ==
  /\ rt.pc = "none" \/ (rt.pc = "ready" /\ ~Unchanged)
  /\ rt' = [rt EXCEPT !.pc = "read", !._serial = change, !.n = 1]
  /\ UNCHANGED <<dns, change, service>>

\* Mutant of ReadDns: the serial number is recorded at the end.
ReadDnsThenSerial ==
  /\ rt.pc = "read"
  /\ rt' = [rt EXCEPT !.nsaddr_list[rt.n] = dns[rt.n],
                      !.n = IF @ = NsCount THEN 1 ELSE @ + 1,
                      !.pc = IF rt.n = NsCount THEN "ready" ELSE "read",
                      !._serial = change]
  /\ UNCHANGED <<dns, change, service>>

\* res_ninit, which reads one property after the other.
ReadDns ==
  /\ rt.pc = "read"
  /\ rt' = [rt EXCEPT !.nsaddr_list[rt.n] = dns[rt.n],
                      !.n = IF @ = NsCount THEN 1 ELSE @ + 1,
                      !.pc = IF rt.n = NsCount THEN "ready" ELSE "read"]
  /\ UNCHANGED <<dns, change, service>>

Service == Announce \/ \E n \in Servers : SetDns(n)

-----------------------------------------------------------------------------
\* "Check the serial value for any changes to net.* properties": whenever the test
\* in _res_thread_get says that nothing has changed, and the service has announced
\* what it wrote, the servers of the thread are the current ones, whatever was
\* written while it read them.
UnchangedIsCurrent ==
  Unchanged /\ service = "idle" => rt.nsaddr_list = dns
=============================================================================
