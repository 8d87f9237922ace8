------------------------------- MODULE ResSend -------------------------------
(***************************************************************************)
(* res_nsend of libc/netbsd/resolv/res_send.c in one thread: sending a     *)
(* query to the name servers of its ResState, in turn and RETRY times, by  *)
(* datagrams, and over a circuit (TCP) when a reply is truncated.          *)
(* Datagrams and replies are lost, late or repeated, servers reject the    *)
(* query, connections fail or are reset.                                   *)
(*                                                                         *)
(* The lookup in the cache (ResolvCache) that precedes and the addition    *)
(* that follows are left out here, and so are hooks (nothing in libc sets  *)
(* one), RES_ROTATE and the sizes of messages.  A reply is what the code   *)
(* makes of it, and an attempt that fails is what the code does then.      *)
(***************************************************************************)
EXTENDS ResState, FiniteSets

CONSTANTS
  Options,   \* what the program sets in its _res: sets of "usevc", "stayopen",
             \* "igntc" (flags of options) and "pfcode"
  Replaced,  \* the servers for which the program puts in addresses of its own
  Retry,     \* retry
  NoSocket

ASSUME ResSendAssumption ==
  /\ Options \subseteq SUBSET {"usevc", "stayopen", "igntc", "pfcode"}
  /\ Replaced \subseteq Servers
  /\ NoSocket \notin Servers \X Nat \X {0, 1}   \* it is not an address
  /\ Retry \in Nat \ {0}

VARIABLES
  pc,        \* "idle", or in a call: "send", "wait" (datagram), "read" (circuit)
  options, v_circuit, try, ns, gotsomewhere, connreset,
  own,       \* the servers the program has replaced in nsaddr_list
  nsaddrs,   \* the copy of nsaddr_list; Closed while EXT(statp).nscount is 0
  nssocks,   \* per server, the address its datagram socket is connected to
  _vcsock,   \* the address the circuit is connected to, or NoSocket
  result,    \* of the last call
  sent       \* per server: attempts in this call by datagram and by circuit

sockets == <<nssocks, _vcsock>>
addrs == <<own, nsaddrs>>
sendVars == <<stateVars, addrs, sockets, pc, options, v_circuit, try, ns, gotsomewhere, connreset,
          result, sent>>

NotSent == [dg |-> 0, vc |-> 0]

\* Attempts are counted as far as the properties tell them apart.
Count(k) == IF k <= Retry + 2 THEN k + 1 ELSE k

\* get_nsaddr: what the thread has read, or what the program has put there.
Addr(n) == <<n, rt.nsaddr_list[n], IF n \in own THEN 1 ELSE 0>>

\* No socket is open at any server.
Closed == [n \in Servers |-> NoSocket]

SendInit ==
  /\ StateInit
  /\ pc = "idle"
  /\ options = {}
  /\ v_circuit = FALSE /\ try = 0 /\ ns = 1
  /\ gotsomewhere = FALSE /\ connreset = FALSE
  /\ own = {} /\ nsaddrs = Closed
  /\ nssocks = Closed /\ _vcsock = NoSocket
  /\ result = "none"
  /\ sent = [n \in Servers |-> NotSent]

res_nclose == nssocks' = Closed /\ _vcsock' = NoSocket

-----------------------------------------------------------------------------
\* The steps of ResState; res_ninit closes the sockets of a state it resets, drops the
\* copy of the addresses and puts what the program has set back to the default.
State ==
  /\ \/ Service /\ UNCHANGED <<addrs, sockets, options>>
     \/ /\ pc = "idle" /\ _res_thread_get
        /\ res_nclose
        /\ own' = {} /\ nsaddrs' = Closed
        /\ options' = {}
     \/ ReadDns /\ UNCHANGED <<addrs, sockets, options>>
  /\ UNCHANGED <<pc, v_circuit, try, ns, gotsomewhere, connreset, result, sent>>

\* The program sets options in its _res, which nothing in libc does, and writes
\* addresses of its own into nsaddr_list; the sockets stay as they are.
SetOptions ==
  /\ pc = "idle" /\ rt.pc = "ready"
  /\ options = {}
  /\ options' \in Options
  /\ UNCHANGED <<stateVars, addrs, sockets, pc, v_circuit, try, ns, gotsomewhere,
                 connreset, result, sent>>

SetServer(n) ==
  /\ pc = "idle" /\ rt.pc = "ready"
  /\ n \in Replaced \ own
  /\ own' = own \cup {n}
  /\ UNCHANGED <<stateVars, nsaddrs, sockets, pc, options, v_circuit, try, ns,
                 gotsomewhere, connreset, result, sent>>

\* Mutant of needclose: looks at the number of servers only.
neednoclose == FALSE

(***************************************************************************)
(* "If the ns_addr_list in the resolver context has changed": there is a   *)
(* copy, and an address differs from it or a datagram socket is open.      *)
(* That socket is compared by getsockname, which gives the address of this *)
(* end, never that of the server.                                          *)
(***************************************************************************)
needclose ==
  nsaddrs # Closed /\ \E n \in Servers : nsaddrs[n] # Addr(n) \/ nssocks[n] # NoSocket

\* The call, as far as the loop; a long query needs a circuit.  Without a server
\* (ESRCH) or with too small a buffer (EINVAL) it returns and changes nothing.
Call ==
  /\ pc = "idle" /\ rt.pc = "ready"
  /\ pc' = "send"
  /\ v_circuit' \in {"usevc" \in options, TRUE}
  /\ try' = 0 /\ ns' = 1
  /\ gotsomewhere' = FALSE
  /\ result' = "none"
  /\ sent' = [n \in Servers |-> NotSent]
  /\ IF needclose THEN res_nclose ELSE UNCHANGED sockets
  /\ nsaddrs' = IF needclose \/ nsaddrs = Closed THEN [n \in Servers |-> Addr(n)] ELSE nsaddrs
  /\ UNCHANGED <<stateVars, own, options, connreset>>

\* The call returns r; what it counts in is put back to what Call starts from.
SendReturn(r) ==
  /\ pc' = "idle"
  /\ result' = r
  /\ v_circuit' = FALSE /\ try' = 0 /\ ns' = 1 /\ connreset' = FALSE

\* No server is left to try: "no nameservers found", or "no answer obtained".
Errno ==
  IF v_circuit THEN "terrno" ELSE IF gotsomewhere' THEN "ETIMEDOUT" ELSE "ECONNREFUSED"

\* Mutant of NextNs: the last server is left out.
NextNsButLast(t, close) ==
  \/ /\ ns + 1 < NsCount \/ t + 1 < Retry
     /\ ns' = IF ns + 1 < NsCount THEN ns + 1 ELSE 1
     /\ try' = IF ns + 1 < NsCount THEN t ELSE t + 1
     /\ pc' = "send"
     /\ connreset' = FALSE
     /\ IF close THEN res_nclose ELSE UNCHANGED sockets
     /\ UNCHANGED <<v_circuit, result>>
  \/ ns + 1 >= NsCount /\ t + 1 >= Retry /\ res_nclose /\ SendReturn(Errno)

\* next_ns: the loops go on from try t, the sockets having been closed or not.
NextNs(t, close) ==
  \/ /\ ns < NsCount \/ t + 1 < Retry
     /\ ns' = IF ns < NsCount THEN ns + 1 ELSE 1
     /\ try' = IF ns < NsCount THEN t ELSE t + 1
     /\ pc' = "send"
     /\ connreset' = FALSE
     /\ IF close THEN res_nclose ELSE UNCHANGED sockets
     /\ UNCHANGED <<v_circuit, result>>
  \/ ns = NsCount /\ t + 1 >= Retry /\ res_nclose /\ SendReturn(Errno)

\* fail:
Fail == res_nclose /\ SendReturn("fatal")

-----------------------------------------------------------------------------
(***************************************************************************)
(* send_dg.                                                                *)
(***************************************************************************)
\* The socket of a server is used again as it is.
SendDg ==
  /\ pc = "send" /\ ~v_circuit
  /\ UNCHANGED gotsomewhere
  /\ sent' = [sent EXCEPT ![ns].dg = Count(@)]
  /\ \/ /\ nssocks' = [nssocks EXCEPT ![ns] = IF @ = NoSocket THEN Addr(ns) ELSE @]
        /\ pc' = "wait"
        /\ UNCHANGED <<_vcsock, v_circuit, try, ns, connreset, result>>
     \/ nssocks[ns] = NoSocket /\ NextNs(try, FALSE)   \* no such protocol
     \/ nssocks[ns] = NoSocket /\ Fail                 \* no socket
     \/ NextNs(try, TRUE)                              \* bind, connect or send
  /\ UNCHANGED <<stateVars, addrs, options>>

\* Mutant of Timeout: it waits again, as after an interruption.
TimeoutWaits ==
  /\ pc = "wait"
  /\ gotsomewhere' = TRUE
  /\ UNCHANGED <<stateVars, addrs, sockets, pc, options, v_circuit, try, ns, connreset,
                 result, sent>>

\* pselect times out: the socket stays open.
Timeout ==
  /\ pc = "wait"
  /\ gotsomewhere' = TRUE
  /\ NextNs(try, FALSE)
  /\ UNCHANGED <<stateVars, addrs, options, sent>>

\* pselect or recvfrom fails; the reply is too short, or rejects the query.
NoAnswer ==
  /\ pc = "wait"
  /\ gotsomewhere' \in {gotsomewhere, TRUE}
  /\ NextNs(try, TRUE)
  /\ UNCHANGED <<stateVars, addrs, options, sent>>

\* The reply rejects the query, and pfcode is set, as dig does: it is the answer.
Rejected ==
  /\ pc = "wait" /\ "pfcode" \in options
  /\ gotsomewhere' = TRUE
  /\ res_nclose
  /\ SendReturn("answer")
  /\ UNCHANGED <<stateVars, addrs, options, sent>>

\* A reply to another query, or from elsewhere, is ignored.
Stray ==
  /\ pc = "wait"
  /\ gotsomewhere' = TRUE
  /\ UNCHANGED <<stateVars, addrs, sockets, pc, options, v_circuit, try, ns, connreset,
                 result, sent>>

\* The rest of a truncated answer is asked for over a circuit to the same server.
Truncated ==
  /\ pc = "wait" /\ "igntc" \notin options
  /\ gotsomewhere' = TRUE
  /\ v_circuit' = TRUE
  /\ res_nclose
  /\ pc' = "send"
  /\ UNCHANGED <<stateVars, addrs, options, try, ns, connreset, result, sent>>

-----------------------------------------------------------------------------
(***************************************************************************)
(* send_vc, called with the last try: no server is asked again.            *)
(***************************************************************************)
\* The circuit is kept if getpeername gives the server's address.
CheckedVc == IF _vcsock = Addr(ns) THEN _vcsock ELSE NoSocket

SendVc ==
  /\ pc = "send" /\ v_circuit
  /\ UNCHANGED gotsomewhere
  /\ sent' = [sent EXCEPT ![ns].vc = Count(@)]
  /\ \/ /\ nssocks' = IF CheckedVc = _vcsock THEN nssocks ELSE Closed
        /\ _vcsock' = IF CheckedVc = NoSocket THEN Addr(ns) ELSE CheckedVc
        /\ try' = Retry
        /\ pc' = "read"
        /\ UNCHANGED <<v_circuit, ns, connreset, result>>
     \/ CheckedVc = NoSocket /\ NextNs(Retry, _vcsock # NoSocket)   \* no such protocol
     \/ CheckedVc = NoSocket /\ Fail                                \* no socket
     \/ NextNs(Retry, TRUE)                                         \* bind, connect or write
  /\ UNCHANGED <<stateVars, addrs, options>>

\* The server has been restarted: it is asked again, once.
ReadReset ==
  /\ pc = "read" /\ ~connreset
  /\ res_nclose
  /\ connreset' = TRUE
  /\ pc' = "send"
  /\ UNCHANGED <<stateVars, addrs, options, v_circuit, try, ns, gotsomewhere, result, sent>>

\* The circuit is closed or reset, or the reply too short.  (A reply to another
\* query is read and dropped: nothing changes.)
ReadFails ==
  /\ pc = "read"
  /\ UNCHANGED gotsomewhere
  /\ NextNs(try, TRUE)
  /\ UNCHANGED <<stateVars, addrs, options, sent>>

-----------------------------------------------------------------------------
\* The answer, by datagram or circuit.
Answer ==
  /\ pc \in {"wait", "read"}
  /\ gotsomewhere' = (gotsomewhere \/ pc = "wait")
  /\ IF (v_circuit /\ "usevc" \notin options) \/ "stayopen" \notin options
       THEN res_nclose
       ELSE UNCHANGED sockets
  /\ SendReturn("answer")
  /\ UNCHANGED <<stateVars, addrs, options, sent>>

SendNext ==
  \/ State \/ SetOptions \/ (\E n \in Servers : SetServer(n)) \/ Call
  \/ SendDg \/ Timeout \/ NoAnswer \/ Rejected \/ Stray \/ Truncated
  \/ SendVc \/ ReadReset \/ ReadFails
  \/ Answer

\* The thread goes on; pselect times out in the end, whatever strays arrive.  A read
\* from a circuit has no timeout.
SendFairness == WF_sendVars(SendDg) /\ WF_sendVars(SendVc) /\ WF_sendVars(Timeout)

SendSpec == SendInit /\ [][SendNext]_sendVars /\ SendFairness

-----------------------------------------------------------------------------
Failures == {"terrno", "ETIMEDOUT", "ECONNREFUSED"}

SendTypeOK ==
  /\ pc \in {"idle", "send", "wait", "read"}
  /\ options \in Options \cup {{}} /\ own \subseteq Servers
  /\ v_circuit \in BOOLEAN /\ gotsomewhere \in BOOLEAN /\ connreset \in BOOLEAN
  /\ try \in 0 .. Retry /\ ns \in Servers
  /\ result \in {"none", "answer", "fatal"} \cup Failures

\* "Send request, RETRY times, or until successful": no server gets more than RETRY
\* datagrams, or is asked more than twice over a circuit ("We only allow one reset
\* per query to prevent looping"); and res_nsend gives up only after it has asked
\* every server, RETRY times if no circuit was used.
Attempts ==
  /\ \A n \in Servers : sent[n].dg <= Retry /\ sent[n].vc <= 2
  /\ result \in Failures =>
       \/ \A n \in Servers : sent[n].dg = Retry
       \/ /\ result = "terrno"
          /\ \E n \in Servers : sent[n].vc > 0
          /\ \A n \in Servers : sent[n].dg + sent[n].vc > 0

\* "Are we still talking to whom we want to talk to?": the reply is awaited on a
\* socket connected to the server that is being asked, with the address the thread
\* has for it now, although a datagram socket is used again without a look at its
\* peer, and whatever sockets earlier calls have left open, to servers that the
\* program or the properties have replaced since.
RightServer ==
  /\ pc = "wait" => nssocks[ns] = Addr(ns)
  /\ pc = "read" => _vcsock = Addr(ns)

\* Between calls a socket is open only under RES_STAYOPEN after an answer: "If we
\* have temporarily opened a virtual circuit, or if we haven't been asked to keep a
\* socket open, close the socket".
NoSocketLeft ==
  pc = "idle" =>
    /\ nssocks # Closed => "stayopen" \in options /\ result = "answer"
    /\ _vcsock # NoSocket => {"stayopen", "usevc"} \subseteq options /\ result = "answer"

\* A call of res_nsend ends, whatever is lost, late, repeated, rejected or reset,
\* unless it waits for ever on a circuit that neither delivers nor breaks.
QueryEnds == <>[](pc = "read") \/ []<>(pc = "idle")
=============================================================================
