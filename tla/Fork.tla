-------------------------------- MODULE Fork --------------------------------
(***************************************************************************)
(* fork (bionic/fork.c) and the handlers of pthread_atfork                 *)
(* (bionic/pthread-atfork.c), composed with the timers that fork stops.    *)
(*                                                                         *)
(* The handlers of one phase run with handler_mutex held, in one action; a *)
(* handler may call pthread_atfork, the mutex being recursive.  The child  *)
(* has one thread, a copy of the one that forked, with the same kernel_id  *)
(* in its pthread_internal_t, so that it owns the copy of the mutex.  It   *)
(* is followed until fork returns in it; as the processes share nothing,   *)
(* that is before the parent goes on.                                      *)
(***************************************************************************)
EXTENDS ThreadTimers

CONSTANT Handlers \* that can be registered, each once

VARIABLES
  atfork_head,   \* the handlers registered, in order
  handler_mutex, \* the thread that holds it, or None
  prepared,      \* the prepare handlers the holder has called, in the order of calls
  added,         \* the handlers that its handlers have registered since
  child          \* the child's copy of these, or None

handlerVars == <<atfork_head, handler_mutex, prepared, added, child>>
forkVars == <<timerVars, handlerVars>>

ForkInit ==
  /\ TimersInit
  /\ atfork_head = <<>>
  /\ handler_mutex = None
  /\ prepared = <<>> /\ added = <<>>
  /\ child = None

Backwards(list) == [i \in DOMAIN list |-> list[Len(list) - i + 1]]

\* What can be registered besides the handlers of head, at once.
Registrable(head) == {<<>>} \cup {<<h>> : h \in Handlers \ Range(head)}

\* A thread of the program in fork goes on.
To(p, step) ==
  /\ op' = [op EXCEPT ![p] = step]
  /\ UNCHANGED <<table, timer, loop, subject, made>>

-----------------------------------------------------------------------------
pthread_atfork(p, h) ==
  /\ op[p] = "none"
  /\ handler_mutex = None
  /\ h \notin Range(atfork_head)
  /\ atfork_head' = Append(atfork_head, h)
  /\ UNCHANGED <<timerVars, handler_mutex, prepared, added, child>>

\* Mutant of __bionic_atfork_run_prepare: the mutex is unlocked at the end.
run_prepareUnlocks(p) ==
  /\ op[p] = "prepare"
  /\ handler_mutex = None
  /\ prepared' = Backwards(atfork_head)
  /\ added' = <<>>
  /\ To(p, "fork")
  /\ UNCHANGED <<atfork_head, handler_mutex, child>>

\* The handlers are called from the last to the first; those they add are not.
__bionic_atfork_run_prepare(p) ==
  /\ op[p] = "prepare"
  /\ handler_mutex = None
  /\ handler_mutex' = p
  /\ prepared' = Backwards(atfork_head)
  /\ \E new \in Registrable(atfork_head) :
       added' = new /\ atfork_head' = atfork_head \o new
  /\ To(p, "fork")
  /\ UNCHANGED child

\* The system call; in the parent its result does not matter.
__fork(p) ==
  /\ op[p] = "fork"
  /\ child' \in {None, [kernel_id |-> p, atfork_head |-> atfork_head,
                        handler_mutex |-> handler_mutex,
                        prepared |-> prepared, added |-> added]}
  /\ To(p, "start")
  /\ UNCHANGED <<atfork_head, handler_mutex, prepared, added>>

\* In the parent, the timers are started.
Restart(p) == ForkStart(p) /\ child = None /\ UNCHANGED handlerVars

\* The handlers are called from the first to the last, including those added.
__bionic_atfork_run_parent(p) ==
  /\ op[p] = "parent"
  /\ \E new \in Registrable(atfork_head) : atfork_head' = atfork_head \o new
  /\ prepared' = <<>> /\ added' = <<>>
  /\ handler_mutex' = None
  /\ To(p, "none")
  /\ UNCHANGED child

\* The same in the child, where fork returns.
__bionic_atfork_run_child ==
  /\ child # None
  /\ child' = None
  /\ UNCHANGED <<timerVars, atfork_head, handler_mutex, prepared, added>>

ForkNext(p) ==
  \/ ForkStop(p) /\ UNCHANGED handlerVars
  \/ Restart(p)
  \/ \E h \in Handlers : pthread_atfork(p, h)
  \/ __bionic_atfork_run_prepare(p) \/ __fork(p) \/ __bionic_atfork_run_parent(p)

ProcessNext ==
  \/ TimersNext /\ UNCHANGED handlerVars
  \/ \E p \in Programs : ForkNext(p)
  \/ __bionic_atfork_run_child

\* Who holds handler_mutex goes on.  The mutex itself promises no order.
ForkFairness ==
  /\ TimersFairness
  /\ \A p \in Programs : WF_forkVars(__fork(p) \/ Restart(p) \/ __bionic_atfork_run_parent(p))
  /\ WF_forkVars(__bionic_atfork_run_child)

ForkSpec == ForkInit /\ [][ProcessNext]_forkVars /\ ForkFairness

-----------------------------------------------------------------------------
\* What run_parent and run_child call are the handlers whose prepare was called, in
\* the opposite order, and after them only those that the handlers themselves have
\* registered: "This ensures that nobody can modify the handler array between the
\* calls to the prepare and parent/child handlers".
HandlersPaired ==
  /\ \A p \in Programs :
       op[p] \in {"fork", "start", "parent"} => atfork_head = Backwards(prepared) \o added
  /\ child # None =>
       /\ child.atfork_head = Backwards(child.prepared) \o child.added
       /\ child.handler_mutex = child.kernel_id

\* A fork that has begun to call handlers ends in the parent, and lets others
\* register handlers and fork.
HandlersReleased ==
  \A p \in Programs : handler_mutex = p ~> handler_mutex # p
=============================================================================
