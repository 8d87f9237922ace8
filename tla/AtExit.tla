------------------------------- MODULE AtExit -------------------------------
(***************************************************************************)
(* Functions called at exit or when a shared object is unloaded:           *)
(* libc/stdlib/atexit.c and exit.c.  Handlers are kept in a list of pages; *)
(* they run inside __cxa_finalize and may themselves register handlers,    *)
(* unload objects and call exit, so that calls of __cxa_finalize nest.     *)
(*                                                                         *)
(* Handlers are numbered as they are registered.  Page 1 is the oldest;    *)
(* new pages become the head of the list.                                  *)
(***************************************************************************)
EXTENDS Integers, Sequences, FiniteSets

CONSTANTS
  Dsos,        \* shared objects that can be unloaded
  NULL,        \* the dso of handlers that wait for exit, and of exit itself
  PageMax,     \* 'max' of a page
  MaxHandlers, \* bound: handlers registered
  MaxCalls     \* bound: calls of __cxa_finalize

ASSUME AtExitAssumption ==
  /\ NULL \notin Dsos
  /\ PageMax \in Nat /\ PageMax > 2
  /\ MaxHandlers \in Nat /\ MaxCalls \in Nat

Empty == -1     \* an entry that holds no function, or one already called
Cleanup == 0    \* the function given to __atexit_register_cleanup

VARIABLES
  __atexit,    \* the pages; the entries of a page below its 'ind'
  fn_dso,      \* of each handler, in the order of registration
  cleanup,     \* "none" or "registered"
  called,      \* the handlers called so far, in order
  stack,       \* the calls of __cxa_finalize under way, innermost last
  call_depth,
  status       \* "running" or "exited"

atexitVars == <<__atexit, fn_dso, cleanup, called, stack, call_depth, status>>

AtExitInit ==
  /\ __atexit = <<>>
  /\ fn_dso = <<>>
  /\ cleanup = "none"
  /\ called = <<>>
  /\ stack = <<>>
  /\ call_depth = 0
  /\ status = "running"

Top == stack[Len(stack)]

\* The program's own code runs: not in __cxa_finalize, or in a handler it called.
InProgram == status = "running" /\ (stack # <<>> => Top.pc = "handler")

Called(h) == h \in {called[i] : i \in 1 .. Len(called)}

-----------------------------------------------------------------------------
\* Mutant of WithHandler: no entry is kept for the cleanup function.
WithHandlerUnreserved(h) ==
  LET head == Len(__atexit) IN
  IF head = 0 \/ (head > 0 => Len(__atexit[head]) + 1 >= PageMax) THEN Append(__atexit, <<h>>)
  ELSE [__atexit EXCEPT ![head] = Append(@, h)]

\* The pages with handler h added: in a new page if there is none or the head is
\* full, where the first entry of the very first page is kept free.
WithHandler(h) ==
  LET head == Len(__atexit) IN
  IF head = 0 THEN <<<<Empty, h>>>>
  ELSE IF Len(__atexit[head]) + 1 >= PageMax THEN Append(__atexit, <<h>>)
  ELSE [__atexit EXCEPT ![head] = Append(@, h)]

__cxa_atexit(d) ==
  /\ InProgram
  /\ Len(fn_dso) < MaxHandlers
  /\ fn_dso' = Append(fn_dso, d)
  /\ __atexit' = WithHandler(Len(fn_dso) + 1)
  /\ UNCHANGED <<cleanup, called, stack, call_depth, status>>

__atexit_register_cleanup ==
  /\ InProgram
  /\ cleanup = "none"
  /\ cleanup' = "registered"
  /\ __atexit' = IF __atexit = <<>> THEN <<<<Cleanup>>>> ELSE [__atexit EXCEPT ![1][1] = Cleanup]
  /\ UNCHANGED <<fn_dso, called, stack, call_depth, status>>

(***************************************************************************)
(* __cxa_finalize: the position of the loop is a page and an entry of it,  *)
(* the last one looked at; 'ind' of the head is read at the start.         *)
(***************************************************************************)
FinalizeBegin(d) ==
  LET head == Len(__atexit) IN
  /\ InProgram
  /\ __atexit # <<>>
  /\ call_depth < MaxCalls
  /\ call_depth' = call_depth + 1
  /\ stack' = Append(stack, [dso |-> d, page |-> head, n |-> Len(__atexit[head]) + 1,
                             born |-> Len(fn_dso), pc |-> "scan"])
  /\ UNCHANGED <<__atexit, fn_dso, cleanup, called, status>>

\* The entries still ahead of a call f that it will call.
Ahead(f) ==
  {e \in (1 .. f.page) \X (1 .. PageMax) :
     LET fns == __atexit[e[1]] IN
     /\ e[2] <= Len(fns)
     /\ e[1] = f.page => e[2] < f.n
     /\ fns[e[2]] # Empty
     /\ f.dso = NULL \/ (fns[e[2]] # Cleanup /\ fn_dso[fns[e[2]]] = f.dso)}

\* Mutant of First: each page is gone through upwards.
FirstUpwards(entries) ==
  CHOOSE e \in entries : \A o \in entries : o[1] < e[1] \/ (o[1] = e[1] /\ o[2] >= e[2])

\* The loop goes from the head to older pages and downwards in each.
First(entries) ==
  CHOOSE e \in entries : \A o \in entries : o[1] < e[1] \/ (o[1] = e[1] /\ o[2] <= e[2])

\* Mutant of CallNext: the entry is not marked as called.
CallNextUnmarked ==
  LET e == First(Ahead(Top)) IN
  /\ status = "running"
  /\ stack # <<>> /\ Top.pc = "scan"
  /\ Ahead(Top) # {}
  /\ called' = Append(called, __atexit[e[1]][e[2]])
  /\ stack' = [stack EXCEPT ![Len(stack)] = [@ EXCEPT !.page = e[1], !.n = e[2], !.pc = "handler"]]
  /\ UNCHANGED <<__atexit, fn_dso, cleanup, call_depth, status>>

CallNext ==
  LET e == First(Ahead(Top)) IN
  /\ status = "running"
  /\ stack # <<>> /\ Top.pc = "scan"
  /\ Ahead(Top) # {}
  /\ __atexit' = [__atexit EXCEPT ![e[1]][e[2]] = Empty]
  /\ called' = Append(called, __atexit[e[1]][e[2]])
  /\ stack' = [stack EXCEPT ![Len(stack)] = [@ EXCEPT !.page = e[1], !.n = e[2], !.pc = "handler"]]
  /\ UNCHANGED <<fn_dso, cleanup, call_depth, status>>

HandlerReturns ==
  /\ status = "running"
  /\ stack # <<>> /\ Top.pc = "handler"
  /\ stack' = [stack EXCEPT ![Len(stack)].pc = "scan"]
  /\ UNCHANGED <<__atexit, fn_dso, cleanup, called, call_depth, status>>

(***************************************************************************)
(* The end of __cxa_finalize; NULL is passed by exit alone, which then     *)
(* ends the process.  Only then is call_depth decremented, so that it      *)
(* counts the calls for shared objects that have ended, too.               *)
(***************************************************************************)
FinalizeEnd ==
  /\ status = "running"
  /\ stack # <<>> /\ Top.pc = "scan"
  /\ Ahead(Top) = {}
  /\ \/ /\ Top.dso # NULL
        /\ UNCHANGED <<__atexit, call_depth, status>>
     \/ /\ Top.dso = NULL
        /\ call_depth' = call_depth - 1
        /\ __atexit' = IF call_depth = 1 THEN <<>> ELSE __atexit
        /\ status' = "exited"
  /\ stack' = SubSeq(stack, 1, Len(stack) - 1)
  /\ UNCHANGED <<fn_dso, cleanup, called>>

AtExitNext ==
  \/ \E d \in Dsos \cup {NULL} : __cxa_atexit(d) \/ FinalizeBegin(d)
  \/ __atexit_register_cleanup
  \/ CallNext \/ HandlerReturns \/ FinalizeEnd

AtExitSpec == AtExitInit /\ [][AtExitNext]_atexitVars

-----------------------------------------------------------------------------
\* Type invariant.
AtExitTypeOK ==
  LET Functions == Cleanup .. MaxHandlers IN
  /\ __atexit \in Seq(Seq(Functions \cup {Empty}))
  /\ \A p \in 1 .. Len(__atexit) : Len(__atexit[p]) \in 1 .. PageMax
  /\ fn_dso \in Seq(Dsos \cup {NULL})
  /\ cleanup \in {"none", "registered"}
  /\ called \in Seq(Functions)
  /\ stack \in Seq([dso : Dsos \cup {NULL}, page : 1 .. Len(__atexit), n : 1 .. PageMax + 1,
                    born : 0 .. MaxHandlers, pc : {"scan", "handler"}])
  /\ call_depth \in 0 .. MaxCalls
  /\ status \in {"running", "exited"}

\* "Mark handler as having been already called to avoid dupes and loops": however
\* the calls of __cxa_finalize nest, no handler is called twice.
CalledOnce ==
  \A i, j \in 1 .. Len(called) : called[i] = called[j] => i = j

\* A handler is called only when all those registered after it, that this call of
\* __cxa_finalize is about and that were there when it began, have been called; the
\* cleanup function comes after all of them, being "the last one in the linked list".
ReverseOrder ==
  [][Len(called') > Len(called) =>
       \A h \in called'[Len(called')] + 1 .. Top.born :
         Top.dso \in {NULL, fn_dso[h]} => Called(h)]_atexitVars

\* "Call all handlers registered with __cxa_atexit() for the shared object": a call
\* of __cxa_finalize ends only when all handlers it is about that were registered
\* before it began have been called.
FinalizeComplete ==
  [][Len(stack') < Len(stack) =>
       \A h \in 1 .. Top.born : Top.dso \in {NULL, fn_dso[h]} => Called(h)]_atexitVars
=============================================================================
