----------------------------- MODULE ThreadLife -----------------------------
(***************************************************************************)
(* Creation, exit, joining and detaching of threads in                     *)
(* libc/bionic/pthread.c.  A thread and its descriptor (pthread_internal_t)*)
(* have one name.  What is done inside gThreadListLock is one action; join *)
(* waits on the descriptor's condition variable with that lock, so (as     *)
(* CondVar shows) a broadcast releases everybody who waits.  A signal      *)
(* handler may end a wait too, and join does not wait again: the           *)
(* descriptor of a thread that still runs can then be freed.  What that    *)
(* thread reads of it afterwards is any value.                             *)
(***************************************************************************)
EXTENDS Integers, FiniteSets

CONSTANTS
  Threads,   \* the threads that may be created, each once
  Main,      \* the main thread: it runs from the start and does not exit
  None       \* no thread

ASSUME ThreadLifeAssumption ==
  /\ IsFiniteSet(Threads)
  /\ Main \notin Threads
  /\ None \notin Threads \cup {Main}

VARIABLES
  life,        \* stage of each thread, see TypeOK
  memory,      \* of each descriptor: "none", "allocated" or "freed"
  gThreadList, \* the descriptors that are in the list
  detached,    \* the descriptors with PTHREAD_ATTR_FLAG_DETACHED
  join_count,
  op,          \* what each thread is doing in this library, see TypeOK
  target,      \* the thread that a create or join in progress is about
  claimed,     \* threads that the callers have joined or detached
  joined,      \* threads some join of which has returned 0, not interrupted
  cut          \* threads some join of which has returned 0, interrupted

vars == <<life, memory, gThreadList, detached, join_count, op, target, claimed, joined, cut>>

Actors == Threads \cup {Main}

Init ==
  /\ life = [t \in Actors |-> IF t = Main THEN "running" ELSE "none"]
  /\ memory = [t \in Actors |-> IF t = Main THEN "allocated" ELSE "none"]
  /\ gThreadList = {Main}
  /\ detached = {}
  /\ join_count = [t \in Actors |-> 0]
  /\ op = [t \in Actors |-> "none"]
  /\ target = [t \in Actors |-> None]
  /\ claimed = {}
  /\ joined = {}
  /\ cut = {}

\* Thread a executes the callers' code.
Free(a) == life[a] = "running" /\ op[a] = "none"

Begin(a, step, t) ==
  /\ op' = [op EXCEPT ![a] = step]
  /\ target' = [target EXCEPT ![a] = t]

End(a) == Begin(a, "none", None)

_pthread_internal_add(t) == gThreadList' = gThreadList \cup {t}

_pthread_internal_remove(t) == gThreadList' = gThreadList \ {t}

_pthread_internal_free(t) == memory' = [memory EXCEPT ![t] = "freed"]

-----------------------------------------------------------------------------
(***************************************************************************)
(* pthread_create: allocate the descriptor, lock the start mutex and clone *)
(* the thread, which waits for that mutex; then fill in and list the       *)
(* descriptor; then unlock the start mutex and return.  A create that      *)
(* fails undoes what it did and is left out.                               *)
(***************************************************************************)
CreateClone(a, t) ==
  /\ Free(a)
  /\ life[t] = "none"
  /\ memory' = [memory EXCEPT ![t] = "allocated"]
  /\ life' = [life EXCEPT ![t] = "cloned"]
  /\ Begin(a, "init", t)
  /\ UNCHANGED <<gThreadList, detached, join_count, claimed, joined, cut>>

CreateInit(a, isDetached) ==
  LET t == target[a] IN
  /\ op[a] = "init"
  /\ detached' = IF isDetached THEN detached \cup {t} ELSE detached
  /\ join_count' = [join_count EXCEPT ![t] = 0]
  /\ _pthread_internal_add(t)
  /\ Begin(a, "release", t)
  /\ UNCHANGED <<life, memory, claimed, joined, cut>>

CreateRelease(a) ==
  /\ op[a] = "release"
  /\ life' = [life EXCEPT ![target[a]] = "released"]
  /\ End(a)
  /\ UNCHANGED <<memory, gThreadList, detached, join_count, claimed, joined, cut>>

(***************************************************************************)
(* __thread_entry: the new thread has locked its start mutex.              *)
(***************************************************************************)
Start(t) ==
  /\ life[t] = "released"
  /\ life' = [life EXCEPT ![t] = "running"]
  /\ UNCHANGED <<memory, gThreadList, detached, join_count, op, target, claimed, joined, cut>>

(***************************************************************************)
(* pthread_exit: after the cleanup handlers and TLS destructors (see       *)
(* TlsKeys) the flag is read without the lock; the descriptor is then      *)
(* dropped, or kept and the waiting joiners woken.                         *)
(***************************************************************************)
ExitReadFlags(t) ==
  /\ Free(t)
  /\ t # Main
  /\ \/ memory[t] = "freed" /\ life' \in {[life EXCEPT ![t] = "dropping"],
                                         [life EXCEPT ![t] = "keeping"]}
     \/ /\ memory[t] # "freed"
        /\ life' = [life EXCEPT ![t] = IF t \in detached THEN "dropping" ELSE "keeping"]
  /\ UNCHANGED <<memory, gThreadList, detached, join_count, op, target, claimed, joined, cut>>

ExitDrop(t) ==
  /\ life[t] = "dropping"
  /\ _pthread_internal_remove(t)
  /\ _pthread_internal_free(t)
  /\ life' = [life EXCEPT ![t] = "dead"]
  /\ UNCHANGED <<detached, join_count, op, target, claimed, joined, cut>>

WaitsFor(a, t) == op[a] = "waiting" /\ target[a] = t

ExitKeep(t) ==
  /\ life[t] = "keeping"
  /\ \/ /\ join_count[t] > 0 \/ memory[t] = "freed"
        /\ op' = [a \in Actors |-> IF WaitsFor(a, t) THEN "awake" ELSE op[a]]
        /\ UNCHANGED join_count
     \/ /\ join_count[t] <= 0 \/ memory[t] = "freed"
        /\ join_count' = [join_count EXCEPT ![t] = -1]
        /\ UNCHANGED op
  /\ life' = [life EXCEPT ![t] = "dead"]
  /\ UNCHANGED <<memory, gThreadList, detached, target, claimed, joined, cut>>

-----------------------------------------------------------------------------
\* The callers have the identifier of t: its create has returned.
Known(t) == life[t] \notin {"none", "cloned"}

\* The callers detach a thread only once and do not detach one that they join.
MayDetach(t) == t \notin claimed /\ t \notin detached

\* Mutant of Join: a thread nobody waits for counts as a zombie.
JoinNoWait(a, t) ==
  /\ Free(a)
  /\ Known(t)
  /\ a # t
  /\ t \in gThreadList \ detached
  /\ claimed' = claimed \cup {t}
  /\ \/ /\ join_count[t] > 0
        /\ join_count' = [join_count EXCEPT ![t] = @ + 1]
        /\ Begin(a, "waiting", t)
        /\ UNCHANGED <<memory, gThreadList, joined>>
     \/ /\ join_count[t] <= 0
        /\ joined' = joined \cup {t}
        /\ _pthread_internal_remove(t)
        /\ _pthread_internal_free(t)
        /\ UNCHANGED <<join_count, op, target>>
  /\ UNCHANGED <<life, detached, cut>>

(***************************************************************************)
(* pthread_join up to its return or its wait.  The calls that return ESRCH *)
(* or EINVAL change nothing.                                               *)
(***************************************************************************)
Join(a, t) ==
  /\ Free(a)
  /\ Known(t)
  /\ a # t
  /\ t \in gThreadList \ detached
  /\ claimed' = claimed \cup {t}
  /\ \/ /\ join_count[t] >= 0
        /\ join_count' = [join_count EXCEPT ![t] = @ + 1]
        /\ Begin(a, "waiting", t)
        /\ UNCHANGED <<memory, gThreadList, joined>>
     \/ /\ join_count[t] < 0
        /\ joined' = joined \cup {t}
        /\ _pthread_internal_remove(t)
        /\ _pthread_internal_free(t)
        /\ UNCHANGED <<join_count, op, target>>
  /\ UNCHANGED <<life, detached, cut>>

\* The wait of a joiner is over: after a broadcast, or because a signal handler ran.
WaitEnds(a) ==
  LET t == target[a] IN
  \/ op[a] = "awake" /\ joined' = joined \cup {t} /\ UNCHANGED cut
  \/ op[a] = "waiting" /\ cut' = cut \cup {t} /\ UNCHANGED joined

\* Mutant of JoinReturn: every joiner frees.
JoinReturnFrees(a) ==
  LET t == target[a] IN
  /\ WaitEnds(a)
  /\ join_count' = [join_count EXCEPT ![t] = @ - 1]
  /\ _pthread_internal_remove(t)
  /\ _pthread_internal_free(t)
  /\ End(a)
  /\ UNCHANGED <<life, detached, claimed>>

\* Mutant of JoinReturn: nobody is the last joiner.
JoinReturnKeeps(a) ==
  LET t == target[a] IN
  /\ WaitEnds(a)
  /\ join_count' = [join_count EXCEPT ![t] = @ - 1]
  /\ End(a)
  /\ UNCHANGED <<life, memory, gThreadList, detached, claimed>>

(***************************************************************************)
(* The rest of pthread_join, when its one wait is over.                    *)
(***************************************************************************)
JoinReturn(a) ==
  LET t == target[a] IN
  /\ WaitEnds(a)
  /\ join_count' = [join_count EXCEPT ![t] = @ - 1]
  /\ \/ /\ join_count[t] - 1 <= 0
        /\ _pthread_internal_remove(t)
        /\ _pthread_internal_free(t)
     \/ /\ join_count[t] - 1 > 0
        /\ UNCHANGED <<memory, gThreadList>>
  /\ End(a)
  /\ UNCHANGED <<life, detached, claimed>>

(***************************************************************************)
(* pthread_detach; ESRCH and EINVAL change nothing.                        *)
(***************************************************************************)
Detach(a, t) ==
  /\ Free(a)
  /\ Known(t)
  /\ MayDetach(t)
  /\ t \in gThreadList
  /\ detached' = detached \cup {t}
  /\ claimed' = claimed \cup {t}
  /\ UNCHANGED <<life, memory, gThreadList, join_count, op, target, joined, cut>>

Next ==
  \/ \E a \in Actors :
       \/ \E t \in Threads : CreateClone(a, t) \/ Join(a, t) \/ Detach(a, t)
       \/ \E isDetached \in BOOLEAN : CreateInit(a, isDetached)
       \/ CreateRelease(a) \/ JoinReturn(a)
  \/ \E t \in Threads :
       Start(t) \/ ExitReadFlags(t) \/ ExitDrop(t) \/ ExitKeep(t)

Spec == Init /\ [][Next]_vars

\* The steps of a inside the library that wait for nobody else.
Continue(a) ==
  \/ CreateRelease(a) \/ \E isDetached \in BOOLEAN : CreateInit(a, isDetached)
  \/ op[a] = "awake" /\ JoinReturn(a)
  \/ a \in Threads /\ (Start(a) \/ ExitDrop(a) \/ ExitKeep(a))

(***************************************************************************)
(* A thread that can go on inside the library is scheduled.  Nothing says  *)
(* that a thread's own code ends, or that a signal handler runs.           *)
(***************************************************************************)
Fairness == \A a \in Actors : WF_vars(Continue(a))

FairSpec == Spec /\ Fairness

-----------------------------------------------------------------------------
\* Type invariant.
TypeOK ==
  /\ life \in [Actors -> {"none", "cloned", "released", "running",
                          "dropping", "keeping", "dead"}]
  /\ memory \in [Actors -> {"none", "allocated", "freed"}]
  /\ gThreadList \subseteq Actors /\ detached \subseteq Actors
  /\ join_count \in [Actors -> -1 .. Cardinality(Actors)]
  /\ op \in [Actors -> {"none", "init", "release", "waiting", "awake"}]
  /\ target \in [Actors -> Threads \cup {None}]
  /\ claimed \subseteq Threads /\ joined \subseteq Threads /\ cut \subseteq Threads

\* The descriptor is never freed while a joiner still uses it or the list holds it,
\* nor before its thread has ended, unless the wait of some join of that thread was
\* interrupted: of all the ways in which exit, joiners and detach can follow one
\* another, exactly the last user frees.
NoUseAfterFree ==
  \A t \in Threads : memory[t] = "freed" =>
    /\ life[t] = "dead" \/ t \in cut
    /\ t \notin gThreadList
    /\ \A a \in Actors : target[a] # t

\* "if the 'join_count' is negative, this is a 'zombie' thread" (pthread_join): it is
\* the number of threads whose join waits or is about to return, and is negative
\* only when the thread has ended and there are none.
JoinCountExact ==
  \A t \in gThreadList \ {Main} :
    LET joiners == {a \in Actors : op[a] \in {"waiting", "awake"} /\ target[a] = t} IN
    \/ join_count[t] = Cardinality(joiners)
    \/ join_count[t] = -1 /\ joiners = {} /\ life[t] = "dead"

\* pthread_join returns 0 only when the thread has ended, if its own wait is not
\* interrupted, even when the waits of other joins of the same thread were.
WokenAfterExit ==
  \A t \in joined : life[t] = "dead"

\* "wait for thread death when needed" (pthread_join): a join returns 0 only when
\* the thread has ended.
JoinAfterExit ==
  \A t \in joined \cup cut : life[t] = "dead"

\* "the last one will also remove/free the thread structure" (pthread_exit): the
\* descriptor of a thread that ends while others wait to join it is freed by them,
\* unless yet another thread began to join it after the broadcast of its exit.
JoinedFreed ==
  \A t \in Threads :
    (life[t] = "dead" /\ \E a \in Actors : target[a] = t) ~>
      (memory[t] = "freed" \/ \E a \in Actors : WaitsFor(a, t) /\ life[t] = "dead")
=============================================================================
