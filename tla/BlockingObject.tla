--------------------------- MODULE BlockingObject ---------------------------
(***************************************************************************)
(* The object that a set of threads blocks on: a semaphore, a condition    *)
(* variable with its mutex, or a read/write lock.  The threads use one     *)
(* object of one kind; the fields of the other two stay as they are.       *)
(***************************************************************************)
EXTENDS Semaphore, CondVar, RWLock

VARIABLE kind   \* "semaphore", "condvar" or "rwlock"

semFields == <<count, status, due>>
condFields == <<value, owner, oldvalue, number, called, targets>>
rwFields == <<fields, mode, held>>

ObjectInit ==
  /\ kind \in {"semaphore", "condvar", "rwlock"}
  /\ SemInitial /\ CondInitial /\ Init
  /\ kind # "semaphore" => count = 0

ObjectNext ==
  \/ kind = "semaphore" /\ SemNext /\ UNCHANGED <<kind, condFields, rwFields>>
  \/ kind = "condvar" /\ CondNext /\ UNCHANGED <<kind, semFields, rwFields>>
  \/ kind = "rwlock" /\ Next /\ UNCHANGED <<kind, semFields, condFields>>

\* The fairness of CondVar and of RWLock, for threads that use such an object.
ObjectFairness ==
  \A t \in Threads :
    /\ WF_condVars(kind = "condvar" /\ CondStep(t))
    /\ WF_vars(kind = "rwlock" /\ RWStep(t))
    /\ WF_vars(kind = "rwlock" /\ Expire(t))
    /\ WF_vars(kind = "rwlock" /\ Unlock(t))

ObjectSpec ==
  /\ ObjectInit
  /\ [][ObjectNext]_<<kind, pc, deadline, semFields, condFields, rwFields>>
  /\ ObjectFairness
=============================================================================
