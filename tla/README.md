# Verification of bionic's threads and shared state, and of EGit's history page

The repository holds two unrelated programs: Android's C library **bionic**
(`libc/`, with `libm/`, `libdl/` and `libstdc++/`) and the **EGit** plug-ins for
Eclipse (`org.eclipse.egit.*`). This project models the parts whose correctness
depends on the order in which threads and processes take their steps: bionic's
synchronisation primitives, built on the futex system call; the parts of the
library that are built on those primitives; its resolver; and the history page
of EGit, where background jobs, find threads and the user interface meet. The
models are TLA+ modules. TLC checks them on small instances, and TLAPS proves the safety
properties of all of them for every value of the constants.

## 1. The system and its parts

| Part | Code | Module | State |
|---|---|---|---|
| normal mutexes | `bionic/pthread.c` | `NormalMutex`, `Mutex` | modelled, proved |
| recursive and error-checking mutexes | `bionic/pthread.c` | `RecursiveMutex`, `Mutex` | modelled, proved |
| semaphores | `bionic/semaphore.c` | `Semaphore` | modelled, proved |
| condition variables | `bionic/pthread.c` | `CondVar` | modelled, proved |
| read/write locks | `bionic/pthread-rwlocks.c` | `RWLock` | modelled, proved |
| thread creation, exit, join, detach | `bionic/pthread.c` | `ThreadLife` | partly, proved |
| thread-specific data | `bionic/pthread.c` | `TlsKeys` | modelled, proved |
| SIGEV_THREAD timers | `bionic/pthread-timers.c` | `ThreadTimers` | partly, proved |
| fork and its handlers | `bionic/fork.c`, `pthread-atfork.c` | `Fork` | partly, proved |
| system properties | `bionic/system_properties.c` | `SystemProperties` | partly, proved |
| exit handlers | `stdlib/atexit.c`, `exit.c` | `AtExit` | partly, proved |
| one-time initialisation | `bionic/pthread.c` | `Once` | modelled, proved with the cache |
| resolver cache | `netbsd/resolv/res_cache.c` | `ResolvCache` | partly, proved |
| resolver state | `netbsd/resolv/res_state.c` | `ResState` | partly, proved |
| sending a query | `netbsd/resolv/res_send.c` | `ResSend` | partly, proved |
| EGit: find toolbar | `FindToolbar*.java`, `FindResults.java` | `FindToolbar` | partly, proved |
| EGit: history page | `GitHistoryPage.java`, `GenerateHistoryJob.java` | `HistoryPage` | partly, proved |
| EGit: caches, decorators, operations, views | `org.eclipse.egit.core`, `.ui` | – | not modelled |
| allocator, stdio, strings, time zones, `libm`, start-up code, ... | | – | not modelled |

"Proved" means the safety properties; liveness is model-checked everywhere.

How the modelled parts rest on one another:

    AbstractLock  <-- implemented by --  NormalMutex, RecursiveMutex
         |  (a critical section is one action)      \       /
         |                                            Mutex  (by the type field)
         +--> RecursiveMutex (uses the normal mutex __recursive_lock)
         +--> CondVar        (its callers' mutex is an abstract lock)
         +--> TlsKeys        (_tlsmap_lock)
         +--> ResolvCache    (the locks of the list and of a cache)
         |      extends Once (_res_cache_init is run by pthread_once)
         |
      CondVar  (a broadcast releases all who wait; a signal made with
         |      the mutex held reaches a thread that was waiting)
         +--> RWLock, ThreadLife, ThreadTimers (waits are one step)
                                       |
                                     Fork extends ThreadTimers (fork stops and
                                          starts the timers)

    CountingSemaphore <-- implemented by --  Semaphore

    SystemProperties  (a serial number tells whether a property changed)
         +--> ResState (net.change)  <-- extended by --  ResSend

    FindToolbar  <-- extended by --  HistoryPage

`RWLock`, `ThreadLife` and `ThreadTimers` use a mutex and a condition variable: a
part of a call between two points where the mutex is released is one action, and
waiting on a condition variable is one state that a signal or broadcast ends.
What justifies the first is `ImplementsLock`; what justifies the second are the
properties of `CondVar`. `timer_settime` and `SettimeSignal` show where this needs
care: that signal is sent after the unlock, so it is an action of its own.

## 2. Reading the modules

A module models one component: its fields as `VARIABLES`, its operations as
actions. A thread's position inside a call is `pc` (or `op`, `life`, `stage`, `thread`,
`call`, `once`, `ui` where the stages have better names). `PROJECT.json` gives, for
every definition, the lines it translates. Names are those of the source where
TLA+ allows it.

Three conventions hold throughout.

- **Grain.** Where the code uses no lock, an action is one atomic instruction,
  one store or one system call, with the local steps that follow it. Where it
  uses a lock, an action is one critical section. In EGit a synchronized method
  is one action, and so is what the user interface thread does at one go.
- **Calls that change nothing** (an `EBUSY`, `ESRCH` or `EINVAL` that is returned
  at once) are stuttering steps and have no action.
- **Callers' discipline.** Where POSIX leaves a call undefined (destroying a
  mutex others wait for, detaching a thread twice, unlocking a normal mutex one
  does not hold) the model's callers do not make it. The operators `Usable`,
  `OthersDone`, `MayAsk` and `MayDetach` say so where it matters.

Modules that are checked or proved about together have distinct names: what is `Spec`,
`Init` or `TypeOK` elsewhere is `SemSpec`, `CondSpec`, `TlsSpec`, `ForkSpec`, `AtExitSpec`,
`SendSpec` or `ResolvSpec` and so on in `Semaphore`, `CondVar`, `TlsKeys`, `Fork`, `AtExit`,
`ResSend` and `ResolvCache`.

A time limit is `"none"`, `"ahead"` or `"past"`, and the action `Expire` lets it
pass. Every sleep on a futex may end without a wake call (`Interrupted`), because
a signal handler can end any futex wait.

Some variables are not in the code and record what callers have seen or done:
`depth`, `wrapped`, `due`, `held`, `called`, `targets`, `claimed`, `joined`, `cut`, `made`,
`log`, `prepared`, `added`, `sent`, `excused`, the fields `crossed` and `crossings` of the
resolver cache, and `created` as the identity of values. No guard of a code action
reads them except to enforce a named bound or the callers' discipline.

An operator marked "Mutant of X" is a wrong version of X, one plausible bug. With
it in place of X, TLC reports a violation of the property it is listed for.

## 3. The modules

**`NormalMutex`.** `value` is the state field of the mutex word: 0, 1 (locked), 2
(locked, maybe waiters), or the dead value. `Lock` is the first
compare-and-exchange of `_normal_lock`, `Swap` the exchange at the head of its
loop, `FutexWait` the system call, which compares again. `_normal_unlock` is
three steps (`UnlockDec`, `UnlockStore`, `UnlockWake`), since another thread may
take, or even destroy, the mutex between any two. `CheckClock` is the timed
lock's look at the clock after its swap.

**`RecursiveMutex`.** The owner, counter and state fields are a record. A pass of
the lock loop inside `__recursive_lock` is `Try`; the futex call compares the
whole word with `oldv`. An error-checking mutex (`Type = "errorcheck"`) has the
same actions without `Relock`. The proofs cover both values of `Type`. `depth` counts
the lock calls less the unlock calls of a thread since the mutex was initialised; `Relock`
takes the counter modulo `CounterSize`, as the code does, and `wrapped` are the threads
whose calls have made it overflow since then. `Destroy` is the trylock and the store: the
owner passes the trylock, and `depth` keeps what its calls say.
`RecursiveFields` declares the constants of these fields and `LockThreads` those of
the threads.

**`Mutex`** is a mutex whose type field is normal or not and sends each call to the
actions of the one or the other module.

**`AbstractLock`** has an owner that threads acquire when it is free and release
when they own it. Both mutexes refine it: the normal one with `Owner`, computed
from the threads' positions, the recursive one with its owner field.

**`BlockingCalls`** declares what `Semaphore`, `CondVar` and `RWLock` share: the threads,
their positions in the calls and their time limits. **`BlockingObject`** puts the three
side by side for one run: an object is of one kind, and only the actions of that kind
happen to it.

**`Semaphore`.** `count` is the signed value; −1 means "0, and maybe waiters". The
three compare-and-exchange loops are one step each. It refines
**`CountingSemaphore`** with `due`, the permits as callers count them.

**`CondVar`.** A wait reads the counter, unlocks the mutex, and sleeps if the
counter is unchanged; a pulse decrements and then wakes. `called` and `targets`
remember whom a broadcast or signal found waiting.

**`RWLock`.** The four fields of `pthread_rwlock_t`. `LockCall` runs up to the
return or the first wait; `Recheck` and `GiveUp` continue after a wait.

**`ThreadLife`.** `CreateClone`, `CreateInit` and `CreateRelease` are the three parts
of `pthread_create`, which holds the new thread's start mutex until its descriptor is
complete. `pthread_exit` reads the detach flag without a lock (`ExitReadFlags`) and
acts on it later (`ExitDrop`, `ExitKeep`). `pthread_join` is `Join` up to its one wait and
`JoinReturn` after it; `WaitEnds` lets the wait end by the broadcast of the exit or, at any
time, by a signal handler. `joined` are the threads that a join has returned for after the
broadcast, or as zombies, and `cut` those that a join has returned for after an
interruption.

**`TlsKeys`.** A value is the number of the `pthread_key_create` call after which it
was set, which tells a value that outlived its key from a current one.
`CleanScan` goes from the lock to the next destructor call; destructors create,
delete and set keys like any other code. **`ThreadCalls`** has a run look at the one or
the other of `ThreadLife` and `TlsKeys`.

**`ThreadTimers`.** The table of `MAX_THREAD_TIMERS` entries with its free list, the calls
of the program, the loop of each timer's thread, and the stop and start around `fork`. `alarm` and
`alarmPeriod` are that thread's local copies, which may be older than the
setting (`stale`).

**`Fork`** adds the handlers of `pthread_atfork` and the steps of `fork` in the order
of `fork.c`: stop of the timers, prepare handlers, the system call, then in the
parent the timers' start and the parent handlers, in the child the child handlers.
`handler_mutex` is held from the prepare handlers to the last ones, in both processes.
The child's copy of the handler state is the record `child`.

**`SystemProperties`.** One writer, any number of readers without locks. Values are
words, each marked with the write it belongs to, copied one at a time. The writer is
another program; it is modelled from the rules in `_system_properties.h`.

**`AtExit`.** Pages of entries, and a stack of `__cxa_finalize` calls under way,
because handlers may register, unload and exit. `First(Ahead(f))` is the entry
the loop reaches next.

**`Once`.** The test of the control variable without the lock, the test with it, the
call of the initialiser and the store, one action each.

**`ResolvCache`.** `list` is the list of caches, one for each interface name; a cache
has its hash table `entries`, its list `mru_list` and `num_entries`. A thread looks
up a query, and if it is not there adds the answer later, in another critical
section: between the two, others add, evict, flush and choose another default
interface. An expiration time is the time left, and `Tick` lets it pass.

**`ResState`.** The thread's name servers and the serial number of `net.change` it
recorded before it read them, one property at a time, while the property service
writes them.

**`ResSend`.** The two loops of `res_nsend` over tries and servers. `SendDg` and `SendVc`
are `send_dg` and `send_vc` up to the wait for a reply or a failure; replies, time-outs,
rejections, truncations and resets are the ways a wait ends. An address (`Addr`) tells
the server's index, the version of its `net.dnsN` property and whether the program has put
an address of its own there (`SetServer`, `own`). `nssocks` has for each index the address
that its datagram socket was connected to, which may no longer be the address of that
index, and `_vcsock` that of the circuit. `SendDg` uses the socket of its index as it finds
it. What keeps it from asking an old address is `needclose`, the comparison of the list
with its copy `nsaddrs` at the head of `res_nsend`; the circuit has a test of its own
(`CheckedVc`).

**`FindToolbar`.** One thread per find, each of which gives up when `globalThreadIx`
shows a later one; the test and the addition of a result are separate steps
(`TestSuperseded`, `Match`). `findResults` is shared by all finds, and its binary
searches (`getIndexAfter`, `getIndexBefore`) rely on the order in which they fill it.

**`HistoryPage`.** `setInput`, filters and changed refs make walks; each has a job that
reads commits in batches and shows them through the queue of the user interface
thread. `cancelRefreshJob` cancels the page's job and `Join` waits for its end. `refs` is
changed by others (`ChangeRefs`), and the page's listener hears of it later.

## 4. The runs

| Run | Distinct states | Checks |
|---|---|---|
| `mutexes` | 131,517 | `MutualExclusion`, `NoOrphan`; `RecursiveSafe` (owner and counter agree with the calls made until the counter overflows or the mutex is destroyed, nobody orphaned); `DestroyedUntouched`; `LockCallsProgress`; `ImplementsLock` (refinement) |
| `blocking_objects` | 100,671 | semaphores: `NoOrphan`, `ImplementsCounting` (refinement: no permit lost or invented); condition variables: `NoMissedBroadcast`, `SignalDelivered`, `BroadcastReleases`; read/write locks: `Exclusion`, `PendingIsExact`, `WritersNotStarved` |
| `thread_calls` | 205,584 | life of threads: `WokenAfterExit`, `NoUseAfterFree`, `JoinedFreed`; thread-specific data: `NoStaleValue`, `AllDestroyed`, `ExitEnds` |
| `fork` | 157,027 | `FreeMeansUnused`, `HandlersPaired`, `DeletedFreed`, `DueFires` |
| `system_properties` | 414,330 | `ReadNotTorn`, `GetReturns` |
| `atexit` | 411,972 | `CalledOnce`, `ReverseOrder`, `FinalizeComplete` |
| `resolv_cache` | 348,851 | `TableMatchesList`, `FlushComplete`, `HandleStaysValid` |
| `res_send` | 588,387 | `UnchangedIsCurrent`, `Attempts`, `RightServer`, `QueryEnds` |
| `history` | 354,948 | `NavigationRight`, `LastFindExact`, `OnlyPagesJobRuns`, `LatestShown` |

The configuration of a run is the `.cfg` file named after its MC module. All of these pass.
The comment above each property says what it promises and of which code. `fork`,
`thread_calls` and `history` take about two minutes and the others one or less.

Three more runs each check one property that restates a comment or a document, and TLC
finds it violated by what the code does.

| Run | Configuration | Violated |
|---|---|---|
| `join` | `MCJoin.cfg` with `ThreadLife` | `JoinAfterExit` |
| `destroy` | `MCDestroy.cfg` with `RecursiveMutex` | `DestroyedUnlocked` |
| `pulse` | `MCPulse.cfg` with `RWLock` | `NoSleeperOnFreeLock` |

- `pthread_join` waits once, not in a loop (`pthread.c:653`). A signal handler that ends
  the wait makes it return 0, and free the descriptor, while the thread still runs ("wait
  for thread death when needed", line 643). What is left is `WokenAfterExit`, for joins
  that are not interrupted, and `NoUseAfterFree`, in which only a thread that such a join
  was about may have its descriptor freed before it ends.
- A recursive mutex can be destroyed by its owner while it is locked (`pthread.c:900`):
  the test is a trylock, which the owner passes. The comment says "use trylock to ensure
  that the mutex value is valid and is not already locked", and `docs/CHANGES.TXT:26`
  that "a locked mutex will return EBUSY". `OwnerCountsDepth` excepts destroyed mutexes.
- A writer that gives up at its time limit wakes nobody. Readers that went to sleep only
  because it was pending stay asleep on a free lock (`pthread-rwlocks.c:300`; the comment
  at line 199 says of the threads contending for the lock that one of them "should be
  able to grab it").

### Stated in the modules and not part of a regular run

- Proved for every instance (section 5), and therefore not repeated: `TypeOK` of
  `NormalMutex` and `RWLock`, `SemTypeOK`, `TimersTypeOK`, `AtExitTypeOK` and
  `ResolvTypeOK`; `OwnerNeverWaits` and `ImplementsLock` of `RecursiveMutex`;
  `PermitsConserved`; `JoinCountExact`; `NoSocketLeft` of `ResSend`.
- Found to hold on the same instances: `PermitTaken` of `Semaphore`,
  `WritersAwakened` of `RWLock`, `ErasesExistingTls` of `TlsKeys`, `NobodySleepsOn` of
  `SystemProperties`, `HandlersReleased` of `Fork`, and the other type invariants.

### Bounds

- Three threads for the primitives: an owner, a sleeper and a third thread that
  comes between a release and its wake call. All hand-over races of the code
  involve at most these three, and the safety part is proved for any number.
- Counters are cut down so that their limits are reached: the recursion counter
  to 2 values (2048 in the code), the semaphore's maximum to 2 (2^30 − 1), the
  condition variable's counter to 3 values (2^31), the serial numbers to 4
  (2^24). `PulseDec` and `NoWrap` keep a counter from coming round within one
  reader's window, which the code takes for granted.
- `MaxDepth` is one more than `CounterSize`: the owner's last lock call wraps the
  recursion counter.
- `MaxHold = 2`: a holder of a read/write lock asks for it once more.
- Three threads besides the main thread in `ThreadLife` allow two joiners of one
  thread and a late third; thread identifiers are not reused.
- Two threads, two keys and three creations in `TlsKeys`, with three destructor
  rounds (4 in the code): a key number is reused while another thread exits.
- One table entry, three program threads of which two fork, and two handlers in
  `Fork`: every creation reuses the entry, two forks compete for `handler_mutex`,
  and a handler registers the other one. Without forks and with two entries and
  two program threads `FreeMeansUnused` was found to hold too (757,127 states).
- One reader, two properties, values of one or two words and three writes of each
  in `SystemProperties`: a copy is overtaken, and the serial number comes round.
- Five handlers, pages of two entries and three calls of `__cxa_finalize` in
  `AtExit`: three pages, the loop inside any of them while handlers register and
  finalize.
- Two devices in `ResolvCache`: two interface names with caches of one entry, or one
  cache of two entries (`max_entries`) and three queries, two of which share a
  bucket, so that an eviction can change the chain an answer is about to be added to.
- Three servers and two tries in `ResSend`, the code's `MAXNS` and
  `RES_DFLRETRY`; `MaxChanges = 2` changes of servers, so that one comes while the
  thread reads after another. The program replaces the address of the second server
  (`Replaced`), with sockets open from an earlier call or not. Attempts are counted up to
  `Retry + 3`.
- Three commits, two versions of the refs, two filters, batches of one commit
  (`BATCH_SIZE`, 256 in the code), `MAX_RESULTS = 2` (20,000) and a limit of two
  commits in `HistoryPage`; with the second version of the refs one filter finds no
  commit. The `Sessions` divide the work: two inputs with changing
  refs; one input, changing refs and a find; one input and two finds.
- Only `resolv_cache` uses a symmetry set; it checks no liveness.

Deadlock is not checked in `thread_calls` (a thread that joins for ever is a
legal program, and all threads may end), `system_properties` (the writes are
used up), `atexit` (the process ends) and `history` (the session ends).

### Fairness

Weak fairness on the steps of a thread *inside* a call: the kernel schedules
every runnable thread. Weak fairness on `Expire`: time passes. A holder of a
lock is assumed to release it, because nothing else could be promised to the
others. No thread has to begin a call, no signal handler has to run, and nobody
has to post, broadcast or exit. There is no strong fairness anywhere. In `CondVar`
nothing is assumed of the callers' mutex: `BroadcastReleases` says that a thread which a
broadcast found waiting stops waiting, not that it gets the mutex back, because neither
futex nor mutex keeps a thread from being overtaken for ever. In `RWLock`, `ThreadLife` and
`ThreadTimers` a critical section is one step, so fairness of a step that goes on after a
wait includes that the thread gets the internal mutex of the object, which others hold
only for moments; `WritersNotStarved`, `JoinedFreed`, `DeletedFreed` and `DueFires` rest on
that.

In `ResSend` the thread's own steps and the time-out of a datagram are fair; no
server has to answer, and a circuit that neither delivers nor breaks is the one
exception in `QueryEnds`, because `send_vc` reads without a time-out. In
`HistoryPage` the steps of the user interface thread, of jobs, of finds and of the
listener are fair; neither the user nor the repository has to do anything.

## 5. The proofs

Each proof module extends the components it is about and TLAPS. All follow one plan: an
inductive invariant `IInv`, `Init => IInv` (`InitIInv`), `IInv /\ [Next]_vars =>
IInv'` (`NextIInv`, one step per action), hence `Spec => []IInv` (`Invariance`);
every theorem follows from that. Where a module has several components the names say
which (`SemIInv`, `CondIInv`, `TlsIInv`, `RecursiveIInv`). The properties that runs
check were model-checked before they were proved.

| Module | Theorem | States |
|---|---|---|
| `PthreadProofs`: normal mutex | `TypeCorrect` | `Spec => []TypeOK` |
| | `MutexSafe` | `Spec => []MutualExclusion` |
| | `NobodyOrphaned` | `Spec => []NoOrphan` |
| | `UnlockLeavesDestroyedAlone` | `Spec => DestroyedUntouched` (an action property) |
| | `NormalMutexImplementsLock` | `Spec => ImplementsLock` (refinement) |
| recursive mutex | `OwnerCorrect` | `R!Spec => []R!OwnerCountsDepth` |
| | `RecursiveNobodyOrphaned` | `R!Spec => []R!NoOrphan` |
| | `NoSelfDeadlock` | `R!Spec => []R!OwnerNeverWaits` |
| | `RecursiveMutexImplementsLock` | `R!Spec => R!ImplementsLock` (refinement) |
| mutex of any type | `RecursiveMutexSafe` | `MutexSpec => []RecursiveSafe` |
| timers and fork | `TimersTypeCorrect` | `ForkSpec => []TimersTypeOK` |
| | `FreeTimersUnused` | `ForkSpec => []FreeMeansUnused` |
| | `ForkPairsHandlers` | `ForkSpec => []HandlersPaired` |
| `BlockingCallsProofs` | `SemTypeCorrect` | `SemSpec => []SemTypeOK` |
| | `NobodyOrphaned` | `SemSpec => []NoOrphan` |
| | `NoPermitLost` | `SemSpec => []PermitsConserved` |
| | `SemaphoreCounts` | `SemSpec => ImplementsCounting` (refinement) |
| | `BroadcastsSeen` | `CondSpec => []NoMissedBroadcast` |
| | `SignalsDelivered` | `CondSpec => SignalDelivered` (an action property) |
| | `TypeCorrect` | `Spec => []TypeOK`, of `RWLock` |
| | `WriterAlone` | `Spec => []Exclusion` |
| | `FieldsExact` | `Spec => []PendingIsExact` |
| `ThreadProofs` | `NoValueOutlivesItsKey` | `TlsSpec => []NoStaleValue` |
| | `DestructorsComplete` | `TlsSpec => []AllDestroyed` |
| | `DescriptorSafe` | `Spec => []NoUseAfterFree` |
| | `JoinWaits` | `Spec => []WokenAfterExit` |
| | `JoinsCounted` | `Spec => []JoinCountExact` |
| `PropertiesProofs` | `NeverTorn` | `Spec => []ReadNotTorn`, of `SystemProperties` |
| | `ServersCurrent` | `SendSpec => []UnchangedIsCurrent` |
| | `AttemptsCounted` | `SendSpec => []Attempts` |
| | `AsksRightServer` | `SendSpec => []RightServer` |
| | `SocketsClosed` | `SendSpec => []NoSocketLeft` |
| `AtExitProofs` | `AtExitTypeCorrect` | `AtExitSpec => []AtExitTypeOK` |
| | `HandlersCalledOnce` | `AtExitSpec => []CalledOnce` |
| | `HandlersReversed` | `AtExitSpec => ReverseOrder` (an action property) |
| | `FinalizeLeavesNone` | `AtExitSpec => FinalizeComplete` (an action property) |
| `ResolvProofs` | `ResolvTypeCorrect` | `ResolvSpec => []ResolvTypeOK` |
| | `TableAndListAgree` | `ResolvSpec => []TableMatchesList` |
| | `HandlesStayValid` | `ResolvSpec => []HandleStaysValid` |
| | `FlushesComplete` | `ResolvSpec => []FlushComplete` |
| `HistoryProofs` | `OnlyPagesJobWorks` | `Spec => []OnlyPagesJobRuns` |
| `FindToolbarProofs` | `NavigationFindsNearest` | `Spec => []NavigationRight` |
| | `LastFindReportsAll` | `Spec => []LastFindExact` |

**Assumptions**, which TLC evaluates on every instance. `NoOwner` is not a thread
(`NoOwnerAssumption`); a recursive mutex's counter has at least one value and
its callers may lock it at least once (`RecursiveAssumption`; nothing is assumed of how
the two numbers compare); the semaphore's maximum is
positive; a condition variable's counter has at least two values
(`CondVarAssumption`); the threads are finitely many where they are counted
(`RWLockAssumption`, `ThreadLifeAssumption`); there is a key and a destructor round
(`TlsKeysAssumption`); there is a table entry, and `None` is neither an entry nor a
thread (`ThreadTimersAssumption`); the names of properties are finitely many, a value has
a word, and the size of the serial counter is even and greater than 2
(`SystemPropertiesAssumption`); there is a name server and a try, and `NoSocket` is no
address (`ResStateAssumption`, `ResSendAssumption`); a page of exit handlers has at least
three entries (`AtExitAssumption`); `Nobody` is not a thread (`OnceAssumption`); a cache has
room for an entry, a device has the empty interface name, hash values are numbers and the
threads finitely many (`ResolvCacheAssumption`); versions of the refs, filters and
patterns are over the set of commits, a batch and the maximum of results are at least 1 and the page's limit is a
number (`FindToolbarAssumption`, `HistoryPageAssumption`). Elsewhere the set of threads is
arbitrary, infinite sets included. `BlockingCallsProofs` has the set `Threads` of three
components in common; only the proofs about `RWLock` use that it is finite.

**Normal mutex.** Mutual exclusion is not inductive: a thread acquires because it
saw the word 0, so the invariant must say what the word tells about the others.
`WordTellsHeld` says that it is 1 or 2 exactly when somebody holds. Because the
unlock of a contended mutex passes through 1 before the store of 0, a thread
between the two still holds (`Holds` includes "store"); without that the
intermediate 1 would contradict the invariant. `DestroyAlone` says that when the
mutex is dead, or about to be, the others are outside it or have only their wake
call left. It gives `DestroyedUntouched`: nobody is left at "store".

**Recursive mutex.** `NoOrphan` needs the promise behind `new_lock_type`: whoever
sleeps or is about to has raised it to 2 (`SleeperContends`) and compares the
word with a contended value (`ComparesContended`), so it does not fall asleep on
a word that nobody will wake it from. `StateTellsOwned` ties the state field to
the owner field. How deep callers lock is not bounded by the size of the counter. Below
that size `SmallMod` shows that a lock call counts one up; at that size the owner gets into
`wrapped`, and from then on `OwnerCountsDepth` only says that the mutex is held for no longer
than the owner has lock calls to undo. The other conjuncts, `NoOrphan` among them, hold
without exception for overflow. `MutexIsEither` carries the results to `Mutex`: the type
field sends a call to one of the two modules and leaves the variables of the other alone, so that a behaviour of
`Mutex` is one of both.

**Semaphore.** `PermitsConserved` with `NoOrphan` and the type invariant is almost
inductive. `DestroyAlone` is needed so that `sem_init` finds no sleeper.

**Condition variable.** `PulseNoticed` is the arithmetic: a thread that has read the
counter and is not `CounterSize - 1` pulses behind finds it changed. `PulseWithMutex`
is the strengthening for signals: while the caller of a pulse holds the mutex nobody
begins to wait, so whoever waits was waiting at the decrement.

**Read/write lock.** `Exclusion` and `PendingIsExact` hold together or not at all: a
lock call is granted because of `numLocks` and the writer field, so these must count
the holds. `HoldsOf` is the set of pairs of a thread and the number of one of its
holds; `HoldersCounted` says that `numLocks` is its cardinality, which turns a sum over
threads into facts about finite sets.

**Life of threads.** `Listing` (a descriptor is in the list while its thread can run and
only while it is allocated), `Creation` (what a create in progress knows of its
thread, which no other create has), `JoinTargets` (a thread that is joined is listed,
claimed and not detached) and `Counts` (`join_count` is the number of joins in progress,
or −1). The joiner that brings the count to 0 is then the last user of the descriptor. A
wait that a signal handler ends breaks the link between that count and the end of the
thread, for that thread only: what the invariant says of the list and of freed descriptors
excepts the threads in `cut`, and the counting of joiners has no exception.

**Thread-specific data.** `NoStaleValue` needs `Reached`: a thread that has not ended is
in the list that `pthread_key_delete` walks. `AllDestroyed` needs `FromTheStart`: a round
in which no destructor has been called yet began at the first key. `MinIn` shows that
the first free key is free.

**System properties.** A reader without locks trusts a serial number that comes round.
`Settled` says that the number is odd exactly while the writer writes, and which
write each word belongs to; `CopyOK` says how far the number has moved since a reader
loaded it, that this is less than a full turn, and that if it has not moved, all words
copied so far belong to one write. That is the correctness of the seqlock.

**Timers and fork.** An entry is freed by its timer's thread, which looks only at `done`.
`OneUser` says that a timer is in the hands of one program thread, and `DoneUnused` that
once `done` is set for an entry with a thread nobody has that entry in hand any more;
`Subjects` covers the gap in `timer_create` between taking an entry and starting its
thread. Removing the head of the free list and putting an entry back keep it free of
duplicates (`TailOfList`, `ConsToList`). `HandlersPaired` needs `ForkerHolds`: from the
prepare handlers to the last parent handler `handler_mutex` has the forking thread as its
owner, so that the list changes only by the handlers the fork itself runs.

**Resolver.** `ReadIsCurrent` is about a thread in the middle of reading: the servers it
has read so far are current as long as `net.change` has the serial number recorded before
the first of them. Reading the number first is what makes this inductive. `Attempts`
speaks of the end of a query only, so the invariant counts inside the loops:
`DatagramsCounted` says how many datagrams each server has had by the `ns`-th server of a
try, `CircuitsCounted` the same after the switch to a circuit, where a truncated answer
has left earlier servers with datagrams and a reset allows one more attempt. `RightServer`
needs `SocketsMatch`: inside a call every datagram socket is closed or connected to the
present address of its index. It does not hold between calls, since the program may
replace an address then; that `Call` restores it is what `needclose` is for, and that it
lasts is `CallFreezesServers`.

**Exit handlers.** Handlers are numbered in the order of registration. `Ascending` says that
what is left in the pages ascends, so that going down them is the reverse order; the
reserved first entry is what keeps the cleanup function last. `NotYetCalled` and
`CleanupOnce` give `CalledOnce`. `FinalizeComplete` needs two more: `NoneLost` (a handler that
has not been called is in some entry) and `NoneSkipped` (what a call has gone past and left
there is not for it, whatever handlers have registered or finalized in between).
`FirstIsLast` shows that `First` is the entry with the highest page and place.

**Resolver cache.** `Sound` says of one cache how its table and its list belong together: the
chain of a bucket holds the entries of the list that belong there, each query once. Every
operation on a cache is shown to yield a sound one (`Follows`, `Fresh`). `Handles` says that a
call has a cache of the list, that of its interface, and `Owed` that what a cache has from
before its last flush and what it may yet be given are together no more than `crossings`,
which makes `FlushComplete` inductive. Nobody has a cache before `_res_cache_init` is done,
which makes the list empty when it begins.

**History page.** `OnlyPagesJobRuns` needs `JobsEnd`: from the end of `Join` to the start of
the next job no job is live, and a runnable that takes the job from the page is queued
after its job's end. `JobCounts` and `ArraysFresh` are for the toolbar: a job shows
arrays of growing length, they are queued in that order, and so no queued array is one
that the toolbar or a finder already has. That is why equality of arrays, which the code
tests by identity, tells in `LastFindExact` whether the list has changed.

**Find toolbar.** A finder adds a result after its test of `globalThreadIx`, when it may be
superseded. `OneWorks` says that only the owner of `EXEC_LOCK` works, and none once the
last find has completed; `RowsAscend` that the rows found ascend and lie before the one the
working finder is at, also when the results were emptied under it; `LoopOK` when the loop
ends; `ExactSoFar` that the results of the last find are the matching rows among those it
has been through. From `RowsAscend`, `BinarySearchFinds` shows what the search by halving
returns: were it wrong for some range, it would be for a shortest one, and such a range
is searched by one comparison and a shorter range. This replaces the induction that the
provers do not have. `RowsCount` counts the rows of a find that ran to its end, by
a bijection with their places.

**Only model-checked.** Liveness (`LockCallsProgress`, `BroadcastReleases`,
`WritersNotStarved`, `JoinedFreed`, `ExitEnds`, `DeletedFreed`, `DueFires`, `GetReturns`,
`QueryEnds`, `LatestShown`): TLAPS does not handle fairness and `ENABLED`. The properties
of section 4 that are marked as found to hold on the same instances.

## 6. What the modelling showed besides

These follow from the models (most were seen as counterexamples of stronger
properties) and have no run of their own; the three that have one are in section 4.
Line numbers are those of the source.

Threads and locks:

- A recursive mutex locked 2049 times by its owner is freed too early; the
  counter has 11 bits and wraps silently (`pthread.c:1061`). The model does the same,
  and `OwnerCountsDepth` promises less from then on; no document says otherwise.
- A semaphore whose last waiter timed out keeps the value −1, so `sem_destroy`
  returns `EBUSY` although nobody waits.
- `pthread_cond_signal` without the mutex held can wake a thread that began to wait
  after the signal instead of one that was waiting. The comment at the decrement
  concedes this.
- A reader that locks a read/write lock again while a writer is pending waits for
  that writer, which waits for it (`pthread-rwlocks.c:171`); the note at line 43
  says that a thread can acquire the lock several times in the same mode.
- A thread that begins to join after the exit's broadcast, while earlier joiners
  have not yet returned, waits for ever (`pthread.c:650`, `596`).
- A detach between the exit's test of the flag and its critical section leaks the
  descriptor (`pthread.c:589`, `694`).
- `pthread_key_delete` skips threads with a negative `join_count`, but that of a
  dead thread that somebody is still joining is positive (`pthread.c:1727`,
  `1719`): it clears a slot of an area that is already unmapped. It is the one
  exception in `ErasesExistingTls`.

Timers, fork, exit:

- `timer_create` takes only a negative result of `pthread_create` for a failure
  (`pthread-timers.c:366`), and that function returns positive errors: the entry
  is then never freed and the timer never fires.
- A `timer_settime` between the end of the timer thread's timed wait and its return
  with the mutex is overwritten (`pthread-timers.c:612`). For the same reason a
  callback can begin while a fork has the timers stopped, and after
  `timer_delete` has returned.
- A handler registered by a prepare handler has its parent or child handler called
  in the same fork, though its own prepare was not (`pthread-atfork.c:65`). It is the
  one exception in `HandlersPaired`.
- The locks of `pthread_once` and of the timer table are not among those `fork`
  takes: held by another thread at that moment, they stay locked in the child.
- Handlers registered while `exit` runs the others are not called
  (`atexit.c:121` says that all remaining ones are), and `call_depth` is not
  decremented for a shared object, so that the pages stay mapped at exit.

Resolver:

- Without a default interface the *last* cache in the list that has a name is used
  (`res_cache.c:1625`, a loop without `break`); the comment says the first. A flush of
  the default interface flushes the cache of the empty name then.
- `BIONIC_DNSCACHE=0` does not disable the cache: `_res_cache_init` only returns early
  (`res_cache.c:1602`). `CONFIG_SECONDS` (line 113, "always discarded") is not used.
- An answer that is "already in cache", which "should not happen" (`res_cache.c:1517`),
  is met whenever two threads ask the same query at the same time.
- A full cache gives up its oldest entry also for an answer with a time to live of 0,
  which is then not added.
- An answer asked for before a flush is added after it; `FlushComplete` bounds how many.
- The "one reset per query" of `send_vc` (`res_send.c:782`) is one for each server.
- A datagram socket kept open under `RES_STAYOPEN` is compared by `getsockname`, its own
  address (`res_send.c:416`; the circuit at line 698 uses `getpeername`), so it is closed
  and opened again at the next call.
- A change of `net.change` calls `res_ninit` (`res_state.c:165`), which resets options
  that the program has set.

EGit:

- Setting an input or filter with the same paths and the same HEAD cancels the running
  job, and `shouldRedraw` then keeps the old walk (`GitHistoryPage.java:1348`, `1365`):
  the history stays as far as it had come. A change of refs that is announced while
  the input is being set is dropped, and not noticed unless HEAD has moved. Both are
  excepted in `LatestShown` (`excused`).
- A walk that finds no commit shows nothing: `updateUI` returns at once
  (`GenerateHistoryJob.java:116`), and the page and the toolbar keep the commits of the
  walk before, for which finds still search. `LatestShown` excepts empty histories.
- A find that is between its test and its addition puts a row into results that have
  been cleared. The next press of a button then does not "redo the find with the new
  table data" (`FindToolbar.java:255`), because the results are not empty.
- A new list given to the toolbar during a find empties the results, and the find goes
  on over the old list. `LastFindExact` excepts this case.
- `commitsMap` of the table is built when a list is first shown
  (`CommitGraphTable.java:435`), so commits of later batches are not in it.
- From reading only: `GitDecoratorJob` loses a request that is added between its test for
  an empty queue and its end (`GitDecoratorJob.java:71`, `78`).

## 7. The plan

1. `AtExit` with a second thread, since `__cxa_finalize` takes no lock.
2. EGit: `GitProjectData` and `RepositoryCache` with references that the collector
   may clear; `GitDecoratorJob` with its queue.
3. `ResSend` with the cache of `ResolvCache` in one module, for several threads.

## 8. What is not modelled, and why

- *Weak memory.* All modules assume sequential consistency. For the mutexes and
  semaphores the code's atomic operations carry barriers; the readers of system
  properties have none, and for them this is a real restriction, of the run and of
  the proof.
- *The process-shared bit* only selects the futex opcode and is written back as it
  was by every operation.
- *Times and counts.* Clocks, time arithmetic and timer overruns are abstracted to
  limits that are ahead or past.
- *Failing creation of a thread, stacks, attributes and scheduling* in
  `ThreadLife`; *the child of a fork after `fork` returns, and the CPU accounting* in
  `Fork`; *the mapping of the property area* at start-up; *the protection of the
  pages* in `AtExit`, and with it a failing `mprotect`. When it fails at the marking of an
  entry (`atexit.c:148`) the handler is called all the same and stays unmarked, so that a
  nested or later call of `__cxa_finalize` calls it again; `CalledOnce` and its proof are
  about executions in which it does not fail.
- *Packets, search lists, hooks, `RES_ROTATE`* in the resolver, and the name servers
  and addresses recorded for an interface, which nothing in libc reads; the functions
  on names and addresses around it are conversions of character data.
- *Allocator, stdio, regular expressions, time zones, number conversion,
  strings, `libm`*: vendored code or pure functions on data, where a small
  instance says little. They are by far the largest part of the repository, together
  with kernel headers and EGit's user interface, so the modelled part is a small
  share of its lines.
- *System call stubs, start-up code, `libdl`, `libstdc++`, small wrappers*:
  generated, run before there is a second thread, or too small to go wrong in an
  interesting way.
- *Labels, colours, selection, viewers, and errors of the repository other than in `fillTo`* in
  `HistoryPage` and `FindToolbar`; *EGit's other views and its operations, and the
  calculator example*: user interface, and sequential calls of the JGit library,
  which is not in the repository.
