--------------------------- MODULE HistoryProofs ---------------------------
(***************************************************************************)
(* The inductive invariant of the history page and its find toolbar, for   *)
(* any versions of the refs, filters, patterns and limits, and any number  *)
(* of inputs, walks and finds.                                             *)
(***************************************************************************)
EXTENDS HistoryPage, TLAPS

-----------------------------------------------------------------------------
(***************************************************************************)
(* The inductive invariant.                                                *)
(***************************************************************************)
\* The types of the toolbar.
Arrays == [walk : Nat, commits : Seq(Commits)]

Matches == [row : Nat, number : Nat]

Results == [matchesMap : Seq(Matches), matchesCount : Nat, highlight : Nat \cup {NULL}]

Finders ==
  [pc : {"started", "clear", "test", "match", "complete", "completed", "gone"},
   pattern : Patterns \cup {NoPattern}, fileRevisions : Arrays \cup {NULL}, i : Nat, totalMatches : Nat]

ToolbarTypeOK ==
  /\ session \in Sessions
  /\ fileRevisions \in Arrays \cup {NULL}
  /\ findResults \in Results
  /\ globalThreadIx \in Nat
  /\ finders \in Seq(Finders \cup {Gone})
  /\ Len(finders) = globalThreadIx
  /\ patternField \in Patterns \cup {NoPattern}

\* The types of the page.
Waits == [pc : {"idle", "clear"}]

Does == [pc : {"cancel", "join", "inputSet", "start"}, force : BOOLEAN, paths : Filters, job : Nat \cup {NULL}]

Jobs ==
  [source : Seq(Commits), state : {"waiting", "running", "none"}, cancelled : BOOLEAN, size : Nat,
   lastUpdateCnt : Nat, pc : {"fill", "update", "last", "end", "done"}]

Runnables ==
  [kind : {"refs"}] \cup [kind : {"show"}, array : Arrays] \cup [kind : {"done"}, walk : Nat]

PageTypeOK ==
  /\ ui \in Waits \cup Does
  /\ refs \in 1 .. session.versions
  /\ input \in Filters \cup {NULL}
  /\ walks \in Seq(Jobs \cup {Ended})
  /\ job \in DOMAIN walks \cup {NULL}
  /\ queue \in Seq(Runnables)

\* A runnable for changed refs finds an input: the page has none only while it waits for
\* a job to end.
InputKnown ==
  /\ ui.pc = "start" => input # NULL
  /\ input = NULL /\ (\E r \in Range(queue) : r.kind = "refs")
       => ui.pc \in {"cancel", "join", "inputSet"}

\* Nothing runs once the page has cancelled its job, and the runnable that takes the
\* job from the page comes after its end.
JobsEnd ==
  /\ ui.pc \in {"inputSet", "start"} => \A w \in DOMAIN walks : ~Live(w)
  /\ ui.pc = "join" => job # NULL /\ ui.job = job
  /\ \A w \in DOMAIN walks : walks[w].pc = "done" => ~Live(w)
  /\ \A r \in Range(queue) : r.kind = "done" => r.walk \in DOMAIN walks /\ ~Live(r.walk)

\* What a job has shown is less than what it is about to show.
CountsOK(walk) ==
  /\ walk.lastUpdateCnt <= walk.size
  /\ walk.size <= Len(walk.source)
  /\ walk.pc \in {"fill", "update"} => ~Incomplete(walk.size)
  /\ walk.pc = "last" /\ Incomplete(walk.size) => walk.lastUpdateCnt < walk.size

JobCounts == \A w \in DOMAIN walks : walks[w].pc # "gone" => CountsOK(walks[w])

PageInv == PageTypeOK /\ InputKnown /\ OnlyPagesJobRuns /\ JobsEnd /\ JobCounts

\* An array that its job showed.
Shown(array) ==
  /\ array.walk \in DOMAIN walks
  /\ walks[array.walk].pc # "gone" => Len(array.commits) <= walks[array.walk].lastUpdateCnt

\* The arrays of one walk are queued in the order of their lengths, and the toolbar and
\* its finders have none that is queued.
InUse ==
  ({fileRevisions} \cup {finders[f].fileRevisions : f \in {g \in DOMAIN finders : finders[g].pc # "gone"}})
    \ {NULL}

Longer(array, other) == array.walk = other.walk => Len(other.commits) < Len(array.commits)

Ordered(q) ==
  \A j, k \in DOMAIN q : j < k /\ q[j].kind = "show" /\ q[k].kind = "show" => Longer(q[k].array, q[j].array)

ArraysFresh ==
  /\ \A r \in Range(queue) : r.kind = "show" => Shown(r.array)
  /\ Ordered(queue)
  /\ \A array \in InUse :
       /\ Shown(array)
       /\ \A r \in Range(queue) : r.kind = "show" => Longer(r.array, array)

\* The finders that hold EXEC_LOCK.
Working == {"clear", "test", "match", "complete"}

\* One finder works at a time, and none after the last one has completed.
OneWorks ==
  /\ \A f \in DOMAIN finders : finders[f].pc \in Working => EXEC_LOCK = f
  /\ \A f \in DOMAIN finders : f = globalThreadIx /\ finders[f].pc = "completed"
       => \A g \in DOMAIN finders : finders[g].pc \notin Working

\* The order that a binary search needs.
Ascending(a) == \A j, k \in DOMAIN a : j < k => a[j] < a[k]

\* The rows found ascend, and lie before the one that a finder is at.
RowsAscend ==
  /\ Ascending(Keys(findResults))
  /\ \A f \in DOMAIN finders : finders[f].pc \in {"test", "match"} =>
       \A k \in DOMAIN findResults.matchesMap : findResults.matchesMap[k].row < finders[f].i

\* A finder's loop.
Searches(finder) ==
  finder.pattern # NoPattern /\ finder.fileRevisions # NULL

LoopOK ==
  \A f \in DOMAIN finders :
    /\ finders[f].pc \in {"started", "clear"} => finders[f].i = 0 /\ finders[f].totalMatches = 0
    /\ finders[f].pc \in {"test", "match"} =>
         /\ Searches(finders[f])
         /\ finders[f].i < Len(finders[f].fileRevisions.commits)
         /\ finders[f].totalMatches < MAX_RESULTS
    /\ finders[f].pc \in {"complete", "completed"} /\ Searches(finders[f]) =>
         /\ finders[f].i <= Len(finders[f].fileRevisions.commits)
         /\ finders[f].totalMatches <= MAX_RESULTS
         /\ \/ finders[f].i = Len(finders[f].fileRevisions.commits)
            \/ finders[f].totalMatches = MAX_RESULTS

\* The rows that match among the first i.
MatchingUpTo(finder, i) == {r \in 1 .. i : finder.fileRevisions.commits[r] \in finder.pattern}

\* The last find, with the array that the toolbar has, and not cleared.
Current(f) ==
  /\ f = globalThreadIx /\ finders[f].pc \in {"test", "match", "complete", "completed"}
  /\ finders[f].fileRevisions = fileRevisions /\ fileRevisions # NULL
  /\ finders[f].pattern # NoPattern /\ ui.pc # "clear"

\* Its results are those of the rows it has been through.
ExactSoFar ==
  \A f \in DOMAIN finders : Current(f) =>
    /\ Range(Keys(findResults)) = {r - 1 : r \in MatchingUpTo(finders[f], finders[f].i)}
    /\ findResults.matchesCount = finders[f].totalMatches
    /\ Len(findResults.matchesMap) = finders[f].totalMatches
    /\ \A k \in DOMAIN findResults.matchesMap : findResults.matchesMap[k].number = k

FindInv == OneWorks /\ RowsAscend /\ LoopOK /\ ExactSoFar

IInv == ToolbarTypeOK /\ PageInv /\ ArraysFresh /\ FindInv

-----------------------------------------------------------------------------
(***************************************************************************)
(* The page.                                                               *)
(***************************************************************************)
\* Min of a set that has a least number.
LEMMA MinIs ==
  ASSUME NEW S, S \subseteq Int, NEW x \in S, \A y \in S : x <= y
  PROVE  Min(S) = x
<1>1. PICK m : m = Min(S)
  OBVIOUS
<1>2. m \in S /\ \A y \in S : m <= y
  BY <1>1, Zenon DEF Min
<1>3. m \in Int /\ x \in Int /\ m <= x /\ x <= m
  BY <1>2
<1> QED
  BY <1>1, <1>3

LEMMA MinOfTwo ==
  ASSUME NEW m \in Int, NEW n \in Int
  PROVE  Min({m, n}) = IF m <= n THEN m ELSE n
<1>1. PICK S : S = {m, n}
  BY Zenon
<1>2. PICK x \in S : x = IF m <= n THEN m ELSE n
  BY <1>1
<1>3. S \subseteq Int /\ \A y \in S : x <= y
  BY <1>1, <1>2
<1>4. Min(S) = x
  BY <1>3, MinIs, Zenon
<1> QED
  BY <1>1, <1>2, <1>4

LEMMA QueueAppend ==
  ASSUME NEW q \in Seq(Runnables), NEW r \in Runnables
  PROVE  Append(q, r) \in Seq(Runnables) /\ Range(Append(q, r)) = Range(q) \cup {r}
<1>1. Append(q, r) \in Seq(Runnables)
  OBVIOUS
<1>2. ASSUME NEW x \in Range(Append(q, r)) PROVE x \in Range(q) \cup {r}
  BY DEF Range
<1>3. ASSUME NEW x \in Range(q) PROVE x \in Range(Append(q, r))
  BY DEF Range
<1>4. r \in Range(Append(q, r))
  <2>1. Len(q) + 1 \in DOMAIN Append(q, r) /\ Append(q, r)[Len(q) + 1] = r
    OBVIOUS
  <2> QED
    BY <2>1 DEF Range
<1> QED
  BY <1>1, <1>2, <1>3, <1>4

LEMMA QueueTail ==
  ASSUME NEW q \in Seq(Runnables), q # <<>>
  PROVE  /\ Tail(q) \in Seq(Runnables)
         /\ Range(Tail(q)) \subseteq Range(q)
         /\ Head(q) \in Range(q) /\ Head(q) \in Runnables
<1>1. Tail(q) \in Seq(Runnables) /\ Len(q) \in Nat \ {0} /\ Head(q) = q[1]
  OBVIOUS
<1>2. ASSUME NEW x \in Range(Tail(q)) PROVE x \in Range(q)
  <2>1. PICK k \in 1 .. (Len(q) - 1) : x = q[k + 1]
    BY <1>1 DEF Range
  <2> QED
    BY <1>1, <2>1 DEF Range
<1> QED
  BY <1>1, <1>2 DEF Range

LEMMA RunnableFields ==
  ASSUME NEW r \in Runnables
  PROVE  /\ r.kind = "show" => r.array \in Arrays
         /\ r.kind = "done" => r.walk \in Nat
BY DEF Runnables

LEMMA JobIs ==
  ASSUME PageTypeOK, NEW w \in DOMAIN walks, walks[w].pc # "gone"
  PROVE  walks[w] \in Jobs
BY DEF PageTypeOK, Ended

\* A step of one job, which never comes to life again.
LEMMA WalksUpdate ==
  ASSUME PageInv, NEW w \in DOMAIN walks, NEW x \in Jobs \cup {Ended},
         walks' = [walks EXCEPT ![w] = x],
         x.pc # "gone" => CountsOK(x),
         x.pc = "done" => x.state = "none",
         x.state # "none" => Live(w),
         job' = job
  PROVE  /\ walks' \in Seq(Jobs \cup {Ended})
         /\ DOMAIN walks' = DOMAIN walks
         /\ \A v \in DOMAIN walks : Live(v)' => Live(v)
         /\ OnlyPagesJobRuns'
         /\ \A v \in DOMAIN walks' : walks'[v].pc = "done" => ~Live(v)'
         /\ JobCounts'
<1>1. walks \in Seq(Jobs \cup {Ended})
  BY DEF PageInv, PageTypeOK
<1>2. walks' \in Seq(Jobs \cup {Ended}) /\ DOMAIN walks' = DOMAIN walks
  BY <1>1
<1>3. \A v \in DOMAIN walks : walks'[v] = IF v = w THEN x ELSE walks[v]
  BY <1>1
<1>4. \A v \in DOMAIN walks : Live(v)' => Live(v)
  BY <1>3 DEF Live
<1>5. OnlyPagesJobRuns'
  BY <1>2, <1>4 DEF PageInv, OnlyPagesJobRuns
<1>6. \A v \in DOMAIN walks' : walks'[v].pc = "done" => ~Live(v)'
  BY <1>2, <1>3 DEF PageInv, JobsEnd, Live
<1>7. JobCounts'
  BY <1>2, <1>3 DEF PageInv, JobCounts
<1> QED
  BY <1>2, <1>4, <1>5, <1>6, <1>7

\* What a step of a job does to it, and to the queue.
Queues(w, x) ==
  \/ queue' = queue
  \/ queue' = Append(queue, [kind |-> "done", walk |-> w]) /\ x = Ended
  \/ \E a \in Arrays : /\ queue' = Append(queue, [kind |-> "show", array |-> a])
                       /\ a.walk = w /\ x.pc # "gone"
                       /\ walks[w].lastUpdateCnt < Len(a.commits) /\ Len(a.commits) = x.lastUpdateCnt

JobChange(w, x) ==
  /\ walks' = [walks EXCEPT ![w] = x]
  /\ walks[w].pc # "gone"
  /\ x.pc # "gone" => CountsOK(x) /\ walks[w].lastUpdateCnt <= x.lastUpdateCnt
  /\ x.pc = "done" => x.state = "none"
  /\ x.state # "none" => Live(w)
  /\ UNCHANGED <<ui, toolbarVars, refs, input, job>>
  /\ Queues(w, x)

LEMMA JobStepIs ==
  ASSUME PageInv, NEW w \in DOMAIN walks, JobStep(w)
  PROVE  \E x \in Jobs \cup {Ended} : JobChange(w, x)
<1>1. walks \in Seq(Jobs \cup {Ended}) /\ w \in Nat
  BY DEF PageInv, PageTypeOK
<1>2. walks[w].pc # "gone"
  <2>1. Ended.state = "none" /\ Ended.pc = "gone" /\ \A x \in Jobs : x.pc # "gone"
    BY DEF Ended, Jobs
  <2>2. walks[w] \in Jobs \cup {Ended}
    BY <1>1
  <2> QED
    BY <2>1, <2>2, Zenon DEF JobStep, StartJob, Fill, FillFails, updateUI, EndJob, done
<1>3. PICK walk \in Jobs : walk = walks[w]
  BY <1>2, JobIs DEF PageInv
<1>4. CountsOK(walk) /\ (walk.pc = "done" => walk.state = "none")
  BY <1>2, <1>3 DEF PageInv, JobCounts, JobsEnd, Live
<1>5. /\ walk.source \in Seq(Commits) /\ walk.size \in Nat /\ walk.lastUpdateCnt \in Nat
      /\ Len(walk.source) \in Nat
  BY DEF Jobs
<1>6. CASE StartJob(w)
  <2>1. PICK x : x = [walk EXCEPT !.state = "running"]
    BY Zenon
  <2>2. x \in Jobs /\ x.state = "running"
    BY <2>1, Zenon DEF Jobs
  <2>3. /\ x.source = walk.source /\ x.size = walk.size /\ x.lastUpdateCnt = walk.lastUpdateCnt
        /\ x.pc = walk.pc
    BY <2>1 DEF Jobs
  <2>4. walks' = [walks EXCEPT ![w] = x] /\ walk.state = "waiting"
    BY <1>1, <1>3, <1>6, <2>1 DEF StartJob
  <2>5. CountsOK(x) /\ walks[w].lastUpdateCnt <= x.lastUpdateCnt
    BY <1>3, <1>4, <1>5, <2>3 DEF CountsOK
  <2>6. x.pc # "done" /\ Live(w)
    BY <1>3, <1>4, <2>3, <2>4 DEF Live
  <2>7. UNCHANGED <<ui, toolbarVars, refs, input, job>> /\ queue' = queue
    BY <1>6 DEF StartJob, repoVars, inputVars, queueVars
  <2> QED
    BY <1>2, <2>2, <2>4, <2>5, <2>6, <2>7, Zenon DEF JobChange, Queues
<1>7. CASE Fill(w)
  <2>1. PICK n : n = Min({walk.size + BATCH_SIZE, Len(walk.source)})
    OBVIOUS
  <2>2. PICK pc : /\ walks' = [walks EXCEPT ![w].size = n, ![w].pc = pc]
                  /\ pc \in IF walk.cancelled THEN {"end"}
                            ELSE IF n = 0 \/ Incomplete(n) \/ n = walk.size THEN {"last"}
                            ELSE {"update"} \cup {p \in {"fill"} : walk.lastUpdateCnt > 0}
    BY <1>3, <1>7, <2>1, Zenon DEF Fill
  <2>3. n \in Nat /\ walk.size <= n /\ n <= Len(walk.source)
    <3>1. PICK m \in Nat : m = walk.size + BATCH_SIZE
      BY <1>5, HistoryPageAssumption
    <3>2. PICK l \in Nat : l = Len(walk.source)
      BY <1>5
    <3>3. n = Min({m, l})
      BY <2>1, <3>1, <3>2
    <3>4. n = IF m <= l THEN m ELSE l
      BY <3>3, MinOfTwo
    <3>5. walk.size <= m /\ walk.size <= l
      BY <1>4, <1>5, <3>1, <3>2, HistoryPageAssumption DEF CountsOK
    <3> QED
      BY <1>5, <3>2, <3>4, <3>5
  <2>4. /\ pc \in {"fill", "update", "last", "end"}
        /\ pc \in {"fill", "update"} => ~Incomplete(n)
    BY <2>2
  <2>5. PICK x : x = [walk EXCEPT !.size = n, !.pc = pc]
    OBVIOUS
  <2>6. x \in Jobs
    BY <2>3, <2>4, <2>5, Zenon DEF Jobs
  <2>7. /\ x.source = walk.source /\ x.size = n /\ x.lastUpdateCnt = walk.lastUpdateCnt
        /\ x.pc = pc /\ x.state = walk.state
    BY <2>5 DEF Jobs
  <2>8. walks' = [walks EXCEPT ![w] = x] /\ walk.state = "running" /\ walk.pc = "fill"
    BY <1>1, <1>3, <1>7, <2>2, <2>5, Zenon DEF Fill
  <2>9. CountsOK(x) /\ walks[w].lastUpdateCnt <= x.lastUpdateCnt
    <3>1. walk.lastUpdateCnt <= walk.size /\ ~Incomplete(walk.size)
      BY <1>4, <2>8 DEF CountsOK
    <3>2. Incomplete(n) => walk.size # n
      BY <3>1
    <3>3. Incomplete(n) => walk.lastUpdateCnt < n
      BY <1>5, <2>3, <3>1, <3>2
    <3> QED
      BY <1>3, <1>5, <2>3, <2>4, <2>7, <3>1, <3>3 DEF CountsOK
  <2>10. x.pc # "done" /\ Live(w)
    BY <1>3, <2>4, <2>7, <2>8 DEF Live
  <2>11. UNCHANGED <<ui, toolbarVars, refs, input, job>> /\ queue' = queue
    BY <1>7 DEF Fill, repoVars, inputVars, queueVars
  <2> QED
    BY <1>2, <2>6, <2>8, <2>9, <2>10, <2>11, Zenon DEF JobChange, Queues
<1>8. CASE FillFails(w)
  <2>1. PICK top : top = Min({walk.size + BATCH_SIZE, Len(walk.source)})
    OBVIOUS
  <2>2. top \in Nat /\ top <= Len(walk.source)
    <3>1. PICK m \in Nat : m = walk.size + BATCH_SIZE
      BY <1>5, HistoryPageAssumption
    <3>2. PICK l \in Nat : l = Len(walk.source)
      BY <1>5
    <3>3. top = IF m <= l THEN m ELSE l
      BY <2>1, <3>1, <3>2, MinOfTwo
    <3> QED
      BY <3>2, <3>3
  <2>3. PICK n \in walk.size .. top : walks' = [walks EXCEPT ![w].size = n, ![w].pc = "last"]
    BY <1>3, <1>8, <2>1, Zenon DEF FillFails
  <2>4. n \in Nat /\ walk.size <= n /\ n <= Len(walk.source)
    BY <1>5, <2>2, <2>3
  <2>5. PICK x : x = [walk EXCEPT !.size = n, !.pc = "last"]
    OBVIOUS
  <2>6. x \in Jobs
    BY <2>4, <2>5, Zenon DEF Jobs
  <2>7. /\ x.source = walk.source /\ x.size = n /\ x.lastUpdateCnt = walk.lastUpdateCnt
        /\ x.pc = "last" /\ x.state = walk.state
    BY <2>5 DEF Jobs
  <2>8. walks' = [walks EXCEPT ![w] = x] /\ walk.state = "running" /\ walk.pc = "fill"
    BY <1>1, <1>3, <1>8, <2>3, <2>5, Zenon DEF FillFails
  <2>9. CountsOK(x) /\ walks[w].lastUpdateCnt <= x.lastUpdateCnt
    <3>1. walk.lastUpdateCnt <= walk.size /\ ~Incomplete(walk.size)
      BY <1>4, <2>8 DEF CountsOK
    <3>2. Incomplete(n) => walk.size # n
      BY <3>1
    <3>3. Incomplete(n) => walk.lastUpdateCnt < n
      BY <1>5, <2>4, <3>1, <3>2
    <3> QED
      BY <1>3, <1>5, <2>4, <2>7, <3>1, <3>3 DEF CountsOK
  <2>10. x.pc # "done" /\ Live(w)
    BY <1>3, <2>7, <2>8 DEF Live
  <2>11. UNCHANGED <<ui, toolbarVars, refs, input, job>> /\ queue' = queue
    BY <1>8 DEF FillFails, repoVars, inputVars, queueVars
  <2> QED
    BY <1>2, <2>6, <2>8, <2>9, <2>10, <2>11, Zenon DEF JobChange, Queues
<1>9. CASE updateUI(w)
  <2>1. PICK pc \in {"end", "fill"} : pc = IF walk.pc = "last" THEN "end" ELSE "fill"
    OBVIOUS
  <2>2. PICK x : x = [walk EXCEPT !.lastUpdateCnt = walk.size, !.pc = pc]
    OBVIOUS
  <2>3. x \in Jobs
    BY <1>5, <2>2, Zenon DEF Jobs
  <2>4. /\ x.source = walk.source /\ x.size = walk.size /\ x.lastUpdateCnt = walk.size
        /\ x.pc = pc /\ x.state = walk.state
    BY <2>2 DEF Jobs
  <2>5. walks' = [walks EXCEPT ![w] = x] /\ walk.pc \in {"update", "last"}
    <3>1. /\ walks' = [walks EXCEPT ![w].lastUpdateCnt = walks[w].size,
                                   ![w].pc = IF @ = "last" THEN "end" ELSE "fill"]
          /\ walk.pc \in {"update", "last"}
      BY <1>3, <1>9, Zenon DEF updateUI
    <3> QED
      BY <1>1, <1>3, <2>1, <2>2, <3>1, Zenon
  <2>6. CountsOK(x) /\ walks[w].lastUpdateCnt <= x.lastUpdateCnt
    BY <1>3, <1>4, <1>5, <2>1, <2>4, <2>5 DEF CountsOK
  <2>7. x.pc # "done" /\ x.pc # "gone" /\ (x.state # "none" => Live(w))
    BY <1>3, <2>1, <2>4 DEF Live
  <2>8. UNCHANGED <<ui, toolbarVars, refs, input, job>>
    BY <1>9 DEF updateUI, repoVars, inputVars
  <2>9. Queues(w, x)
    <3>1. CASE queue' = queue
      BY <3>1 DEF Queues
    <3>2. CASE queue' # queue
      <4>1. PICK a : a = [walk |-> w, commits |-> SubSeq(walk.source, 1, walk.size)]
        BY Zenon
      <4>2. /\ queue' = Append(queue, [kind |-> "show", array |-> a])
            /\ Incomplete(walk.size) \/ walk.size # walk.lastUpdateCnt
        BY <1>3, <1>9, <3>2, <4>1, Zenon DEF updateUI, showCommitList
      <4>3. walk.lastUpdateCnt < walk.size
        BY <1>4, <1>5, <2>5, <4>2 DEF CountsOK
      <4>4. /\ SubSeq(walk.source, 1, walk.size) \in Seq(Commits)
            /\ Len(SubSeq(walk.source, 1, walk.size)) = walk.size
        BY <1>4, <1>5 DEF CountsOK
      <4>5. a \in Arrays /\ a.walk = w /\ Len(a.commits) = walk.size
        BY <1>1, <4>1, <4>4 DEF Arrays
      <4> QED
        BY <1>3, <2>4, <2>7, <4>2, <4>3, <4>5 DEF Queues
    <3> QED
      BY <3>1, <3>2
  <2> QED
    BY <1>2, <2>3, <2>5, <2>6, <2>7, <2>8, <2>9, Zenon DEF JobChange
<1>10. CASE EndJob(w)
  <2>1. PICK x : x = [walk EXCEPT !.pc = "done", !.state = "none"]
    OBVIOUS
  <2>2. x \in Jobs
    BY <2>1, Zenon DEF Jobs
  <2>3. /\ x.source = walk.source /\ x.size = walk.size /\ x.lastUpdateCnt = walk.lastUpdateCnt
        /\ x.pc = "done" /\ x.state = "none"
    BY <2>1 DEF Jobs
  <2>4. walks' = [walks EXCEPT ![w] = x]
    BY <1>1, <1>3, <1>10, <2>1, Zenon DEF EndJob
  <2>5. CountsOK(x) /\ walks[w].lastUpdateCnt <= x.lastUpdateCnt
    BY <1>3, <1>4, <1>5, <2>3 DEF CountsOK
  <2>6. UNCHANGED <<ui, toolbarVars, refs, input, job>> /\ queue' = queue
    BY <1>10 DEF EndJob, repoVars, inputVars, queueVars
  <2> QED
    BY <1>2, <2>2, <2>3, <2>4, <2>5, <2>6, Zenon DEF JobChange, Queues
<1>11. CASE done(w)
  <2>1. Ended.pc = "gone" /\ Ended.state = "none"
    BY DEF Ended
  <2>2. walks' = [walks EXCEPT ![w] = Ended] /\ Queues(w, Ended)
    BY <1>11, Zenon DEF done, Queues
  <2>3. UNCHANGED <<ui, toolbarVars, refs, input, job>>
    BY <1>11 DEF done, repoVars, inputVars
  <2>4. "gone" # "done"
    OBVIOUS
  <2> QED
    BY <1>2, <2>1, <2>2, <2>3, <2>4, Zenon DEF JobChange
<1> QED
  BY <1>6, <1>7, <1>8, <1>9, <1>10, <1>11, Zenon DEF JobStep

LEMMA JobStepPage ==
  ASSUME PageInv, NEW w \in DOMAIN walks, NEW x \in Jobs \cup {Ended}, JobChange(w, x)
  PROVE  PageInv'
<1>1. UNCHANGED <<session, ui, refs, input, job>>
  BY DEF JobChange, toolbarVars
<1>2. /\ walks' \in Seq(Jobs \cup {Ended})
      /\ DOMAIN walks' = DOMAIN walks
      /\ \A v \in DOMAIN walks : Live(v)' => Live(v)
      /\ OnlyPagesJobRuns'
      /\ \A v \in DOMAIN walks' : walks'[v].pc = "done" => ~Live(v)'
      /\ JobCounts'
  BY <1>1, WalksUpdate, Zenon DEF JobChange
<1>3. w \in Nat /\ queue \in Seq(Runnables) /\ walks'[w] = x
  BY DEF PageInv, PageTypeOK, JobChange
<1>4. /\ queue' \in Seq(Runnables)
      /\ \A r \in Range(queue') :
           \/ r \in Range(queue)
           \/ r.kind = "show"
           \/ r.kind = "done" /\ r.walk = w /\ x.state = "none"
  <2>1. CASE queue' = queue
    BY <1>3, <2>1
  <2>2. CASE queue' = Append(queue, [kind |-> "done", walk |-> w]) /\ x = Ended
    <3>1. PICK r : r = [kind |-> "done", walk |-> w]
      BY Zenon
    <3>2. r \in Runnables /\ r.kind = "done" /\ r.walk = w /\ x.state = "none"
      BY <1>3, <2>2, <3>1 DEF Runnables, Ended
    <3>3. queue' \in Seq(Runnables) /\ Range(queue') = Range(queue) \cup {r}
      BY <1>3, <2>2, <3>1, <3>2, QueueAppend, Zenon
    <3> QED
      BY <3>2, <3>3, Zenon
  <2>3. CASE \E a \in Arrays : queue' = Append(queue, [kind |-> "show", array |-> a])
    <3>1. PICK a \in Arrays : queue' = Append(queue, [kind |-> "show", array |-> a])
      BY <2>3, Zenon
    <3>2. PICK r : r = [kind |-> "show", array |-> a]
      BY Zenon
    <3>3. r \in Runnables /\ r.kind = "show"
      BY <3>2 DEF Runnables
    <3>4. queue' \in Seq(Runnables) /\ Range(queue') = Range(queue) \cup {r}
      BY <1>3, <3>1, <3>2, <3>3, QueueAppend, Zenon
    <3> QED
      BY <3>3, <3>4, Zenon
  <2> QED
    BY <2>1, <2>2, <2>3, Zenon DEF JobChange, Queues
<1>5. PageTypeOK'
  BY <1>1, <1>2, <1>4 DEF PageInv, PageTypeOK
<1>6. InputKnown'
  BY <1>1, <1>4 DEF PageInv, InputKnown
<1>7. JobsEnd'
  <2>1. \A r \in Range(queue') : r.kind = "done" => r.walk \in DOMAIN walks' /\ ~Live(r.walk)'
    BY <1>2, <1>3, <1>4 DEF PageInv, JobsEnd, Live
  <2> QED
    BY <1>1, <1>2, <2>1 DEF PageInv, JobsEnd
<1> QED
  BY <1>2, <1>5, <1>6, <1>7 DEF PageInv

LEMMA LogType ==
  ASSUME NEW v \in 1 .. session.versions, session \in Sessions, NEW paths \in Filters
  PROVE  Versions[v].log[paths] \in Seq(Commits)
<1>1. session.versions \in Nat
  BY FindToolbarAssumption
<1>2. PICK l \in Nat : l = Len(Versions) /\ DOMAIN Versions = 1 .. l
  BY HistoryPageAssumption
<1>3. session.versions <= l
  BY <1>2, HistoryPageAssumption
<1>4. v \in DOMAIN Versions
  BY <1>1, <1>2, <1>3
<1>5. PICK S : S = [head : Commits, log : [Filters -> Seq(Commits)]]
  BY Zenon
<1>6. Versions \in Seq(S)
  BY <1>5, HistoryPageAssumption, Zenon
<1>7. Versions[v] \in S
  BY <1>4, <1>6
<1> QED
  BY <1>5, <1>7

\* The page's own steps.
LEMMA RefsPage ==
  ASSUME session \in Sessions, PageInv, ChangeRefs \/ onRefsChanged
  PROVE  PageInv'
<1>1. UNCHANGED <<session, ui, input, walks, job>>
  BY DEF ChangeRefs, onRefsChanged, toolbarVars, inputVars, jobVars
<1>2. OnlyPagesJobRuns' /\ JobCounts'
  BY <1>1 DEF PageInv, OnlyPagesJobRuns, JobCounts, Live
<1>3. CASE ChangeRefs
  <2>1. queue' = queue /\ refs' = refs + 1 /\ refs < session.versions
    BY <1>3 DEF ChangeRefs, queueVars
  <2>2. refs' \in 1 .. session'.versions
    <3>1. session.versions \in Nat
      BY FindToolbarAssumption
    <3> QED
      BY <1>1, <2>1, <3>1 DEF PageInv, PageTypeOK
  <2>3. PageTypeOK'
    BY <1>1, <2>1, <2>2 DEF PageInv, PageTypeOK
  <2>4. InputKnown' /\ JobsEnd'
    BY <1>1, <2>1 DEF PageInv, InputKnown, JobsEnd, Live
  <2> QED
    BY <1>2, <2>3, <2>4 DEF PageInv
<1>4. CASE onRefsChanged
  <2>1. refs' = refs
    BY <1>4 DEF onRefsChanged
  <2>2. /\ queue' \in Seq(Runnables)
        /\ \A r \in Range(queue') : r \in Range(queue) \/ (r.kind = "refs" /\ input # NULL)
    <3>1. queue \in Seq(Runnables)
      BY DEF PageInv, PageTypeOK
    <3>2. CASE queue' = queue
      BY <3>1, <3>2
    <3>3. CASE queue' # queue
      <4>1. PICK r : r = [kind |-> "refs"]
        BY Zenon
      <4>2. queue' = Append(queue, r) /\ input # NULL
        BY <1>4, <3>3, <4>1, Zenon DEF onRefsChanged
      <4>3. r \in Runnables /\ r.kind = "refs"
        BY <4>1 DEF Runnables
      <4>4. queue' \in Seq(Runnables) /\ Range(queue') = Range(queue) \cup {r}
        BY <3>1, <4>2, <4>3, QueueAppend, Zenon
      <4> QED
        BY <4>2, <4>3, <4>4, Zenon
    <3> QED
      BY <3>2, <3>3
  <2>3. PageTypeOK'
    BY <1>1, <2>1, <2>2 DEF PageInv, PageTypeOK
  <2>4. InputKnown' /\ JobsEnd'
    BY <1>1, <2>2 DEF PageInv, InputKnown, JobsEnd, Live
  <2> QED
    BY <1>2, <2>3, <2>4 DEF PageInv
<1> QED
  BY <1>3, <1>4

LEMMA UiFields ==
  ASSUME NEW u \in Does
  PROVE  u.paths \in Filters /\ u.pc \in {"cancel", "join", "inputSet", "start"}
BY DEF Does

\* What the page is doing.
LEMMA UiIs ==
  ASSUME PageTypeOK
  PROVE  /\ ui.pc \notin {"idle", "clear"} => ui \in Does
         /\ ui.pc \in {"idle", "clear"} => ui \in Waits
<1>1. ui \in Waits \cup Does
  BY DEF PageTypeOK
<1>2. (\A u \in Waits : u.pc \in {"idle", "clear"}) /\ (\A u \in Does : u.pc \notin {"idle", "clear"})
  BY DEF Waits, Does
<1> QED
  BY <1>1, <1>2, Zenon

LEMMA AfterCancelIs ==
  ASSUME ui \in Does
  PROVE  /\ AfterCancel \in Does
         /\ AfterCancel.pc = IF input = NULL THEN "inputSet" ELSE "start"
<1>1. PICK pc \in {"inputSet", "start"} : pc = IF input = NULL THEN "inputSet" ELSE "start"
  BY Zenon
<1>2. AfterCancel = [ui EXCEPT !.pc = pc, !.job = NULL]
  BY <1>1, Zenon DEF AfterCancel
<1>3. AfterCancel \in Does /\ AfterCancel.pc = pc
  BY <1>2, Zenon DEF Does
<1> QED
  BY <1>1, <1>3, Zenon

LEMMA SetInputPage ==
  ASSUME PageInv, SetInput
  PROVE  PageInv'
<1>1. UNCHANGED <<session, refs, walks, job, queue>>
  BY DEF SetInput, toolbarVars, repoVars, jobVars, queueVars
<1>2. PICK paths \in Filters : /\ input' \in {paths, NULL}
                               /\ ui' = [pc |-> "cancel", force |-> FALSE, paths |-> paths, job |-> NULL]
  BY Zenon DEF SetInput
<1>3. ui' \in Does /\ ui'.pc = "cancel"
  BY <1>2 DEF Does
<1>4. PageTypeOK'
  BY <1>1, <1>2, <1>3 DEF PageInv, PageTypeOK
<1>5. InputKnown' /\ OnlyPagesJobRuns' /\ JobsEnd' /\ JobCounts'
  BY <1>1, <1>3 DEF PageInv, InputKnown, OnlyPagesJobRuns, JobsEnd, JobCounts, Live
<1> QED
  BY <1>4, <1>5 DEF PageInv

LEMMA RefsRunnablePage ==
  ASSUME PageInv, RefsRunnable
  PROVE  PageInv'
<1>1. UNCHANGED <<session, refs, input, walks, job>>
  BY DEF RefsRunnable, toolbarVars, repoVars, inputVars, jobVars
<1>2. queue' \in Seq(Runnables) /\ Range(queue') \subseteq Range(queue) /\ Head(queue) \in Range(queue)
  BY QueueTail, Zenon DEF RefsRunnable, PageInv, PageTypeOK
<1>3. input \in Filters
  <2>1. ui.pc = "idle" /\ Head(queue).kind = "refs"
    BY DEF RefsRunnable, UiIdle
  <2>2. input # NULL
    BY <1>2, <2>1 DEF PageInv, InputKnown
  <2> QED
    BY <2>2 DEF PageInv, PageTypeOK
<1>4. ui' = [pc |-> "cancel", force |-> TRUE, paths |-> input, job |-> NULL]
  BY DEF RefsRunnable
<1>5. ui' \in Does /\ ui'.pc = "cancel"
  BY <1>3, <1>4 DEF Does
<1>6. PageTypeOK'
  BY <1>1, <1>2, <1>5 DEF PageInv, PageTypeOK
<1>7. InputKnown' /\ OnlyPagesJobRuns' /\ JobsEnd' /\ JobCounts'
  BY <1>1, <1>2, <1>5 DEF PageInv, InputKnown, OnlyPagesJobRuns, JobsEnd, JobCounts, Live
<1> QED
  BY <1>6, <1>7 DEF PageInv

\* Cancelling a job changes it, and leaves what it has shown alone.
LEMMA CancelChange ==
  ASSUME PageInv, cancelRefreshJob, job # NULL, Live(job)
  PROVE  /\ job \in DOMAIN walks
         /\ \E x \in Jobs : /\ walks' = [walks EXCEPT ![job] = x]
                            /\ CountsOK(x)
                            /\ x.pc = "done" => x.state = "none"
                            /\ walks[job].pc # "gone"
                            /\ walks[job].lastUpdateCnt = x.lastUpdateCnt
<1>1. walks \in Seq(Jobs \cup {Ended}) /\ job \in DOMAIN walks
  BY DEF PageInv, PageTypeOK
<1>2. walks[job].pc # "gone"
  <2>1. Ended.state = "none" /\ \A x \in Jobs : x.pc # "gone"
    BY DEF Ended, Jobs
  <2>2. walks[job] \in Jobs \cup {Ended}
    BY <1>1
  <2> QED
    BY <2>1, <2>2, Zenon DEF Live
<1>3. PICK walk \in Jobs : walk = walks[job]
  BY <1>1, <1>2, JobIs DEF PageInv
<1>4. CountsOK(walk) /\ (walk.pc = "done" => walk.state = "none")
  BY <1>1, <1>2, <1>3 DEF PageInv, JobCounts, JobsEnd, Live
<1>5. PICK pc : pc = IF walk.state = "waiting" THEN "done" ELSE walk.pc
  BY Zenon
<1>6. PICK state : state = IF walk.state = "waiting" THEN "none" ELSE walk.state
  BY Zenon
<1>7. PICK x : x = [walk EXCEPT !.cancelled = TRUE, !.pc = pc, !.state = state]
  BY Zenon
<1>8. /\ pc \in {"fill", "update", "last", "end", "done"} /\ state \in {"waiting", "running", "none"}
      /\ pc = "done" => state = "none"
      /\ pc = walk.pc \/ pc = "done"
  BY <1>4, <1>5, <1>6 DEF Jobs
<1>9. x \in Jobs
  BY <1>7, <1>8, Zenon DEF Jobs
<1>10. /\ x.pc = pc /\ x.state = state
       /\ x.source = walk.source /\ x.size = walk.size /\ x.lastUpdateCnt = walk.lastUpdateCnt
  BY <1>7 DEF Jobs
<1>11. walks' = [walks EXCEPT ![job] = x]
  <2>1. walks' = [walks EXCEPT ![job].cancelled = TRUE,
                              ![job].pc = IF walks[job].state = "waiting" THEN "done" ELSE @,
                              ![job].state = IF @ = "waiting" THEN "none" ELSE @]
    BY Zenon DEF cancelRefreshJob
  <2> QED
    BY <1>1, <1>3, <1>5, <1>6, <1>7, <2>1, Zenon
<1>12. CountsOK(x)
  BY <1>4, <1>8, <1>10 DEF CountsOK
<1> QED
  BY <1>1, <1>2, <1>3, <1>8, <1>9, <1>10, <1>11, <1>12, Zenon

LEMMA CancelPage ==
  ASSUME PageInv, cancelRefreshJob
  PROVE  PageInv'
<1>1. UNCHANGED <<session, refs, input, job, queue>> /\ ui.pc = "cancel"
  BY DEF cancelRefreshJob, toolbarVars, repoVars, inputVars, queueVars
<1>2. ui \in Does
  BY <1>1, UiIs DEF PageInv
<1>3. CASE job # NULL /\ Live(job)
  <2>1. job \in DOMAIN walks /\ job \in Nat
    BY <1>3 DEF PageInv, PageTypeOK
  <2>2. PICK x \in Jobs : /\ walks' = [walks EXCEPT ![job] = x]
                          /\ CountsOK(x)
                          /\ x.pc = "done" => x.state = "none"
    BY <1>3, CancelChange, Zenon
  <2>3. /\ walks' \in Seq(Jobs \cup {Ended})
        /\ DOMAIN walks' = DOMAIN walks
        /\ \A v \in DOMAIN walks : Live(v)' => Live(v)
        /\ OnlyPagesJobRuns'
        /\ \A v \in DOMAIN walks' : walks'[v].pc = "done" => ~Live(v)'
        /\ JobCounts'
    <3>1. PICK w \in DOMAIN walks : w = job
      BY <2>1, Zenon
    <3>2. x \in Jobs \cup {Ended} /\ walks' = [walks EXCEPT ![w] = x] /\ Live(w)
      BY <1>3, <2>2, <3>1
    <3>3. job' = job /\ (x.state # "none" => Live(w)) /\ (x.pc # "gone" => CountsOK(x))
      BY <1>1, <2>2, <3>2
    <3> QED
      BY <2>2, <3>2, <3>3, WalksUpdate, Zenon
  <2>4. ui' = [ui EXCEPT !.pc = "join", !.job = job]
    BY <1>3, Zenon DEF cancelRefreshJob
  <2>5. ui' \in Does /\ ui'.pc = "join" /\ ui'.job = job
    BY <1>2, <2>1, <2>4, Zenon DEF Does
  <2>6. PageTypeOK'
    BY <1>1, <2>3, <2>5 DEF PageInv, PageTypeOK
  <2>7. InputKnown'
    BY <1>1, <2>5 DEF PageInv, InputKnown
  <2>8. JobsEnd'
    BY <1>1, <1>3, <2>3, <2>5 DEF PageInv, JobsEnd
  <2> QED
    BY <2>3, <2>6, <2>7, <2>8 DEF PageInv
<1>4. CASE ~(job # NULL /\ Live(job))
  <2>1. walks' = walks /\ ui' = AfterCancel
    BY <1>4, Zenon DEF cancelRefreshJob
  <2>2. ui' \in Does /\ ui'.pc = IF input = NULL THEN "inputSet" ELSE "start"
    BY <1>2, <2>1, AfterCancelIs, Zenon
  <2>3. \A w \in DOMAIN walks : ~Live(w)
    <3>1. \A w \in DOMAIN walks : w \in Nat
      BY DEF PageInv, PageTypeOK
    <3> QED
      BY <1>4, <3>1, FindToolbarAssumption DEF PageInv, OnlyPagesJobRuns
  <2>4. PageTypeOK'
    BY <1>1, <2>1, <2>2 DEF PageInv, PageTypeOK
  <2>5. InputKnown'
    BY <1>1, <2>2 DEF PageInv, InputKnown
  <2>6. OnlyPagesJobRuns' /\ JobsEnd' /\ JobCounts'
    BY <1>1, <2>1, <2>2, <2>3 DEF PageInv, OnlyPagesJobRuns, JobsEnd, JobCounts, Live
  <2> QED
    BY <2>4, <2>5, <2>6 DEF PageInv
<1> QED
  BY <1>3, <1>4

LEMMA JoinPage ==
  ASSUME PageInv, Join
  PROVE  PageInv'
<1>1. /\ UNCHANGED <<session, refs, input, walks, queue>> /\ ui.pc = "join" /\ ~Live(ui.job)
      /\ job' = NULL /\ ui' = AfterCancel
  BY DEF Join, toolbarVars, repoVars, inputVars, queueVars
<1>2. ui \in Does
  BY <1>1, UiIs DEF PageInv
<1>3. ui' \in Does /\ ui'.pc = IF input = NULL THEN "inputSet" ELSE "start"
  BY <1>1, <1>2, AfterCancelIs, Zenon
<1>4. \A w \in DOMAIN walks : ~Live(w)
  BY <1>1 DEF PageInv, OnlyPagesJobRuns, JobsEnd
<1>5. PageTypeOK'
  BY <1>1, <1>3 DEF PageInv, PageTypeOK
<1>6. InputKnown'
  BY <1>1, <1>3 DEF PageInv, InputKnown
<1>7. OnlyPagesJobRuns' /\ JobsEnd' /\ JobCounts'
  BY <1>1, <1>3, <1>4 DEF PageInv, OnlyPagesJobRuns, JobsEnd, JobCounts, Live
<1> QED
  BY <1>5, <1>6, <1>7 DEF PageInv

LEMMA InputSetPage ==
  ASSUME PageInv, inputSet
  PROVE  PageInv'
<1>1. /\ UNCHANGED <<session, refs, walks, job, queue>> /\ ui.pc = "inputSet"
      /\ input' = ui.paths /\ ui' = [ui EXCEPT !.pc = "start"]
  BY DEF inputSet, toolbarVars, repoVars, jobVars, queueVars
<1>2. ui \in Does
  BY <1>1, UiIs DEF PageInv
<1>3. ui' \in Does /\ ui'.pc = "start" /\ input' \in Filters
  BY <1>1, <1>2 DEF Does
<1>4. input' # NULL
  BY <1>3, HistoryPageAssumption
<1>5. PageTypeOK'
  BY <1>1, <1>3 DEF PageInv, PageTypeOK
<1>6. InputKnown'
  BY <1>3, <1>4 DEF InputKnown
<1>7. OnlyPagesJobRuns' /\ JobsEnd' /\ JobCounts'
  BY <1>1, <1>3 DEF PageInv, OnlyPagesJobRuns, JobsEnd, JobCounts, Live
<1> QED
  BY <1>5, <1>6, <1>7 DEF PageInv

LEMMA StartPage ==
  ASSUME session \in Sessions, PageInv, initAndStartRevWalk
  PROVE  PageInv'
<1>1. UNCHANGED <<session, refs, input, queue>> /\ ui.pc = "start" /\ ui' = [pc |-> "idle"]
  BY DEF initAndStartRevWalk, toolbarVars, repoVars, inputVars, queueVars
<1>2. ui' \in Waits /\ ui'.pc = "idle"
  BY <1>1 DEF Waits
<1>3. InputKnown'
  BY <1>1, <1>2 DEF PageInv, InputKnown
<1>4. walks \in Seq(Jobs \cup {Ended}) /\ \A w \in DOMAIN walks : ~Live(w)
  BY <1>1 DEF PageInv, PageTypeOK, JobsEnd
<1>5. CASE UNCHANGED <<walks, job>>
  <2>1. PageTypeOK'
    BY <1>1, <1>2, <1>5 DEF PageInv, PageTypeOK
  <2>2. OnlyPagesJobRuns' /\ JobsEnd' /\ JobCounts'
    BY <1>1, <1>2, <1>5, Zenon DEF PageInv, OnlyPagesJobRuns, JobsEnd, JobCounts, Live
  <2> QED
    BY <1>3, <2>1, <2>2 DEF PageInv
<1>6. CASE ~UNCHANGED <<walks, job>>
  <2>1. PICK walk : walk = [version |-> refs, paths |-> ui.paths]
    BY Zenon
  <2>2. PICK x : x = NewJob(walk)
    BY Zenon
  <2>3. walks' = Append(walks, x) /\ job' = Len(walks')
    BY <1>6, <2>1, <2>2 DEF initAndStartRevWalk
  <2>4. ui \in Does
    BY <1>1, UiIs DEF PageInv
  <2>5. Log(walk) \in Seq(Commits)
    <3>1. refs \in 1 .. session.versions /\ ui.paths \in Filters
      BY <2>4, UiFields DEF PageInv, PageTypeOK
    <3>2. walk.version = refs /\ walk.paths = ui.paths
      BY <2>1
    <3>3. Versions[refs].log[ui.paths] \in Seq(Commits)
      BY <3>1, LogType
    <3> QED
      BY <3>2, <3>3 DEF Log
  <2>6. x \in Jobs
    BY <2>2, <2>5, Zenon DEF NewJob, Jobs
  <2>7. /\ x.source = Log(walk) /\ x.size = 0 /\ x.lastUpdateCnt = 0 /\ x.pc = "fill"
    BY <2>2 DEF NewJob
  <2>8. CountsOK(x)
    BY <2>5, <2>7, HistoryPageAssumption DEF CountsOK, Incomplete
  <2>9. /\ walks' \in Seq(Jobs \cup {Ended}) /\ DOMAIN walks' = DOMAIN walks \cup {job'}
        /\ job' \notin DOMAIN walks /\ walks'[job'] = x
        /\ \A w \in DOMAIN walks : walks'[w] = walks[w]
    BY <1>4, <2>3, <2>6
  <2>10. PageTypeOK'
    BY <1>1, <1>2, <2>9 DEF PageInv, PageTypeOK
  <2>11. OnlyPagesJobRuns'
    BY <1>4, <2>9 DEF OnlyPagesJobRuns, Live
  <2>12. JobCounts'
    BY <2>8, <2>9 DEF PageInv, JobCounts
  <2>13. JobsEnd'
    BY <1>1, <1>2, <2>7, <2>9 DEF PageInv, JobsEnd, Live
  <2> QED
    BY <1>3, <2>10, <2>11, <2>12, <2>13 DEF PageInv
<1> QED
  BY <1>5, <1>6

LEMMA RunnablePage ==
  ASSUME PageInv, ShowRunnable \/ DoneRunnable
  PROVE  PageInv'
<1>1. /\ UNCHANGED <<session, ui, refs, input, walks>>
      /\ queue # <<>> /\ queue' = Tail(queue)
      /\ job' = job \/ (Head(queue).kind = "done" /\ job = Head(queue).walk /\ job' = NULL)
  BY Zenon DEF ShowRunnable, DoneRunnable, setInput, toolbarVars, repoVars, inputVars, jobVars
<1>2. queue' \in Seq(Runnables) /\ Range(queue') \subseteq Range(queue) /\ Head(queue) \in Range(queue)
  BY <1>1, QueueTail, Zenon DEF PageInv, PageTypeOK
<1>3. PageTypeOK'
  BY <1>1, <1>2 DEF PageInv, PageTypeOK
<1>4. InputKnown'
  BY <1>1, <1>2 DEF PageInv, InputKnown
<1>5. OnlyPagesJobRuns'
  <2>1. CASE job' = job
    BY <1>1, <2>1 DEF PageInv, OnlyPagesJobRuns, Live
  <2>2. CASE Head(queue).kind = "done" /\ job = Head(queue).walk
    BY <1>1, <1>2, <2>2 DEF PageInv, OnlyPagesJobRuns, JobsEnd, Live
  <2> QED
    BY <1>1, <2>1, <2>2
<1>6. JobCounts'
  BY <1>1 DEF PageInv, JobCounts
<1>7. JobsEnd'
  <2>1. ui.pc = "idle"
    BY DEF ShowRunnable, DoneRunnable, UiIdle
  <2> QED
    BY <1>1, <1>2, <2>1 DEF PageInv, JobsEnd, Live
<1> QED
  BY <1>3, <1>4, <1>5, <1>6, <1>7 DEF PageInv

-----------------------------------------------------------------------------
(***************************************************************************)
(* The arrays of commits.                                                  *)
(***************************************************************************)
LEMMA OrderedTail ==
  ASSUME NEW q \in Seq(Runnables), q # <<>>, Ordered(q)
  PROVE  /\ Ordered(Tail(q))
         /\ \A r \in Range(Tail(q)) :
              Head(q).kind = "show" /\ r.kind = "show" => Longer(r.array, Head(q).array)
<1>1. /\ Len(q) \in Nat \ {0} /\ Head(q) = q[1] /\ DOMAIN q = 1 .. Len(q)
      /\ DOMAIN Tail(q) = 1 .. (Len(q) - 1)
      /\ \A k \in 1 .. (Len(q) - 1) : Tail(q)[k] = q[k + 1]
  OBVIOUS
<1>2. Ordered(Tail(q))
  <2>1. SUFFICES ASSUME NEW j \in DOMAIN Tail(q), NEW k \in DOMAIN Tail(q), j < k,
                        Tail(q)[j].kind = "show", Tail(q)[k].kind = "show"
                 PROVE  Longer(Tail(q)[k].array, Tail(q)[j].array)
    BY DEF Ordered
  <2>2. /\ j + 1 \in DOMAIN q /\ k + 1 \in DOMAIN q /\ j + 1 < k + 1
        /\ Tail(q)[j] = q[j + 1] /\ Tail(q)[k] = q[k + 1]
    BY <1>1, <2>1
  <2> QED
    BY <2>1, <2>2 DEF Ordered
<1>3. ASSUME NEW r \in Range(Tail(q)), Head(q).kind = "show", r.kind = "show"
      PROVE  Longer(r.array, Head(q).array)
  <2>1. PICK k \in 1 .. (Len(q) - 1) : r = q[k + 1]
    BY <1>1 DEF Range
  <2>2. 1 \in DOMAIN q /\ k + 1 \in DOMAIN q /\ 1 < k + 1
    BY <1>1, <2>1
  <2> QED
    BY <1>1, <1>3, <2>1, <2>2 DEF Ordered
<1> QED
  BY <1>2, <1>3

LEMMA OrderedAppend ==
  ASSUME NEW q \in Seq(Runnables), NEW r \in Runnables, Ordered(q),
         r.kind = "show" => \A s \in Range(q) : s.kind = "show" => Longer(r.array, s.array)
  PROVE  Ordered(Append(q, r))
<1>1. PICK p : p = Append(q, r)
  BY Zenon
<1>2. /\ Len(q) \in Nat /\ DOMAIN q = 1 .. Len(q) /\ DOMAIN p = 1 .. (Len(q) + 1)
      /\ \A k \in 1 .. Len(q) : p[k] = q[k]
      /\ p[Len(q) + 1] = r
  BY <1>1
<1>3. SUFFICES ASSUME NEW j \in DOMAIN p, NEW k \in DOMAIN p, j < k,
                      p[j].kind = "show", p[k].kind = "show"
               PROVE  Longer(p[k].array, p[j].array)
  BY <1>1, Zenon DEF Ordered
<1>4. j \in 1 .. Len(q) /\ p[j] = q[j] /\ q[j] \in Range(q)
  BY <1>2, <1>3 DEF Range
<1>5. CASE k \in 1 .. Len(q)
  BY <1>2, <1>3, <1>4, <1>5 DEF Ordered
<1>6. CASE k = Len(q) + 1
  BY <1>2, <1>3, <1>4, <1>6
<1> QED
  BY <1>2, <1>5, <1>6

\* Walks go on, and jobs show more.
WalksKept ==
  /\ DOMAIN walks \subseteq DOMAIN walks'
  /\ \A w \in DOMAIN walks :
       walks'[w].pc # "gone" => walks[w].pc # "gone" /\ walks[w].lastUpdateCnt <= walks'[w].lastUpdateCnt

LEMMA ShownKept ==
  ASSUME PageTypeOK, PageTypeOK', WalksKept, NEW a \in Arrays, Shown(a)
  PROVE  Shown(a)'
<1>1. a.walk \in DOMAIN walks /\ a.walk \in DOMAIN walks'
  BY DEF Shown, WalksKept
<1>2. SUFFICES ASSUME walks'[a.walk].pc # "gone" PROVE Len(a.commits) <= walks'[a.walk].lastUpdateCnt
  BY <1>1 DEF Shown
<1>3. /\ walks[a.walk].pc # "gone" /\ Len(a.commits) <= walks[a.walk].lastUpdateCnt
      /\ walks[a.walk].lastUpdateCnt <= walks'[a.walk].lastUpdateCnt
  BY <1>1, <1>2 DEF Shown, WalksKept
<1>4. walks[a.walk] \in Jobs
  BY <1>1, <1>3, JobIs
<1>5. walks'[a.walk] \in Jobs
  BY <1>1, <1>2 DEF PageTypeOK, Ended
<1>6. walks[a.walk].lastUpdateCnt \in Nat /\ walks'[a.walk].lastUpdateCnt \in Nat /\ Len(a.commits) \in Nat
  BY <1>4, <1>5 DEF Jobs, Arrays
<1> QED
  BY <1>3, <1>6

LEMMA InUseType ==
  ASSUME ToolbarTypeOK
  PROVE  InUse \subseteq Arrays
<1>1. ASSUME NEW f \in DOMAIN finders, finders[f].pc # "gone"
      PROVE  finders[f].fileRevisions \in Arrays \cup {NULL}
  <2>1. finders[f] \in Finders \cup {Gone}
    BY DEF ToolbarTypeOK
  <2>2. finders[f] \in Finders
    BY <1>1, <2>1 DEF Gone
  <2> QED
    BY <2>2 DEF Finders
<1> QED
  BY <1>1 DEF InUse, ToolbarTypeOK

LEMMA FreshKept ==
  ASSUME ToolbarTypeOK, PageTypeOK, PageTypeOK', WalksKept, ArraysFresh,
         InUse' \subseteq InUse, Ordered(queue'),
         \A r \in Range(queue') : r.kind = "show" => r \in Range(queue)
  PROVE  ArraysFresh'
<1>1. \A a \in Arrays : Shown(a) => Shown(a)'
  BY ShownKept
<1>2. \A r \in Range(queue') : r \in Runnables /\ (r.kind = "show" => r.array \in Arrays)
  <2>1. Range(queue') \subseteq Runnables
    BY DEF PageTypeOK, Range
  <2> QED
    BY <2>1, RunnableFields
<1>3. \A r \in Range(queue') : r.kind = "show" => Shown(r.array)'
  BY <1>1, <1>2 DEF ArraysFresh
<1>4. \A a \in InUse' : Shown(a)'
  BY <1>1, InUseType DEF ArraysFresh
<1>5. \A a \in InUse' : \A r \in Range(queue') : r.kind = "show" => Longer(r.array, a)
  BY DEF ArraysFresh
<1> QED
  BY <1>3, <1>4, <1>5 DEF ArraysFresh

LEMMA InUseSame ==
  ASSUME UNCHANGED toolbarVars
  PROVE  InUse' = InUse
BY DEF InUse, toolbarVars

LEMMA WalkUpdateKept ==
  ASSUME PageTypeOK, NEW w \in DOMAIN walks, NEW x \in Jobs \cup {Ended},
         walks' = [walks EXCEPT ![w] = x], walks[w].pc # "gone",
         x.pc # "gone" => walks[w].lastUpdateCnt <= x.lastUpdateCnt
  PROVE  WalksKept
<1>1. DOMAIN walks' = DOMAIN walks /\ \A v \in DOMAIN walks : walks'[v] = IF v = w THEN x ELSE walks[v]
  BY DEF PageTypeOK
<1>2. ASSUME NEW v \in DOMAIN walks, walks'[v].pc # "gone"
      PROVE  walks[v].pc # "gone" /\ walks[v].lastUpdateCnt <= walks'[v].lastUpdateCnt
  <2>1. CASE v = w
    BY <1>1, <1>2, <2>1
  <2>2. CASE v # w
    <3>1. walks'[v] = walks[v]
      BY <1>1, <2>2
    <3>2. walks[v] \in Jobs
      BY <1>2, <3>1, JobIs
    <3>3. walks[v].lastUpdateCnt \in Nat
      BY <3>2 DEF Jobs
    <3> QED
      BY <1>2, <3>1, <3>3
  <2> QED
    BY <2>1, <2>2
<1> QED
  BY <1>1, <1>2 DEF WalksKept

LEMMA SameWalksKept ==
  ASSUME PageTypeOK, walks' = walks
  PROVE  WalksKept
<1>1. ASSUME NEW v \in DOMAIN walks, walks[v].pc # "gone"
      PROVE  walks[v].lastUpdateCnt \in Nat
  <2>1. walks[v] \in Jobs
    BY <1>1, JobIs
  <2> QED
    BY <2>1 DEF Jobs
<1> QED
  BY <1>1 DEF WalksKept

LEMMA JobStepFresh ==
  ASSUME ToolbarTypeOK, PageInv, PageInv', ArraysFresh,
         NEW w \in DOMAIN walks, NEW x \in Jobs \cup {Ended}, JobChange(w, x)
  PROVE  ArraysFresh'
<1>1. PageTypeOK /\ PageTypeOK' /\ queue \in Seq(Runnables) /\ w \in Nat
  BY DEF PageInv, PageTypeOK
<1>2. InUse' = InUse
  BY InUseSame DEF JobChange
<1>3. WalksKept
  BY <1>1, WalkUpdateKept, Zenon DEF JobChange
<1>4. Ordered(queue)
  BY DEF ArraysFresh
<1>5. CASE queue' = queue
  BY <1>1, <1>2, <1>3, <1>4, <1>5, FreshKept
<1>6. CASE queue' = Append(queue, [kind |-> "done", walk |-> w])
  <2>1. PICK r : r = [kind |-> "done", walk |-> w]
    BY Zenon
  <2>2. r \in Runnables /\ r.kind = "done"
    BY <1>1, <2>1, Zenon DEF Runnables
  <2>3. Range(queue') = Range(queue) \cup {r}
    BY <1>1, <1>6, <2>1, <2>2, QueueAppend, Zenon
  <2>4. Ordered(queue')
    BY <1>1, <1>4, <1>6, <2>1, <2>2, OrderedAppend
  <2> QED
    BY <1>1, <1>2, <1>3, <2>2, <2>3, <2>4, FreshKept
<1>7. CASE \E a \in Arrays : /\ queue' = Append(queue, [kind |-> "show", array |-> a])
                             /\ a.walk = w /\ x.pc # "gone"
                             /\ walks[w].lastUpdateCnt < Len(a.commits)
                             /\ Len(a.commits) = x.lastUpdateCnt
  <2>1. PICK a \in Arrays : /\ queue' = Append(queue, [kind |-> "show", array |-> a])
                            /\ a.walk = w /\ x.pc # "gone"
                            /\ walks[w].lastUpdateCnt < Len(a.commits)
                            /\ Len(a.commits) = x.lastUpdateCnt
    BY <1>7, Zenon
  <2>2. PICK r : r = [kind |-> "show", array |-> a]
    BY Zenon
  <2>3. r \in Runnables /\ r.kind = "show" /\ r.array = a
    BY <2>2, Zenon DEF Runnables
  <2>4. Range(queue') = Range(queue) \cup {r} /\ queue' = Append(queue, r)
    BY <1>1, <2>1, <2>2, <2>3, QueueAppend, Zenon
  <2>5. walks[w].pc # "gone"
    BY DEF JobChange
  <2>6. walks[w].lastUpdateCnt \in Nat /\ Len(a.commits) \in Nat
    <3>1. walks[w] \in Jobs
      BY <1>1, <2>5, JobIs, Zenon
    <3> QED
      BY <3>1 DEF Jobs, Arrays
  <2>7. \A b \in Arrays : Shown(b) => Longer(a, b)
    <3>1. SUFFICES ASSUME NEW b \in Arrays, Shown(b), a.walk = b.walk
                   PROVE  Len(b.commits) < Len(a.commits)
      BY DEF Longer
    <3>2. Len(b.commits) <= walks[w].lastUpdateCnt /\ Len(b.commits) \in Nat
      BY <2>1, <2>5, <3>1 DEF Shown, Arrays
    <3> QED
      BY <2>1, <2>6, <3>2
  <2>8. Range(queue) \subseteq Runnables
    BY <1>1 DEF Range
  <2>9. \A s \in Range(queue) : s.kind = "show" => s.array \in Arrays /\ Shown(s.array)
    BY <2>8, RunnableFields, Zenon DEF ArraysFresh
  <2>10. Ordered(queue')
    <3>1. \A s \in Range(queue) : s.kind = "show" => Longer(r.array, s.array)
      BY <2>3, <2>7, <2>9, Zenon
    <3> QED
      BY <1>1, <1>4, <2>3, <2>4, <3>1, OrderedAppend
  <2>11. \A b \in Arrays : Shown(b) => Shown(b)'
    BY <1>1, <1>3, ShownKept
  <2>12. Shown(a)'
    <3>1. w \in DOMAIN walks' /\ walks'[w] = x
      BY <1>1 DEF JobChange, PageTypeOK
    <3> QED
      BY <2>1, <2>6, <3>1 DEF Shown
  <2>13. \A s \in Range(queue') : s.kind = "show" => Shown(s.array)'
    BY <2>3, <2>4, <2>9, <2>11, <2>12
  <2>14. InUse \subseteq Arrays
    BY InUseType
  <2>15. \A b \in InUse' : Shown(b)' /\ \A s \in Range(queue') : s.kind = "show" => Longer(s.array, b)
    BY <1>2, <2>3, <2>4, <2>7, <2>11, <2>14, Zenon DEF ArraysFresh
  <2> QED
    BY <2>10, <2>13, <2>15 DEF ArraysFresh
<1> QED
  BY <1>5, <1>6, <1>7, Zenon DEF JobChange, Queues

LEMMA PageWalksKept ==
  ASSUME PageInv, ChangeRefs \/ onRefsChanged \/ SetInput \/ UiStep
  PROVE  WalksKept
<1>1. PageTypeOK /\ walks \in Seq(Jobs \cup {Ended})
  BY DEF PageInv, PageTypeOK
<1>2. CASE walks' = walks
  BY <1>1, <1>2, SameWalksKept
<1>3. CASE walks' # walks /\ cancelRefreshJob
  <2>1. job # NULL /\ Live(job)
    BY <1>3, Zenon DEF cancelRefreshJob
  <2>2. PICK x \in Jobs : /\ walks' = [walks EXCEPT ![job] = x]
                          /\ walks[job].pc # "gone"
                          /\ walks[job].lastUpdateCnt = x.lastUpdateCnt
    BY <1>3, <2>1, CancelChange, Zenon
  <2>3. PICK w \in DOMAIN walks : w = job
    BY <1>3, <2>1, CancelChange, Zenon
  <2>4. x \in Jobs \cup {Ended} /\ x.lastUpdateCnt \in Nat
    BY DEF Jobs
  <2>5. /\ walks' = [walks EXCEPT ![w] = x] /\ walks[w].pc # "gone"
        /\ walks[w].lastUpdateCnt <= x.lastUpdateCnt
    BY <2>2, <2>3, <2>4
  <2> QED
    BY <1>1, <2>4, <2>5, WalkUpdateKept, Zenon
<1>4. CASE walks' # walks /\ initAndStartRevWalk
  <2>1. walks' = Append(walks, NewJob(currentWalk'))
    BY <1>4, Zenon DEF initAndStartRevWalk
  <2>2. DOMAIN walks \subseteq DOMAIN walks' /\ \A w \in DOMAIN walks : walks'[w] = walks[w]
    BY <1>1, <2>1
  <2>3. ASSUME NEW v \in DOMAIN walks, walks[v].pc # "gone"
        PROVE  walks[v].lastUpdateCnt \in Nat
    <3>1. walks[v] \in Jobs
      BY <1>1, <2>3, JobIs
    <3> QED
      BY <3>1 DEF Jobs
  <2> QED
    BY <2>2, <2>3 DEF WalksKept
<1> QED
  BY <1>2, <1>3, <1>4
     DEF ChangeRefs, onRefsChanged, SetInput, UiStep, RefsRunnable, Join, inputSet, ShowRunnable,
         DoneRunnable, jobVars

LEMMA PageQueueKept ==
  ASSUME PageInv, Ordered(queue), ChangeRefs \/ onRefsChanged \/ SetInput \/ UiStep
  PROVE  Ordered(queue') /\ \A r \in Range(queue') : r.kind = "show" => r \in Range(queue)
<1>1. queue \in Seq(Runnables)
  BY DEF PageInv, PageTypeOK
<1>2. CASE queue' = queue
  BY <1>2
<1>3. CASE queue # <<>> /\ queue' = Tail(queue)
  <2>1. Range(queue') \subseteq Range(queue)
    BY <1>1, <1>3, QueueTail
  <2>2. Ordered(queue')
    BY <1>1, <1>3, OrderedTail
  <2> QED
    BY <2>1, <2>2
<1>4. CASE queue' = Append(queue, [kind |-> "refs"])
  <2>1. PICK r : r = [kind |-> "refs"]
    BY Zenon
  <2>2. r \in Runnables /\ r.kind = "refs"
    BY <2>1 DEF Runnables
  <2>3. Range(queue') = Range(queue) \cup {r}
    BY <1>1, <1>4, <2>1, <2>2, QueueAppend, Zenon
  <2>4. Ordered(queue')
    BY <1>1, <1>4, <2>1, <2>2, OrderedAppend
  <2> QED
    BY <2>2, <2>3, <2>4
<1> QED
  BY <1>2, <1>3, <1>4, Zenon
     DEF ChangeRefs, onRefsChanged, SetInput, UiStep, RefsRunnable, cancelRefreshJob, Join, inputSet,
         initAndStartRevWalk, ShowRunnable, DoneRunnable, queueVars

LEMMA PageStepFresh ==
  ASSUME ToolbarTypeOK, PageInv, PageInv', ArraysFresh, UNCHANGED toolbarVars,
         ChangeRefs \/ onRefsChanged \/ SetInput \/ UiStep
  PROVE  ArraysFresh'
<1>1. PageTypeOK /\ PageTypeOK' /\ Ordered(queue)
  BY DEF PageInv, ArraysFresh
<1>2. InUse' \subseteq InUse
  BY InUseSame
<1>3. WalksKept
  BY PageWalksKept
<1>4. Ordered(queue') /\ \A r \in Range(queue') : r.kind = "show" => r \in Range(queue)
  BY <1>1, PageQueueKept
<1> QED
  BY <1>1, <1>2, <1>3, <1>4, FreshKept, Zenon

\* The toolbar is given an array that it and its finders do not have.
LEMMA ShowFresh ==
  ASSUME ToolbarTypeOK, PageInv, PageInv', ArraysFresh, ShowRunnable, job = Head(queue).array.walk
  PROVE  /\ Head(queue).array \in Arrays
         /\ \A array \in InUse : array # Head(queue).array
         /\ ArraysFresh'
<1>1. /\ PageTypeOK /\ PageTypeOK' /\ Ordered(queue) /\ queue \in Seq(Runnables)
      /\ queue # <<>> /\ queue' = Tail(queue) /\ Head(queue).kind = "show"
  BY Zenon DEF PageInv, PageTypeOK, ArraysFresh, ShowRunnable
<1>2. PICK r \in Runnables : r = Head(queue) /\ r \in Range(queue)
  BY <1>1, QueueTail, Zenon
<1>3. PICK a \in Arrays : a = r.array
  BY <1>1, <1>2, RunnableFields
<1>4. \A array \in InUse : array # a
  <2>1. \A array \in InUse : Longer(a, array)
    BY <1>1, <1>2, <1>3 DEF ArraysFresh
  <2>2. InUse \subseteq Arrays /\ \A array \in Arrays : Len(array.commits) \in Nat
    BY InUseType DEF Arrays
  <2> QED
    BY <2>1, <2>2 DEF Longer
<1>5. WalksKept
  BY PageWalksKept DEF UiStep
<1>6. \A b \in Arrays : Shown(b) => Shown(b)'
  BY <1>1, <1>5, ShownKept
<1>7. InUse' \subseteq InUse \cup {a}
  <2>1. fileRevisions' = a /\ finders' = finders
    BY <1>2, <1>3, Zenon DEF ShowRunnable, setInput
  <2> QED
    BY <2>1 DEF InUse
<1>8. /\ Ordered(queue') /\ Range(queue') \subseteq Range(queue)
      /\ \A s \in Range(queue') : s.kind = "show" => Longer(s.array, a)
  <2>1. Ordered(Tail(queue)) /\ Range(Tail(queue)) \subseteq Range(queue)
    BY <1>1, OrderedTail, QueueTail
  <2>2. \A s \in Range(Tail(queue)) :
          Head(queue).kind = "show" /\ s.kind = "show" => Longer(s.array, Head(queue).array)
    BY <1>1, OrderedTail
  <2> QED
    BY <1>1, <1>2, <1>3, <2>1, <2>2
<1>9. \A s \in Range(queue) : s.kind = "show" => s.array \in Arrays /\ Shown(s.array)
  <2>1. Range(queue) \subseteq Runnables
    BY <1>1 DEF Range
  <2> QED
    BY <2>1, RunnableFields DEF ArraysFresh
<1>10. \A s \in Range(queue') : s.kind = "show" => Shown(s.array)'
  BY <1>6, <1>8, <1>9
<1>11. ASSUME NEW b \in InUse'
       PROVE  Shown(b)' /\ \A s \in Range(queue') : s.kind = "show" => Longer(s.array, b)
  <2>1. CASE b = a
    <3>1. Shown(a)
      BY <1>1, <1>2, <1>3, <1>9
    <3> QED
      BY <1>6, <1>8, <2>1, <3>1
  <2>2. CASE b \in InUse
    <3>1. b \in Arrays /\ Shown(b)
      BY <2>2, InUseType DEF ArraysFresh
    <3>2. \A s \in Range(queue') : s.kind = "show" => Longer(s.array, b)
      BY <1>8, <2>2 DEF ArraysFresh
    <3> QED
      BY <1>6, <3>1, <3>2
  <2> QED
    BY <1>7, <2>1, <2>2
<1>12. ArraysFresh'
  BY <1>8, <1>10, <1>11 DEF ArraysFresh
<1> QED
  BY <1>2, <1>3, <1>4, <1>12

-----------------------------------------------------------------------------
(***************************************************************************)
(* The finders and their results.                                          *)
(***************************************************************************)
LEMMA ResultsFields ==
  ASSUME NEW results \in Results
  PROVE  /\ results.matchesMap \in Seq(Matches) /\ results.matchesCount \in Nat
         /\ \A k \in DOMAIN results.matchesMap :
              results.matchesMap[k].row \in Nat /\ results.matchesMap[k].number \in Nat
<1>1. results.matchesMap \in Seq(Matches) /\ results.matchesCount \in Nat
  BY DEF Results
<1>2. \A k \in DOMAIN results.matchesMap : results.matchesMap[k] \in Matches
  BY <1>1
<1> QED
  BY <1>1, <1>2 DEF Matches

LEMMA KeysIs ==
  ASSUME NEW results \in Results
  PROVE  /\ Keys(results) \in Seq(Nat)
         /\ DOMAIN Keys(results) = DOMAIN results.matchesMap
         /\ \A k \in DOMAIN results.matchesMap : Keys(results)[k] = results.matchesMap[k].row
         /\ Range(Keys(results)) = {results.matchesMap[k].row : k \in DOMAIN results.matchesMap}
<1>1. PICK n \in Nat : DOMAIN results.matchesMap = 1 .. n
  BY ResultsFields
<1>2. Keys(results) = [k \in 1 .. n |-> results.matchesMap[k].row]
  BY <1>1 DEF Keys
<1>3. \A k \in 1 .. n : results.matchesMap[k].row \in Nat
  BY <1>1, ResultsFields
<1>4. Keys(results) \in Seq(Nat)
  BY <1>2, <1>3
<1> QED
  BY <1>1, <1>2, <1>4 DEF Range

LEMMA ClearedIs ==
  ASSUME NEW results \in Results
  PROVE  /\ Cleared(results) \in Results
         /\ Cleared(results).matchesMap = <<>> /\ Cleared(results).matchesCount = 0
<1>1. <<>> \in Seq(Matches) /\ 0 \in Nat
  OBVIOUS
<1>2. PICK map \in Seq(Matches), count \in Nat : map = <<>> /\ count = 0
  BY <1>1, Zenon
<1>3. Cleared(results) = [results EXCEPT !.matchesMap = map, !.matchesCount = count]
  BY <1>2 DEF Cleared
<1>4. /\ Cleared(results) \in Results
      /\ Cleared(results).matchesMap = map /\ Cleared(results).matchesCount = count
  BY <1>3, Zenon DEF Results
<1> QED
  BY <1>2, <1>4, Zenon

LEMMA AddedIs ==
  ASSUME NEW results \in Results, NEW row \in Nat,
         \A k \in DOMAIN results.matchesMap : results.matchesMap[k].row < row
  PROVE  /\ Added(results, row) \in Results
         /\ Added(results, row).matchesCount = results.matchesCount + 1
         /\ Added(results, row).matchesMap =
              Append(results.matchesMap, [row |-> row, number |-> results.matchesCount + 1])
<1>1. PICK number \in Nat : number = results.matchesCount + 1
  BY ResultsFields
<1>2. PICK pair \in Matches : pair = [row |-> row, number |-> number]
  BY Zenon DEF Matches
<1>3. PICK old : old = {k \in DOMAIN results.matchesMap : results.matchesMap[k].row = row}
  BY Zenon
<1>4. old = {}
  BY <1>3, ResultsFields
<1>5. Added(results, row) = [results EXCEPT !.matchesCount = number,
                                            !.matchesMap = Append(results.matchesMap, pair)]
  <2>1. Added(results, row) =
          [results EXCEPT !.matchesCount = number,
                          !.matchesMap = IF old = {} THEN Append(@, pair)
                                         ELSE [k \in DOMAIN @ |-> IF k \in old THEN pair ELSE @[k]]]
    BY <1>1, <1>2, <1>3 DEF Added
  <2> QED
    BY <1>4, <2>1
<1>6. PICK map \in Seq(Matches) : map = Append(results.matchesMap, pair)
  <2>1. PICK m \in Seq(Matches) : m = results.matchesMap
    BY ResultsFields, Zenon
  <2>2. Append(m, pair) \in Seq(Matches)
    OBVIOUS
  <2> QED
    BY <2>1, <2>2, Zenon
<1>7. Added(results, row) = [results EXCEPT !.matchesCount = number, !.matchesMap = map]
  BY <1>5, <1>6
<1>8. /\ Added(results, row) \in Results
      /\ Added(results, row).matchesCount = number
      /\ Added(results, row).matchesMap = map
  BY <1>7, Zenon DEF Results
<1> QED
  BY <1>1, <1>2, <1>6, <1>8

LEMMA FinderIs ==
  ASSUME ToolbarTypeOK, NEW f \in DOMAIN finders, finders[f].pc # "gone"
  PROVE  finders[f] \in Finders
<1>1. finders[f] \in Finders \cup {Gone}
  BY DEF ToolbarTypeOK
<1> QED
  BY <1>1 DEF Gone

LEMMA FinderFields ==
  ASSUME NEW x \in Finders
  PROVE  /\ x.i \in Nat /\ x.totalMatches \in Nat /\ x.fileRevisions \in Arrays \cup {NULL}
         /\ Searches(x) => /\ x.fileRevisions.commits \in Seq(Commits)
                           /\ Len(x.fileRevisions.commits) \in Nat
<1>1. x.i \in Nat /\ x.totalMatches \in Nat /\ x.fileRevisions \in Arrays \cup {NULL}
  BY DEF Finders
<1>2. \A a \in Arrays : a.commits \in Seq(Commits) /\ Len(a.commits) \in Nat
  BY DEF Arrays
<1> QED
  BY <1>1, <1>2 DEF Searches

LEMMA LoopIs ==
  ASSUME NEW x \in Finders
  PROVE  /\ Loop(x) \in Finders
         /\ Loop(x).pattern = x.pattern /\ Loop(x).fileRevisions = x.fileRevisions
         /\ Loop(x).i = x.i /\ Loop(x).totalMatches = x.totalMatches
         /\ Loop(x).pc \in {"test", "complete"}
         /\ Loop(x).pc = "test" => /\ Searches(x) /\ x.i < Len(x.fileRevisions.commits)
                                   /\ x.totalMatches < MAX_RESULTS
         /\ Loop(x).pc = "complete" /\ Searches(x) => \/ ~(x.i < Len(x.fileRevisions.commits))
                                                      \/ ~(x.totalMatches < MAX_RESULTS)
<1>1. PICK length : length = IF x.pattern = NoPattern \/ x.fileRevisions = NULL THEN 0
                             ELSE Len(x.fileRevisions.commits)
  BY Zenon
<1>2. PICK pc \in {"test", "complete"} :
        pc = IF x.i < length /\ x.totalMatches < MAX_RESULTS THEN "test" ELSE "complete"
  BY Zenon
<1>3. Loop(x) = [x EXCEPT !.pc = pc]
  BY <1>1, <1>2 DEF Loop
<1>4. /\ Loop(x) \in Finders /\ Loop(x).pc = pc
      /\ Loop(x).pattern = x.pattern /\ Loop(x).fileRevisions = x.fileRevisions
      /\ Loop(x).i = x.i /\ Loop(x).totalMatches = x.totalMatches
  BY <1>2, <1>3 DEF Finders
<1>5. x.i \in Nat
  BY FinderFields
<1>6. Searches(x) => length = Len(x.fileRevisions.commits)
  BY <1>1 DEF Searches
<1>7. ~Searches(x) => ~(x.i < length)
  BY <1>1, <1>5 DEF Searches
<1>8. pc = "test" <=> x.i < length /\ x.totalMatches < MAX_RESULTS
  BY <1>2
<1> QED
  BY <1>2, <1>4, <1>6, <1>7, <1>8, Zenon

\* What a step of a finder does to it.
FinderChange(f, x) ==
  /\ finders' = [finders EXCEPT ![f] = x]
  /\ finders[f].pc # "gone"
  /\ x.pattern = finders[f].pattern /\ x.fileRevisions = finders[f].fileRevisions
  /\ UNCHANGED <<session, ui, patternField, fileRevisions, globalThreadIx>>

LEMMA FinderChangeIs ==
  ASSUME ToolbarTypeOK, NEW f \in DOMAIN finders, NEW x \in Finders, FinderChange(f, x)
  PROVE  /\ finders' \in Seq(Finders \cup {Gone}) /\ Len(finders') = Len(finders)
         /\ DOMAIN finders' = DOMAIN finders
         /\ finders'[f] = x
         /\ \A g \in DOMAIN finders : g # f => finders'[g] = finders[g]
         /\ InUse' \subseteq InUse
<1>1. finders \in Seq(Finders \cup {Gone})
  BY DEF ToolbarTypeOK
<1>2. /\ finders' \in Seq(Finders \cup {Gone}) /\ Len(finders') = Len(finders)
      /\ DOMAIN finders' = DOMAIN finders
  BY <1>1 DEF FinderChange
<1>3. finders'[f] = x /\ \A g \in DOMAIN finders : g # f => finders'[g] = finders[g]
  BY <1>1 DEF FinderChange
<1>4. InUse' \subseteq InUse
  <2>1. fileRevisions' = fileRevisions
    BY DEF FinderChange
  <2>2. ASSUME NEW g \in DOMAIN finders', finders'[g].pc # "gone"
        PROVE  g \in DOMAIN finders /\ finders[g].pc # "gone" /\ finders'[g].fileRevisions = finders[g].fileRevisions
    BY <1>2, <1>3, <2>2 DEF FinderChange
  <2> QED
    BY <2>1, <2>2 DEF InUse
<1> QED
  BY <1>2, <1>3, <1>4

\* A step that leaves the results and the finder's place in the array alone.
LEMMA SameResults ==
  ASSUME ToolbarTypeOK, FindInv, NEW f \in DOMAIN finders, NEW x \in Finders, FinderChange(f, x),
         findResults' = findResults,
         x.i = finders[f].i, x.totalMatches = finders[f].totalMatches,
         x.pc \in {"started", "clear"} => finders[f].pc \in {"started", "clear"},
         x.pc \in {"test", "match"} => finders[f].pc \in {"test", "match"},
         x.pc \in {"complete", "completed"} => finders[f].pc \in {"complete", "completed"}
  PROVE  RowsAscend' /\ LoopOK' /\ ExactSoFar'
<1>1. /\ DOMAIN finders' = DOMAIN finders
      /\ finders'[f] = x
      /\ \A g \in DOMAIN finders : g # f => finders'[g] = finders[g]
  BY FinderChangeIs
<1>2. x.pattern = finders[f].pattern /\ x.fileRevisions = finders[f].fileRevisions
  BY DEF FinderChange
<1>3. UNCHANGED <<ui, fileRevisions, globalThreadIx>>
  BY DEF FinderChange
<1>4. RowsAscend'
  BY <1>1, Zenon DEF FindInv, RowsAscend
<1>5. LoopOK'
  <2>1. SUFFICES ASSUME NEW g \in DOMAIN finders
                 PROVE  /\ finders'[g].pc \in {"started", "clear"} => finders'[g].i = 0 /\ finders'[g].totalMatches = 0
                        /\ finders'[g].pc \in {"test", "match"} =>
                             /\ Searches(finders'[g])
                             /\ finders'[g].i < Len(finders'[g].fileRevisions.commits)
                             /\ finders'[g].totalMatches < MAX_RESULTS
                        /\ finders'[g].pc \in {"complete", "completed"} /\ Searches(finders'[g]) =>
                             /\ finders'[g].i <= Len(finders'[g].fileRevisions.commits)
                             /\ finders'[g].totalMatches <= MAX_RESULTS
                             /\ \/ finders'[g].i = Len(finders'[g].fileRevisions.commits)
                                \/ finders'[g].totalMatches = MAX_RESULTS
    BY <1>1, Zenon DEF LoopOK
  <2>2. CASE g # f
    <3>1. finders'[g] = finders[g]
      BY <1>1, <2>2
    <3> QED
      BY <3>1, Zenon DEF FindInv, LoopOK
  <2>3. CASE g = f
    <3>1. Searches(x) <=> Searches(finders[f])
      BY <1>2 DEF Searches
    <3> QED
      BY <1>1, <1>2, <2>3, <3>1, Zenon DEF FindInv, LoopOK
  <2> QED
    BY <2>2, <2>3, Zenon
<1>6. ExactSoFar'
  <2>1. ASSUME NEW g \in DOMAIN finders, Current(g)' PROVE Current(g)
    <3>1. CASE g = f
      BY <1>1, <1>2, <1>3, <2>1, <3>1, Zenon DEF Current
    <3>2. CASE g # f
      BY <1>1, <1>3, <2>1, <3>2, Zenon DEF Current
    <3> QED
      BY <3>1, <3>2, Zenon
  <2>2. ASSUME NEW g \in DOMAIN finders
        PROVE  /\ finders'[g].i = finders[g].i /\ finders'[g].totalMatches = finders[g].totalMatches
               /\ MatchingUpTo(finders'[g], finders'[g].i) = MatchingUpTo(finders[g], finders[g].i)
    <3>1. CASE g = f
      BY <1>1, <1>2, <3>1, Zenon DEF MatchingUpTo
    <3>2. CASE g # f
      BY <1>1, <3>2, Zenon
    <3> QED
      BY <3>1, <3>2, Zenon
  <2> QED
    BY <1>1, <2>1, <2>2, Zenon DEF FindInv, ExactSoFar
<1> QED
  BY <1>4, <1>5, <1>6

\* The finder that holds EXEC_LOCK is the only one at work.
LEMMA OthersIdle ==
  ASSUME FindInv, NEW f \in DOMAIN finders, finders[f].pc \in Working,
         NEW g \in DOMAIN finders, g # f
  PROVE  finders[g].pc \notin Working
BY DEF FindInv, OneWorks

LEMMA RunFind ==
  ASSUME ToolbarTypeOK, FindInv, NEW f \in DOMAIN finders, run(f)
  PROVE  /\ \E x \in Finders : FinderChange(f, x)
         /\ findResults' = findResults
         /\ FindInv'
<1>1. finders[f] \in Finders /\ finders[f].pc = "started"
  BY FinderIs DEF run
<1>2. finders \in Seq(Finders \cup {Gone}) /\ Len(finders) = globalThreadIx /\ globalThreadIx \in Nat /\ f \in Nat
  BY DEF ToolbarTypeOK
<1>3. PICK pc \in {"gone", "clear"} : pc = IF Superseded(f) THEN "gone" ELSE "clear"
  BY Zenon
<1>4. PICK x : x = [finders[f] EXCEPT !.pc = pc]
  BY Zenon
<1>5. /\ x \in Finders /\ x.pc = pc /\ x.pattern = finders[f].pattern
      /\ x.fileRevisions = finders[f].fileRevisions
      /\ x.i = finders[f].i /\ x.totalMatches = finders[f].totalMatches
  BY <1>1, <1>3, <1>4 DEF Finders
<1>6. UNCHANGED <<session, ui, patternField, fileRevisions, findResults, globalThreadIx>>
  BY DEF run
<1>7. finders' = [finders EXCEPT ![f] = x] /\ EXEC_LOCK' = (IF Superseded(f) THEN NULL ELSE f)
  BY <1>3, <1>4 DEF run, Ends
<1>8. FinderChange(f, x)
  BY <1>1, <1>5, <1>6, <1>7 DEF FinderChange
<1>9. RowsAscend' /\ LoopOK' /\ ExactSoFar'
  BY <1>1, <1>3, <1>5, <1>6, <1>8, SameResults, Zenon
<1>10. /\ DOMAIN finders' = DOMAIN finders /\ finders'[f] = x
       /\ \A g \in DOMAIN finders : g # f => finders'[g] = finders[g]
  BY <1>5, <1>8, FinderChangeIs, Zenon
<1>11. \A g \in DOMAIN finders : finders[g].pc \notin Working
  <2>1. EXEC_LOCK = NULL
    BY DEF run
  <2> QED
    BY <1>2, <2>1, FindToolbarAssumption DEF FindInv, OneWorks
<1>12. OneWorks'
  <2>1. \A g \in DOMAIN finders' : finders'[g].pc \in Working => EXEC_LOCK' = g
    BY <1>3, <1>5, <1>7, <1>10, <1>11 DEF Working
  <2>2. ASSUME NEW g \in DOMAIN finders', g = globalThreadIx', finders'[g].pc = "completed",
               NEW h \in DOMAIN finders'
        PROVE  finders'[h].pc \notin Working
    <3>1. CASE h # f
      BY <1>10, <1>11, <3>1
    <3>2. CASE h = f
      <4>1. g # f /\ f \in 1 .. globalThreadIx
        BY <1>2, <1>3, <1>5, <1>10, <2>2
      <4>2. Superseded(f)
        BY <1>2, <1>6, <2>2, <4>1 DEF Superseded
      <4> QED
        BY <1>3, <1>5, <1>10, <3>2, <4>2 DEF Working
    <3> QED
      BY <3>1, <3>2
  <2> QED
    BY <2>1, <2>2 DEF OneWorks
<1> QED
  BY <1>5, <1>6, <1>8, <1>9, <1>12, Zenon DEF FindInv

LEMMA TestFind ==
  ASSUME ToolbarTypeOK, FindInv, NEW f \in DOMAIN finders, TestSuperseded(f)
  PROVE  /\ \E x \in Finders : FinderChange(f, x)
         /\ findResults' = findResults
         /\ FindInv'
<1>1. finders[f] \in Finders /\ finders[f].pc = "test"
  BY FinderIs DEF TestSuperseded
<1>2. finders \in Seq(Finders \cup {Gone})
  BY DEF ToolbarTypeOK
<1>3. PICK pc \in {"gone", "match"} : pc = IF Superseded(f) THEN "gone" ELSE "match"
  BY Zenon
<1>4. PICK x : x = [finders[f] EXCEPT !.pc = pc]
  BY Zenon
<1>5. /\ x \in Finders /\ x.pc = pc /\ x.pattern = finders[f].pattern
      /\ x.fileRevisions = finders[f].fileRevisions
      /\ x.i = finders[f].i /\ x.totalMatches = finders[f].totalMatches
  BY <1>1, <1>3, <1>4 DEF Finders
<1>6. UNCHANGED <<session, ui, patternField, fileRevisions, findResults, globalThreadIx>>
  BY DEF TestSuperseded
<1>7. finders' = [finders EXCEPT ![f] = x] /\ (pc = "match" => EXEC_LOCK' = EXEC_LOCK)
  BY <1>3, <1>4 DEF TestSuperseded, Ends
<1>8. FinderChange(f, x)
  BY <1>1, <1>5, <1>6, <1>7 DEF FinderChange
<1>9. RowsAscend' /\ LoopOK' /\ ExactSoFar'
  BY <1>1, <1>3, <1>5, <1>6, <1>8, SameResults, Zenon
<1>10. /\ DOMAIN finders' = DOMAIN finders /\ finders'[f] = x
       /\ \A g \in DOMAIN finders : g # f => finders'[g] = finders[g]
  BY <1>5, <1>8, FinderChangeIs, Zenon
<1>11. finders[f].pc \in Working /\ EXEC_LOCK = f
  BY <1>1 DEF FindInv, OneWorks, Working
<1>12. \A g \in DOMAIN finders : g # f => finders'[g].pc \notin Working
  BY <1>10, <1>11, OthersIdle
<1>13. OneWorks'
  <2>1. \A g \in DOMAIN finders' : finders'[g].pc \in Working => EXEC_LOCK' = g
    BY <1>3, <1>5, <1>7, <1>10, <1>11, <1>12 DEF Working
  <2>2. ASSUME NEW g \in DOMAIN finders', g = globalThreadIx', finders'[g].pc = "completed"
        PROVE  FALSE
    <3>1. g # f /\ finders[g].pc = "completed" /\ g = globalThreadIx
      BY <1>3, <1>5, <1>6, <1>10, <2>2
    <3> QED
      BY <1>10, <1>11, <3>1 DEF FindInv, OneWorks
  <2> QED
    BY <2>1, <2>2 DEF OneWorks
<1> QED
  BY <1>5, <1>6, <1>8, <1>9, <1>13, Zenon DEF FindInv

LEMMA CompleteFind ==
  ASSUME ToolbarTypeOK, FindInv, NEW f \in DOMAIN finders, findCompletionUpdate(f)
  PROVE  /\ \E x \in Finders : FinderChange(f, x)
         /\ findResults' = findResults
         /\ FindInv'
<1>1. finders[f] \in Finders /\ finders[f].pc = "complete"
  BY FinderIs DEF findCompletionUpdate
<1>2. finders \in Seq(Finders \cup {Gone})
  BY DEF ToolbarTypeOK
<1>3. PICK x : x = [finders[f] EXCEPT !.pc = "completed"]
  BY Zenon
<1>4. /\ x \in Finders /\ x.pc = "completed" /\ x.pattern = finders[f].pattern
      /\ x.fileRevisions = finders[f].fileRevisions
      /\ x.i = finders[f].i /\ x.totalMatches = finders[f].totalMatches
  BY <1>1, <1>3 DEF Finders
<1>5. UNCHANGED <<session, ui, patternField, fileRevisions, findResults, globalThreadIx>>
  BY DEF findCompletionUpdate
<1>6. finders' = [finders EXCEPT ![f] = x]
  BY <1>3 DEF findCompletionUpdate
<1>7. FinderChange(f, x)
  BY <1>1, <1>4, <1>5, <1>6 DEF FinderChange
<1>8. RowsAscend' /\ LoopOK' /\ ExactSoFar'
  BY <1>1, <1>4, <1>5, <1>7, SameResults, Zenon
<1>9. /\ DOMAIN finders' = DOMAIN finders /\ finders'[f] = x
      /\ \A g \in DOMAIN finders : g # f => finders'[g] = finders[g]
  BY <1>4, <1>7, FinderChangeIs, Zenon
<1>10. \A g \in DOMAIN finders : g # f => finders'[g].pc \notin Working
  BY <1>1, <1>9, OthersIdle DEF Working
<1>11. OneWorks'
  BY <1>4, <1>9, <1>10, Zenon DEF OneWorks, Working
<1> QED
  BY <1>4, <1>5, <1>7, <1>8, <1>11, Zenon DEF FindInv

\* A step of the loop of the finder that holds EXEC_LOCK.
LEMMA LoopStep ==
  ASSUME ToolbarTypeOK, FindInv, NEW f \in DOMAIN finders, NEW x \in Finders, FinderChange(f, x),
         finders[f].pc \in Working, EXEC_LOCK' = EXEC_LOCK,
         x.pc \in {"test", "complete"},
         x.pc = "test" => /\ Searches(x) /\ x.i < Len(x.fileRevisions.commits)
                          /\ x.totalMatches < MAX_RESULTS,
         x.pc = "complete" /\ Searches(x) => /\ x.i <= Len(x.fileRevisions.commits)
                                             /\ x.totalMatches <= MAX_RESULTS
                                             /\ \/ x.i = Len(x.fileRevisions.commits)
                                                \/ x.totalMatches = MAX_RESULTS
  PROVE  /\ OneWorks' /\ LoopOK'
         /\ \A g \in DOMAIN finders' : /\ finders'[g].pc \in {"test", "match"} => g = f
                                       /\ Current(g)' => g = f
<1>1. /\ DOMAIN finders' = DOMAIN finders /\ finders'[f] = x
      /\ \A g \in DOMAIN finders : g # f => finders'[g] = finders[g]
  BY FinderChangeIs, Zenon
<1>2. EXEC_LOCK = f
  BY Zenon DEF FindInv, OneWorks
<1>3. \A g \in DOMAIN finders : g # f => finders'[g].pc \notin Working
  BY <1>1, OthersIdle, Zenon
<1>4. UNCHANGED <<ui, fileRevisions, globalThreadIx>>
  BY DEF FinderChange
<1>5. ASSUME NEW g \in DOMAIN finders', g = globalThreadIx', finders'[g].pc = "completed"
      PROVE  FALSE
  <2>1. g # f /\ finders[g].pc = "completed" /\ g = globalThreadIx
    BY <1>1, <1>4, <1>5, Zenon
  <2> QED
    BY <1>1, <2>1, Zenon DEF FindInv, OneWorks
<1>6. OneWorks'
  <2>1. \A g \in DOMAIN finders' : finders'[g].pc \in Working => EXEC_LOCK' = g
    BY <1>1, <1>2, <1>3, Zenon
  <2> QED
    BY <1>5, <2>1, Zenon DEF OneWorks
<1>7. LoopOK'
  <2>1. SUFFICES ASSUME NEW g \in DOMAIN finders
                 PROVE  /\ finders'[g].pc \in {"started", "clear"} => finders'[g].i = 0 /\ finders'[g].totalMatches = 0
                        /\ finders'[g].pc \in {"test", "match"} =>
                             /\ Searches(finders'[g])
                             /\ finders'[g].i < Len(finders'[g].fileRevisions.commits)
                             /\ finders'[g].totalMatches < MAX_RESULTS
                        /\ finders'[g].pc \in {"complete", "completed"} /\ Searches(finders'[g]) =>
                             /\ finders'[g].i <= Len(finders'[g].fileRevisions.commits)
                             /\ finders'[g].totalMatches <= MAX_RESULTS
                             /\ \/ finders'[g].i = Len(finders'[g].fileRevisions.commits)
                                \/ finders'[g].totalMatches = MAX_RESULTS
    BY <1>1, Zenon DEF LoopOK
  <2>2. CASE g # f
    <3>1. finders'[g] = finders[g]
      BY <1>1, <2>2
    <3> QED
      BY <3>1, Zenon DEF FindInv, LoopOK
  <2>3. CASE g = f
    BY <1>1, <2>3, Zenon
  <2> QED
    BY <2>2, <2>3, Zenon
<1>8. ASSUME NEW g \in DOMAIN finders', g # f
      PROVE  finders'[g].pc \notin {"test", "match"} /\ ~Current(g)'
  BY <1>1, <1>3, <1>5, <1>8, Zenon DEF Current, Working
<1> QED
  BY <1>6, <1>7, <1>8, Zenon

LEMMA ClearFind ==
  ASSUME ToolbarTypeOK, FindInv, NEW f \in DOMAIN finders, ClearResults(f)
  PROVE  /\ \E x \in Finders : FinderChange(f, x)
         /\ findResults' \in Results
         /\ FindInv'
<1>1. finders[f] \in Finders /\ finders[f].pc = "clear"
  BY FinderIs DEF ClearResults
<1>2. PICK x : x = Loop(finders[f])
  BY Zenon
<1>3. finders[f].i = 0 /\ finders[f].totalMatches = 0
  BY <1>1, Zenon DEF FindInv, LoopOK
<1>4. /\ x \in Finders /\ x.pattern = finders[f].pattern /\ x.fileRevisions = finders[f].fileRevisions
      /\ x.i = 0 /\ x.totalMatches = 0 /\ x.pc \in {"test", "complete"}
  BY <1>1, <1>2, <1>3, LoopIs
<1>5. /\ x.pc = "test" => /\ Searches(x) /\ x.i < Len(x.fileRevisions.commits)
                          /\ x.totalMatches < MAX_RESULTS
      /\ x.pc = "complete" /\ Searches(x) => /\ x.i <= Len(x.fileRevisions.commits)
                                             /\ x.totalMatches <= MAX_RESULTS
                                             /\ \/ x.i = Len(x.fileRevisions.commits)
                                                \/ x.totalMatches = MAX_RESULTS
  <2>1. Searches(x) <=> Searches(finders[f])
    BY <1>4 DEF Searches
  <2>2. Searches(x) => Len(x.fileRevisions.commits) \in Nat
    BY <1>4, FinderFields
  <2>3. MAX_RESULTS \in Nat /\ MAX_RESULTS > 0
    BY FindToolbarAssumption
  <2>4. x.pc = "test" => /\ Searches(finders[f])
                         /\ finders[f].i < Len(finders[f].fileRevisions.commits)
                         /\ finders[f].totalMatches < MAX_RESULTS
    BY <1>1, <1>2, LoopIs
  <2>5. x.pc = "complete" /\ Searches(finders[f]) =>
           \/ ~(finders[f].i < Len(finders[f].fileRevisions.commits))
           \/ ~(finders[f].totalMatches < MAX_RESULTS)
    BY <1>1, <1>2, LoopIs, Zenon
  <2> QED
    BY <1>3, <1>4, <2>1, <2>2, <2>3, <2>4, <2>5
<1>6. /\ UNCHANGED <<session, ui, patternField, fileRevisions, globalThreadIx, EXEC_LOCK>>
      /\ finders' = [finders EXCEPT ![f] = x]
      /\ findResults' = Cleared(findResults)
  BY <1>2 DEF ClearResults
<1>7. FinderChange(f, x)
  BY <1>1, <1>4, <1>6 DEF FinderChange
<1>8. findResults' \in Results /\ findResults'.matchesMap = <<>> /\ findResults'.matchesCount = 0
  BY <1>6, ClearedIs DEF ToolbarTypeOK
<1>9. /\ OneWorks' /\ LoopOK'
      /\ \A g \in DOMAIN finders' : /\ finders'[g].pc \in {"test", "match"} => g = f
                                    /\ Current(g)' => g = f
  BY <1>1, <1>4, <1>5, <1>6, <1>7, LoopStep DEF Working
<1>10. DOMAIN findResults'.matchesMap = {} /\ DOMAIN Keys(findResults') = {} /\ Range(Keys(findResults')) = {}
  <2>1. DOMAIN findResults'.matchesMap = {}
    BY <1>8
  <2> QED
    BY <1>8, <2>1, KeysIs, Zenon
<1>11. RowsAscend'
  BY <1>10 DEF RowsAscend, Ascending
<1>12. ExactSoFar'
  <2>1. SUFFICES /\ Range(Keys(findResults')) = {r - 1 : r \in MatchingUpTo(finders'[f], finders'[f].i)}
                 /\ findResults'.matchesCount = finders'[f].totalMatches
                 /\ Len(findResults'.matchesMap) = finders'[f].totalMatches
                 /\ \A k \in DOMAIN findResults'.matchesMap : findResults'.matchesMap[k].number = k
    BY <1>9, Zenon DEF ExactSoFar
  <2>2. finders'[f] = x
    BY <1>4, <1>7, FinderChangeIs, Zenon
  <2>3. MatchingUpTo(x, 0) = {}
    BY DEF MatchingUpTo
  <2>4. Len(findResults'.matchesMap) = 0
    BY <1>8
  <2> QED
    BY <1>4, <1>8, <1>10, <2>2, <2>3, <2>4, Zenon
<1> QED
  BY <1>4, <1>7, <1>8, <1>9, <1>11, <1>12, Zenon DEF FindInv

\* The matching rows among one more.
LEMMA MatchingNext ==
  ASSUME NEW x, NEW y, x.fileRevisions = y.fileRevisions, x.pattern = y.pattern, NEW i \in Nat
  PROVE  /\ y.fileRevisions.commits[i + 1] \in y.pattern =>
              MatchingUpTo(x, i + 1) = MatchingUpTo(y, i) \cup {i + 1}
         /\ y.fileRevisions.commits[i + 1] \notin y.pattern => MatchingUpTo(x, i + 1) = MatchingUpTo(y, i)
BY DEF MatchingUpTo

LEMMA MatchFind ==
  ASSUME ToolbarTypeOK, FindInv, NEW f \in DOMAIN finders, Match(f)
  PROVE  /\ \E x \in Finders : FinderChange(f, x)
         /\ findResults' \in Results
         /\ FindInv'
<1>1. finders[f] \in Finders /\ finders[f].pc = "match"
  BY FinderIs DEF Match
<1>2. PICK finder \in Finders : finder = finders[f]
  BY <1>1, Zenon
<1>3. /\ Searches(finder) /\ finder.i < Len(finder.fileRevisions.commits)
      /\ finder.totalMatches < MAX_RESULTS
  BY <1>1, <1>2 DEF FindInv, LoopOK
<1>4. /\ finder.i \in Nat /\ finder.totalMatches \in Nat /\ Len(finder.fileRevisions.commits) \in Nat
      /\ MAX_RESULTS \in Nat
  BY <1>3, FinderFields, FindToolbarAssumption
<1> DEFINE found == finder.fileRevisions.commits[finder.i + 1] \in finder.pattern
<1>5. PICK i \in Nat : i = finder.i + 1
  BY <1>4
<1>6. PICK total \in Nat : /\ total = finder.totalMatches + IF found THEN 1 ELSE 0
                           /\ found => total = finder.totalMatches + 1
                           /\ ~found => total = finder.totalMatches
  BY <1>4
<1>7. PICK y : y = [finder EXCEPT !.i = i, !.totalMatches = total]
  BY Zenon
<1>8. /\ y \in Finders /\ y.pattern = finder.pattern /\ y.fileRevisions = finder.fileRevisions
      /\ y.i = i /\ y.totalMatches = total
  BY <1>7, Zenon DEF Finders
<1>9. PICK x : x = Loop(y)
  BY Zenon
<1>10. /\ x \in Finders /\ x.pattern = finder.pattern /\ x.fileRevisions = finder.fileRevisions
       /\ x.i = i /\ x.totalMatches = total /\ x.pc \in {"test", "complete"}
  BY <1>8, <1>9, LoopIs
<1>11. /\ UNCHANGED <<session, ui, patternField, fileRevisions, globalThreadIx, EXEC_LOCK>>
       /\ finders' = [finders EXCEPT ![f] = x]
       /\ findResults' = IF found THEN Added(findResults, finder.i) ELSE findResults
  <2>1. y = [finder EXCEPT !.i = finder.i + 1,
                           !.totalMatches = finder.totalMatches + IF found THEN 1 ELSE 0]
    BY <1>5, <1>6, <1>7, Zenon
  <2>2. finders' = [finders EXCEPT ![f] = Loop([finder EXCEPT !.i = finder.i + 1,
                           !.totalMatches = finder.totalMatches + IF found THEN 1 ELSE 0])]
    BY <1>2, Zenon DEF Match
  <2>3. UNCHANGED <<session, ui, patternField, fileRevisions, globalThreadIx, EXEC_LOCK>>
    BY DEF Match
  <2>4. findResults' = IF found THEN Added(findResults, finder.i) ELSE findResults
    BY <1>2, Zenon DEF Match
  <2> QED
    BY <1>9, <2>1, <2>2, <2>3, <2>4, Zenon
<1>12. FinderChange(f, x)
  BY <1>1, <1>2, <1>10, <1>11 DEF FinderChange
<1>13. /\ x.pc = "test" => /\ Searches(x) /\ x.i < Len(x.fileRevisions.commits)
                           /\ x.totalMatches < MAX_RESULTS
       /\ x.pc = "complete" /\ Searches(x) => /\ x.i <= Len(x.fileRevisions.commits)
                                              /\ x.totalMatches <= MAX_RESULTS
                                              /\ \/ x.i = Len(x.fileRevisions.commits)
                                                 \/ x.totalMatches = MAX_RESULTS
  <2>1. Searches(x) /\ Searches(y)
    BY <1>3, <1>8, <1>10 DEF Searches
  <2>2. i <= Len(finder.fileRevisions.commits) /\ total <= MAX_RESULTS
    BY <1>3, <1>4, <1>5, <1>6
  <2>3. /\ x.pc = "test" => y.i < Len(y.fileRevisions.commits) /\ y.totalMatches < MAX_RESULTS
        /\ x.pc = "complete" => ~(y.i < Len(y.fileRevisions.commits)) \/ ~(y.totalMatches < MAX_RESULTS)
    BY <1>8, <1>9, <2>1, LoopIs
  <2> QED
    BY <1>4, <1>8, <1>10, <2>1, <2>2, <2>3
<1>14. /\ OneWorks' /\ LoopOK'
       /\ \A g \in DOMAIN finders' : /\ finders'[g].pc \in {"test", "match"} => g = f
                                     /\ Current(g)' => g = f
  BY <1>1, <1>10, <1>11, <1>12, <1>13, LoopStep, Zenon DEF Working
<1>15. /\ findResults \in Results
       /\ \A k \in DOMAIN findResults.matchesMap : findResults.matchesMap[k].row < finder.i
  BY <1>1, <1>2, Zenon DEF ToolbarTypeOK, FindInv, RowsAscend
<1>16. finders'[f] = x
  BY <1>10, <1>12, FinderChangeIs, Zenon
<1>17. Current(f)' => Current(f)
  BY <1>1, <1>2, <1>10, <1>11, <1>16, Zenon DEF Current
<1>18. /\ found => MatchingUpTo(x, i) = MatchingUpTo(finder, finder.i) \cup {i}
       /\ ~found => MatchingUpTo(x, i) = MatchingUpTo(finder, finder.i)
  <2>1. PICK j \in Nat : j = finder.i
    BY <1>4
  <2>2. /\ finder.fileRevisions.commits[j + 1] \in finder.pattern =>
             MatchingUpTo(x, j + 1) = MatchingUpTo(finder, j) \cup {j + 1}
        /\ finder.fileRevisions.commits[j + 1] \notin finder.pattern =>
             MatchingUpTo(x, j + 1) = MatchingUpTo(finder, j)
    <3>1. x.fileRevisions = finder.fileRevisions /\ x.pattern = finder.pattern
      BY <1>10
    <3> QED
      BY <3>1, MatchingNext
  <2>3. i = j + 1
    BY <1>5, <2>1
  <2> QED
    BY <2>1, <2>2, <2>3, Zenon
<1>19. CASE ~found
  <2>1. findResults' = findResults
    BY <1>11, <1>19
  <2>2. RowsAscend'
    <3>1. \A k \in DOMAIN findResults.matchesMap : findResults.matchesMap[k].row < i
      BY <1>4, <1>5, <1>15, ResultsFields
    <3>2. Ascending(Keys(findResults))
      BY DEF FindInv, RowsAscend
    <3>3. \A g \in DOMAIN finders' : finders'[g].pc \in {"test", "match"} => finders'[g].i = i
      BY <1>10, <1>14, <1>16, Zenon
    <3> QED
      BY <2>1, <3>1, <3>2, <3>3, Zenon DEF RowsAscend
  <2>3. ExactSoFar'
    <3>1. total = finder.totalMatches
      BY <1>6, <1>19, Zenon
    <3>2. MatchingUpTo(x, i) = MatchingUpTo(finder, finder.i)
      BY <1>18, <1>19, Zenon
    <3> QED
      BY <1>2, <1>10, <1>14, <1>16, <1>17, <2>1, <3>1, <3>2, Zenon DEF FindInv, ExactSoFar
  <2> QED
    BY <1>10, <1>12, <1>14, <1>15, <2>1, <2>2, <2>3, Zenon DEF FindInv
<1>20. CASE found
  <2>1. PICK pair : pair = [row |-> finder.i, number |-> findResults.matchesCount + 1]
    BY Zenon
  <2>2. pair.row = finder.i /\ pair.number = findResults.matchesCount + 1
    BY <2>1
  <2>3. /\ findResults' \in Results /\ findResults'.matchesCount = findResults.matchesCount + 1
        /\ findResults'.matchesMap = Append(findResults.matchesMap, pair)
    BY <1>4, <1>11, <1>15, <1>20, <2>1, AddedIs, Zenon
  <2>4. PICK n \in Nat : Len(findResults.matchesMap) = n /\ DOMAIN findResults.matchesMap = 1 .. n
    BY <1>15, ResultsFields
  <2>5. /\ Len(findResults'.matchesMap) = n + 1 /\ DOMAIN findResults'.matchesMap = 1 .. (n + 1)
        /\ findResults'.matchesMap[n + 1] = pair
        /\ \A k \in 1 .. n : findResults'.matchesMap[k] = findResults.matchesMap[k]
    <3>1. findResults.matchesMap \in Seq(Matches)
      BY <1>15, ResultsFields
    <3> QED
      BY ONLY <2>3, <2>4, <3>1
  <2>6. \A k \in 1 .. (n + 1) : findResults'.matchesMap[k].row < i
    <3>1. \A k \in 1 .. n : findResults.matchesMap[k].row < finder.i /\ findResults.matchesMap[k].row \in Nat
      BY <1>15, <2>4, ResultsFields, Zenon
    <3>2. finder.i < i /\ \A k \in 1 .. n : findResults.matchesMap[k].row < i
      BY ONLY <1>4, <1>5, <3>1
    <3>3. \A k \in 1 .. (n + 1) : k \in 1 .. n \/ k = n + 1
      BY ONLY n \in Nat
    <3> QED
      BY <2>2, <2>5, <3>2, <3>3, Zenon
  <2>7. Ascending(Keys(findResults'))
    <3>1. /\ DOMAIN Keys(findResults) = 1 .. n /\ DOMAIN Keys(findResults') = 1 .. (n + 1)
          /\ \A k \in 1 .. n : Keys(findResults)[k] = findResults.matchesMap[k].row
          /\ \A k \in 1 .. (n + 1) : Keys(findResults')[k] = findResults'.matchesMap[k].row
      BY <1>15, <2>3, <2>4, <2>5, KeysIs, Zenon
    <3>2. Ascending(Keys(findResults))
      BY Zenon DEF FindInv, RowsAscend
    <3>3. ASSUME NEW j \in 1 .. (n + 1), NEW k \in 1 .. (n + 1), j < k
          PROVE  Keys(findResults')[j] < Keys(findResults')[k]
      <4>1. j \in 1 .. n /\ Keys(findResults')[j] = Keys(findResults)[j]
        BY <2>5, <3>1, <3>3
      <4>2. CASE k \in 1 .. n
        BY <2>5, <3>1, <3>2, <3>3, <4>1, <4>2, Zenon DEF Ascending
      <4>3. CASE k = n + 1
        <5>1. Keys(findResults')[k] = finder.i
          BY <2>2, <2>5, <3>1, <4>3, Zenon
        <5>2. Keys(findResults)[j] < finder.i
          BY <1>15, <2>4, <3>1, <4>1, Zenon
        <5> QED
          BY <4>1, <5>1, <5>2
      <4> QED
        BY <4>2, <4>3
    <3> QED
      BY <3>1, <3>3 DEF Ascending
  <2>8. RowsAscend'
    BY <1>10, <1>14, <1>16, <2>5, <2>6, <2>7, Zenon DEF RowsAscend
  <2>9. ASSUME Current(f)
        PROVE  /\ Range(Keys(findResults')) = {r - 1 : r \in MatchingUpTo(x, i)}
               /\ findResults'.matchesCount = total
               /\ Len(findResults'.matchesMap) = total
               /\ \A k \in DOMAIN findResults'.matchesMap : findResults'.matchesMap[k].number = k
    <3>1. /\ Range(Keys(findResults)) = {r - 1 : r \in MatchingUpTo(finder, finder.i)}
          /\ findResults.matchesCount = finder.totalMatches
          /\ Len(findResults.matchesMap) = finder.totalMatches
          /\ \A k \in DOMAIN findResults.matchesMap : findResults.matchesMap[k].number = k
      BY <1>2, <2>9, Zenon DEF FindInv, ExactSoFar
    <3>2. total = finder.totalMatches + 1
      BY <1>6, <1>20, Zenon
    <3>3. MatchingUpTo(x, i) = MatchingUpTo(finder, finder.i) \cup {i}
      BY <1>18, <1>20
    <3>4. Range(Keys(findResults')) = Range(Keys(findResults)) \cup {finder.i}
      <4>1. /\ Range(Keys(findResults)) = {findResults.matchesMap[k].row : k \in 1 .. n}
            /\ Range(Keys(findResults')) = {findResults'.matchesMap[k].row : k \in 1 .. (n + 1)}
        BY <1>15, <2>3, <2>4, <2>5, KeysIs, Zenon
      <4>2. \A k \in 1 .. (n + 1) : k \in 1 .. n \/ k = n + 1
        OBVIOUS
      <4>3. n + 1 \in 1 .. (n + 1) /\ 1 .. n \subseteq 1 .. (n + 1)
        OBVIOUS
      <4>4. findResults'.matchesMap[n + 1].row = finder.i
        BY <2>2, <2>5
      <4>5. \A r \in Range(Keys(findResults)) : r \in Range(Keys(findResults'))
        BY <2>5, <4>1, <4>3, Zenon
      <4>6. finder.i \in Range(Keys(findResults'))
        BY <4>1, <4>3, <4>4, Zenon
      <4>7. ASSUME NEW k \in 1 .. (n + 1)
            PROVE  findResults'.matchesMap[k].row \in Range(Keys(findResults)) \cup {finder.i}
        BY <2>5, <4>1, <4>2, <4>4, Zenon
      <4>8. \A r \in Range(Keys(findResults')) : r \in Range(Keys(findResults)) \cup {finder.i}
        BY <4>1, <4>7, Zenon
      <4> QED
        BY <4>5, <4>6, <4>8, Zenon
    <3>5. {r - 1 : r \in MatchingUpTo(x, i)} = {r - 1 : r \in MatchingUpTo(finder, finder.i)} \cup {finder.i}
      <4>1. finder.i = i - 1
        BY <1>4, <1>5
      <4> QED
        BY <3>3, <4>1, Zenon
    <3>6. \A k \in DOMAIN findResults'.matchesMap : findResults'.matchesMap[k].number = k
      <4>1. \A k \in 1 .. n : findResults'.matchesMap[k].number = k
        BY <2>4, <2>5, <3>1, Zenon
      <4>2. findResults'.matchesMap[n + 1].number = n + 1
        BY <2>2, <2>4, <2>5, <3>1, Zenon
      <4>3. \A k \in 1 .. (n + 1) : k \in 1 .. n \/ k = n + 1
        OBVIOUS
      <4> QED
        BY <2>5, <4>1, <4>2, <4>3, Zenon
    <3> QED
      BY <1>4, <2>3, <2>4, <2>5, <3>1, <3>2, <3>3, <3>4, <3>5, <3>6, Zenon
  <2>10. ExactSoFar'
    BY <1>10, <1>14, <1>16, <1>17, <2>9, Zenon DEF ExactSoFar
  <2> QED
    BY <1>10, <1>12, <1>14, <2>3, <2>8, <2>10, Zenon DEF FindInv
<1> QED
  BY <1>19, <1>20

\* The toolbar's steps leave the page alone.
LEMMA ToolbarPage ==
  ASSUME PageInv, UNCHANGED <<session, pageVars>>,
         ui' = ui \/ (ui.pc \in {"idle", "clear"} /\ ui' \in Waits)
  PROVE  PageInv'
<1>1. UNCHANGED <<session, refs, input, walks, job, queue>>
  BY DEF pageVars, repoVars, inputVars, jobVars, queueVars
<1>2. /\ ui' \in Waits \cup Does
      /\ ui'.pc = ui.pc \/ (ui.pc \in {"idle", "clear"} /\ ui'.pc \in {"idle", "clear"})
      /\ ui'.pc = "join" => ui' = ui
  BY DEF PageInv, PageTypeOK, Waits
<1>3. PageTypeOK'
  BY <1>1, <1>2 DEF PageInv, PageTypeOK
<1>4. InputKnown'
  BY <1>1, <1>2 DEF PageInv, InputKnown
<1>5. OnlyPagesJobRuns' /\ JobCounts'
  BY <1>1, Zenon DEF PageInv, OnlyPagesJobRuns, JobCounts, Live
<1>6. JobsEnd'
  BY <1>1, <1>2 DEF PageInv, JobsEnd, Live
<1> QED
  BY <1>3, <1>4, <1>5, <1>6 DEF PageInv

LEMMA ToolbarFresh ==
  ASSUME ToolbarTypeOK, PageInv, PageInv', ArraysFresh, UNCHANGED pageVars, InUse' \subseteq InUse
  PROVE  ArraysFresh'
<1>1. walks' = walks /\ queue' = queue
  BY DEF pageVars, jobVars, queueVars
<1>2. PageTypeOK /\ PageTypeOK' /\ Ordered(queue)
  BY DEF PageInv, ArraysFresh
<1>3. WalksKept
  BY <1>1, <1>2, SameWalksKept
<1>4. Ordered(queue') /\ \A r \in Range(queue') : r.kind = "show" => r \in Range(queue)
  BY <1>1, <1>2
<1> QED
  BY <1>2, <1>3, <1>4, FreshKept, Zenon

LEMMA FinderStep ==
  ASSUME IInv, UNCHANGED pageVars, NEW f \in DOMAIN finders, execFind(f)
  PROVE  IInv'
<1>1. ToolbarTypeOK /\ PageInv /\ ArraysFresh /\ FindInv
  BY DEF IInv
<1>2. (\E x \in Finders : FinderChange(f, x)) /\ findResults' \in Results /\ FindInv'
  <2>1. findResults \in Results
    BY <1>1 DEF ToolbarTypeOK
  <2>2. CASE run(f)
    BY <1>1, <2>1, <2>2, RunFind, Zenon
  <2>3. CASE ClearResults(f)
    BY <1>1, <2>3, ClearFind, Zenon
  <2>4. CASE TestSuperseded(f)
    BY <1>1, <2>1, <2>4, TestFind, Zenon
  <2>5. CASE Match(f)
    BY <1>1, <2>5, MatchFind, Zenon
  <2>6. CASE findCompletionUpdate(f)
    BY <1>1, <2>1, <2>6, CompleteFind, Zenon
  <2> QED
    BY <2>2, <2>3, <2>4, <2>5, <2>6, Zenon DEF execFind
<1>3. PICK x \in Finders : FinderChange(f, x)
  BY <1>2
<1>4. UNCHANGED <<session, ui, patternField, fileRevisions, globalThreadIx>>
  BY <1>3 DEF FinderChange
<1>5. finders' \in Seq(Finders \cup {Gone}) /\ Len(finders') = Len(finders) /\ InUse' \subseteq InUse
  BY <1>1, <1>3, FinderChangeIs, Zenon
<1>6. ToolbarTypeOK'
  BY <1>1, <1>2, <1>4, <1>5 DEF ToolbarTypeOK
<1>7. PageInv'
  BY <1>1, <1>4, ToolbarPage
<1>8. ArraysFresh'
  BY <1>1, <1>5, <1>7, ToolbarFresh
<1> QED
  BY <1>2, <1>6, <1>7, <1>8 DEF IInv

\* A new finder, or the number that clear takes.
LEMMA FinderAdded ==
  ASSUME ToolbarTypeOK, FindInv, NEW x \in Finders \cup {Gone},
         finders' = Append(finders, x), globalThreadIx' = globalThreadIx + 1,
         UNCHANGED <<session, fileRevisions, findResults, EXEC_LOCK>>,
         patternField' \in Patterns \cup {NoPattern},
         x = Gone \/ (/\ x.pc = "started" /\ x.i = 0 /\ x.totalMatches = 0
                      /\ x.fileRevisions = fileRevisions)
  PROVE  ToolbarTypeOK' /\ FindInv' /\ InUse' \subseteq InUse
<1>1. finders \in Seq(Finders \cup {Gone}) /\ Len(finders) = globalThreadIx /\ globalThreadIx \in Nat
  BY DEF ToolbarTypeOK
<1>2. PICK n \in Nat : n = globalThreadIx
  BY <1>1
<1>3. /\ finders' \in Seq(Finders \cup {Gone}) /\ Len(finders') = n + 1
      /\ DOMAIN finders = 1 .. n /\ DOMAIN finders' = 1 .. (n + 1)
      /\ finders'[n + 1] = x
      /\ \A g \in 1 .. n : finders'[g] = finders[g]
  BY <1>1, <1>2
<1>4. x.pc \in {"started", "gone"}
  BY DEF Gone
<1>5. UNCHANGED <<session, fileRevisions, findResults, EXEC_LOCK>>
  OBVIOUS
<1>6. ToolbarTypeOK'
  <2>1. globalThreadIx' \in Nat /\ Len(finders') = globalThreadIx'
    BY <1>2, <1>3
  <2> QED
    BY <1>3, <1>5, <2>1, Zenon DEF ToolbarTypeOK
<1>7. \A g \in DOMAIN finders' : \/ g \in DOMAIN finders /\ finders'[g] = finders[g] /\ g # globalThreadIx'
                                 \/ g = n + 1 /\ finders'[g] = x
  BY <1>2, <1>3
<1>8. OneWorks'
  <2>1. \A g \in DOMAIN finders' : finders'[g].pc \in Working => EXEC_LOCK' = g
    BY <1>4, <1>5, <1>7, Zenon DEF FindInv, OneWorks, Working
  <2>2. \A g \in DOMAIN finders' : ~(g = globalThreadIx' /\ finders'[g].pc = "completed")
    BY <1>4, <1>7
  <2> QED
    BY <2>1, <2>2 DEF OneWorks
<1>9. RowsAscend'
  BY <1>4, <1>5, <1>7, Zenon DEF FindInv, RowsAscend
<1>10. LoopOK'
  <2>1. x.pc = "started" => x.i = 0 /\ x.totalMatches = 0
    BY DEF Gone
  <2>2. ASSUME NEW g \in DOMAIN finders'
        PROVE  /\ finders'[g].pc \in {"started", "clear"} => finders'[g].i = 0 /\ finders'[g].totalMatches = 0
               /\ finders'[g].pc \in {"test", "match"} =>
                    /\ Searches(finders'[g])
                    /\ finders'[g].i < Len(finders'[g].fileRevisions.commits)
                    /\ finders'[g].totalMatches < MAX_RESULTS
               /\ finders'[g].pc \in {"complete", "completed"} /\ Searches(finders'[g]) =>
                    /\ finders'[g].i <= Len(finders'[g].fileRevisions.commits)
                    /\ finders'[g].totalMatches <= MAX_RESULTS
                    /\ \/ finders'[g].i = Len(finders'[g].fileRevisions.commits)
                       \/ finders'[g].totalMatches = MAX_RESULTS
    <3>1. CASE g \in DOMAIN finders /\ finders'[g] = finders[g]
      BY <3>1, Zenon DEF FindInv, LoopOK
    <3>2. CASE finders'[g] = x
      BY <1>4, <2>1, <3>2, Zenon
    <3> QED
      BY <1>7, <3>1, <3>2, Zenon
  <2> QED
    BY <2>2, Zenon DEF LoopOK
<1>11. ExactSoFar'
  <2>1. \A g \in DOMAIN finders' : ~Current(g)'
    BY <1>4, <1>7, Zenon DEF Current
  <2> QED
    BY <2>1, Zenon DEF ExactSoFar
<1>12. InUse' \subseteq InUse
  <2>1. ASSUME NEW g \in DOMAIN finders', finders'[g].pc # "gone"
        PROVE  \/ finders'[g].fileRevisions = fileRevisions
               \/ g \in DOMAIN finders /\ finders[g].pc # "gone" /\ finders'[g].fileRevisions = finders[g].fileRevisions
    BY <2>1 DEF Gone
  <2>2. \A array \in InUse' : array \in InUse
    <3>1. ASSUME NEW array \in InUse' PROVE array \in InUse
      <4>1. CASE array = fileRevisions
        BY <1>5, <3>1, <4>1, Zenon DEF InUse
      <4>2. CASE array # fileRevisions
        <5>1. PICK g \in DOMAIN finders' : finders'[g].pc # "gone" /\ array = finders'[g].fileRevisions
          BY <1>5, <3>1, <4>2, Zenon DEF InUse
        <5>2. g \in DOMAIN finders /\ finders[g].pc # "gone" /\ array = finders[g].fileRevisions
          BY <2>1, <4>2, <5>1, Zenon
        <5>3. array # NULL
          BY <3>1, Zenon DEF InUse
        <5> QED
          BY <5>2, <5>3, Zenon DEF InUse
      <4> QED
        BY <4>1, <4>2, Zenon
    <3> QED
      BY <3>1, Zenon
  <2> QED
    BY <2>2, Zenon
<1> QED
  BY <1>6, <1>8, <1>9, <1>10, <1>11, <1>12 DEF FindInv

LEMMA NewFinderStep ==
  ASSUME IInv, UNCHANGED pageVars, modifyText \/ RedoFind
  PROVE  IInv'
<1>1. ToolbarTypeOK /\ PageInv /\ ArraysFresh /\ FindInv
  BY DEF IInv
<1>2. PICK p \in Patterns \cup {NoPattern} : patternField' = p /\ NewFinder(p)
  BY <1>1 DEF modifyText, RedoFind, ToolbarTypeOK
<1>3. UNCHANGED <<session, ui, fileRevisions, findResults, EXEC_LOCK>>
  BY DEF modifyText, RedoFind
<1>4. PICK x : x = [pc |-> "started", pattern |-> p, fileRevisions |-> fileRevisions, i |-> 0, totalMatches |-> 0]
  BY Zenon
<1>5. /\ x \in Finders /\ x.pc = "started" /\ x.i = 0 /\ x.totalMatches = 0
      /\ x.fileRevisions = fileRevisions
  BY <1>1, <1>4, Zenon DEF Finders, ToolbarTypeOK
<1>6. finders' = Append(finders, x) /\ globalThreadIx' = globalThreadIx + 1
  BY <1>2, <1>4 DEF NewFinder
<1>7. ToolbarTypeOK' /\ FindInv' /\ InUse' \subseteq InUse
  BY <1>1, <1>2, <1>3, <1>5, <1>6, FinderAdded
<1>8. PageInv'
  BY <1>1, <1>3, ToolbarPage
<1>9. ArraysFresh'
  BY <1>1, <1>7, <1>8, ToolbarFresh
<1> QED
  BY <1>7, <1>8, <1>9 DEF IInv

LEMMA UpdateGlobalStep ==
  ASSUME IInv, UNCHANGED pageVars, updateGlobalThreadIx
  PROVE  IInv'
<1>1. ToolbarTypeOK /\ PageInv /\ ArraysFresh /\ FindInv
  BY DEF IInv
<1>2. /\ UNCHANGED <<session, patternField, fileRevisions, findResults, EXEC_LOCK>>
      /\ finders' = Append(finders, Gone) /\ globalThreadIx' = globalThreadIx + 1
      /\ ui.pc = "clear" /\ ui' = [pc |-> "idle"]
  BY DEF updateGlobalThreadIx
<1>3. patternField' \in Patterns \cup {NoPattern} /\ Gone \in Finders \cup {Gone}
  BY <1>1, <1>2 DEF ToolbarTypeOK
<1>4. ToolbarTypeOK' /\ FindInv' /\ InUse' \subseteq InUse
  BY <1>1, <1>2, <1>3, FinderAdded
<1>5. ui' \in Waits
  BY <1>2 DEF Waits
<1>6. PageInv'
  BY <1>1, <1>2, <1>5, ToolbarPage
<1>7. ArraysFresh'
  BY <1>1, <1>4, <1>6, ToolbarFresh
<1> QED
  BY <1>4, <1>6, <1>7 DEF IInv

\* Results that are empty.
LEMMA EmptyAscends ==
  ASSUME NEW results \in Results, results.matchesMap = <<>>
  PROVE  Ascending(Keys(results))
<1>1. DOMAIN Keys(results) = {}
  BY KeysIs
<1> QED
  BY <1>1 DEF Ascending

LEMMA ClearStep ==
  ASSUME IInv, UNCHANGED pageVars, clear
  PROVE  IInv'
<1>1. ToolbarTypeOK /\ PageInv /\ ArraysFresh /\ FindInv
  BY DEF IInv
<1>2. /\ UNCHANGED <<session, fileRevisions, globalThreadIx, finders, EXEC_LOCK>>
      /\ findResults' = Cleared(findResults) /\ ui.pc = "idle" /\ ui' = [pc |-> "clear"]
      /\ patternField' \in Patterns \cup {NoPattern}
  BY DEF clear, UiIdle
<1>3. findResults' \in Results /\ findResults'.matchesMap = <<>>
  BY <1>1, <1>2, ClearedIs, Zenon DEF ToolbarTypeOK
<1>4. ToolbarTypeOK'
  BY <1>1, <1>2, <1>3, Zenon DEF ToolbarTypeOK
<1>5. ui' \in Waits /\ ui'.pc = "clear"
  BY <1>2 DEF Waits
<1>6. PageInv'
  BY <1>1, <1>2, <1>5, ToolbarPage
<1>7. InUse' \subseteq InUse
  BY <1>2, Zenon DEF InUse
<1>8. ArraysFresh'
  BY <1>1, <1>6, <1>7, ToolbarFresh
<1>9. RowsAscend'
  <2>1. Ascending(Keys(findResults'))
    BY <1>3, EmptyAscends, Zenon
  <2>2. DOMAIN findResults'.matchesMap = {}
    BY <1>3
  <2> QED
    BY <2>1, <2>2, Zenon DEF RowsAscend
<1>10. OneWorks' /\ LoopOK'
  BY <1>1, <1>2, Zenon DEF FindInv, OneWorks, LoopOK
<1>11. ExactSoFar'
  BY <1>5, Zenon DEF ExactSoFar, Current
<1> QED
  BY <1>4, <1>6, <1>8, <1>9, <1>10, <1>11 DEF IInv, FindInv

\* The page's steps leave the toolbar alone, but for ShowRunnable.
LEMMA PageStepFind ==
  ASSUME ToolbarTypeOK, FindInv, UNCHANGED toolbarVars, ui' = ui \/ ui.pc # "clear"
  PROVE  ToolbarTypeOK' /\ FindInv'
<1>1. UNCHANGED <<session, patternField, fileRevisions, findResults, globalThreadIx, finders, EXEC_LOCK>>
  BY DEF toolbarVars
<1>2. ToolbarTypeOK' /\ OneWorks' /\ RowsAscend' /\ LoopOK'
  BY <1>1, Zenon DEF ToolbarTypeOK, FindInv, OneWorks, RowsAscend, LoopOK
<1>3. \A f \in DOMAIN finders : Current(f)' => Current(f)
  BY <1>1 DEF Current
<1>4. ExactSoFar'
  BY <1>1, <1>3, Zenon DEF FindInv, ExactSoFar
<1> QED
  BY <1>2, <1>4 DEF FindInv

LEMMA HighlightIs ==
  ASSUME NEW results \in Results, NEW hFlag \in Nat
  PROVE  /\ setHighlightFlag(results, hFlag) \in Results
         /\ setHighlightFlag(results, hFlag).matchesMap \in {results.matchesMap, <<>>}
<1>1. PICK y : y = IF results.highlight # NULL THEN Cleared(results) ELSE results
  BY Zenon
<1>2. y \in Results /\ y.matchesMap \in {results.matchesMap, <<>>}
  BY <1>1, ClearedIs
<1>3. setHighlightFlag(results, hFlag) = [y EXCEPT !.highlight = hFlag]
  BY <1>1, Zenon DEF setHighlightFlag
<1> QED
  BY <1>2, <1>3 DEF Results

LEMMA ShowStep ==
  ASSUME IInv, ShowRunnable
  PROVE  IInv'
<1>1. ToolbarTypeOK /\ PageInv /\ ArraysFresh /\ FindInv
  BY DEF IInv
<1>2. PageInv'
  BY <1>1, RunnablePage
<1>3. ui' = ui
  BY DEF ShowRunnable
<1>4. CASE job # Head(queue).array.walk
  <2>1. UNCHANGED toolbarVars
    BY <1>4 DEF ShowRunnable
  <2>2. ArraysFresh'
    BY <1>1, <1>2, <2>1, PageStepFresh DEF UiStep
  <2> QED
    BY <1>1, <1>2, <1>3, <2>1, <2>2, PageStepFind DEF IInv
<1>5. CASE job = Head(queue).array.walk
  <2>1. PICK a : a = Head(queue).array
    BY Zenon
  <2>2. a \in Arrays /\ (\A array \in InUse : array # a) /\ ArraysFresh'
    BY <1>1, <1>2, <1>5, <2>1, ShowFresh, Zenon
  <2>3. /\ UNCHANGED <<session, patternField, globalThreadIx, finders, EXEC_LOCK>>
        /\ fileRevisions' = a /\ findResults' = setHighlightFlag(findResults, a.walk)
    BY <1>5, <2>1, Zenon DEF ShowRunnable, setInput
  <2>4. a.walk \in Nat
    BY <2>2 DEF Arrays
  <2>5. findResults' \in Results /\ findResults'.matchesMap \in {findResults.matchesMap, <<>>}
    BY <1>1, <2>3, <2>4, HighlightIs, Zenon DEF ToolbarTypeOK
  <2>6. ToolbarTypeOK'
    BY <1>1, <2>2, <2>3, <2>5, Zenon DEF ToolbarTypeOK
  <2>7. RowsAscend'
    <3>1. CASE findResults'.matchesMap = <<>>
      BY <2>5, <3>1, EmptyAscends DEF RowsAscend
    <3>2. CASE findResults'.matchesMap = findResults.matchesMap
      <4>1. Keys(findResults') = Keys(findResults)
        BY <3>2 DEF Keys
      <4> QED
        BY <1>1, <2>3, <3>2, <4>1, Zenon DEF FindInv, RowsAscend
    <3> QED
      BY <2>5, <3>1, <3>2
  <2>8. OneWorks' /\ LoopOK'
    BY <1>1, <2>3, Zenon DEF FindInv, OneWorks, LoopOK
  <2>9. ASSUME NEW f \in DOMAIN finders PROVE ~Current(f)'
    <3>1. SUFFICES ASSUME finders[f].pc # "gone", finders[f].fileRevisions = a, a # NULL PROVE FALSE
      BY <2>3, Zenon DEF Current
    <3>2. a \in InUse
      BY <3>1 DEF InUse
    <3> QED
      BY <2>2, <3>2
  <2>10. ExactSoFar'
    BY <2>3, <2>9, Zenon DEF ExactSoFar
  <2> QED
    BY <1>2, <2>2, <2>6, <2>7, <2>8, <2>10 DEF IInv, FindInv
<1> QED
  BY <1>4, <1>5

LEMMA JobStepInv ==
  ASSUME IInv, NEW w \in DOMAIN walks, JobStep(w)
  PROVE  IInv'
<1>1. ToolbarTypeOK /\ PageInv /\ ArraysFresh /\ FindInv
  BY DEF IInv
<1>2. PICK x \in Jobs \cup {Ended} : JobChange(w, x)
  BY <1>1, JobStepIs
<1>3. PageInv'
  BY <1>1, <1>2, JobStepPage
<1>4. ArraysFresh'
  BY <1>1, <1>2, <1>3, JobStepFresh
<1>5. ui' = ui /\ UNCHANGED toolbarVars
  BY <1>2 DEF JobChange
<1>6. ToolbarTypeOK' /\ FindInv'
  BY <1>1, <1>5, PageStepFind
<1> QED
  BY <1>3, <1>4, <1>6 DEF IInv

LEMMA PageStepInv ==
  ASSUME IInv, ChangeRefs \/ onRefsChanged \/ SetInput \/ UiStep
  PROVE  IInv'
<1>1. ToolbarTypeOK /\ PageInv /\ ArraysFresh /\ FindInv /\ session \in Sessions
  BY DEF IInv, ToolbarTypeOK
<1>2. CASE ShowRunnable
  BY <1>2, ShowStep
<1>3. CASE ~ShowRunnable
  <2>1. PageInv'
    <3>1. CASE ChangeRefs \/ onRefsChanged
      BY <1>1, <3>1, RefsPage
    <3>2. CASE SetInput
      BY <1>1, <3>2, SetInputPage
    <3>3. CASE RefsRunnable
      BY <1>1, <3>3, RefsRunnablePage
    <3>4. CASE cancelRefreshJob
      BY <1>1, <3>4, CancelPage
    <3>5. CASE Join
      BY <1>1, <3>5, JoinPage
    <3>6. CASE inputSet
      BY <1>1, <3>6, InputSetPage
    <3>7. CASE initAndStartRevWalk
      BY <1>1, <3>7, StartPage
    <3>8. CASE DoneRunnable
      BY <1>1, <3>8, RunnablePage
    <3> QED
      BY <1>3, <3>1, <3>2, <3>3, <3>4, <3>5, <3>6, <3>7, <3>8 DEF UiStep
  <2>2. UNCHANGED toolbarVars
    BY <1>3
       DEF ChangeRefs, onRefsChanged, SetInput, UiStep, RefsRunnable, cancelRefreshJob, Join, inputSet,
           initAndStartRevWalk, DoneRunnable
  <2>3. ui' = ui \/ ui.pc # "clear"
    BY <1>3
       DEF ChangeRefs, onRefsChanged, SetInput, UiStep, RefsRunnable, cancelRefreshJob, Join, inputSet,
           initAndStartRevWalk, DoneRunnable, UiIdle
  <2>4. ArraysFresh'
    BY <1>1, <2>1, <2>2, PageStepFresh
  <2>5. ToolbarTypeOK' /\ FindInv'
    BY <1>1, <2>2, <2>3, PageStepFind
  <2> QED
    BY <2>1, <2>4, <2>5 DEF IInv
<1> QED
  BY <1>2, <1>3

LEMMA ToolbarStepInv ==
  ASSUME IInv, ToolbarNext, UNCHANGED pageVars
  PROVE  IInv'
<1>1. CASE modifyText \/ RedoFind
  BY <1>1, NewFinderStep
<1>2. CASE clear
  BY <1>2, ClearStep
<1>3. CASE updateGlobalThreadIx
  BY <1>3, UpdateGlobalStep
<1>4. CASE \E f \in DOMAIN finders : execFind(f)
  BY <1>4, FinderStep
<1> QED
  BY <1>1, <1>2, <1>3, <1>4 DEF ToolbarNext

LEMMA StutterInv ==
  ASSUME IInv, UNCHANGED vars
  PROVE  IInv'
<1>1. ToolbarTypeOK /\ PageInv /\ ArraysFresh /\ FindInv
  BY DEF IInv
<1>2. ui' = ui /\ UNCHANGED toolbarVars /\ UNCHANGED pageVars /\ session' = session
  BY DEF vars, toolbarVars
<1>3. PageInv'
  BY <1>1, <1>2, ToolbarPage
<1>4. InUse' \subseteq InUse
  BY <1>2, InUseSame
<1>5. ArraysFresh'
  BY <1>1, <1>2, <1>3, <1>4, ToolbarFresh
<1>6. ToolbarTypeOK' /\ FindInv'
  BY <1>1, <1>2, PageStepFind
<1> QED
  BY <1>3, <1>5, <1>6 DEF IInv

LEMMA NextIInv == IInv /\ [Next]_vars => IInv'
BY JobStepInv, PageStepInv, ToolbarStepInv, StutterInv DEF Next

LEMMA InitIInv == Init => IInv
<1>1. SUFFICES ASSUME Init PROVE IInv
  OBVIOUS
<1>2. /\ finders = <<>> /\ walks = <<>> /\ queue = <<>>
      /\ fileRevisions = NULL /\ globalThreadIx = 0 /\ session \in Sessions /\ patternField = NoPattern
      /\ findResults = [matchesMap |-> <<>>, matchesCount |-> 0, highlight |-> NULL]
  BY <1>1 DEF Init, ToolbarInit
<1>3. ui = [pc |-> "idle"] /\ refs = 1 /\ input = NULL /\ job = NULL
  BY <1>1 DEF Init
<1>4. DOMAIN finders = {} /\ DOMAIN walks = {} /\ DOMAIN queue = {}
  BY <1>2
<1>5. findResults \in Results /\ findResults.matchesMap = <<>>
  <2>1. PICK map \in Seq(Matches), count \in Nat : map = <<>> /\ count = 0
    <3>1. <<>> \in Seq(Matches) /\ 0 \in Nat
      OBVIOUS
    <3> QED
      BY <3>1, Zenon
  <2>2. PICK flag \in Nat \cup {NULL} : flag = NULL
    BY Zenon
  <2>3. findResults = [matchesMap |-> map, matchesCount |-> count, highlight |-> flag]
    BY <1>2, <2>1, <2>2
  <2> QED
    BY <2>1, <2>2, <2>3 DEF Results
<1>6. ToolbarTypeOK
  BY <1>2, <1>5 DEF ToolbarTypeOK
<1>7. ui \in Waits /\ ui.pc = "idle"
  BY <1>3 DEF Waits
<1>8. PageTypeOK
  <2>1. 1 \in 1 .. session.versions
    BY <1>2, FindToolbarAssumption
  <2> QED
    BY <1>2, <1>3, <1>7, <2>1 DEF PageTypeOK
<1>9. Range(queue) = {}
  BY <1>4, Zenon DEF Range
<1>10. InputKnown /\ OnlyPagesJobRuns /\ JobsEnd /\ JobCounts
  BY <1>4, <1>7, <1>9, Zenon DEF InputKnown, OnlyPagesJobRuns, JobsEnd, JobCounts
<1>11. ArraysFresh
  <2>1. InUse = {}
    BY <1>2, <1>4, Zenon DEF InUse
  <2> QED
    BY <1>4, <1>9, <2>1, Zenon DEF ArraysFresh, Ordered
<1>12. FindInv
  BY <1>4, <1>5, EmptyAscends, Zenon DEF FindInv, OneWorks, RowsAscend, LoopOK, ExactSoFar
<1> QED
  BY <1>6, <1>8, <1>10, <1>11, <1>12 DEF IInv, PageInv

LEMMA Invariance == Spec => []IInv
BY InitIInv, NextIInv, PTL DEF Spec

\* When initAndStartRevWalk starts a job, the job that it replaces has ended: Job.cancel
\* and the join behind it leave only the page's own job at work, for any number of
\* inputs and changes of refs.
THEOREM OnlyPagesJobWorks == Spec => []OnlyPagesJobRuns
<1>1. IInv => OnlyPagesJobRuns
  BY DEF IInv, PageInv
<1> QED
  BY <1>1, Invariance, PTL
=============================================================================
