---------------------------- MODULE HistoryPage ----------------------------
(***************************************************************************)
(* EGit's history page with its find toolbar: GitHistoryPage, on the user  *)
(* interface thread; GenerateHistoryJob, a background job for each walk    *)
(* through the history, which shows the commits found so far every now and *)
(* then; and the listener that is told of changed refs, on any thread.     *)
(*                                                                         *)
(* Display.asyncExec is a queue, and the user interface thread does what   *)
(* is queued, and what the user wants, one at a time.  All inputs are of   *)
(* one repository, which has a HEAD.  Messages, warnings, the comment and  *)
(* file viewers, the selection, and errors in reading the refs are left    *)
(* out.                                                                    *)
(***************************************************************************)
EXTENDS FindToolbar

CONSTANTS
  Versions,     \* of the refs, in order: [head, log], log the commits for each filter
  Filters,      \* the paths a history is filtered by
  BATCH_SIZE,
  MaxCommits    \* HISTORY_MAX_NUM_COMMITS, 0 for all

ASSUME HistoryPageAssumption ==
  /\ Versions \in Seq([head : Commits, log : [Filters -> Seq(Commits)]])
  /\ \A s \in Sessions : s.versions <= Len(Versions)
  /\ NULL \notin Filters
  /\ BATCH_SIZE \in Nat \ {0}
  /\ MaxCommits \in Nat

VARIABLES
  refs,                \* the version that the repository has
  untold,              \* a change the listener has not been told of
  input,               \* the page's input, as the paths it stands for, or NULL
  inputs,              \* how often it was set
  currentWalk,         \* [version, paths] of the last walk, or NULL
  walks,               \* each walk made, as its GenerateHistoryJob
  job,                 \* the page's job, as the number of its walk, or NULL
  queue,               \* of asyncExec
  refschangedRunnable, \* whether there is one
  excused              \* not in the code: currentWalk failed, or was kept for a new input

repoVars == <<refs, untold>>
inputVars == <<input, inputs>>
walkVars == <<currentWalk, excused>>
jobVars == <<walks, job>>
queueVars == <<queue, refschangedRunnable>>
pageVars == <<repoVars, inputVars, walkVars, jobVars, queueVars>>
vars == <<ui, toolbarVars, pageVars>>

Init ==
  /\ ToolbarInit
  /\ ui = [pc |-> "idle"]
  /\ refs = 1
  /\ untold = FALSE
  /\ input = NULL
  /\ inputs = 0
  /\ currentWalk = NULL
  /\ walks = <<>>
  /\ job = NULL
  /\ queue = <<>>
  /\ refschangedRunnable = FALSE
  /\ excused = FALSE

\* The commits a walk finds.
Log(walk) == Versions[walk.version].log[walk.paths]

-----------------------------------------------------------------------------
(***************************************************************************)
(* Changes of refs, and onRefsChanged.                                     *)
(***************************************************************************)
ChangeRefs ==
  /\ refs < session.versions
  /\ refs' = refs + 1
  /\ untold' = TRUE
  /\ UNCHANGED <<ui, toolbarVars, inputVars, walkVars, jobVars, queueVars>>

onRefsChanged ==
  /\ untold
  /\ untold' = FALSE
  /\ IF input = NULL \/ refschangedRunnable THEN UNCHANGED <<queue, refschangedRunnable>>
     ELSE /\ refschangedRunnable' = TRUE
          /\ queue' = Append(queue, [kind |-> "refs"])
  /\ UNCHANGED <<ui, toolbarVars, refs, inputVars, walkVars, jobVars>>

-----------------------------------------------------------------------------
(***************************************************************************)
(* The user interface thread.                                              *)
(***************************************************************************)
\* The user sets an input, or a filter.  setInput has no input until inputSet has
\* ended the job of the old one; setting a filter keeps it.
SetInput ==
  /\ UiIdle
  /\ inputs < session.inputs
  /\ inputs' = inputs + 1
  /\ \E paths \in Filters, hadInput \in BOOLEAN :
        /\ hadInput => input # NULL
        /\ input' = IF hadInput THEN paths ELSE NULL
        /\ ui' = [pc |-> "cancel", force |-> FALSE, paths |-> paths, job |-> NULL]
  /\ UNCHANGED <<toolbarVars, repoVars, walkVars, jobVars, queueVars>>

RefsRunnable ==
  /\ UiIdle
  /\ queue # <<>> /\ Head(queue).kind = "refs"
  /\ queue' = Tail(queue)
  /\ refschangedRunnable' = FALSE
  /\ ui' = [pc |-> "cancel", force |-> TRUE, paths |-> input, job |-> NULL]
  /\ UNCHANGED <<toolbarVars, repoVars, inputVars, walkVars, jobVars>>

Live(w) == walks[w].state # "none"

AfterCancel == [ui EXCEPT !.pc = IF input = NULL THEN "inputSet" ELSE "start", !.job = NULL]

\* Mutant of cancelRefreshJob: the job is cancelled, and not waited for.
cancelRefreshJobNoJoin ==
  /\ ui.pc = "cancel"
  /\ ui' = AfterCancel
  /\ job' = NULL
  /\ walks' = IF job = NULL THEN walks ELSE [walks EXCEPT ![job].cancelled = TRUE]
  /\ UNCHANGED <<toolbarVars, repoVars, inputVars, walkVars, queueVars>>

\* A job that has not begun is done when it is cancelled.
cancelRefreshJob ==
  /\ ui.pc = "cancel"
  /\ IF job # NULL /\ Live(job)
     THEN /\ walks' = [walks EXCEPT ![job].cancelled = TRUE,
                                    ![job].pc = IF walks[job].state = "waiting" THEN "done" ELSE @,
                                    ![job].state = IF @ = "waiting" THEN "none" ELSE @]
          /\ ui' = [ui EXCEPT !.pc = "join", !.job = job]
     ELSE /\ ui' = AfterCancel
          /\ UNCHANGED walks
  /\ UNCHANGED <<toolbarVars, repoVars, inputVars, walkVars, job, queueVars>>

Join ==
  /\ ui.pc = "join"
  /\ ~Live(ui.job)
  /\ job' = NULL
  /\ ui' = AfterCancel
  /\ UNCHANGED <<toolbarVars, repoVars, inputVars, walkVars, walks, queueVars>>

\* The rest of inputSet up to initAndStartRevWalk, which finds no job to cancel.
inputSet ==
  /\ ui.pc = "inputSet"
  /\ input' = ui.paths
  /\ ui' = [ui EXCEPT !.pc = "start"]
  /\ UNCHANGED <<toolbarVars, repoVars, inputs, walkVars, jobVars, queueVars>>

shouldRedraw(paths) ==
  \/ currentWalk = NULL
  \/ paths # currentWalk.paths
  \/ Versions[refs].head # Versions[currentWalk.version].head

NewJob(walk) ==
  [source |-> Log(walk), state |-> "waiting", cancelled |-> FALSE, size |-> 0, lastUpdateCnt |-> 0,
   pc |-> "fill"]

initAndStartRevWalk ==
  /\ ui.pc = "start"
  /\ ui' = [pc |-> "idle"]
  /\ IF ui.force \/ shouldRedraw(ui.paths)
     THEN /\ currentWalk' = [version |-> refs, paths |-> ui.paths]
          /\ walks' = Append(walks, NewJob(currentWalk'))
          /\ job' = Len(walks')
          /\ excused' = FALSE
     ELSE /\ excused' = TRUE
          /\ UNCHANGED <<currentWalk, walks, job>>
  /\ UNCHANGED <<toolbarVars, repoVars, inputVars, queueVars>>

\* The runnables of showCommitList and of the job's listener.
ShowRunnable ==
  /\ UiIdle
  /\ queue # <<>> /\ Head(queue).kind = "show"
  /\ queue' = Tail(queue)
  /\ IF job = Head(queue).array.walk THEN setInput(Head(queue).array) ELSE UNCHANGED toolbarVars
  /\ UNCHANGED <<ui, repoVars, inputVars, walkVars, jobVars, refschangedRunnable>>

DoneRunnable ==
  /\ UiIdle
  /\ queue # <<>> /\ Head(queue).kind = "done"
  /\ queue' = Tail(queue)
  /\ job' = IF job = Head(queue).walk THEN NULL ELSE job
  /\ UNCHANGED <<ui, toolbarVars, repoVars, inputVars, walkVars, walks, refschangedRunnable>>

-----------------------------------------------------------------------------
(***************************************************************************)
(* GenerateHistoryJob of walk w.                                           *)
(***************************************************************************)
Incomplete(n) == MaxCommits > 0 /\ n > MaxCommits

StartJob(w) ==
  /\ walks[w].state = "waiting"
  /\ walks' = [walks EXCEPT ![w].state = "running"]
  /\ UNCHANGED <<ui, toolbarVars, repoVars, inputVars, walkVars, job, queueVars>>

\* One round of the loop.  The commits found are shown unless some were less than two
\* seconds ago.
Fill(w) ==
  /\ walks[w].state = "running" /\ walks[w].pc = "fill"
  /\ LET walk == walks[w]
         n == Min({walk.size + BATCH_SIZE, Len(walk.source)})
         over == n = 0 \/ Incomplete(n) \/ n = walk.size
     IN \E pc \in IF walk.cancelled THEN {"end"} ELSE IF over THEN {"last"}
                  ELSE {"update"} \cup {p \in {"fill"} : walk.lastUpdateCnt > 0} :
           walks' = [walks EXCEPT ![w].size = n, ![w].pc = pc]
  /\ UNCHANGED <<ui, toolbarVars, repoVars, inputVars, walkVars, job, queueVars>>

\* An exception ends the loop; the commits that fillTo found before it stay in the list.
FillFails(w) ==
  /\ walks[w].state = "running" /\ walks[w].pc = "fill"
  /\ LET walk == walks[w] IN
     \E n \in walk.size .. Min({walk.size + BATCH_SIZE, Len(walk.source)}) :
        walks' = [walks EXCEPT ![w].size = n, ![w].pc = "last"]
  /\ excused' = (excused \/ w = Len(walks))
  /\ UNCHANGED <<ui, toolbarVars, repoVars, inputVars, currentWalk, job, queueVars>>

showCommitList(w) ==
  queue' = IF job # w THEN queue
           ELSE Append(queue, [kind |-> "show",
                  array |-> [walk |-> w, commits |-> SubSeq(walks[w].source, 1, walks[w].size)]])

updateUI(w) ==
  /\ walks[w].pc \in {"update", "last"}
  /\ LET walk == walks[w] IN
     IF ~Incomplete(walk.size) /\ walk.size = walk.lastUpdateCnt THEN UNCHANGED queue
     ELSE showCommitList(w)
  /\ walks' = [walks EXCEPT ![w].lastUpdateCnt = walks[w].size,
                            ![w].pc = IF @ = "last" THEN "end" ELSE "fill"]
  /\ UNCHANGED <<ui, toolbarVars, repoVars, inputVars, walkVars, job, refschangedRunnable>>

EndJob(w) ==
  /\ walks[w].pc = "end"
  /\ walks' = [walks EXCEPT ![w].pc = "done", ![w].state = "none"]
  /\ UNCHANGED <<ui, toolbarVars, repoVars, inputVars, walkVars, job, queueVars>>

\* Nothing of a job is needed after its listener.
Ended == [state |-> "none", pc |-> "gone"]

\* Mutant of done: the listener clears the page's job itself.
doneAtOnce(w) ==
  /\ walks[w].pc = "done"
  /\ walks' = [walks EXCEPT ![w] = Ended]
  /\ job' = IF job = w THEN NULL ELSE job
  /\ UNCHANGED <<ui, toolbarVars, repoVars, inputVars, walkVars, queueVars>>

\* The listener that scheduleNewGenerateHistoryJob gave the job.
done(w) ==
  /\ walks[w].pc = "done"
  /\ walks' = [walks EXCEPT ![w] = Ended]
  /\ queue' = IF job # w THEN queue ELSE Append(queue, [kind |-> "done", walk |-> w])
  /\ UNCHANGED <<ui, toolbarVars, repoVars, inputVars, walkVars, job, refschangedRunnable>>

JobStep(w) == StartJob(w) \/ Fill(w) \/ FillFails(w) \/ updateUI(w) \/ EndJob(w) \/ done(w)

-----------------------------------------------------------------------------
UiStep ==
  \/ RefsRunnable \/ cancelRefreshJob \/ Join \/ inputSet \/ initAndStartRevWalk
  \/ ShowRunnable \/ DoneRunnable

Next ==
  \/ ToolbarNext /\ UNCHANGED pageVars
  \/ ChangeRefs \/ onRefsChanged \/ SetInput \/ UiStep
  \/ \E w \in DOMAIN walks : JobStep(w)

\* Threads that can go on do.  Neither the user nor the repository has to do anything.
Fairness ==
  /\ ToolbarFairness
  /\ WF_vars(onRefsChanged)
  /\ WF_vars(UiStep)
  /\ \A w \in 1 .. Max({s.inputs + s.versions : s \in Sessions}) : WF_vars(w \in DOMAIN walks /\ JobStep(w))

Spec == Init /\ [][Next]_vars /\ Fairness

-----------------------------------------------------------------------------
(***************************************************************************)
(* Properties.                                                             *)
(***************************************************************************)
\* Only the page's own job is at work: no earlier job goes on reading the repository,
\* or queues commits, once cancelRefreshJob has let the page go on.
OnlyPagesJobRuns == \A w \in DOMAIN walks : Live(w) => job = w

\* When refs no longer change and inputs are no longer set, the page comes to show, and
\* its find toolbar to search, the history that the refs have, whole or up to the limit
\* set: no change is lost between onRefsChanged, the runnable and a job that is being
\* cancelled, and no last batch of commits between the job, its listener and the queue.
\* Left out are walks that fail, inputs for which shouldRedraw keeps the old walk, and
\* walks that find no commit: updateUI then shows nothing, and the page and the toolbar
\* keep the commits of an earlier walk.
LatestShown ==
  <>[](\/ walks = <<>>
       \/ excused
       \/ /\ currentWalk = [version |-> refs, paths |-> input]
          /\ \/ Log(currentWalk) = <<>>
             \/ /\ fileRevisions # NULL
                /\ fileRevisions.walk = Len(walks)
                /\ \/ fileRevisions.commits = Log(currentWalk)
                   \/ /\ Incomplete(Len(fileRevisions.commits))
                      /\ fileRevisions.commits
                           = SubSeq(Log(currentWalk), 1, Len(fileRevisions.commits)))
=============================================================================
