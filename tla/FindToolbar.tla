---------------------------- MODULE FindToolbar ----------------------------
(***************************************************************************)
(* The find toolbar of EGit's history page: FindToolbar, whose methods run *)
(* on the user interface thread; FindToolbarThread, one thread per find,   *)
(* each of which gives up when globalThreadIx shows that there is a later  *)
(* find; and FindResults, the rows that match, which the threads fill and  *)
(* the toolbar reads.                                                      *)
(*                                                                         *)
(* A pattern, with the fields and the case it is looked for in, is the set *)
(* of commits that match it.  A synchronized method of FindResults is one  *)
(* action.  Which row is selected, labels, colours, the progress bar and   *)
(* the highlighting of the commits in the results are left out, and with   *)
(* them progressUpdate.                                                    *)
(***************************************************************************)
EXTENDS Integers, Sequences, FiniteSets, FiniteSetsExt, Functions

CONSTANTS
  Commits,
  Patterns,     \* texts of the pattern field, as sets of commits
  NoPattern,    \* the empty text
  MAX_RESULTS,
  Sessions,     \* bounds: [finds: started or cleared, inputs: set, versions: of the refs]
  NULL

ASSUME FindToolbarAssumption ==
  /\ Patterns \subseteq SUBSET Commits
  /\ MAX_RESULTS \in Nat \ {0}
  /\ Sessions \subseteq [finds : Nat, inputs : Nat, versions : Nat \ {0}]
  /\ NoPattern \notin Patterns
  /\ NULL \notin Nat

VARIABLES
  session,
  ui,              \* what the user interface thread is doing: [pc, ...]
  patternField,
  fileRevisions,   \* the array of commits to search: [walk, commits], or NULL
  findResults,     \* [matchesMap, matchesCount, highlight]
  globalThreadIx,
  finders,         \* the FindToolbarThreads, by currentThreadIx
  EXEC_LOCK        \* the finder that holds it, or NULL

toolbarVars == <<session, patternField, fileRevisions, findResults, globalThreadIx, finders, EXEC_LOCK>>

UiIdle == ui.pc = "idle"

-----------------------------------------------------------------------------
(***************************************************************************)
(* FindResults.  matchesMap is a LinkedHashMap: its pairs of a row and a   *)
(* match number, in the order in which the rows were first put.            *)
(***************************************************************************)
Keys(results) == [k \in DOMAIN results.matchesMap |-> results.matchesMap[k].row]

Cleared(results) == [results EXCEPT !.matchesMap = <<>>, !.matchesCount = 0]

\* put replaces the number of a row that is already there.
Added(results, row) ==
  LET number == results.matchesCount + 1
      pair == [row |-> row, number |-> number]
      old == {k \in DOMAIN results.matchesMap : results.matchesMap[k].row = row}
  IN [results EXCEPT !.matchesCount = number,
                     !.matchesMap = IF old = {} THEN Append(@, pair)
                                    ELSE [k \in DOMAIN @ |-> IF k \in old THEN pair ELSE @[k]]]

setHighlightFlag(results, hFlag) ==
  [(IF results.highlight # NULL THEN Cleared(results) ELSE results) EXCEPT !.highlight = hFlag]

\* java.util.Arrays.binarySearch: an index from 0, or -(insertion point) - 1.
binarySearch(a, key) ==
  LET search[range \in (0 .. Len(a)) \X (-1 .. Len(a) - 1)] ==
        LET lo == range[1]
            hi == range[2]
            mid == (lo + hi) \div 2
        IN IF lo > hi THEN -(lo + 1)
           ELSE IF a[mid + 1] < key THEN search[<<mid + 1, hi>>]
           ELSE IF a[mid + 1] > key THEN search[<<lo, mid - 1>>]
           ELSE mid
  IN search[<<0, Len(a) - 1>>]

\* Mutant of getIndexAfter: the insertion point is taken for a row that was found.
getIndexAfterSkips(results, index) ==
  LET matches == Keys(results)
      sres == binarySearch(matches, index)
      next == IF sres >= 0 THEN sres + 1 ELSE -sres
  IN IF next < Len(matches) THEN matches[next + 1] ELSE -1

getIndexAfter(results, index) ==
  LET matches == Keys(results)
      sres == binarySearch(matches, index)
      next == IF sres >= 0 THEN sres + 1 ELSE -sres - 1
  IN IF next < Len(matches) THEN matches[next + 1] ELSE -1

getIndexBefore(results, index) ==
  LET matches == Keys(results)
      sres == binarySearch(matches, index)
  IN IF sres > 0 THEN matches[sres] ELSE IF sres < -1 THEN matches[-sres - 1] ELSE -1

-----------------------------------------------------------------------------
ToolbarInit ==
  /\ session \in Sessions
  /\ patternField = NoPattern
  /\ fileRevisions = NULL
  /\ findResults = [matchesMap |-> <<>>, matchesCount |-> 0, highlight |-> NULL]
  /\ globalThreadIx = 0
  /\ finders = <<>>
  /\ EXEC_LOCK = NULL

\* No finder has this number: the toolbar was cleared.
Gone == [pc |-> "gone"]

(***************************************************************************)
(* The user interface thread.                                              *)
(***************************************************************************)
\* A thread is started 200 ms after it was made, or at once; "started" is both.
NewFinder(p) ==
  /\ globalThreadIx < session.finds
  /\ globalThreadIx' = globalThreadIx + 1
  /\ finders' = Append(finders, [pc |-> "started", pattern |-> p, fileRevisions |-> fileRevisions,
                                 i |-> 0, totalMatches |-> 0])

modifyText ==
  /\ UiIdle
  /\ \E p \in (Patterns \cup {NoPattern}) \ {patternField} :
        /\ patternField' = p
        /\ NewFinder(p)
  /\ UNCHANGED <<session, ui, fileRevisions, findResults, EXEC_LOCK>>

\* The next and previous buttons, when there is nothing to go to.
RedoFind ==
  /\ UiIdle
  /\ patternField # NoPattern
  /\ findResults.matchesCount = 0
  /\ NewFinder(patternField)
  /\ UNCHANGED <<session, ui, patternField, fileRevisions, findResults, EXEC_LOCK>>

\* clear, called when what the pattern is looked for in changes, or the toolbar is hidden.
clear ==
  /\ UiIdle
  /\ globalThreadIx < session.finds
  /\ patternField' \in IF patternField = NoPattern THEN {NoPattern} ELSE Patterns
  /\ findResults' = Cleared(findResults)
  /\ ui' = [pc |-> "clear"]
  /\ UNCHANGED <<session, fileRevisions, globalThreadIx, finders, EXEC_LOCK>>

updateGlobalThreadIx ==
  /\ ui.pc = "clear"
  /\ globalThreadIx' = globalThreadIx + 1
  /\ finders' = Append(finders, Gone)
  /\ ui' = [pc |-> "idle"]
  /\ UNCHANGED <<session, patternField, fileRevisions, findResults, EXEC_LOCK>>

setInput(array) ==
  /\ fileRevisions' = array
  /\ findResults' = setHighlightFlag(findResults, array.walk)
  /\ UNCHANGED <<session, patternField, globalThreadIx, finders, EXEC_LOCK>>

-----------------------------------------------------------------------------
(***************************************************************************)
(* execFind of finder f, which holds EXEC_LOCK.                            *)
(***************************************************************************)
Superseded(f) == f < globalThreadIx

Ends(f) ==
  /\ finders' = [finders EXCEPT ![f].pc = "gone"]
  /\ EXEC_LOCK' = NULL

\* Mutant of run: a thread does not wait for EXEC_LOCK.
runUnlocked(f) ==
  /\ finders[f].pc = "started"
  /\ IF Superseded(f) THEN Ends(f)
     ELSE /\ finders' = [finders EXCEPT ![f].pc = "clear"]
          /\ EXEC_LOCK' = f
  /\ UNCHANGED <<session, ui, patternField, fileRevisions, findResults, globalThreadIx>>

run(f) ==
  /\ finders[f].pc = "started"
  /\ EXEC_LOCK = NULL
  /\ IF Superseded(f) THEN Ends(f)
     ELSE /\ finders' = [finders EXCEPT ![f].pc = "clear"]
          /\ EXEC_LOCK' = f
  /\ UNCHANGED <<session, ui, patternField, fileRevisions, findResults, globalThreadIx>>

\* Where the loop goes with its i: to the next commit, or out of it.
Loop(finder) ==
  LET length == IF finder.pattern = NoPattern \/ finder.fileRevisions = NULL THEN 0
                ELSE Len(finder.fileRevisions.commits)
  IN [finder EXCEPT !.pc = IF finder.i < length /\ finder.totalMatches < MAX_RESULTS
                           THEN "test" ELSE "complete"]

ClearResults(f) ==
  /\ finders[f].pc = "clear"
  /\ findResults' = Cleared(findResults)
  /\ finders' = [finders EXCEPT ![f] = Loop(@)]
  /\ UNCHANGED <<session, ui, patternField, fileRevisions, globalThreadIx, EXEC_LOCK>>

TestSuperseded(f) ==
  /\ finders[f].pc = "test"
  /\ IF Superseded(f) THEN Ends(f)
     ELSE /\ finders' = [finders EXCEPT ![f].pc = "match"]
          /\ UNCHANGED EXEC_LOCK
  /\ UNCHANGED <<session, ui, patternField, fileRevisions, findResults, globalThreadIx>>

Match(f) ==
  /\ finders[f].pc = "match"
  /\ LET finder == finders[f]
         found == finder.fileRevisions.commits[finder.i + 1] \in finder.pattern
     IN /\ findResults' = IF found THEN Added(findResults, finder.i) ELSE findResults
        /\ finders' = [finders EXCEPT ![f] =
                         Loop([finder EXCEPT !.i = finder.i + 1,
                                             !.totalMatches = finder.totalMatches + IF found THEN 1 ELSE 0])]
  /\ UNCHANGED <<session, ui, patternField, fileRevisions, globalThreadIx, EXEC_LOCK>>

\* The finder waits in syncExec until the user interface thread has run it.
findCompletionUpdate(f) ==
  /\ UiIdle
  /\ finders[f].pc = "complete"
  /\ finders' = [finders EXCEPT ![f].pc = "completed"]
  /\ EXEC_LOCK' = NULL
  /\ UNCHANGED <<session, ui, patternField, fileRevisions, findResults, globalThreadIx>>

execFind(f) == run(f) \/ ClearResults(f) \/ TestSuperseded(f) \/ Match(f) \/ findCompletionUpdate(f)

ToolbarNext ==
  \/ modifyText \/ RedoFind \/ clear \/ updateGlobalThreadIx
  \/ \E f \in DOMAIN finders : execFind(f)

ToolbarFairness ==
  /\ WF_<<ui, toolbarVars>>(updateGlobalThreadIx)
  /\ \A f \in 1 .. Max({s.finds : s \in Sessions}) : WF_<<ui, toolbarVars>>(f \in DOMAIN finders /\ execFind(f))

-----------------------------------------------------------------------------
(***************************************************************************)
(* Properties.                                                             *)
(***************************************************************************)
\* The binary searches behind the next and previous buttons find the nearest match
\* below and above any selected row, whatever finds were given up, cleared or given
\* another array: the rows are put in ascending order, which FindResults relies on
\* and its users have to see to.
NavigationRight ==
  LET rows == Range(Keys(findResults)) IN
  \A index \in -1 .. Max(rows \cup {0}) + 1 :
     LET after == {r \in rows : r > index}
         before == {r \in rows : r < index}
     IN /\ getIndexAfter(findResults, index) = IF after = {} THEN -1 ELSE Min(after)
        /\ getIndexBefore(findResults, index) = IF before = {} THEN -1 ELSE Max(before)

\* The matches a find is to report: the first MAX_RESULTS rows that match.
Expected(finder) ==
  LET commits == finder.fileRevisions.commits
      matching(r) == r \in DOMAIN commits /\ commits[r] \in finder.pattern
  IN {r - 1 : r \in {r \in DOMAIN commits :
        matching(r) /\ Cardinality({q \in 1 .. r : matching(q)}) <= MAX_RESULTS}}

\* When the last find has completed and the toolbar has neither been cleared nor been
\* given another array since it began, the results are its matches, all of them and
\* nothing of earlier finds, numbered from 1 in the order of rows.
LastFindExact ==
  \A f \in DOMAIN finders :
     (/\ f = globalThreadIx /\ finders[f].pc \in {"complete", "completed"}
      /\ finders[f].fileRevisions = fileRevisions /\ fileRevisions # NULL
      /\ finders[f].pattern # NoPattern /\ ui.pc # "clear")
     => /\ Range(Keys(findResults)) = Expected(finders[f])
        /\ findResults.matchesCount = Len(findResults.matchesMap)
        /\ \A k \in DOMAIN findResults.matchesMap : findResults.matchesMap[k].number = k
=============================================================================
