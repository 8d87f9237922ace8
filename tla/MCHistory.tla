----------------------------- MODULE MCHistory -----------------------------
(***************************************************************************)
(* The history page with its find toolbar on a repository of three commits.*)
(***************************************************************************)
EXTENDS HistoryPage

CONSTANTS c1, c2, c3

\* A branch other than the one of HEAD is deleted, and with it the only commit of a file:
\* the file's history is then empty.
MCVersions ==
  << [head |-> c1, log |-> [all |-> <<c3, c2, c1>>, file |-> <<c3>>]],
     [head |-> c1, log |-> [all |-> <<c2, c1>>, file |-> <<>>]] >>
MCFilters == {"all", "file"}
MCPatterns == {{c1, c2, c3}, {c1}}
MCSessions == {[finds |-> 0, inputs |-> 2, versions |-> 2],
               [finds |-> 1, inputs |-> 1, versions |-> 2],
               [finds |-> 2, inputs |-> 1, versions |-> 1]}
=============================================================================
