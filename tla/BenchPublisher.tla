--------------------------- MODULE BenchPublisher ---------------------------
(***************************************************************************)
(* The site publisher (src/tools/site/watch_publish.py) beside a runner.   *)
(* It polls results.jsonl; rows that differ from the committed file are    *)
(* rendered, committed together with their rep directories, and pushed.    *)
(* The matrix is the scheduled field (EXPECTED_REPS).                      *)
(***************************************************************************)
EXTENDS BenchMatrix

CONSTANTS RenderFaults,  \* bound on the failures of report, site build and add
          CommitFaults,  \* bound on the failures of git commit
          PushFaults     \* bound on the failures of git push

ASSUME FaultsAssumption == {RenderFaults, CommitFaults, PushFaults} \subseteq Nat

VARIABLES
    watcher,  \* "poll", "render", "commit", "push"; "gone" once all is done
    pending,  \* the reps of the publication under way
    whole,    \* whether the rows that publication was computed from are all
    head,     \* length of the committed results.jsonl, a prefix of results
    headRep,  \* the attempt whose summary.json is committed for each job
    pushed,   \* length of the results.jsonl on origin
    staged,   \* whether the index holds changes that are not committed
    faults    \* failures so far, per step

watcherVars == <<watcher, pending, whole, head, headRep, pushed, staged, faults>>
vars == <<starts, runner, pc, clone, held, aged, repDir, rep, why, stats,
          results, watcher, pending, whole, head, headRep, pushed, staged,
          faults>>

\* Row m is the last one of rep j in a file of n rows (_rows_from_text).
IsLastRow(m, j, n) ==
    /\ m \in 1..n
    /\ results[m].job = j
    /\ \A k \in (m + 1)..n : results[k].job # j

CommittedRows(j) == {m \in RowsOf(j) : m <= head}

\* Pending by artifacts: a rep whose directory holds a summary.
SummarizedReps ==
    {j \in Jobs : rep[<<j, "summary">>] # 0 /\ CommittedRows(j) = {}}

\* pending_rows: the last row of a rep is not the last one committed.
PendingReps ==
    {j \in Jobs : \E m \in RowsOf(j) :
        /\ IsLastRow(m, j, Len(results))
        /\ ~ \E c \in CommittedRows(j) :
              IsLastRow(c, j, head) /\ results[c] = results[m]}

FieldComplete == \A j \in Jobs : RowsOf(j) # {}

\* publish_once up to the artifact check.  A staged index, or one pending rep
\* without a summary.json, defers the whole publication.
ReadRows ==
    /\ watcher = "poll"
    /\ PendingReps # {}
    /\ ~ staged
    /\ \A j \in PendingReps : rep[<<j, "summary">>] # 0
    /\ pending' = PendingReps
    /\ whole' = FieldComplete
    /\ watcher' = "render"
    /\ UNCHANGED <<head, headRep, pushed, staged, faults, matrixVars>>

\* Report and site are rendered, and everything is added to the index.
StageRows ==
    /\ watcher = "render"
    /\ staged' = TRUE
    /\ watcher' = "commit"
    /\ UNCHANGED <<pending, whole, head, headRep, pushed, faults, matrixVars>>

\* git commit with paths takes results.jsonl as it is by now, and the rep
\* directories of the pending reps.
CommitRows ==
    /\ watcher = "commit"
    /\ head' = Len(results)
    /\ headRep' = [j \in Jobs |->
          IF j \in pending THEN rep[<<j, "summary">>] ELSE headRep[j]]
    /\ staged' = FALSE
    /\ watcher' = "push"
    /\ UNCHANGED <<pending, whole, pushed, faults, matrixVars>>

PushHead ==
    /\ watcher = "push"
    /\ pushed' = head
    /\ watcher' = IF whole THEN "gone" ELSE "poll"
    /\ UNCHANGED <<pending, whole, head, headRep, staged, faults, matrixVars>>

\* A command raises: the publication is deferred until the next poll, and
\* what was staged stays staged.
Defer(step, bound) ==
    /\ watcher = step
    /\ faults[step] < bound
    /\ faults' = [faults EXCEPT ![step] = @ + 1]
    /\ watcher' = "poll"
    /\ UNCHANGED <<pending, whole, head, headRep, pushed, staged, matrixVars>>

RenderFails == Defer("render", RenderFaults)
CommitFails == Defer("commit", CommitFaults)
PushFails == Defer("push", PushFaults)

\* Nothing is pending and every scheduled rep has a row: the watcher returns.
WatcherEnds ==
    /\ watcher = "poll"
    /\ PendingReps = {}
    /\ FieldComplete
    /\ watcher' = "gone"
    /\ UNCHANGED <<pending, whole, head, headRep, pushed, staged, faults, matrixVars>>

WatcherStep == ReadRows \/ StageRows \/ CommitRows \/ PushHead \/ WatcherEnds

InitPublisher ==
    /\ Init
    /\ watcher = "poll"
    /\ pending = {}
    /\ whole = FALSE
    /\ head = 0
    /\ headRep = [j \in Jobs |-> 0]
    /\ pushed = 0
    /\ staged = FALSE
    /\ faults = [step \in {"render", "commit", "push"} |-> 0]

Next ==
    \/ MatrixNext /\ UNCHANGED watcherVars
    \/ WatcherStep
    \/ RenderFails
    \/ CommitFails
    \/ PushFails

Spec == InitPublisher /\ [][Next]_vars

-----------------------------------------------------------------------------
(* Properties *)

\* A rep directory is published only once its run is final: what is committed
\* is the summary of the attempt in a committed row.  (The row of an attempt
\* that was never launched is left out: it says nothing of the directory,
\* which may hold the summary of an earlier, killed attempt.)
PublishedIsFinal ==
    \A j \in Jobs : headRep[j] # 0 =>
        \E m \in 1..head :
            /\ results[m].job = j
            /\ results[m].why # "early" => results[m].by = headRep[j]

\* "commit exactly the new rep data" (watch_publish.py:5): the row of a rep
\* that was launched is committed together with its rep directory.  A row that
\* is appended after the pending ones were read is not: git commit takes the
\* file as it is by then, and the row is never pending again.
RowsComeWithArtifacts ==
    \A m \in 1..head : results[m].why # "early" => headRep[results[m].job] # 0

=============================================================================
