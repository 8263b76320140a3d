---------------------------- MODULE BenchSweeper ----------------------------
(***************************************************************************)
(* The clone sweeper (src/tools/bench/gc.py --delete) beside a runner.  It *)
(* lists the clones it takes for stale, then archives, verifies and        *)
(* deletes them one by one while the runner goes on.                       *)
(***************************************************************************)
EXTENDS BenchMatrix

VARIABLES listed,  \* the listed clones that were not looked at yet
          target   \* the jobs whose clone passed verification (at most one)

sweeperVars == <<listed, target>>
allVars == <<starts, runner, pc, clone, held, aged, repDir, rep, why, stats,
             results, listed, target>>

\* Stale by age alone, whether or not the rep has a directory.
OldClones == {j \in Jobs : clone[j] # 0 /\ j \in aged}

\* find_stale_clones
StaleClones == {j \in repDir : clone[j] # 0 /\ j \in aged}

ListClones ==
    /\ listed = {}
    /\ target = {}
    /\ StaleClones # {}
    /\ listed' = StaleClones
    /\ UNCHANGED <<target, matrixVars>>

\* archive_clone_forensics: only files the rep directory does not have yet.
Archivable(j) ==
    {f \in {"log", "bundle"} :
        /\ rep[<<j, f>>] = 0
        /\ (IF f = "bundle" THEN "git" ELSE f) \in held[j]}

\* verify_forensics, of the rep directory r
Verified(r, j) == r[<<j, "log">>] # 0 /\ r[<<j, "bundle">>] # 0

\* The bundle may fail; the clone is then kept.
ArchiveClone(j) ==
    /\ target = {}
    /\ j \in listed
    /\ \E F \in {Archivable(j), Archivable(j) \ {"bundle"}} :
          rep' = Refreshed(j, F, clone[j])
    /\ listed' = listed \ {j}
    /\ target' = IF Verified(rep', j) THEN {j} ELSE {}
    /\ UNCHANGED <<starts, runner, pc, clone, held, aged, repDir, why, stats, results>>

DeleteClone(j) ==
    /\ j \in target
    /\ clone' = [clone EXCEPT ![j] = 0]
    /\ held' = [held EXCEPT ![j] = {}]
    /\ aged' = aged \ {j}
    /\ target' = {}
    /\ UNCHANGED <<starts, runner, pc, repDir, rep, why, stats, results, listed>>

InitSweeper == Init /\ listed = {} /\ target = {}

SweeperNext ==
    \/ MatrixNext /\ UNCHANGED sweeperVars
    \/ \E j \in Jobs : CloneAges(j) /\ UNCHANGED sweeperVars
    \/ ListClones
    \/ \E j \in Jobs : ArchiveClone(j) \/ DeleteClone(j)

SweeperSpec == InitSweeper /\ [][SweeperNext]_allVars

-----------------------------------------------------------------------------
(* Properties *)

\* The sweeper never takes the clone of a job whose orchestrator is running,
\* in the first start of a runner or, in a later one, as long as no earlier
\* attempt left a rep directory.  (It does take one that a killed attempt left
\* the rep directory of: the grace period of find_stale_clones looks at the
\* age of the top level of the clone, which a running job may leave alone.)
LiveCloneIsKept ==
    \A j \in Jobs : pc[j] = "running" /\ (starts = 1 \/ j \notin repDir) =>
        clone[j] = starts /\ "git" \in held[j]
=============================================================================
