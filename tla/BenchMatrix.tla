---------------------------- MODULE BenchMatrix ----------------------------
(***************************************************************************)
(* The benchmark runner (src/tools/bench/runner.py): a matrix of (model,   *)
(* rep) jobs, each run in a clone of its own, finalized into the rep       *)
(* directory bench/<model>/rep<N> and closed by one row of results.jsonl.  *)
(* A start of the runner skips the jobs that have a row.  The runner may   *)
(* be killed, and a job may raise, between any two steps; clones, rep      *)
(* directories and rows stay.                                              *)
(*                                                                         *)
(* An attempt at a job is named by the number of the start that made it.   *)
(* What a clone or a file of a rep directory holds is abstracted to the    *)
(* attempt it comes from, 0 when it is not there.  The directory at a      *)
(* job's slug is called its clone also when it is not one any more: a      *)
(* directory that was made again after the clone was deleted is empty.     *)
(***************************************************************************)
EXTENDS Integers, FiniteSets, Sequences

CONSTANTS Jobs,          \* the (model, rep) pairs of the matrix
          Parallel,      \* --parallel
          MaxStarts      \* bound on the starts of the runner

ASSUME JobsAssumption == IsFiniteSet(Jobs)
ASSUME ParallelAssumption == Parallel \in Nat \ {0}
ASSUME StartsAssumption == MaxStarts \in Nat \ {0}

VARIABLES
    starts,   \* starts of the runner so far
    runner,   \* "up" while a runner process is alive
    pc,       \* where the thread of each job is
    clone,    \* the attempt that made the directory at the job's slug, or 0
    held,     \* what is in it: a git repository and the harvested files
    aged,     \* jobs whose clone directory is older than gc's grace period
    repDir,   \* jobs whose rep directory exists
    rep,      \* the attempt each file of a rep directory comes from
    why,      \* how the current attempt of each job ended
    stats,    \* the attempt whose numbers are in the row under construction
    results   \* results.jsonl

matrixVars ==
    <<starts, runner, pc, clone, held, aged, repDir, rep, why, stats, results>>

Attempts == 0..MaxStarts
Files == {"log", "numbers", "summary", "bundle"}
Contents == {"git", "log", "numbers"}  \* .git, orchestrator.log, run_summary.json
Ends == {"finished", "crashed", "timed_out", "over_budget", "interrupted", "early"}
Asleep == {"idle", "skip", "queued", "over", "raised"}
Working == {"fence", "running", "mkdir", "recover", "numbers", "log",
            "summarize", "bundle", "row", "drop"}

Row == [job : Jobs, by : Attempts, why : Ends, stats : Attempts]

\* The status a row carries for each way an attempt may end.
StatusOf(end) ==
    CASE end = "finished"  -> "done"
      [] end = "timed_out" -> "timed_out"
      [] OTHER             -> "failed"

Terminal == {"done", "timed_out", "failed"}

RowsOf(j) == {i \in DOMAIN results : results[i].job = j}

\* A resume set that takes a timed-out rep for an unfinished one.
DoneWithoutTimeouts ==
    {j \in Jobs : \E i \in RowsOf(j) : StatusOf(results[i].why) \in {"done", "failed"}}

\* A resume set that takes a rep directory for a finished rep.
DoneByDirectory == repDir

\* load_done_set: the jobs with a final row.
DoneSet ==
    {j \in Jobs : \E i \in RowsOf(j) : StatusOf(results[i].why) \in Terminal}

Init ==
    /\ starts = 0
    /\ runner = "down"
    /\ pc = [j \in Jobs |-> "idle"]
    /\ clone = [j \in Jobs |-> 0]
    /\ held = [j \in Jobs |-> {}]
    /\ aged = {}
    /\ repDir = {}
    /\ rep = [x \in Jobs \X Files |-> 0]
    /\ why = [j \in Jobs |-> "early"]
    /\ stats = [j \in Jobs |-> 0]
    /\ results = <<>>

-----------------------------------------------------------------------------
(* main: the done set is read once, then the jobs go to the workers. *)

StartRun ==
    /\ runner = "down"
    /\ starts < MaxStarts
    /\ Jobs \ DoneSet # {}
    /\ starts' = starts + 1
    /\ runner' = "up"
    /\ pc' = [j \in Jobs |-> IF j \in DoneSet THEN "skip" ELSE "queued"]
    /\ UNCHANGED <<clone, held, aged, repDir, rep, why, stats, results>>

RunnerGone ==
    /\ runner' = "down"
    /\ pc' = [j \in Jobs |-> "idle"]

EndRun ==
    /\ runner = "up"
    /\ \A j \in Jobs : pc[j] \in {"skip", "over", "raised"}
    /\ RunnerGone
    /\ UNCHANGED <<starts, clone, held, aged, repDir, rep, why, stats, results>>

\* A signal: the reaper kills every descendant and exits without unwinding.
\* The last start that the bound allows is not killed.
Kill ==
    /\ runner = "up"
    /\ starts < MaxStarts
    /\ RunnerGone
    /\ UNCHANGED <<starts, clone, held, aged, repDir, rep, why, stats, results>>

-----------------------------------------------------------------------------
(* run_one_job *)

Goto(j, label) == pc' = [pc EXCEPT ![j] = label]

WorkerFree == Cardinality({j \in Jobs : pc[j] \in Working}) < Parallel

\* clone_fixture: whatever is at the slug is deleted first.
CloneFixture(j) ==
    /\ pc[j] = "queued"
    /\ WorkerFree
    /\ clone' = [clone EXCEPT ![j] = starts]
    /\ held' = [held EXCEPT ![j] = {"git"}]
    /\ aged' = aged \ {j}
    /\ stats' = [stats EXCEPT ![j] = 0]
    /\ Goto(j, "fence")
    /\ UNCHANGED <<starts, runner, repDir, rep, why, results>>

\* The clone fails: a row, and no rep directory.
CloneFails(j) ==
    /\ pc[j] = "queued"
    /\ WorkerFree
    /\ clone' = [clone EXCEPT ![j] = 0]
    /\ held' = [held EXCEPT ![j] = {}]
    /\ aged' = aged \ {j}
    /\ why' = [why EXCEPT ![j] = "early"]
    /\ stats' = [stats EXCEPT ![j] = 0]
    /\ Goto(j, "row")
    /\ UNCHANGED <<starts, runner, repDir, rep, results>>

\* The fence or the API key is missing: _copy_early_forensics, then a row.
FenceFails(j) ==
    /\ pc[j] = "fence"
    /\ repDir' = repDir \cup {j}
    /\ why' = [why EXCEPT ![j] = "early"]
    /\ Goto(j, "row")
    /\ UNCHANGED <<starts, runner, clone, held, aged, rep, stats, results>>

\* A mkdir with parents: the directory is made again if it is gone.
MakeDir(j) == clone' = [clone EXCEPT ![j] = IF @ = 0 THEN starts ELSE @]

\* env.json, the environment and the orchestrator's log are written, then the
\* orchestrator is started in the clone.
Launch(j) ==
    /\ pc[j] = "fence"
    /\ MakeDir(j)
    /\ held' = [held EXCEPT ![j] = @ \cup {"log"}]
    /\ Goto(j, "running")
    /\ UNCHANGED <<starts, runner, aged, repDir, rep, why, stats, results>>

\* The cost watchdog collects the agents' logs in the clone, which makes its
\* directory anew if somebody deleted it.
PeekCost(j) ==
    /\ pc[j] = "running"
    /\ clone[j] = 0
    /\ MakeDir(j)
    /\ UNCHANGED <<starts, runner, pc, held, aged, repDir, rep, why, stats, results>>

\* write_run_summary after a round of the orchestrator, which needs its
\* repository.
RoundEnds(j) ==
    /\ pc[j] = "running"
    /\ "git" \in held[j]
    /\ "numbers" \notin held[j]
    /\ held' = [held EXCEPT ![j] = @ \cup {"numbers"}]
    /\ UNCHANGED <<starts, runner, pc, clone, aged, repDir, rep, why, stats, results>>

Leave(j, end) ==
    /\ pc[j] = "running"
    /\ why' = [why EXCEPT ![j] = end]
    /\ Goto(j, "mkdir")
    /\ UNCHANGED <<starts, runner, clone, aged, repDir, rep, stats, results>>

\* Exit 0 comes after the last write_run_summary of the orchestrator's main.
Finishes(j) ==
    /\ "git" \in held[j]
    /\ held' = [held EXCEPT ![j] = @ \cup {"numbers"}]
    /\ Leave(j, "finished")

\* KeyboardInterrupt reaches run_one_job only when it runs in the main thread.
Interruptions == IF Parallel = 1 THEN {"interrupted"} ELSE {}

\* A non-zero exit, the wall-clock cap, the cost cap or an interruption.
Stops(j) ==
    /\ \E end \in {"crashed", "timed_out", "over_budget"} \cup Interruptions :
          Leave(j, end)
    /\ UNCHANGED held

-----------------------------------------------------------------------------
(* The finalize block of run_one_job. *)

MkRepDir(j) ==
    /\ pc[j] = "mkdir"
    /\ repDir' = repDir \cup {j}
    /\ Goto(j, "recover")
    /\ UNCHANGED <<starts, runner, clone, held, aged, rep, why, stats, results>>

\* reconstruct_log_from_git (the module Records has what becomes of the
\* journal).  Git run in a directory that is gone raises.
Recover(j) ==
    /\ pc[j] = "recover"
    /\ clone[j] # 0
    /\ Goto(j, "numbers")
    /\ UNCHANGED <<starts, runner, clone, held, aged, repDir, rep, why, stats, results>>

\* rep with the files F of job j replaced by those of attempt a.
Refreshed(j, F, a) ==
    [x \in Jobs \X Files |-> IF x[1] = j /\ x[2] \in F THEN a ELSE rep[x]]

\* A collection that keeps a file which is already there.
CopiedOnce(j, f) == {g \in held[j] \cap {f} : rep[<<j, g>>] = 0}

\* A collection for the runs that ended well.
CopiedWhenDone(j, f) == IF why[j] = "finished" THEN held[j] \cap {f} ELSE {}

\* What is copied of a file: it, if the clone has it, over the one in the rep
\* directory.
Copied(j, f) == held[j] \cap {f}

CopyNumbers(j) ==
    /\ pc[j] = "numbers"
    /\ rep' = Refreshed(j, Copied(j, "numbers"), clone[j])
    /\ Goto(j, "log")
    /\ UNCHANGED <<starts, runner, clone, held, aged, repDir, why, stats, results>>

\* The agents' logs are collected first, in the clone.
CopyLog(j) ==
    /\ pc[j] = "log"
    /\ MakeDir(j)
    /\ rep' = Refreshed(j, Copied(j, "log"), clone[j])
    /\ Goto(j, "summarize")
    /\ UNCHANGED <<starts, runner, held, aged, repDir, why, stats, results>>

\* summarize_run reads run_summary.json from the rep directory; the row so
\* far becomes summary.json.
Summarize(j) ==
    /\ pc[j] = "summarize"
    /\ stats' = [stats EXCEPT ![j] = rep[<<j, "numbers">>]]
    /\ rep' = Refreshed(j, {"summary"}, starts)
    /\ Goto(j, "bundle")
    /\ UNCHANGED <<starts, runner, clone, held, aged, repDir, why, results>>

\* A bundle that cannot be written is a warning; Git run in a directory that
\* is gone raises.
Bundle(j) ==
    /\ pc[j] = "bundle"
    /\ clone[j] # 0
    /\ \E written \in {{}, {"bundle"}} : rep' = Refreshed(j, written, clone[j])
    /\ Goto(j, "row")
    /\ UNCHANGED <<starts, runner, clone, held, aged, repDir, why, stats, results>>

RowFor(j) == [job |-> j, by |-> starts, why |-> why[j], stats |-> stats[j]]

AppendRow(j) ==
    /\ pc[j] = "row"
    /\ results' = Append(results, RowFor(j))
    /\ Goto(j, IF why[j] = "early" THEN "over" ELSE "drop")
    /\ UNCHANGED <<starts, runner, clone, held, aged, repDir, rep, why, stats>>

\* rmtree with its errors ignored; --keep-clones keeps the clone as well.
DropClone(j) ==
    /\ pc[j] = "drop"
    /\ \/ /\ clone' = [clone EXCEPT ![j] = 0]
          /\ held' = [held EXCEPT ![j] = {}]
          /\ aged' = aged \ {j}
       \/ UNCHANGED <<clone, held, aged>>
    /\ Goto(j, "over")
    /\ UNCHANGED <<starts, runner, repDir, rep, why, stats, results>>

\* An hour passes without a change to the top level of the clone directory.
CloneAges(j) ==
    /\ clone[j] # 0
    /\ j \notin aged
    /\ aged' = aged \cup {j}
    /\ UNCHANGED <<starts, runner, pc, clone, held, repDir, rep, why, stats, results>>

\* Whatever else goes wrong (a full disk, a clone that is gone, output that is
\* not UTF-8) raises out of run_one_job and leaves no row: a worker thread
\* reports it and goes on, the runner dies of it when the job is in the main
\* thread.  clone_fixture may have deleted a part of the old clone.
Raises(j) ==
    /\ \/ pc[j] = "queued" /\ WorkerFree
       \/ pc[j] \in Working \ {"drop"}
    /\ \E F \in IF pc[j] = "queued" THEN SUBSET held[j] ELSE {held[j]} :
          held' = [held EXCEPT ![j] = F]
    /\ IF Parallel = 1 THEN RunnerGone ELSE Goto(j, "raised") /\ UNCHANGED runner
    /\ UNCHANGED <<starts, clone, aged, repDir, rep, why, stats, results>>

JobStep(j) ==
    \/ CloneFixture(j) \/ CloneFails(j) \/ FenceFails(j) \/ Launch(j)
    \/ PeekCost(j) \/ RoundEnds(j) \/ Finishes(j) \/ Stops(j)
    \/ MkRepDir(j) \/ Recover(j) \/ CopyNumbers(j) \/ CopyLog(j)
    \/ Summarize(j) \/ Bundle(j) \/ AppendRow(j) \/ DropClone(j) \/ Raises(j)

RunnerStep == StartRun \/ EndRun \/ \E j \in Jobs : JobStep(j)

MatrixNext == RunnerStep \/ Kill

MatrixSpec == Init /\ [][MatrixNext]_matrixVars

-----------------------------------------------------------------------------
(* Properties *)

\* Every variable keeps to its type.
TypeOK ==
    /\ starts \in Attempts
    /\ runner \in {"up", "down"}
    /\ pc \in [Jobs -> Asleep \cup Working]
    /\ clone \in [Jobs -> Attempts]
    /\ held \in [Jobs -> SUBSET Contents]
    /\ aged \subseteq Jobs
    /\ repDir \subseteq Jobs
    /\ rep \in [Jobs \X Files -> Attempts]
    /\ why \in [Jobs -> Ends]
    /\ stats \in [Jobs -> Attempts]
    /\ results \in Seq(Row)

\* No (model, rep) pair gets a second row, however often the runner is killed
\* and started again: "idempotent on (model, rep) tuples".
OneRowPerRep ==
    \A m, n \in DOMAIN results : results[m].job = results[n].job => m = n

\* A row that says "done" reports the numbers of the very run it stands for,
\* and none that an earlier, killed attempt left in the rep directory.
DoneRowsAreOwn ==
    \A m \in DOMAIN results :
        results[m].why = "finished" => results[m].stats = results[m].by

\* The row of a rep that was launched comes after its artifacts: the summary
\* and the log in the rep directory are those of the attempt in the row, then
\* and ever after.
RowsFollowArtifacts ==
    \A m \in DOMAIN results :
        results[m].why # "early" =>
            /\ rep[<<results[m].job, "summary">>] = results[m].by
            /\ rep[<<results[m].job, "log">>] = results[m].by

\* No rep is passed over: a job that a start skips, or is through with, has
\* its row, whatever earlier starts were killed over or raised.  (A job that
\* raises has none and is left to the next start.)
NoneForgotten == \A j \in Jobs : pc[j] \in {"skip", "over"} => RowsOf(j) # {}

=============================================================================
