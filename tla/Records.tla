-------------------------------- MODULE Records --------------------------------
(***************************************************************************)
(* What a tournament leaves for the benchmark to report: run_summary.json  *)
(* (write_run_summary() of tools/orchestrator.py), the "log:" commits in   *)
(* the clone's history, its exit code, and what run_one_job() makes of     *)
(* them (tools/bench/runner.py, reconstruct_log_from_git() and             *)
(* summarize_run() of tools/bench/telemetry.py).                           *)
(*                                                                         *)
(* The orchestrator may die between a line, its commit and the summary, or *)
(* while it writes the summary; the runner reads what there is.            *)
(***************************************************************************)
EXTENDS Tournament

VARIABLES
  commits,     \* per "log:" commit, its entry's id and the journal's last line
  numbers,     \* run_summary.json: Absent, Torn or a summary
  due,         \* a round is over and its summary not written
  exited       \* how the last process ended: "no", "ok" or "failed"

recordVars == <<commits, numbers, due, exited>>
allVars == <<vars, recordVars>>

Absent == [file |-> "absent"]
Torn   == [file |-> "torn"]

-----------------------------------------------------------------------------
(* write_run_summary.                                                      *)

Lines(lines, outcome) == {i \in DOMAIN lines : lines[i].outcome = outcome}

(* A fitness of 0 counts as none. *)
WithFitness(lines) ==
  {i \in DOMAIN lines : lines[i].design # None /\ lines[i].design.perf # 0}

(* The first of the fittest. *)
BestLine(lines) ==
  CHOOSE i \in WithFitness(lines) : \A k \in WithFitness(lines) :
    \/ lines[k].design.perf < lines[i].design.perf
    \/ lines[k].design.perf = lines[i].design.perf /\ i <= k

(* The fitness of line i, or None if there is no such line. *)
PerfAt(lines, S, i) == IF S = {} THEN None ELSE lines[i].design.perf

(* Faulty variant: the final design is the fittest one. *)
FinalIsBest(lines) == PerfAt(lines, WithFitness(lines), BestLine(lines))

(* The last improvement with a fitness. *)
Final(lines) ==
  LET S == WithFitness(lines) \cap Improvements(lines)
  IN  PerfAt(lines, S, CHOOSE i \in S : \A k \in S : k <= i)

(* The first improvement of round 0, which main() always journals first.   *)
BaselineFitness(lines) ==
  LET S == {i \in WithFitness(lines) \cap Improvements(lines) :
              lines[i].round = 0}
  IN  PerfAt(lines, S, CHOOSE i \in S : \A k \in S : i <= k)

(* Failed placements are in no count but the first. *)
Summarized(lines) ==
  [iterations |-> Len(lines),
   accepted   |-> Cardinality(Improvements(lines)),
   rejected   |-> Cardinality(Lines(lines, "regression")),
   broken     |-> Cardinality(Lines(lines, "broken")),
   baseline   |-> BaselineFitness(lines),
   final      |-> Final(lines),
   best       |-> PerfAt(lines, WithFitness(lines), BestLine(lines))]

-----------------------------------------------------------------------------
(* The orchestrator's steps, with what they leave.                         *)

RecordsInit ==
  Init /\ commits = <<>> /\ numbers = Absent /\ due = FALSE /\ exited = "no"

Begin ==
  /\ Start
  /\ exited' = "no"
  /\ UNCHANGED <<commits, numbers, due>>

(* `git commit -m "log: <id> ..."`; a retest's entry has an id of its own. *)
Commit ==
  /\ CommitBaseline \/ CommitLine
  /\ commits' = Append(commits,
       [id   |-> IF pc = "baseline" THEN None ELSE slot[cursor].id,
        line |-> log[Len(log)]])
  /\ UNCHANGED <<numbers, due, exited>>

BeginRound == ~due /\ StartRound /\ UNCHANGED recordVars

CloseEntry ==
  /\ UnlinkHypothesis
  /\ due' = (pc' = "idle")
  /\ UNCHANGED <<commits, numbers, exited>>

WriteSummary ==
  /\ due /\ due' = FALSE
  /\ numbers' = Summarized(log)
  /\ UNCHANGED <<vars, commits, exited>>

(* main() writes it once more and returns. *)
Exit ==
  /\ ~due /\ Finish
  /\ numbers' = Summarized(log)
  /\ exited' = "ok"
  /\ UNCHANGED <<commits, due>>

Join ==
  /\ Collect
  /\ exited' = IF pc' = "down" THEN "failed" ELSE exited
  /\ UNCHANGED <<commits, numbers, due>>

(* Death between rounds may come while the file, already truncated, is     *)
(* written.                                                                *)
Die ==
  /\ BaselineFails \/ CommitFails \/ Kill
  /\ numbers' \in IF pc = "idle" THEN {numbers, Torn} ELSE {numbers}
  /\ due' = FALSE /\ exited' = "failed"
  /\ UNCHANGED commits

GoOn ==
  /\ \/ Baseline \/ NumberRounds
     \/ ResetCheckout \/ MergeWinner \/ ReclaimWinner \/ MergeFails
     \/ RetireLoser \/ WriteLine
     \/ \E s \in Slot : SlotStep(s)
  /\ UNCHANGED recordVars

RecordsNext ==
  \/ Begin \/ Commit \/ BeginRound \/ CloseEntry \/ WriteSummary \/ Exit
  \/ Join \/ Die \/ GoOn

RecordsSpec == RecordsInit /\ [][RecordsNext]_allVars

-----------------------------------------------------------------------------
(* run_one_job's finalize block, once the orchestrator is gone.            *)

(* reconstruct_log_from_git: the newest commit of each id ... *)
Newest ==
  {i \in DOMAIN commits :
     \A k \in DOMAIN commits : commits[k].id = commits[i].id => k <= i}

(* ... sorted by round and slot, newer ones first. *)
Rebuilt ==
  LET before(i, k) ==
        LET a == commits[i].line
            b == commits[k].line
        IN  \/ a.round < b.round
            \/ a.round = b.round /\ a.slot < b.slot
            \/ a.round = b.round /\ a.slot = b.slot /\ i > k
      nth(n) == CHOOSE i \in Newest :
                  Cardinality({k \in Newest : before(k, i)}) = n - 1
  IN  [n \in 1..Cardinality(Newest) |-> commits[nth(n)].line]

(* Faulty variant: what git has is preferred whenever it has anything. *)
PreferGit == IF Newest # {} THEN Rebuilt ELSE log

(* The log.jsonl that goes into the rep directory. *)
Harvested == IF Cardinality(Newest) > Len(log) THEN Rebuilt ELSE log

(* summarize_run: the numbers of the row, and whether there were any. *)
RowNumbers ==
  IF numbers \in {Absent, Torn}
  THEN [missing |-> TRUE, numbers |-> Summarized(<<>>)]
  ELSE [missing |-> FALSE, numbers |-> numbers]

-----------------------------------------------------------------------------
(* Properties.                                                             *)

(* Wherever the orchestrator died, the journal in the rep directory has    *)
(* every line that is on disk or at HEAD, in order: putting it together    *)
(* from the history never costs a line whose commit failed, or that was    *)
(* carried by the commit of the next one.                                  *)
HarvestIsComplete ==
  pc = "down" =>
    LET harvest == Harvested
    IN  IsPrefix(log, harvest) /\ IsPrefix(committed, harvest)

(* The row of an orchestrator started once, as the benchmark does, tells   *)
(* of whole rounds of its journal: the final fitness is the champion's,    *)
(* the baseline that of the design it began with, every line is counted.   *)
(* After an exit 0 it tells of the whole journal; it has no numbers only   *)
(* if the orchestrator failed.                                             *)
SummaryAgrees ==
  pc = "down" /\ starts = 1 =>
    LET row  == RowNumbers.numbers
        past == SubSeq(log, 1, row.iterations)
    IN  /\ exited = "ok" =>
             ~RowNumbers.missing /\ row.iterations = Len(log)
        /\ ~RowNumbers.missing =>
             /\ row.iterations \in 1..Len(log)
             /\ (row.iterations - 1) % TournamentSize = 0
             /\ row.final = Champion(past).perf
             /\ row.baseline = log[1].design.perf /\ row.final <= row.best
             /\ row.accepted + row.rejected + row.broken
                  = row.iterations - Cardinality(Lines(past, "placement_failed"))

===============================================================================
