# Verification of the tournament and its benchmark

TLA+ models of the loop that this repository runs on a CPU core: rounds of
concurrent slots that propose, implement and evaluate a design, a coordinator
that merges at most one of them, and a journal that the next round is judged by;
of the agents that write into the checkout and the fences around them; of the
gates that measure a design; and of the benchmark that runs this loop for a
matrix of models, sweeps up after it and publishes its results.
The models are checked by TLC on small instances and, where the prover reaches,
proved by TLAPS for every value of the constants. Paths below are relative to
`src/`.

## 1. The system

| component | source | state it keeps | operations |
|---|---|---|---|
| accept rule | `tools/accept_rule.py`, `pick_winner` in `tools/tournament.py` | none | `score`, `both_met`, `_strict_pareto`, `accept`, `pick_winner` |
| tournament round | `tools/tournament.py` | the round's entries, one per slot | `allocate_round_ids`, `run_slot` (one thread per slot), `run_tournament_round` |
| phase gates | `tools/tournament.py` | a semaphore per process and phase; an flock per host and phase | `phase_gate`, `_machine_lock` |
| worktrees | `tools/worktree.py` | git worktrees and branches; the target branch | `create_worktree`, `accept_worktree`, `destroy_worktree` |
| orchestrator, journal | `tools/orchestrator.py` | `log.jsonl` on disk and at HEAD, hypothesis files, `run_summary.json` | `main`, `_run_baseline_retest`, `append_log`, `read_log`, `current_best`, `current_lut`, `write_run_summary`, `emit_verilog`, `fork_core` |
| sandbox | `tools/sandbox.py` | snapshots of the contract paths | `dirty_state`, `changed_since`, `revert_paths`, `take_snapshot`, `snapshot_changes`, `purge_ignored_outputs` |
| agents | `tools/agents/*.py` | hypothesis files, `LESSONS.md`, agent logs | `run_hypothesis_agent`, `run_implementation_agent`, `run_scribe_agent`, `run_agent_streaming` |
| evaluation gates | `tools/eval/*.py`, `formal/run_all.sh` | build outputs; per-PID work directories | `run_formal`, `run_cosim`, `run_fpga_eval`, `run_holdout`, `check_ch0_contract` |
| process-tree reaper | `tools/eval/_subprocess.py` | none | `run_pgroup`, `install_tree_reaper` |
| benchmark runner | `tools/bench/runner.py`, `tools/bench/telemetry.py` | `results.jsonl`, clones, rep directories | `enumerate_jobs`, `run_one_job`, `_finalize`, `reconstruct_log_from_git`, `summarize_run` |
| clone sweeper, publisher | `tools/bench/gc.py`, `tools/site/watch_publish.py` | the same files | `find_stale_clones`, `archive_clone_forensics`, `publish_once` |
| reports, site, plots | `tools/plot.py`, `tools/bench/report.py`, `tools/site/build.py` | none | formatting |
| cores, test benches | `cores/`, `test/`, `formal/`, `fpga/` | hardware | verified by riscv-formal and co-simulation |

How they interact. `main` reads the journal and calls `run_tournament_round`
once per iteration. The round reads the champion from the journal, forks one
thread per slot and joins them. A slot calls the hypothesis agent, creates a
worktree off the target branch, takes a snapshot of the contract (what the
evaluation depends on), calls the implementation agent in the worktree, compares
the snapshot, and then runs the gates, two of them inside `phase_gate`; it
compares once more before the design counts. When all slots have returned the
coordinator alone touches git: it calls `accept_worktree` for the winner and
`destroy_worktree` for the losers, then `append_log` for every entry, which
calls the scribe, writes the line, commits, and deletes the hypothesis file.
All agents of a process work in, or beside, one checkout: what one agent's check
compares and restores, another's may have changed.
Several orchestrators may run on a host, each in a clone or worktree of its own;
they share the flock, the PIDs and, without a private copy, the riscv-formal
directory. The benchmark runner starts one orchestrator per job, copies its
journal, summary and log into a rep directory and appends a row to
`results.jsonl`. The sweeper deletes clones whose rep directory exists; the
publisher commits and pushes rows and rep directories. The three share files and
no lock.

What is hard here:

- death between two steps (a signal makes the tree reaper call `os._exit` at
  any instant), then a new start on whatever the files say;
- the champion is read once and used hours later;
- one of several steps fails: an exception in one slot, a merge that raises,
  a commit that fails, a seed that does not place;
- ids and round numbers are derived from files that other steps delete;
- slots of several processes compete for one lock, and any may fail or die
  while it holds it;
- the accept rule has four grounds for acceptance, and what their mix does
  over a long run is not obvious from any single comparison;
- agents write where they should not, while other agents' checks look and
  restore; the same files may hold the owner's unsaved work;
- work directories are named by PIDs, which are reused, and which a sandboxed
  process sees as dead; killed process trees leave children behind;
- git ignores build outputs, so they survive every reset, and a tool that fails
  leaves the old ones;
- the runner, the sweeper and the publisher each look at files first and act on
  them later, while the others go on; a rep directory may hold files of a
  killed attempt when the next one starts, and a job may raise at any step and
  leave no row.

What makes each component correct: the rule never cycles and never loses ground;
the gate is an exclusion that nobody starves behind; the branch moves only to
designs the rule prefers to the round's champion; that champion is a real
design, and the tip itself unless a process died at the wrong moment; the
journal at HEAD only grows, has one line per slot of a round and whole rounds;
worktree ids never clash and worktrees are given back; the fences undo what a
stray agent did and nothing that was there before; a design counts only if no
change of the contract was left standing when the gates were through, and they
read netlists and simulators of its own, and formal results of its own; a
fitness is earned, and the median of what placed; a rep gets one row, however
often its runner dies, which tells of its own artifacts and of the whole
journal, and only what a row stands for is published. PROJECT.json lists every
hazard with its line and the properties aimed at it.

## 2. The modules

| module | models | proofs |
|---|---|---|
| `AcceptRule` | the rule and the winner pick, as operators | |
| `Ladder` | abstract: a branch that only the rule moves | `LadderProofs` |
| `Tournament` | `main`, the round, the slots, the worktrees, the journal, crash and restart | `TournamentProofs` |
| `Records` | what a tournament leaves for the benchmark: the summary, the history, the exit; and what the runner makes of them | `RecordsProofs` |
| `Exclusive` | abstract: at most one thread in a phase | |
| `PhaseGate` | the gates, the slots that use them, the processes around them | `PhaseGateProofs` |
| `Sandbox` | the integrity checks, as operators over one checkout | |
| `AgentCalls` | one round's agent calls, their checks and rollbacks, the resolver, the contract windows, the scribe | `AgentCallsProofs` |
| `FormalRun` | `run_all.sh`, `run_formal`, the tree reaper and the agents' self-checks | `FormalRunProofs` |
| `Evaluation` | one candidate on its way through the other gates | `EvaluationProofs` |
| `BenchMatrix` | the benchmark runner: jobs, attempts, finalisation, rows, kill and restart | `BenchProofs` |
| `BenchSweeper` | the clone sweeper beside a runner | `BenchProofs` |
| `BenchPublisher` | the site publisher beside a runner | `BenchProofs` |
| `MC...` | constants for TLC, one module per run's system | |

`Tournament` EXTENDS `AcceptRule` and instantiates `Ladder` with the tip of the
branch for its champion; `Records` EXTENDS `Tournament` and adds to each of its
steps what the step leaves behind; `PhaseGate` instantiates `Exclusive` with the
threads inside the formal phase; `AgentCalls` EXTENDS `Sandbox`. `BenchSweeper`
and `BenchPublisher` EXTEND `BenchMatrix` and interleave one more process with
it. What is kept apart shares no state that the properties are about: the gate
decides when a slot evaluates and `FormalRun`'s evaluations run one at a time,
which is `PhaseGate`'s theorem; `Tournament` takes a measured design as given,
and `Evaluation` and `AgentCalls` say when a slot has one; the sweeper changes
clones, logs and bundles, the publisher reads rows and summaries.

**AcceptRule.** A design is the pair that the rule compares: CoreMark fitness
and LUT4 count. A candidate always has both (`run_fpga_eval` fails closed
without the count, see `Evaluation`); a champion read from an old line may lack
the LUT4 count. Fitness is a natural number here and a float in the code. The
code's score is a sum of fractions `(value - target) / target`; `Score` is that
sum times both targets, an integer with the same sign and order, so comparisons
with another score and with 0 are the code's. What this leaves out is float
rounding: two scores that differ by less than rounding error may compare equal
in the code.

**Tournament.** `log` is log.jsonl on disk and `committed` the same at HEAD, as
sequences of lines (round, slot, outcome, measured design). `tip` is the design
at the tip of the branch and `former` those before it. `trees` and `yamls` are
the ids that have a worktree and a hypothesis file. `pc` is the coordinator's
place, `slot` each slot's, with its worktree id and draft entry. The
correspondence:

| action | code |
|---|---|
| `Start`, `NumberRounds`, `Finish` | `main` |
| `Baseline`, `CommitBaseline`, `BaselineFails` | `_run_baseline_retest` and its `append_log` |
| `StartRound` | `run_tournament_round` up to the fan-out |
| `Propose`, `ProposalFails` | `run_slot`, phase 1 |
| `CreateWorktree`, `Evaluate`, `RaiseFromSlot` | `run_slot`, phases 2 to 6 |
| `Collect` | joining the pool, `pick_winner` |
| `ResetCheckout`, `MergeWinner`, `ReclaimWinner`, `MergeFails` | `accept_worktree` and the handler around it |
| `RetireLoser` | the rest of the accept loop |
| `WriteLine`, `CommitLine`, `CommitFails`, `UnlinkHypothesis` | `append_log` |
| `Kill` | death at any point |

The set `Faults` says which faults may happen, so that each run can say under
which ones its properties hold: `kill` is death at any point, `stop` death
before a round's winner is picked. The champion without any improvement is
fitness 0 and no LUT4 count, as in the code. `yamls` may keep files of dead
rounds, and `StartRound` counts them, as the code counts today's files; the date
is left out since a day's numbering looks at that day's files only. A worktree
keeps its id from `worktree add` until it is destroyed; `create_worktree`
deletes a stale branch first but cannot delete one that is checked out, so an id
whose worktree still exists makes it raise.

**Records.** `commits` are the `log:` commits in the clone's history, each with
its entry's id and the line that was last in the journal when it was made;
`numbers` is run_summary.json, which may be torn; `due` says that a round is
over and its summary not written; `exited` is the exit code. Each action is a
step of `Tournament` with what it leaves: `Commit` adds to the history,
`WriteSummary` and `Exit` are the calls of `write_run_summary` after a round and
at the end of `main`, `Join` may end the run with an exception, `Die` is every
other death, between rounds with the summary perhaps half written. `Summarized`
is the fold that `write_run_summary` makes over the journal, `Rebuilt` is
`reconstruct_log_from_git`, `Harvested` the log.jsonl that the finalize block
puts into the rep directory, `RowNumbers` the numbers of `summarize_run`.

**PhaseGate.** One record of progress per thread: on its way to the semaphore,
opening the lock file, waiting for the flock, inside, leaving or failing. A
slot may return before it reaches a gate, the lock file may fail to open, the
body may raise. `Retest` is the baseline retest, which runs its gates without
`phase_gate`. `Kill` drops a process with its semaphores; the kernel releases
its flocks.

**Sandbox and AgentCalls.** A path stands for a group of files the checks treat
alike: the journal, `LESSONS.md`, contract paths that git sees, contract paths
it ignores (riscv-formal). Its content is a sequence of editions, its hash the
content itself. `disk` and `head` are the checkout and its HEAD; `at` is where
each slot is, `before` and `snap` what its checks compare with; `stage` is what
the coordinator is at. Agents write whatever `Misdeeds` allows, `MaxEdits` times
in all: a new edition of a path, or the one before the last write, which gives
the path an earlier hash back. They do not undo what the owner wrote before the
round, and no two new editions are equal. A roll back's `git checkout` may fail
for any path that HEAD has, and nobody notices; `stuck` keeps which. `stale`
holds the contract paths of which a slot's gates read another edition than its
snapshot's, until somebody puts the path back. The correspondence:

| action | code |
|---|---|
| `StartHypothesis`, `AgentRetried`, `AgentRaises`, `AgentReturns` | `run_hypothesis_agent` up to the check: the state before, one retry, a second failure raises |
| `CheckAgent`, `RollBack` | `_git_offlimits_changes`, `revert_paths` path by path, each of which may fail, the raise |
| `Resolve` | the file resolver, `normalize_hypothesis_yaml`, `validate_hypothesis` |
| `TakeSnapshot`, `ImplementReturns`, `Inspect`, `Purge`, `Gate`, `LateCheck` | `run_slot`, phases 2 to 6, as far as the checks go |
| `AgentWrites`, `AgentUndoes`, `TouchTree`, `PlantOutput` | what an agent may do while it runs |
| `JoinSlots`, `Merge` (in it), `StartScribe`, `CommitEntry` | the coordinator, `append_log` |
| `ScribeAppends`, `ScribeRewrites`, `ScribeDeletes`, `ScribeStrays` | what the scribe may do while it runs |
| `ScribeRaises`, `ScribeBreached`, `ScribeRewrote`, `ScribeReturns` | the ends of `run_scribe_agent` |

**FormalRun.** A run is an invocation of `run_all.sh`, an evaluation by the
harness or a self-check by an agent; `pc` is where its script is, `workers` what
make started, `owner` and `results` the work directories by root and PID.
`TestDir`, `RemoveDir` and `Reaped` are the reaper loop, `Stage`, `Generate`,
`GenerateFails`, `Report`, `MakeEnds` and `Tally` the rest of the script;
`EvalEnds`, `TimeOut`, `Fork`, `KillTree`, `KillRoot` and `Drain` are
`run_pgroup`, with children forked while the tree is killed; in the state
"cleanup" the same `TestDir` and `RemoveDir` are `_cleanup_formal_workdir`.
`EvalReturns` is the end of `run_formal`; a worker that survived can change
nothing after it. `rm -rf` is one step. Which checks there are and what each
comes to is left open, and with it which wrapper and check list were picked
(`run_all.sh` takes them from its argument, its environment or core.yaml).
`setup` says whether agents are sandboxed and whether evaluations have a
riscv-formal of their own; any combination is allowed, and `Exposed` names the
one in which self-checks sweep where evaluations work without seeing them.

**Evaluation.** One candidate of a slot or of the baseline retest. `made` says
for each build output (netlist, programs, simulator) whether this evaluation
made it, `stage` the gate it is at. `Purge`, `Lint`, `Synth`, `NretRaises`,
`MakeBench` and `BuildSim` are `emit_verilog`; `Precheck` is
`check_ch0_contract`; `StartTraces`, `TraceEnds`, `JoinTraces` and `CoreMarkCrc`
are `run_cosim` with its pool of programs; `StartSeeds`, `SeedEnds`, `JoinSeeds`
and `CoreMarkIpc` are `run_fpga_eval`. A CoreMark run may go wrong in any of the
ways in `Defect`; which of them `run_coremark_crc` and `run_coremark_ipc` notice
is `CrcAccepts` and `IpcAccepts`. `fmax2` is twice the median frequency.

**BenchMatrix.** An attempt at a job is named by the start of the runner that
made it; the directory at a job's slug (`clone`) and each file of a rep
directory (`rep`) are the attempt they come from, 0 when absent. `held` is what
the directory has in it: a git repository, the orchestrator's log, its
run_summary.json. A directory that was deleted and made again by a `mkdir` has
none of these. `rep` has four files: the log, run_summary.json ("numbers"),
summary.json and repo.bundle. `pc` is where the thread of a job is in
`run_one_job`. The correspondence:

| action | code |
|---|---|
| `StartRun`, `EndRun` | `main`: the done set is read once, the pool is joined |
| `CloneFixture`, `CloneFails` | `clone_fixture` and the handler around it |
| `FenceFails`, `Launch` | the fence and the key check; env.json, the log, `Popen` |
| `RoundEnds`, `Finishes` | `write_run_summary` in the orchestrator, its exit 0 |
| `PeekCost` | the cost watchdog's `collect_agent_logs`, a `mkdir` in the clone |
| `Stops` | non-zero exit, wall-clock cap, cost cap; KeyboardInterrupt |
| `MkRepDir`, `Recover`, `CopyNumbers`, `CopyLog`, `Summarize`, `Bundle` | the finalize block, a step per thing it copies or writes |
| `AppendRow`, `DropClone` | `_finalize`, the rmtree after it |
| `Raises` | any other exception: the pool's handler, or the end of the runner |
| `Kill` | the tree reaper's `os._exit`, or a kill of the runner |

`Raises` is possible wherever a thread is between the queue and its row. In a
pool the job ends without a row and its worker goes on; with `--parallel 1` the
runner ends. `Recover` and `Bundle` run git in the clone and raise when its
directory is gone, and go on when it is there but empty. Jobs start in any order
here, in the order of the matrix in the code. A `CloneFails` leaves no directory
here, and may leave a partial one in the code, which the next attempt deletes;
`Raises` in the queue leaves any part of the old one. A row is appended whole or
not at all. An orchestrator that a runner left behind is not followed.

**BenchSweeper.** `ListClones` is `find_stale_clones`; each listed clone is then
archived and verified (`ArchiveClone`) and deleted in one step (`DeleteClone`),
with steps of the runner in between. `CloneAges` is an hour without a change to
the top directory of a clone: the orchestrator writes below it. What the runner
makes of a clone that is gone or empty is in `BenchMatrix`: `PeekCost`, `Launch`
and `CopyLog` make the directory anew, after which the job goes on to its row;
without them it raises.

**BenchPublisher.** `head` and `pushed` are the lengths of results.jsonl at HEAD
and on origin, `headRep` the attempt whose summary.json is at HEAD. One
publication is `ReadRows`, `StageRows`, `CommitRows`, `PushHead`; each of the
last three may fail, up to a bound, and the next poll starts over. `CommitRows`
takes results.jsonl as it is by then and the rep directories that were pending
when it was read.

## 3. The runs

| run | instance | shows |
|---|---|---|
| `ladder_both` | all designs of a 4 x 4 grid (and champions without a LUT4 count) on both sides of the targets | no cycle, no lost ground; phase 2 is never left |
| `gate` | 2 processes, 2 slots each, 1 round, formal machine-locked, fairness | exclusion within a process and within the host, with failures and kills; the gate implements `Exclusive`; every process ends |
| `crash` | 2 slots, 2 rounds, 2 starts, no targets; failing merges, failing commits, kills at any step | anchors are merged designs, only preferred designs merge; one line per slot, fresh worktree ids, worktrees given back, append-only history; the journal and the numbers that the benchmark gets |
| `noisy` | 2 slots, 2 rounds, 2 starts, both targets; raising slots, straying agents, failing merges, death before a winner is picked | the anchor is the tip, rounds are whole, the branch climbs the ladder |
| `agents` | 2 slots, 4 paths, 2 misdeeds, which may be undoing one, failing agents and roll backs, the owner's own work in the checkout | what is rolled back, what fails closed, what is left alone; no slot takes a sibling's file; `LESSONS.md` grows |
| `formal` | 1 evaluation beside 2 self-checks on 2 PIDs, 2 checks, sandboxed agents beside a private riscv-formal, or neither; fairness | no live work directory is taken for stale, an evaluation passes on its own checks only, `run_formal` returns |
| `measure` | 1 candidate of a slot or a retest, 2 programs, 3 seeds, 3 frequencies, 5 ways for a CoreMark run to go wrong | own artifacts only, no unearned fitness, a fair median |
| `publisher` | 2 reps, 2 workers, 2 starts, early failures, exceptions, kills, a publisher, one failure per git step; symmetry | one row per rep, no rep passed over; rows follow their artifacts and "done" rows report their own run; only final reps are committed |
| `sweeper` | 2 reps, 1 worker, 2 starts, early failures, exceptions, kills, a sweeper; symmetry | clones in use are kept, by a first start or while there is no rep directory; one row per rep and no rep passed over, whatever was deleted under the runner |
| `lost`, `nret`, `late` (violations) | 2 slots, 2 starts; the instance of `measure`; 1 start, 1 worker, no failing git step | the findings below |

Bounds. `MaxRound`, `MaxStarts` and `MaxRounds` only stop new rounds and new
starts. Two slots are enough for a winner beside a loser, and for two slots to
want one worktree id; two processes are enough to contend for a lock; two
rounds let a journalled round precede one that is cut short; two starts let a
round die and be run again. The two cores and two designs of `MCRecords` let a
candidate improve one core and not the other, and let a later candidate improve
an earlier one; those of `MCTournament` let one tie, beat or lose to the
champion on either axis and meet both targets. `MCLadder` has every pair of
designs on a grid.

Two slots with ids 1 and 10 are enough for one id to be a prefix of the other;
two misdeeds, beside any number of failures, for two agents to race for one
path, or for one to fail after it wrote; four paths, for each group of files
that some check treats differently. One evaluation is enough since the gate
admits one at a time; two self-checks and two PIDs let a PID be reused while
another run has looked at its directory; two workers let one survive the other.
Three seeds are the code's; two of them must place, so every mix of success and
failure happens, with medians of two and of three frequencies. Two programs
let the first fail while the second runs. The five defects are one per group
that the two checks of a CoreMark run treat alike. Of the four set-ups of
`FormalRun` its run has the two that differ in both respects: what `Exposed`
excepts is left to the proofs, where `PassIsOwn` holds for it as well.

Two reps are enough for one to be appended while the other is published or
swept; two starts for a rep directory that a killed attempt has half filled. The
sweeper's runner has one worker, so that an exception ends the whole runner and
the next start finds what it left; two workers are in `publisher`, and both
together, as every further start, are left to the proofs. The jobs of the two
runs are interchangeable and their properties are invariants, so the symmetry is
sound. Copying, reading and publishing run at their own pace: the publisher may
read rows before, between and after the appends of both workers and either
start.
`ladder_both` and `noisy` have both targets set, `crash` none; a single target
is left to the proofs, which are for every choice of targets.

Deadlock is checked in the `gate` run (`AllStopped` is the one permitted end);
in the others the system does stop, at a bound, when the round or the
evaluation is over, or when no candidate is better.

Fairness. Two runs assume any. `FairSpec` of `PhaseGate` asks weak fairness of
each thread and each main thread, the phase's body included: what `EveryRunEnds`
shows is that nobody is kept waiting for ever by the gate itself, if those
inside get to their end, as the formal gate does by its time limit. Weak
fairness is enough: a thread at the semaphore or the flock may be overtaken, but
only as often as there are rounds left. `Spec` of `FormalRun` asks weak fairness
of what the harness itself does (its timer, its kills, its sweep) and nothing of
the script or its workers: they may hang for ever. That a round, a matrix or a
publication ends is not claimed: agents are read until their pipe closes
(`tools/agents/_runtime.py:484`), lint, synthesis and placement have no time
limit, a rep has none by default, and a failed commit stops the publisher.

Each property of a passing run has a mutant: a definition replaced by a faulty
variant of itself (a dropped guard, a stale directory test without the PID, an
entry not downgraded) that makes TLC refute the property. The variants stand
before the definitions they replace and are marked as faulty.

### Where code and documentation part

1. `lost`: the branch moves before the journal says so. If the process dies in
   between, the next run judges by the old champion and may merge a design that
   does not beat the tip.
2. `nret`: a `core.yaml` whose nret is neither 1 nor 2 makes `read_nret` raise
   in `emit_verilog` (`tools/eval/formal.py:35`), and nothing below
   `run_tournament_round` catches it: the run ends with the other slots'
   results, although `tools/orchestrator.py:456` says that any failure there is
   a "broken" outcome.
3. `late`: the publisher reads the pending rows, renders, and then commits
   results.jsonl as it is (`tools/site/watch_publish.py:147`). A row appended
   meanwhile is committed without its rep directory and is never pending again,
   although line 5 says that it commits "exactly the new rep data".

The models show more places where the code and what is said of it part. They
are behind the limits of some properties and have no run of their own.

Of the tournament:

- A slot whose placement failed returns without destroying its worktree
  (`tools/tournament.py:393`), and the accept loop skips it, although line 590
  and `README.md:100` say it is destroyed. `WorktreesReclaimed` excepts it.
- The baseline retest runs formal outside the gate
  (`tools/orchestrator.py:664`), so separate processes do run formal at the
  same time. `FormalIsExclusive` is about the threads inside the gate.
- A journal line is written before it is committed
  (`tools/orchestrator.py:396`). If the process dies in between, the next
  merge's `git checkout HEAD --` discards the line; hence
  `CommittedIsAppendOnly` speaks of the journal at HEAD.

Of the agents:

- The append-only check of `LESSONS.md` returns early when the file is gone
  (`tools/agents/scribe.py:217`), so a scribe that deletes it passes, and the
  next one starts from an empty file, although line 138 says "we want the file
  to be append-only". `LessonsGrow` leaves this case out.
- A breach by an implementing agent is found but not undone; the slot fails,
  and the next slot's snapshot takes the changed contract for the right one.
  The contract is compared at two moments: what another slot's agent changed and
  put back, or a roll back restored, between the gates and the late check went
  unnoticed though the gates read it. "A contract breach must never reach an
  accepted result" (`tools/sandbox.py:33`) therefore holds within a slot's
  window and for what is still there at its end, which is what `FailsClosed`
  says.
- `revert_paths` does not look at the exit code of `git checkout`
  (`tools/sandbox.py:178`), which fails while another process has the index
  locked. A stray write then stays, in a slot that is broken for it all the
  same, and later agents find it dirty and leave it alone. `StrayIsUndone` and
  the scribe's roll back allow for it. `OwnersWorkStays` is about what roll
  backs and merges do, not about agents that undo the owner's work themselves.
- A hypothesis agent that fails twice raises before its check
  (`tools/agents/hypothesis.py:498`), so what it wrote stays; and of two agents
  that wrote one path, the second may have found it dirty. `StrayIsUndone`
  excepts both. An agent whose breach another slot's roll back undid first is
  not flagged, and the innocent one is.
- The shared riscv-formal is ignored by git, so no rollback restores it.
- The resolver takes the newest file with the slot's prefix: a file that a dead
  round of the same day left may be taken if the agent wrote none. The modelled
  round starts without such files.

Of the evaluation:

- On a plain checkout with sandboxed agents there is no private riscv-formal,
  and a self-check, which sees no PID outside its sandbox, may reap the
  directory of a live evaluation, although `formal/run_all.sh` says that
  concurrent live runs are protected. `LiveDirIsKept` excepts this set-up
  (`Exposed`), which the benchmark's fixture avoids. An evaluation that loses
  its directory fails; it does not pass on somebody else's results (`PassIsOwn`,
  which holds in every set-up).
- A reaper that found a dead run's directory stale may delete it after a new
  run with the same PID has taken it over. The evaluation then fails; it never
  passes (`PassIsOwn`).
- The retest does not purge build outputs and runs no channel precheck, so its
  programs may be older than its sources' last build: `ArtifactsAreOwn` is
  about the netlist and the simulator there.

Of the benchmark:

- An attempt killed while it is finalised leaves its run_summary.json in the
  rep directory (`tools/bench/runner.py:1037`). When the next attempt dies
  before it writes one, `summarize_run` reads the old file, and the row reports
  the numbers of the killed attempt. Rows with status "done" are safe, see
  `DoneRowsAreOwn`.
- The sweeper takes any rep directory for that of a finalized rep and its hour
  of grace looks at the top directory of a clone (`tools/bench/gc.py:143`), so
  it protects the first hour of a re-run and not the rest, although line 54 says
  that it closes that race; and what it listed may have been recreated when it
  gets there. `LiveCloneIsKept` is therefore about a first start, and about
  later ones as long as no attempt has left a rep directory. A first start's
  clone may still be deleted while it is finalized, which leaves it without its
  numbers; or a cost check makes the directory anew
  (`tools/bench/telemetry.py:231`), git finds no repository there, and the row
  is appended all the same, beside the log that the sweeper archived earlier.
  What holds beside a sweeper is `OneRowPerRep` and `NoneForgotten`;
  `RowsFollowArtifacts` and `DoneRowsAreOwn` are about a runner without one.
- Forensics that a killed attempt left satisfy the sweeper's verification for
  the clone of the next one (`tools/bench/gc.py:226`), whose log or history is
  then lost.
- A rep whose clone or fence failed gets a final row without a summary.json
  (`tools/bench/runner.py:881`). The publisher takes the row for a promise of
  artifacts and defers every pending rep until somebody steps in.
  `RowsFollowArtifacts` and `PublishedIsFinal` except these rows.
- An interrupted rep is recorded as "failed" and never retried
  (`tools/bench/runner.py:992`), although line 145 says it is; `NoneForgotten`
  asks for a row, not for a run that ended. A rep that raised has no row and is
  run again by the next start.
- An exception in the cost watchdog leaves `run_one_job` without killing the
  orchestrator (`tools/bench/runner.py:979`), which then goes on in a clone that
  the next start deletes.
- A publication whose push failed counts as made
  (`tools/site/watch_publish.py:149`). The next one carries it along; after the
  last rep there is none. A commit that fails leaves its files staged, and the
  check for somebody else's staged work (line 124) then defers every later
  poll. Nothing is claimed of when a row gets to production.
- `PublishedIsFinal` is about rep directories that are committed, not about rows
  (finding 3). It says nothing of a rep whose only row is an early failure: its
  directory may hold the summary of an earlier, killed attempt, and the
  publisher would publish that under the failed row.
- In run_summary.json, failed placements count as iterations and in no other
  number; the best fitness may be that of a design whose merge failed; the
  "round" of the best is an index into the journal. `SummaryAgrees` is about an
  orchestrator started once, as the benchmark does.
- A line whose commit failed is carried by the commit of the next one, under
  that one's id: the history alone does not have every line. It is used only
  when it has more lines than the file, and then nothing is lost
  (`HarvestIsComplete`).

## 4. The proofs

All theorems hold for any number of slots, processes, rounds, agents, runs,
seeds and reps, any designs and any targets, from the named assumptions in the
modules (targets are positive or `None`, `TournamentSize` is positive, and so
on).

- `LadderProofs`. `BeatsAllFormer` rests on the accept rule being transitive
  across its four grounds, which is proved from `Score` by cases; that and its
  irreflexivity give `NeverRevisits`. `MetStaysMet` follows since a design
  that meets both targets has score 0 and can then only be replaced on the
  strict-Pareto ground.
- `PhaseGateProofs`. Exclusion is not inductive alone. The invariant adds
  that a thread that waits, holds or leaves has its process's permit, that the
  semaphore counts exactly that, and that the flock names exactly the thread
  inside. `GateImplementsExclusive` maps a grant of the lock to `Enter`, leaving
  or the death of the holder to `Leave`, and everything else to stuttering; it
  assumes that formal is machine-locked.
- `TournamentProofs`. `AnchorIsReal` is not inductive alone: a merge may put
  the journal at HEAD back on disk, and an entry is an improvement one step
  before its merge and is journalled some steps after it. `IInv` therefore
  speaks of both journals, of the draft entries, and of the winner that the
  rule accepted. That the champion is the last improvement, and what appending
  a line does to it, are lemmas about sequences. `OrderInv`: the journal at HEAD
  is a prefix of the one on disk, whose lines are in strict order of rounds and
  slots, all before the one to be written next; a round that died without a
  line keeps its number, any other one loses it. `OneLinePerSlot` and
  `CommittedIsAppendOnly` follow. `FreshInv` explains why a worktree id is never
  taken, although sequence numbers fall again as hypothesis files are deleted:
  the files of a round that died stay, so every later round counts more of them
  than the dead one did; and a round whose files were deleted has a line at
  HEAD, so its number is never used again. `ReclaimInv`: in a first run HEAD and
  disk agree whenever a merge resets the journal, and each worktree is a slot's
  that the coordinator has not passed, or has a line that says
  placement_failed. Both need agents that write the ids they were given.
  The ladder: if the process dies only before it picks a winner, the journal's champion is the tip except while the winner's line is pending,
  and a reset of the checkout changes nothing in the journal (a baseline whose
  commit failed is untracked, and git leaves it alone); from that, `AnchorIsTip`
  and the refinement of `Ladder`. Under the same assumption a round has a line
  in the journal only if it reaches its end (`WholeInv`), so `RoundsAreWhole`.
- `RecordsProofs`. `RecordsRunTournament` shows that a tournament with its
  records is a tournament, so the theorems above hold of it and are used here.
  Each commit of a line made HEAD at least one line longer (`CommitsInv`), so
  the history never has more commits than the journal has lines, and what is
  harvested is the journal itself: `HarvestIsComplete`. `SummaryAgrees` is for
  an orchestrator started once. `FirstRunInv`: such a run throws no line away,
  its journal is the baseline and whole rounds but for the lines of the round
  being journalled, and a summary is only written between rounds. What the fold
  of `write_run_summary` makes of such lines is proved as lemmas: the last
  improvement with a fitness is the champion, the first one of round 0 is the
  first line, a best line exists (there is a last line up to which there is
  one) and is no worse than any, and each line is in exactly one count
  (`OutcomeInv`: the slots have outcomes once they are joined). It assumes
  `PositiveFitness`: a fitness of 0 counts as none in that function. A design
  that passed its gates finished CoreMark within 50 million cycles, so its
  fitness rounds to 0 only at a clock below 1 MHz.
- `AgentCallsProofs`. One invariant per property, over common typing facts.
  `WorkInv`: a path the owner left dirty stays in every agent's state "before",
  and its content only gets longer, so it differs from HEAD for good.
  `ContractInv`: every new edition of a path is newer than any content and any
  snapshot there is, so a path that a slot's gates read apart from the snapshot
  stays apart from it unless it is put back; hence `stale` is empty when the
  late check finds nothing. `StrayInv`: while the only author of a path that was clean is an
  agent that has yet to check, its state "before" has that path clean, so the
  check will see the write if it is still there; the roll back then restores it
  or notes that it could not.
  `FileInv` and `LessonInv` are short: every hypothesis file bears the id of a
  slot, whose sequence number tells it from its siblings'; and every way past
  the scribe leaves LESSONS.md a continuation of the old one or says so.
  `TypeInv` makes `TypeOK` inductive: while the coordinator is at work some
  slot's entry is left, so the one it picks is a slot's, and what deleting a
  file leaves is a sequence of files.
- `FormalRunProofs`. `DirInv`: distinct runs have distinct PIDs, a live
  evaluation owns no directory but the one of its PID, and since every run that
  shares its root sees that it is alive (unless `Exposed`), nobody takes that
  directory for stale. `PassInv` adds that a passing tally counted only results
  that the evaluation's own workers wrote, of the checks it generated; it needs
  no assumption on the set-up.
- `EvaluationProofs`. `IInv` says, for each gate, which build outputs are this
  evaluation's by then and which runs were clean; the theorems on artifacts and
  fitness follow. `MedianIsFair` rests on the model's median being
  defined by rank: `Kth` is the frequency that fewer than k seeds are below and
  at least k seeds do not exceed. That there is one (the least frequency that k
  seeds do not exceed) needs a fastest seed among those below it, and so a
  maximum of a finite set; the rest is counting the seeds on either side.
- `BenchProofs`. Two invariants. `RowInv` is about rows and places only: a job
  on its way to a row has none (`OpenHasNoRow`), which a start establishes from
  the done set, and one that was skipped or is through has one. It says nothing
  of clones or files, so the steps of a sweeper, which changes nothing else,
  preserve it too: `OneRowPerRep` and `NoneForgotten` hold with and without a
  sweeper, for any number of starts. `IInv` adds, for a runner by itself, what
  each step of the finalize block has prepared for the next (`Shape`): that the
  clone is this attempt's, and which files were copied. So a row is right when
  it is appended; it stays right by `OpenHasNoRow`, since only jobs without a
  row touch a rep directory. `PublishedIsFinal` follows from
  `RowsFollowArtifacts`, with the committed file a prefix of the other;
  `PublisherRunsMatrix` carries the runner's theorems over to runner and
  publisher together. That the sweeper takes no clone in use rests on
  `SweepInv`: every clone on its list has a rep directory, and before a second
  start a job whose orchestrator runs, or is still to run, has none.

Proved and in no run of its own, since another property of the run would fail
with it or the theorem says all there is: type correctness except `AgentCalls`',
`GatedMutex`, `PermitsAccounted`, `LockFollowsHolder`, `JournalIsNotRolledBack`.

Every invariant and every action property that a run checks is proved, under
the hypotheses named above. Only model-checked: liveness (`EveryRunEnds`,
`EvalsReturn`), which is out of the prover's reach here.

## 5. What is not modelled

Of the tournament: `--from-hypothesis` runs, `_capture_slot_diff`, `fork_core`,
the derived files that `append_log` commits along with the line
(`progress.png`, `core.yaml`), the text of entries and prompts, and torn writes
inside one line of the journal.

Of the agents: prompts, event summaries, the YAML repair, the two scripted
agents, and the pipe of an agent whose child outlives it: an agent's run is one
step between its start and its end.

Of the evaluation: `holdout.py`, a script run by hand; a missing portme file,
which makes `parse_iterations` raise; a placement process that raises instead
of failing; a child that outlives a simulation which timed out
(`tools/eval/_subprocess.py:31`; nothing reads what it writes, and the formal
gate, where something does, has such children); the counts of LUTs and flip-flops themselves.

Of the benchmark: preflight, key files, the contents of the fences and the
copy-back of a refreshed login, the cost parsers, an orchestrator that outlives
a runner killed by SIGKILL, the sweeps of formal work directories and throwaway
runs, the data tools; in the summary, the baseline that is derived from
delta_pct and the classes of broken slots.

Reports, plots, the site's contents, and the hardware with its test benches:
pure formatting on the one side, verified by riscv-formal and co-simulation on
the other.
