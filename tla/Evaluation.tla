------------------------------ MODULE Evaluation ------------------------------
(***************************************************************************)
(* One candidate on its way through the gates: emit_verilog() and          *)
(* _run_baseline_retest() (tools/orchestrator.py), phases 3 to 6 of        *)
(* run_slot() (tools/tournament.py), check_ch0_contract(), run_cosim() and *)
(* run_fpga_eval() (tools/eval).  The formal gate is FormalRun's subject   *)
(* and passes or fails here.                                               *)
(*                                                                         *)
(* Traces and seeds run in parallel and each may fail on its own; every    *)
(* tool and every simulation may go wrong in any of the ways that the code *)
(* distinguishes; build outputs of an earlier evaluation may lie about.    *)
(***************************************************************************)
EXTENDS Integers, FiniteSets

CONSTANTS
  None,          \* no value
  Caller,        \* who evaluates: "slot" and "retest"
  TraceElf,      \* the programs compared with the reference simulator
  Seed,          \* SEEDS
  MinSuccessful, \* MIN_SUCCESSFUL_SEEDS
  Freq,          \* the frequencies nextpnr may print
  Nrets,         \* what core.yaml may give for nret
  Defects        \* which of Defect happen

Artifact == {"synth", "elf", "sim"}

(* How a CoreMark simulation may go wrong: it is killed at its time limit, *)
(* its output is empty, a single line or malformed, it never retires       *)
(* ebreak, leaves its memory, prints a wrong CRC or iteration count, does  *)
(* not bracket the benchmark, or brackets no cycle.                        *)
Defect == {"timeout", "silent", "short", "malformed", "no_ebreak", "oob",
           "uart", "unbracketed", "no_cycles"}

ASSUME EvaluationAssumption ==
  /\ Caller \subseteq {"slot", "retest"}
  /\ Seed \subseteq Nat /\ IsFiniteSet(Seed)
  /\ MinSuccessful \in Nat \ {0}
  /\ None # "measured"
  /\ Freq \subseteq Nat /\ None \notin Freq
  /\ Nrets \subseteq {"1", "2", "none", "other"}
  /\ Defects \subseteq Defect

(* What a nextpnr process comes to: the last frequency it printed, whether *)
(* it exited with 0, whether its log has the LUT4 and DFF counts.          *)
SeedResult == [fmax : Freq \cup {None}, ok : BOOLEAN, counts : BOOLEAN]

ASSUME NoneIsNoResult == None \notin SeedResult

VARIABLES
  caller,      \* who evaluates
  nret,        \* what core.yaml says
  stage,       \* the gate the candidate is at
  made,        \* of which evaluation each build output is
  traces,      \* the comparisons of run_cosim
  seedAt,      \* the nextpnr processes
  seedOut,     \* what each came to
  fmax2,       \* twice the median frequency
  outcome,     \* what becomes of the candidate
  used,        \* history: build outputs a gate read
  crc,         \* what was wrong with the CoreMark run of run_cosim
  ipc          \* and with that of run_fpga_eval

build == <<made, used>>
place == <<seedAt, seedOut, fmax2>>
runs  == <<crc, ipc>>
vars == <<caller, nret, stage, build, traces, place, outcome, runs>>

Accepted(n) == n \in {"1", "2", "none"}

Init ==
  /\ caller \in Caller /\ nret \in Nrets
  /\ stage = "purge"
  /\ \E left \in {"none", "old"} : made = [a \in Artifact |-> left]
  /\ traces = [e \in TraceElf |-> "idle"]
  /\ seedAt = [s \in Seed |-> "idle"]
  /\ seedOut = [s \in Seed |-> None]
  /\ fmax2 = None /\ outcome = None
  /\ used = {}
  /\ crc = None /\ ipc = None

(* broken() in a slot, SystemExit in a retest. *)
Fail ==
  /\ outcome' = IF caller = "slot" THEN "broken" ELSE "aborted"
  /\ stage' = "over"

Pass(next) == stage' = next /\ UNCHANGED outcome

-----------------------------------------------------------------------------
(* emit_verilog.                                                           *)

(* Faulty variant: build outputs stay. *)
PurgeNothing ==
  /\ stage = "purge" /\ Pass("lint")
  /\ UNCHANGED <<caller, nret, build, traces, place, runs>>

(* purge_ignored_outputs; a retest runs in the checkout as it is. *)
Purge ==
  /\ stage = "purge"
  /\ made' = IF caller = "slot" THEN [a \in Artifact |-> "none"] ELSE made
  /\ Pass("lint")
  /\ UNCHANGED <<caller, nret, used, traces, place, runs>>

Lint ==
  /\ stage = "lint"
  /\ Pass("synth") \/ Fail
  /\ UNCHANGED <<caller, nret, build, traces, place, runs>>

(* A tool that makes artifact a, or leaves what is there and fails. *)
Makes(a, next) ==
  \/ made' = [made EXCEPT ![a] = "new"] /\ Pass(next)
  \/ UNCHANGED made /\ Fail

(* yosys; _build_synth_env reads nret first. *)
Synth ==
  /\ stage = "synth" /\ Accepted(nret)
  /\ Makes("synth", "bench")
  /\ UNCHANGED <<caller, nret, used, traces, place, runs>>

(* read_nret raises, and nothing below run_tournament_round catches it. *)
NretRaises ==
  /\ stage = "synth" /\ ~Accepted(nret)
  /\ outcome' = "raised" /\ stage' = "over"
  /\ UNCHANGED <<caller, nret, build, traces, place, runs>>

(* make keeps an ELF that is newer than its sources. *)
MakeBench ==
  /\ stage = "bench"
  /\ \/ Makes("elf", "build")
     \/ made["elf"] = "old" /\ UNCHANGED made /\ Pass("build")
  /\ UNCHANGED <<caller, nret, used, traces, place, runs>>

BuildSim ==
  /\ stage = "build"
  /\ Makes("sim", IF caller = "slot" THEN "precheck" ELSE "formal")
  /\ UNCHANGED <<caller, nret, used, traces, place, runs>>

-----------------------------------------------------------------------------
(* check_ch0_contract, run_formal and run_cosim.                           *)

Precheck ==
  /\ stage = "precheck"
  /\ Pass("formal") \/ Fail
  /\ UNCHANGED <<caller, nret, build, traces, place, runs>>

Formal ==
  /\ stage = "formal"
  /\ Pass("cosim") \/ Fail
  /\ UNCHANGED <<caller, nret, build, traces, place, runs>>

StartTraces ==
  /\ stage = "cosim"
  /\ traces' = [e \in TraceElf |-> "running"]
  /\ used' = used \cup {<<"elf", made["elf"]>>, <<"sim", made["sim"]>>}
  /\ Pass("traces")
  /\ UNCHANGED <<caller, nret, made, place, runs>>

(* run_one: a divergence, a timeout and any exception fail it.  What ends  *)
(* is the comparison: after a timeout run_pgroup returns though a child of *)
(* the simulator may have escaped it, which costs the gates after it CPU.  *)
TraceEnds(e) ==
  /\ traces[e] = "running"
  /\ \E result \in {"passed", "failed"} :
       traces' = [traces EXCEPT ![e] = result]
  /\ UNCHANGED <<caller, nret, stage, build, place, outcome, runs>>

(* The first failure decides, but the pool is left when all have ended. *)
JoinTraces ==
  /\ stage = "traces"
  /\ \A e \in TraceElf : traces[e] # "running"
  /\ IF \E e \in TraceElf : traces[e] = "failed" THEN Fail ELSE Pass("crc")
  /\ UNCHANGED <<caller, nret, build, traces, place, runs>>

(* Faulty variant: memory accesses out of bounds are not asked about. *)
AliasedCrc(defects) ==
  defects \cap {"timeout", "silent", "malformed", "no_ebreak", "uart"} = {}

(* run_coremark_crc needs no bracket and a single line. *)
CrcAccepts(defects) ==
  defects \cap {"timeout", "silent", "malformed", "no_ebreak", "oob", "uart"}
    = {}

CoreMarkCrc ==
  /\ stage = "crc"
  /\ crc' \in SUBSET Defects
  /\ IF CrcAccepts(crc') THEN Pass("place") ELSE Fail
  /\ UNCHANGED <<caller, nret, build, traces, place, ipc>>

-----------------------------------------------------------------------------
(* run_fpga_eval.                                                          *)

StartSeeds ==
  /\ stage = "place"
  /\ seedAt' = [s \in Seed |-> "running"]
  /\ used' = used \cup {<<"synth", made["synth"]>>}
  /\ Pass("seeds")
  /\ UNCHANGED <<caller, nret, made, traces, seedOut, fmax2, runs>>

(* run_seed. *)
SeedEnds(s) ==
  /\ seedAt[s] = "running"
  /\ seedAt' = [seedAt EXCEPT ![s] = "over"]
  /\ \E result \in SeedResult : seedOut' = [seedOut EXCEPT ![s] = result]
  /\ UNCHANGED <<caller, nret, stage, build, traces, fmax2, outcome, runs>>

(* Not placement_failed. *)
Placed(s) == seedOut[s] # None /\ seedOut[s].ok /\ seedOut[s].fmax # None
Successful == {s \in Seed : Placed(s)}

(* The k-th smallest frequency of the seeds in S. *)
Kth(S, k) ==
  CHOOSE f \in {seedOut[s].fmax : s \in S} :
    /\ Cardinality({s \in S : seedOut[s].fmax < f}) < k
    /\ k <= Cardinality({s \in S : seedOut[s].fmax <= f})

(* Faulty variant: median_high, the upper of two middle values. *)
MedianHigh2(S) == 2 * Kth(S, Cardinality(S) \div 2 + 1)

(* statistics.median, doubled: the middle value, or the mean of the two. *)
Median2(S) ==
  LET n == Cardinality(S)
  IN  Kth(S, (n + 1) \div 2) + Kth(S, n \div 2 + 1)

(* gather returns when all seeds have ended. *)
JoinSeeds ==
  /\ stage = "seeds"
  /\ \A s \in Seed : seedAt[s] = "over"
  /\ IF Cardinality(Successful) < MinSuccessful
     THEN /\ outcome' = IF caller = "slot" THEN "placement_failed"
                        ELSE "aborted"
          /\ stage' = "over" /\ UNCHANGED fmax2
     ELSE fmax2' = Median2(Successful) /\ Pass("ipc")
  /\ UNCHANGED <<caller, nret, build, traces, seedAt, seedOut, runs>>

(* run_coremark_ipc needs every marker. *)
IpcAccepts(defects) == defects = {}

(* successful[-1], whose log the report is taken from. *)
Reporter == CHOOSE s \in Successful : \A t \in Successful : t <= s

(* The benchmark, then the report: without the counts, or without a run to *)
(* be trusted, there is no fitness.                                        *)
CoreMarkIpc ==
  /\ stage = "ipc"
  /\ used' = used \cup {<<"elf", made["elf"]>>, <<"sim", made["sim"]>>}
  /\ ipc' \in SUBSET Defects
  /\ IF IpcAccepts(ipc') /\ seedOut[Reporter].counts
     THEN outcome' = "measured" /\ stage' = "over"
     ELSE Fail
  /\ UNCHANGED <<caller, nret, made, traces, place, crc>>

-----------------------------------------------------------------------------
Next ==
  \/ Purge \/ Lint \/ Synth \/ NretRaises \/ MakeBench \/ BuildSim
  \/ Precheck \/ Formal \/ StartTraces \/ JoinTraces \/ CoreMarkCrc
  \/ StartSeeds \/ JoinSeeds \/ CoreMarkIpc
  \/ \E e \in TraceElf : TraceEnds(e)
  \/ \E s \in Seed : SeedEnds(s)

Spec == Init /\ [][Next]_vars

-----------------------------------------------------------------------------
(* Properties.                                                             *)

Stage == {"purge", "lint", "synth", "bench", "build", "precheck", "formal",
          "cosim", "traces", "crc", "place", "seeds", "ipc", "over"}

(* Every variable has its type; the median is the subject of MedianIsFair. *)
TypeOK ==
  /\ caller \in Caller /\ nret \in Nrets /\ stage \in Stage
  /\ made \in [Artifact -> {"none", "old", "new"}]
  /\ used \subseteq Artifact \X {"none", "old", "new"}
  /\ traces \in [TraceElf -> {"idle", "running", "passed", "failed"}]
  /\ seedAt \in [Seed -> {"idle", "running", "over"}]
  /\ seedOut \in [Seed -> SeedResult \cup {None}]
  /\ outcome \in {None, "broken", "aborted", "placement_failed", "raised",
                  "measured"}
  /\ crc \in (SUBSET Defects) \cup {None}
  /\ ipc \in (SUBSET Defects) \cup {None}

(* Whatever an agent or an earlier evaluation left in the tree, no gate    *)
(* ever reads a netlist or a simulator that this evaluation did not build; *)
(* the programs may be older in a retest only (run_slot: "every artifact   *)
(* the eval reads is one it built itself").                                *)
ArtifactsAreOwn ==
  \A u \in used : u[2] = "new" \/ (u = <<"elf", "old">> /\ caller = "retest")

(* A measured candidate passed every comparison, ran CoreMark twice inside *)
(* its memory to the right CRCs, the second time with brackets, and placed *)
(* often enough; nothing that went wrong in between was forgiven.          *)
CreditIsEarned ==
  outcome = "measured" =>
    /\ \A e \in TraceElf : traces[e] = "passed"
    /\ crc \subseteq {"short", "unbracketed", "no_cycles"} /\ ipc = {}
    /\ Cardinality({s \in Seed : seedOut[s].ok /\ seedOut[s].fmax # None})
         >= MinSuccessful

(* The frequency of a measured candidate is the median of the seeds that   *)
(* placed: at least half of them reach it and at least half do not exceed  *)
(* it, and when a seed is lost the two survivors count alike.              *)
MedianIsFair ==
  outcome = "measured" =>
    LET P == {s \in Seed : seedOut[s].ok /\ seedOut[s].fmax # None}
        up == {s \in P : 2 * seedOut[s].fmax >= fmax2}
        down == {s \in P : 2 * seedOut[s].fmax <= fmax2}
    IN  /\ 2 * Cardinality(up) >= Cardinality(P)
        /\ 2 * Cardinality(down) >= Cardinality(P)
        /\ Cardinality(P) = 2 =>
             \A s, t \in P : s # t => fmax2 = seedOut[s].fmax + seedOut[t].fmax

-----------------------------------------------------------------------------
(* What the repository says and this model refutes.                        *)

(* emit_verilog: "Any failure here is a broken outcome".  No evaluation    *)
(* ends with an exception that takes the round, and the results of its     *)
(* other slots, down with it.                                              *)
FailuresAreBroken == outcome # "raised"

===============================================================================
