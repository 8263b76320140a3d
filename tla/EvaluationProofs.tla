--------------------------- MODULE EvaluationProofs ---------------------------
(***************************************************************************)
(* For any programs, seeds, frequencies and defects: gates read what this  *)
(* evaluation built, credit only what passed, and                          *)
(* credit it with the median frequency of the seeds that placed.           *)
(***************************************************************************)
EXTENDS Evaluation, FiniteSetTheorems, WellFoundedInduction, TLAPS

AfterSynth  == {"bench", "build", "precheck", "formal", "cosim", "traces",
                "crc", "place", "seeds", "ipc"}
AfterBench  == AfterSynth \ {"bench"}
AfterBuild  == AfterBench \ {"build"}
AfterTraces == {"crc", "place", "seeds", "ipc"}
AfterCrc    == AfterTraces \ {"crc"}

(* What the gates behind the candidate have built ... *)
Built ==
  /\ made \in [Artifact -> {"none", "old", "new"}]
  /\ caller = "slot" /\ stage # "purge" => \A a \in Artifact : made[a] # "old"
  /\ stage \in AfterSynth => made["synth"] = "new"
  /\ stage \in AfterBench => made["elf"] = "new" \/ made["elf"] = "old"
  /\ stage \in AfterBuild => made["sim"] = "new"

(* ... and found. *)
Found ==
  /\ stage = "traces" => \A e \in TraceElf : traces[e] # "idle"
  /\ stage \in AfterTraces => \A e \in TraceElf : traces[e] = "passed"
  /\ stage \in AfterCrc => crc \subseteq {"short", "unbracketed", "no_cycles"}
  /\ stage = "ipc" => /\ \A s \in Seed : seedOut[s] # None
                      /\ Cardinality(Successful) >= MinSuccessful

(* The parts of the type invariant that the steps rest on. *)
Typed ==
  /\ caller \in {"slot", "retest"} /\ stage \in Stage
  /\ traces \in [TraceElf -> {"idle", "running", "passed", "failed"}]
  /\ seedAt \in [Seed -> {"idle", "running", "over"}]
  /\ seedOut \in [Seed -> SeedResult \cup {None}]
  /\ \A s \in Seed : seedAt[s] = "over" => seedOut[s] # None
  /\ stage # "over" => outcome = None

(* A gate returns only when the simulations or the seeds it started are    *)
(* over.                                                                   *)
Joined ==
  /\ stage # "traces" => \A e \in TraceElf : traces[e] # "running"
  /\ stage # "seeds" => \A s \in Seed : seedAt[s] # "running"

(* The inductive invariant. *)
IInv ==
  /\ Typed /\ Built /\ Found
  /\ ArtifactsAreOwn /\ Joined /\ CreditIsEarned

-----------------------------------------------------------------------------

LEMMA InitIInv == Init => IInv
<1> SUFFICES ASSUME Init PROVE IInv
  OBVIOUS
<1> USE DEF Init
<1>1. Typed /\ Built /\ Found
  BY EvaluationAssumption
     DEF Typed, Built, Found, Stage, Artifact, AfterSynth, AfterBench,
         AfterBuild, AfterTraces, AfterCrc
<1>2. ArtifactsAreOwn /\ Joined
  BY DEF ArtifactsAreOwn, Joined
<1>3. CreditIsEarned
  BY EvaluationAssumption DEF CreditIsEarned
<1> QED  BY <1>1, <1>2, <1>3 DEF IInv

(* Gates that build nothing and run nothing in parallel. *)
LEMMA GatePreserves ==
  ASSUME IInv, Purge \/ Lint \/ NretRaises \/ Precheck \/ Formal
  PROVE  IInv'
<1> USE DEF IInv, Fail, Pass, build, place, runs
<1>1. Typed'
  BY DEF Typed, Stage, Purge, Lint, NretRaises, Precheck, Formal
<1>2. Built'
  BY DEF Typed, Built, Stage, Artifact, AfterSynth, AfterBench, AfterBuild,
         Purge, Lint, NretRaises, Precheck, Formal
<1>3. Found'
  BY DEF Found, AfterTraces, AfterCrc, Purge, Lint, NretRaises, Precheck,
         Formal
<1>4. ArtifactsAreOwn' /\ Joined'
  BY DEF ArtifactsAreOwn, Joined, Purge, Lint, NretRaises,
         Precheck, Formal
<1>5. CreditIsEarned'
  BY DEF Typed, CreditIsEarned, Purge, Lint, NretRaises, Precheck, Formal
<1> QED  BY <1>1, <1>2, <1>3, <1>4, <1>5

LEMMA BuildPreserves ==
  ASSUME IInv, Synth \/ MakeBench \/ BuildSim
  PROVE  IInv'
<1> USE DEF IInv, Makes, Fail, Pass, place, runs
<1>1. Typed'
  BY DEF Typed, Stage, Synth, MakeBench, BuildSim
<1>2. Built'
  <2>1. CASE Synth
    BY <2>1 DEF Typed, Built, Stage, Artifact, AfterSynth, AfterBench,
                AfterBuild, Synth
  <2>2. CASE MakeBench
    BY <2>2 DEF Typed, Built, Stage, Artifact, AfterSynth, AfterBench,
                AfterBuild, MakeBench
  <2>3. CASE BuildSim
    BY <2>3 DEF Typed, Built, Stage, Artifact, AfterSynth, AfterBench,
                AfterBuild, BuildSim
  <2> QED  BY <2>1, <2>2, <2>3
<1>3. Found'
  BY DEF Found, AfterTraces, AfterCrc, Synth, MakeBench, BuildSim
<1>4. ArtifactsAreOwn' /\ Joined'
  BY DEF ArtifactsAreOwn, Joined, Synth, MakeBench, BuildSim
<1>5. CreditIsEarned'
  BY DEF Typed, CreditIsEarned, Synth, MakeBench, BuildSim
<1> QED  BY <1>1, <1>2, <1>3, <1>4, <1>5

LEMMA CosimPreserves ==
  ASSUME IInv,
         StartTraces \/ JoinTraces \/ CoreMarkCrc
           \/ \E e \in TraceElf : TraceEnds(e)
  PROVE  IInv'
<1> USE DEF IInv, Fail, Pass, build, place, runs
<1>1. Typed'
  BY DEF Typed, Stage, StartTraces, JoinTraces, CoreMarkCrc, TraceEnds
<1>2. Built'
  BY DEF Typed, Built, Stage, Artifact, AfterSynth, AfterBench, AfterBuild,
         StartTraces, JoinTraces, CoreMarkCrc, TraceEnds
<1>3. Found'
  <2>1. CASE StartTraces
    BY <2>1 DEF Found, AfterTraces, AfterCrc, StartTraces
  <2>2. CASE JoinTraces
    BY <2>2 DEF Typed, Found, AfterTraces, AfterCrc, JoinTraces
  <2>3. CASE CoreMarkCrc
    <3>1. CrcAccepts(crc') =>
            crc' \subseteq {"short", "unbracketed", "no_cycles"}
      BY <2>3, EvaluationAssumption DEF CoreMarkCrc, CrcAccepts, Defect
    <3> QED  BY <2>3, <3>1 DEF Found, AfterTraces, AfterCrc, CoreMarkCrc
  <2>4. ASSUME NEW e \in TraceElf, TraceEnds(e) PROVE Found'
    BY <2>4 DEF Typed, Found, AfterTraces, AfterCrc, TraceEnds,
                Joined, Successful, Placed
  <2> QED  BY <2>1, <2>2, <2>3, <2>4
<1>4. ArtifactsAreOwn'
  BY DEF Typed, Built, AfterSynth, AfterBench, AfterBuild, Artifact, Stage,
         ArtifactsAreOwn, StartTraces, JoinTraces, CoreMarkCrc, TraceEnds
<1>5. Joined'
  BY DEF Typed, Joined, StartTraces, JoinTraces, CoreMarkCrc,
         TraceEnds
<1>6. CreditIsEarned'
  <2>1. outcome' # "measured"
    <3>1. stage # "over"
      BY DEF Joined, StartTraces, JoinTraces, CoreMarkCrc,
             TraceEnds
    <3> QED  BY <3>1, EvaluationAssumption
             DEF Typed, StartTraces, JoinTraces, CoreMarkCrc, TraceEnds
  <2> QED  BY <2>1 DEF CreditIsEarned
<1> QED  BY <1>1, <1>2, <1>3, <1>4, <1>5, <1>6

LEMMA FpgaPreserves ==
  ASSUME IInv,
         StartSeeds \/ JoinSeeds \/ CoreMarkIpc
           \/ \E s \in Seed : SeedEnds(s)
  PROVE  IInv'
<1> USE DEF IInv, Fail, Pass, build, place, runs
<1>1. Typed'
  BY NoneIsNoResult
     DEF Typed, Stage, StartSeeds, JoinSeeds, CoreMarkIpc, SeedEnds
<1>2. Built'
  BY DEF Typed, Built, Stage, Artifact, AfterSynth, AfterBench, AfterBuild,
         StartSeeds, JoinSeeds, CoreMarkIpc, SeedEnds
<1>3. Found'
  <2>1. CASE StartSeeds
    BY <2>1 DEF Found, AfterTraces, AfterCrc, StartSeeds
  <2>2. CASE JoinSeeds
    <3>1. Successful' = Successful
      BY <2>2 DEF JoinSeeds, Successful, Placed
    <3>2. (\A s \in Seed : seedOut[s] # None)'
      BY <2>2 DEF Typed, JoinSeeds
    <3>3. stage' = "ipc" => ~(Cardinality(Successful) < MinSuccessful)
      BY <2>2 DEF JoinSeeds
    <3>4. stage' = "ipc" => (Cardinality(Successful) >= MinSuccessful)'
      <4>1. Cardinality(Successful) \in Nat
        BY EvaluationAssumption, FS_Subset, FS_CardinalityType DEF Successful
      <4> QED  BY <3>1, <3>3, <4>1, EvaluationAssumption
    <3>5. stage' \in AfterTraces => \A e \in TraceElf : traces'[e] = "passed"
      BY <2>2 DEF Found, AfterTraces, JoinSeeds
    <3>6. stage' \in AfterCrc =>
            crc' \subseteq {"short", "unbracketed", "no_cycles"}
      BY <2>2 DEF Found, AfterTraces, AfterCrc, JoinSeeds
    <3>7. stage' # "traces"
      BY <2>2 DEF JoinSeeds
    <3> QED  BY <3>2, <3>4, <3>5, <3>6, <3>7 DEF Found
  <2>3. CASE CoreMarkIpc
    BY <2>3 DEF Found, AfterTraces, AfterCrc, CoreMarkIpc
  <2>4. ASSUME NEW s \in Seed, SeedEnds(s) PROVE Found'
    BY <2>4 DEF Typed, Found, AfterTraces, AfterCrc, SeedEnds,
                Joined
  <2> QED  BY <2>1, <2>2, <2>3, <2>4
<1>4. ArtifactsAreOwn'
  BY DEF Typed, Built, AfterSynth, AfterBench, AfterBuild, Artifact, Stage,
         ArtifactsAreOwn, StartSeeds, JoinSeeds, CoreMarkIpc, SeedEnds
<1>5. Joined'
  BY DEF Typed, Joined, StartSeeds, JoinSeeds, CoreMarkIpc,
         SeedEnds
<1>6. CreditIsEarned'
  <2>1. CASE CoreMarkIpc
    <3>1. CASE outcome' = "measured"
      <4>1. stage = "ipc" /\ ipc' = {}
        BY <2>1, <3>1 DEF CoreMarkIpc, IpcAccepts
      <4>2. Successful = {s \in Seed : seedOut[s].ok /\ seedOut[s].fmax # None}
        BY <4>1 DEF Found, Successful, Placed
      <4> QED  BY <2>1, <4>1, <4>2
               DEF Found, AfterTraces, AfterCrc, CoreMarkIpc, CreditIsEarned
    <3>2. CASE outcome' # "measured"
      BY <3>2 DEF CreditIsEarned
    <3> QED  BY <3>1, <3>2
  <2>2. CASE StartSeeds \/ JoinSeeds
    BY <2>2 DEF Typed, CreditIsEarned, StartSeeds, JoinSeeds
  <2>3. ASSUME NEW s \in Seed, SeedEnds(s) PROVE CreditIsEarned'
    <3>1. stage # "over"
      BY <2>3 DEF Joined, SeedEnds
    <3> QED  BY <2>3, <3>1, EvaluationAssumption
             DEF Typed, CreditIsEarned, SeedEnds
  <2> QED  BY <2>1, <2>2, <2>3
<1> QED  BY <1>1, <1>2, <1>3, <1>4, <1>5, <1>6

LEMMA NextIInv == IInv /\ [Next]_vars => IInv'
<1> SUFFICES ASSUME IInv, [Next]_vars PROVE IInv'
  OBVIOUS
<1>1. CASE UNCHANGED vars
  BY <1>1 DEF vars, build, place, runs, IInv, Typed, Built, Found,
              Successful, Placed, ArtifactsAreOwn, Joined,
              CreditIsEarned
<1> QED  BY <1>1, GatePreserves, BuildPreserves, CosimPreserves, FpgaPreserves
         DEF Next

THEOREM EvaluationIInv == Spec => []IInv
BY InitIInv, NextIInv, PTL DEF Spec

-----------------------------------------------------------------------------

LEMMA NextTypeOK == IInv /\ TypeOK /\ [Next]_vars => TypeOK'
<1> SUFFICES ASSUME IInv, TypeOK, [Next]_vars PROVE TypeOK'
  OBVIOUS
<1>1. Typed' /\ made' \in [Artifact -> {"none", "old", "new"}]
  BY NextIInv DEF IInv, Built
<1>2. /\ caller' \in Caller /\ nret' \in Nrets
      /\ outcome' \in {None, "broken", "aborted", "placement_failed",
                       "raised", "measured"}
  BY DEF TypeOK, Next, Purge, Lint, Synth, NretRaises, MakeBench, BuildSim,
         Precheck, Formal, StartTraces, JoinTraces, CoreMarkCrc, StartSeeds,
         JoinSeeds, CoreMarkIpc, TraceEnds, SeedEnds, Makes, Fail, Pass, vars
<1>3. used' \subseteq Artifact \X {"none", "old", "new"}
  BY DEF TypeOK, Artifact, Next, Purge, Lint, Synth, NretRaises, MakeBench,
         BuildSim, Precheck, Formal, StartTraces, JoinTraces, CoreMarkCrc,
         StartSeeds, JoinSeeds, CoreMarkIpc, TraceEnds, SeedEnds, vars, build
<1>4. /\ crc' \in (SUBSET Defects) \cup {None}
      /\ ipc' \in (SUBSET Defects) \cup {None}
  BY DEF TypeOK, Next, Purge, Lint, Synth, NretRaises, MakeBench, BuildSim,
         Precheck, Formal, StartTraces, JoinTraces, CoreMarkCrc, StartSeeds,
         JoinSeeds, CoreMarkIpc, TraceEnds, SeedEnds, vars, runs
<1> QED  BY <1>1, <1>2, <1>3, <1>4 DEF TypeOK, Typed

(* Every variable has its type, for any programs, seeds and defects. *)
THEOREM EvaluationTypeOK == Spec => []TypeOK
<1>1. Init => TypeOK
  BY DEF Init, TypeOK, Stage, Artifact
<1> QED  BY <1>1, EvaluationIInv, NextTypeOK, PTL DEF Spec

(* No gate reads a netlist or a simulator of another evaluation            *)
(* (purge_ignored_outputs, emit_verilog's early returns).                  *)
THEOREM EvaluationArtifactsAreOwn == Spec => []ArtifactsAreOwn
BY EvaluationIInv, PTL DEF IInv

(* Whatever combination of seeds, programs and simulations fails, only a   *)
(* candidate that passed everything is measured (run_cosim, run_fpga_eval).*)
THEOREM EvaluationCreditIsEarned == Spec => []CreditIsEarned
BY EvaluationIInv, PTL DEF IInv

-----------------------------------------------------------------------------
(* The median.                                                             *)

(* The seeds of S that do not exceed f, and those that stay below it. *)
UpTo(S, f)  == {s \in S : seedOut[s].fmax <= f}
Below(S, f) == {s \in S : seedOut[s].fmax < f}

LEMMA LeastExists ==
  ASSUME NEW T \in SUBSET Nat, T # {}
  PROVE  \E m \in T : \A k \in T : m <= k
<1> DEFINE R == {p \in Nat \X Nat : p[1] < p[2]}
<1>1. IsWellFoundedOn(R, Nat)
  BY NatLessThanWellFounded DEF OpToRel
<1> HIDE DEF R
<1>2. PICK m \in T : \A k \in T : ~ (<<k, m>> \in R)
  BY <1>1, WFMin
<1>3. ASSUME NEW k \in T PROVE m <= k
  <2>1. m \in Nat /\ k \in Nat
    OBVIOUS
  <2>2. ~ (k < m)
    BY <1>2, <2>1 DEF R
  <2> QED  BY <2>1, <2>2
<1> QED  BY <1>3

(* One seed of a finite set is the fastest: the one that most do not       *)
(* exceed.                                                                 *)
LEMMA FastestExists ==
  ASSUME NEW S, IsFiniteSet(S), S # {}, \A s \in S : seedOut[s].fmax \in Nat
  PROVE  \E s \in S : \A t \in S : seedOut[t].fmax <= seedOut[s].fmax
<1> DEFINE D(s) == UpTo(S, seedOut[s].fmax)
           T == {Cardinality(S) - Cardinality(D(s)) : s \in S}
<1>1. \A s \in S : /\ D(s) \in SUBSET S /\ IsFiniteSet(D(s))
                   /\ Cardinality(D(s)) \in Nat /\ Cardinality(S) \in Nat
                   /\ Cardinality(D(s)) <= Cardinality(S)
  <2> TAKE s \in S
  <2>1. D(s) \in SUBSET S
    BY DEF UpTo
  <2> HIDE DEF D
  <2> QED  BY <2>1, FS_Subset, FS_CardinalityType
<1> HIDE DEF D
<1>2. T \in SUBSET Nat /\ T # {}
  BY <1>1
<1>3. PICK m \in T : \A k \in T : m <= k
  BY <1>2, LeastExists
<1>4. PICK s \in S : m = Cardinality(S) - Cardinality(D(s))
  OBVIOUS
<1>5. ASSUME NEW t \in S, ~ (seedOut[t].fmax <= seedOut[s].fmax)
      PROVE  FALSE
  <2>1. D(s) \in SUBSET D(t) /\ t \in D(t) /\ t \notin D(s)
    BY <1>5 DEF D, UpTo
  <2>2. Cardinality(D(s)) <= Cardinality(D(t)) /\ D(s) # D(t)
    BY <2>1, <1>1, FS_Subset
  <2>3. Cardinality(D(s)) # Cardinality(D(t))
    BY <2>1, <2>2, <1>1, FS_Subset
  <2>4. Cardinality(S) - Cardinality(D(t)) \in T
    OBVIOUS
  <2>5. m <= Cardinality(S) - Cardinality(D(t))
    BY <2>4, <1>3
  <2> QED  BY <2>2, <2>3, <2>5, <1>1, <1>4
<1> QED  BY <1>5

(* Kth names a frequency of the set, and what it says of it. *)
LEMMA KthIsThere ==
  ASSUME NEW S, IsFiniteSet(S), \A s \in S : seedOut[s].fmax \in Nat,
         NEW k \in 1..Cardinality(S)
  PROVE  /\ \E s \in S : Kth(S, k) = seedOut[s].fmax
         /\ Cardinality(Below(S, Kth(S, k))) < k
         /\ k <= Cardinality(UpTo(S, Kth(S, k)))
<1> DEFINE F == {seedOut[s].fmax : s \in S}
           H == {f \in F : k <= Cardinality(UpTo(S, f))}
<1>1. Cardinality(S) \in Nat /\ S # {}
  BY FS_CardinalityType, FS_EmptySet
<1>2. \A f : /\ UpTo(S, f) \in SUBSET S /\ IsFiniteSet(UpTo(S, f))
            /\ Below(S, f) \in SUBSET S /\ IsFiniteSet(Below(S, f))
            /\ Cardinality(UpTo(S, f)) \in Nat
            /\ Cardinality(Below(S, f)) \in Nat
  <2> TAKE f
  <2>1. UpTo(S, f) \in SUBSET S /\ Below(S, f) \in SUBSET S
    BY DEF UpTo, Below
  <2> QED  BY <2>1, FS_Subset, FS_CardinalityType
<1>3. H \in SUBSET Nat /\ H # {}
  <2>1. PICK s \in S : \A t \in S : seedOut[t].fmax <= seedOut[s].fmax
    BY <1>1, FastestExists
  <2>2. UpTo(S, seedOut[s].fmax) = S
    BY <2>1 DEF UpTo
  <2>3. seedOut[s].fmax \in H
    BY <2>2, <1>1
  <2> QED  BY <2>3
<1>4. PICK f \in H : \A g \in H : f <= g
  BY <1>3, LeastExists
<1>5. Cardinality(Below(S, f)) < k
  <2>1. SUFFICES ASSUME k <= Cardinality(Below(S, f)) PROVE FALSE
    BY <1>2
  <2>2. Below(S, f) # {}
    BY <2>1, FS_EmptySet
  <2>3. \A s \in Below(S, f) : seedOut[s].fmax \in Nat
    BY DEF Below
  <2>4. PICK s \in Below(S, f) :
          \A t \in Below(S, f) : seedOut[t].fmax <= seedOut[s].fmax
    BY <2>2, <2>3, <1>2, FastestExists
  <2>5. Below(S, f) \in SUBSET UpTo(S, seedOut[s].fmax)
    BY <2>4 DEF UpTo, Below
  <2>6. Cardinality(Below(S, f)) <= Cardinality(UpTo(S, seedOut[s].fmax))
    BY <2>5, <1>2, FS_Subset
  <2>7. s \in S /\ seedOut[s].fmax < f
    BY DEF Below
  <2>8. k <= Cardinality(UpTo(S, seedOut[s].fmax))
    <3>1. /\ Cardinality(Below(S, f)) \in Nat
          /\ Cardinality(UpTo(S, seedOut[s].fmax)) \in Nat
      BY <1>2
    <3> QED  BY <3>1, <2>1, <2>6
  <2>9. seedOut[s].fmax \in H
    BY <2>7, <2>8
  <2>10. f <= seedOut[s].fmax
    BY <2>9, <1>4
  <2> QED  BY <2>7, <2>10, <1>3
<1>6. \E g \in F : /\ Cardinality({s \in S : seedOut[s].fmax < g}) < k
                  /\ k <= Cardinality({s \in S : seedOut[s].fmax <= g})
  BY <1>5 DEF UpTo, Below
<1> QED  BY <1>6 DEF Kth, UpTo, Below

(* The median of S: half of S reach it, half do not exceed it, and of two  *)
(* seeds it is the mean.                                                   *)
LEMMA MedianHalves ==
  ASSUME NEW S, IsFiniteSet(S), S # {}, \A s \in S : seedOut[s].fmax \in Nat
  PROVE  LET m    == Median2(S)
             up   == {s \in S : 2 * seedOut[s].fmax >= m}
             down == {s \in S : 2 * seedOut[s].fmax <= m}
         IN  /\ 2 * Cardinality(up) >= Cardinality(S)
             /\ 2 * Cardinality(down) >= Cardinality(S)
             /\ Cardinality(S) = 2 =>
                  \A s, t \in S : s # t =>
                    m = seedOut[s].fmax + seedOut[t].fmax
<1> DEFINE n  == Cardinality(S)
           lo == Kth(S, (n + 1) \div 2)
           hi == Kth(S, n \div 2 + 1)
           up   == {s \in S : 2 * seedOut[s].fmax >= lo + hi}
           down == {s \in S : 2 * seedOut[s].fmax <= lo + hi}
<1>1. n \in Nat /\ n # 0
  BY FS_CardinalityType, FS_EmptySet
<1>2. (n + 1) \div 2 \in 1..n /\ n \div 2 + 1 \in 1..n
  BY <1>1
<1>3. /\ \E s \in S : lo = seedOut[s].fmax
      /\ Cardinality(Below(S, lo)) < (n + 1) \div 2
      /\ (n + 1) \div 2 <= Cardinality(UpTo(S, lo))
  BY <1>2, KthIsThere
<1>4. /\ \E s \in S : hi = seedOut[s].fmax
      /\ Cardinality(Below(S, hi)) < n \div 2 + 1
      /\ n \div 2 + 1 <= Cardinality(UpTo(S, hi))
  BY <1>2, KthIsThere
<1> HIDE DEF lo, hi
<1>5. lo \in Nat /\ hi \in Nat
  BY <1>3, <1>4
<1>6. \A f : /\ UpTo(S, f) \in SUBSET S /\ Below(S, f) \in SUBSET S
            /\ IsFiniteSet(Below(S, f)) /\ Cardinality(Below(S, f)) \in Nat
            /\ Cardinality(UpTo(S, f)) \in Nat
  <2> TAKE f
  <2>1. UpTo(S, f) \in SUBSET S /\ Below(S, f) \in SUBSET S
    BY DEF UpTo, Below
  <2> QED  BY <2>1, FS_Subset, FS_CardinalityType
<1>7. /\ up \in SUBSET S /\ down \in SUBSET S
      /\ IsFiniteSet(up) /\ IsFiniteSet(down)
      /\ Cardinality(up) \in Nat /\ Cardinality(down) \in Nat
  <2>1. up \in SUBSET S /\ down \in SUBSET S
    OBVIOUS
  <2> HIDE DEF up, down
  <2> QED  BY <2>1, FS_Subset, FS_CardinalityType
<1>8. lo <= hi
  <2>1. SUFFICES ASSUME hi < lo PROVE FALSE
    BY <1>5
  <2>2. UpTo(S, hi) \in SUBSET Below(S, lo)
    BY <2>1, <1>5 DEF UpTo, Below
  <2>3. Cardinality(UpTo(S, hi)) <= Cardinality(Below(S, lo))
    BY <2>2, <1>6, FS_Subset
  <2> QED  BY <2>3, <1>1, <1>3, <1>4, <1>6
<1>9. 2 * Cardinality(down) >= n
  <2>1. UpTo(S, lo) \in SUBSET down
    BY <1>5, <1>8 DEF UpTo
  <2>2. Cardinality(UpTo(S, lo)) <= Cardinality(down)
    BY <2>1, <1>7, FS_Subset
  <2> QED  BY <2>2, <1>1, <1>3, <1>6, <1>7
<1>10. 2 * Cardinality(up) >= n
  <2> DEFINE rest == S \ Below(S, hi)
  <2>1. rest \in SUBSET up
    BY <1>5, <1>8 DEF Below
  <2>2. /\ Cardinality(rest) = n - Cardinality(S \cap Below(S, hi))
        /\ Cardinality(rest) <= Cardinality(up)
    BY <2>1, <1>7, FS_Subset, FS_Difference
  <2>3. S \cap Below(S, hi) = Below(S, hi)
    BY <1>6
  <2>4. Cardinality(rest) = n - Cardinality(Below(S, hi))
    BY <2>2, <2>3
  <2> HIDE DEF rest, up
  <2> QED  BY <2>2, <2>4, <1>1, <1>4, <1>6, <1>7
<1>11. ASSUME n = 2, NEW s \in S, NEW t \in S, s # t
       PROVE  lo + hi = seedOut[s].fmax + seedOut[t].fmax
  <2>1. S = {s, t}
    <3>1. IsFiniteSet({s, t}) /\ Cardinality({s, t}) = 2
      <4>1. IsFiniteSet({s}) /\ Cardinality({s}) = 1
        BY FS_Singleton
      <4>2. /\ IsFiniteSet({s} \cup {t})
            /\ Cardinality({s} \cup {t}) =
                 IF t \in {s} THEN Cardinality({s}) ELSE Cardinality({s}) + 1
        BY <4>1, FS_AddElement
      <4>3. {s, t} = {s} \cup {t} /\ t \notin {s}
        BY <1>11
      <4> QED  BY <4>1, <4>2, <4>3
    <3> QED  BY <3>1, <1>11, FS_Subset
  <2>2. Below(S, lo) = {}
    <3>1. Cardinality(Below(S, lo)) = 0
      BY <1>3, <1>6, <1>11
    <3> QED  BY <3>1, <1>6, FS_EmptySet
  <2>3. UpTo(S, hi) = S
    <3>1. Cardinality(UpTo(S, hi)) = 2
      <4>1. Cardinality(UpTo(S, hi)) <= 2
        BY <1>6, <1>11, FS_Subset
      <4> QED  BY <4>1, <1>4, <1>6, <1>11
    <3> QED  BY <3>1, <1>6, <1>11, FS_Subset
  <2>4. lo <= seedOut[s].fmax /\ lo <= seedOut[t].fmax
    BY <2>2, <1>5 DEF Below
  <2>5. seedOut[s].fmax <= hi /\ seedOut[t].fmax <= hi
    BY <2>3 DEF UpTo
  <2> QED  BY <2>1, <2>4, <2>5, <1>3, <1>4, <1>5
<1> HIDE DEF up, down
<1>12. Median2(S) = lo + hi
  BY DEF Median2, lo, hi
<1> QED  BY <1>9, <1>10, <1>11, <1>12 DEF up, down

(* The median is that of the seeds that placed, from the join to the end. *)
MedianInv ==
  stage = "ipc" \/ outcome = "measured" =>
    /\ fmax2 = Median2(Successful)
    /\ Cardinality(Successful) >= MinSuccessful
    /\ \A s \in Seed : seedOut[s] # None

LEMMA NextMedianInv == IInv /\ MedianInv /\ [Next]_vars => MedianInv'
<1> SUFFICES ASSUME IInv, MedianInv, [Next]_vars PROVE MedianInv'
  OBVIOUS
<1>1. ASSUME seedOut' = seedOut
      PROVE  Successful' = Successful /\ Median2(Successful)' = Median2(Successful)
  BY <1>1 DEF Successful, Placed, Median2, Kth
<1>2. CASE JoinSeeds
  <2>1. seedOut' = seedOut /\ outcome # "measured"
    BY <1>2, EvaluationAssumption DEF IInv, Typed, JoinSeeds
  <2>2. CASE stage' = "ipc"
    <3>1. /\ ~ (Cardinality(Successful) < MinSuccessful)
          /\ fmax2' = Median2(Successful)
      BY <1>2, <2>2 DEF JoinSeeds, Pass
    <3>2. (Cardinality(Successful) >= MinSuccessful)'
          /\ (\A s \in Seed : seedOut[s] # None)'
      BY <2>2, NextIInv DEF IInv, Found
    <3> QED  BY <1>1, <2>1, <3>1, <3>2 DEF MedianInv
  <2>3. CASE stage' # "ipc"
    <3>1. outcome' # "measured"
      BY <1>2, <2>1, <2>3 DEF JoinSeeds, Pass
    <3> QED  BY <2>3, <3>1 DEF MedianInv
  <2> QED  BY <2>2, <2>3
<1>3. CASE CoreMarkIpc
  <2>1. seedOut' = seedOut /\ fmax2' = fmax2 /\ stage = "ipc"
    BY <1>3 DEF CoreMarkIpc, place
  <2> QED  BY <1>1, <2>1 DEF MedianInv
<1>4. ASSUME NEW s \in Seed, SeedEnds(s) PROVE MedianInv'
  BY <1>4, EvaluationAssumption
     DEF IInv, Typed, Joined, SeedEnds, MedianInv
<1>5. CASE \/ Purge \/ Lint \/ Synth \/ NretRaises \/ MakeBench \/ BuildSim
           \/ Precheck \/ Formal \/ StartTraces \/ JoinTraces \/ CoreMarkCrc
           \/ StartSeeds
  <2>1. stage # "over" /\ stage # "ipc" /\ stage' # "ipc"
    BY <1>5 DEF Purge, Lint, Synth, NretRaises, MakeBench, BuildSim, Precheck,
                Formal, StartTraces, JoinTraces, CoreMarkCrc, StartSeeds,
                Makes, Fail, Pass
  <2>2. outcome' # "measured"
    BY <1>5, <2>1, EvaluationAssumption
       DEF IInv, Typed, Purge, Lint, Synth, NretRaises, MakeBench, BuildSim,
           Precheck, Formal, StartTraces, JoinTraces, CoreMarkCrc, StartSeeds,
           Makes, Fail, Pass
  <2> QED  BY <2>1, <2>2 DEF MedianInv
<1>6. ASSUME NEW e \in TraceElf, TraceEnds(e) PROVE MedianInv'
  <2>1. seedOut' = seedOut /\ fmax2' = fmax2 /\ stage' = stage
        /\ outcome' = outcome
    BY <1>6 DEF TraceEnds, place
  <2> QED  BY <1>1, <2>1 DEF MedianInv
<1>7. CASE UNCHANGED vars
  <2>1. seedOut' = seedOut /\ fmax2' = fmax2 /\ stage' = stage
        /\ outcome' = outcome
    BY <1>7 DEF vars, place
  <2> QED  BY <1>1, <2>1 DEF MedianInv
<1> QED  BY <1>2, <1>3, <1>4, <1>5, <1>6, <1>7 DEF Next

LEMMA MedianInvIsFair == IInv /\ MedianInv => MedianIsFair
<1> SUFFICES ASSUME IInv, MedianInv, outcome = "measured" PROVE MedianIsFair
  BY DEF MedianIsFair
<1>1. Successful = {s \in Seed : seedOut[s].ok /\ seedOut[s].fmax # None}
  BY DEF MedianInv, Successful, Placed
<1>2. IsFiniteSet(Successful) /\ Cardinality(Successful) \in Nat
  BY EvaluationAssumption, FS_Subset, FS_CardinalityType DEF Successful
<1>3. Successful # {}
  BY <1>2, EvaluationAssumption, FS_EmptySet DEF MedianInv
<1>4. \A s \in Successful : seedOut[s].fmax \in Nat
  BY EvaluationAssumption
     DEF IInv, Typed, SeedResult, Successful, Placed
<1>5. fmax2 = Median2(Successful)
  BY DEF MedianInv
<1> QED  BY <1>1, <1>2, <1>3, <1>4, <1>5, MedianHalves DEF MedianIsFair

(* Whichever seeds place, the fitness rests on their true median           *)
(* (statistics.median over all_fmax), for any frequencies.                 *)
THEOREM EvaluationMedianIsFair == Spec => []MedianIsFair
<1>1. Init => MedianInv
  BY EvaluationAssumption DEF Init, MedianInv
<1> QED  BY <1>1, EvaluationIInv, NextMedianInv, MedianInvIsFair, PTL DEF Spec

===============================================================================
