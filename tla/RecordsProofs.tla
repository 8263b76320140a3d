---------------------------- MODULE RecordsProofs ----------------------------
(***************************************************************************)
(* A tournament that leaves its records is a tournament, and what the      *)
(* benchmark makes of the records agrees with the journal: the one it      *)
(* harvests has every line, and the numbers of a first run are those of    *)
(* whole rounds of it, for any number of slots, any designs with a fitness *)
(* and any mix of faults.                                                  *)
(***************************************************************************)
EXTENDS Records, TournamentProofs

(* A design that passed its gates ran CoreMark to the end in at most 50    *)
(* million cycles, so only a clock far below 1 MHz rounds to a fitness     *)
(* of 0, which write_run_summary() would take for none.                    *)
PositiveFitness == \A d \in InitialDesigns \cup Designs : d.perf # 0

-----------------------------------------------------------------------------
(* The inductive invariants.                                               *)

(* Every commit of a line made HEAD one line longer, at least. *)
CommitsInv ==
  /\ commits \in Seq([id : Id \cup {None}, line : LogLine])
  /\ Len(commits) <= Len(committed)
  /\ pc \in {"baseline", "commit"} => Len(committed) < Len(log)

(* The slots have outcomes once they are joined, and so has every line;    *)
(* the first line is the baseline's.                                       *)
OutcomeInv ==
  /\ \A s \in Slot : slot[s].at = "returned" => slot[s].outcome # "none"
  /\ pc \in Settled => \A s \in Slot : slot[s].at = "returned"
  /\ \A i \in 1..Len(log) : log[i].outcome # "none"
  /\ log # <<>> => log[1].round = 0

(* The lines that the current round has written. *)
Written ==
  IF pc = "journal" THEN cursor
  ELSE IF pc \in {"commit", "unlink"} THEN cursor + 1 ELSE 0

(* The baseline and n whole rounds. *)
WholeRounds(n) == \E k \in Nat : n = 1 + k * TournamentSize

(* The summary of the first n lines. *)
TellsOf(n) == numbers = Summarized(SubSeq(log, 1, n))

(* A first run throws no line away, and writes its numbers between rounds. *)
FirstRunInv ==
  /\ due => pc = "idle"
  /\ exited = "ok" => pc = "down" /\ log # <<>> /\ TellsOf(Len(log))
  /\ starts = 0 => pc = "down" /\ log = <<>> /\ numbers = Absent
  /\ starts = 1 =>
       /\ pc \notin {"down", "baseline", "commit"} => log = committed
       /\ pc \notin {"down", "boot", "baseline"} => WholeRounds(Len(log) - Written)
       /\ pc \in {"boot", "baseline"} =>
            /\ numbers = Absent
            /\ log # <<>> => Len(log) = 1
       /\ numbers \notin {Absent, Torn} =>
            \E n \in 1..Len(log) : TellsOf(n) /\ WholeRounds(n)

-----------------------------------------------------------------------------
(* The tournament underneath.                                              *)

(* Each step of the orchestrator with its records is one of the tournament *)
(* or writes records only.                                                 *)
LEMMA StepsOfTournament == [RecordsNext]_allVars => [Next]_vars
<1>1. ASSUME RecordsNext PROVE [Next]_vars
  BY <1>1 DEF RecordsNext, Begin, Commit, BeginRound, CloseEntry, WriteSummary, Exit,
              Join, Die, GoOn, Next, MainStep
<1>2. ASSUME UNCHANGED allVars PROVE UNCHANGED vars
  BY <1>2 DEF allVars
<1> QED  BY <1>1, <1>2

(* Leaving records changes nothing of the tournament, so what is proved of *)
(* the tournament holds beside them (tools/orchestrator.py, main).         *)
THEOREM RecordsRunTournament == RecordsSpec => Spec
<1>1. RecordsInit => Init
  BY DEF RecordsInit
<1> QED  BY <1>1, StepsOfTournament, PTL DEF RecordsSpec, Spec

-----------------------------------------------------------------------------
(* Counting rounds.                                                        *)

LEMMA OneIsWhole == WholeRounds(1)
<1>1. 1 = 1 + 0 * TournamentSize
  BY TournamentAssumption
<1> QED  BY <1>1 DEF WholeRounds

LEMMA OneRoundMore ==
  ASSUME NEW n \in Int, WholeRounds(n)
  PROVE  WholeRounds(n + TournamentSize)
<1>1. PICK k \in Nat : n = 1 + k * TournamentSize
  BY DEF WholeRounds
<1>2. (k + 1) * TournamentSize = k * TournamentSize + TournamentSize
  BY TournamentAssumption
<1>3. n + TournamentSize = 1 + (k + 1) * TournamentSize /\ k + 1 \in Nat
  BY <1>1, <1>2, TournamentAssumption
<1> QED  BY <1>3 DEF WholeRounds

LEMMA WholeRoundsDivide ==
  ASSUME NEW n \in Int, WholeRounds(n)
  PROVE  (n - 1) % TournamentSize = 0
<1>1. PICK k \in Nat : n = 1 + k * TournamentSize
  BY DEF WholeRounds
<1>2. (k * TournamentSize) % TournamentSize = 0
  BY TournamentAssumption
<1>3. n - 1 = k * TournamentSize
  BY <1>1, TournamentAssumption
<1> QED  BY <1>2, <1>3

-----------------------------------------------------------------------------
(* The harvest.                                                            *)

(* Only a commit moves HEAD, and only a new line waits for one. *)
LEMMA WaitingForCommit ==
  ASSUME [RecordsNext]_allVars, ~Commit
  PROVE  /\ UNCHANGED <<commits, committed>>
         /\ pc' \in {"baseline", "commit"} => Baseline \/ WriteLine \/ UNCHANGED <<pc, log>>
<1>1. CASE Begin \/ BeginRound \/ Join \/ Exit
  BY <1>1 DEF Begin, BeginRound, Join, Exit, Start, StartRound, Collect, Finish, files,
              recordVars
<1>2. CASE CloseEntry
  BY <1>2 DEF CloseEntry, UnlinkHypothesis
<1>3. CASE WriteSummary \/ UNCHANGED allVars
  BY <1>3 DEF WriteSummary, vars, files, main, allVars, recordVars
<1>4. CASE Die
  BY <1>4 DEF Die, BaselineFails, CommitFails, Kill, files
<1>5. CASE GoOn
  <2>1. UNCHANGED commits
    BY <1>5 DEF GoOn, recordVars
  <2>2. CASE Baseline \/ WriteLine \/ NumberRounds
    BY <2>1, <2>2 DEF Baseline, WriteLine, NumberRounds, files
  <2>3. CASE ResetCheckout \/ MergeWinner \/ ReclaimWinner \/ MergeFails \/ RetireLoser
    BY <2>1, <2>3 DEF ResetCheckout, MergeWinner, ReclaimWinner, MergeFails, RetireLoser,
                      Advance, files
  <2>4. ASSUME NEW s \in Slot, SlotStep(s) PROVE UNCHANGED <<committed, pc, log>>
    BY <2>4 DEF SlotStep, Propose, ProposalFails, CreateWorktree, RaiseFromSlot, Evaluate,
                files, main
  <2> QED  BY <1>5, <2>1, <2>2, <2>3, <2>4 DEF GoOn
<1> QED  BY <1>1, <1>2, <1>3, <1>4, <1>5 DEF RecordsNext

LEMMA NextCommitsInv ==
  ASSUME IInv, OrderInv, CommitsInv, [RecordsNext]_allVars
  PROVE  CommitsInv'
<1>0. /\ log \in Seq(LogLine) /\ committed \in Seq(LogLine)
      /\ Len(committed) <= Len(log) /\ Len(committed) \in Nat /\ Len(log) \in Nat
      /\ Len(commits) \in Nat
  BY PrefixLines DEF IInv, TypeOK, OrderInv, CommitsInv
<1>1. CASE Commit
  <2> DEFINE c == [id   |-> IF pc = "baseline" THEN None ELSE slot[cursor].id,
                   line |-> log[Len(log)]]
  <2>1. pc \in {"baseline", "commit"} /\ pc' \notin {"baseline", "commit"} /\ committed' = log
    BY <1>1 DEF Commit, CommitBaseline, CommitLine
  <2>2. log[Len(log)] \in LogLine
    BY <1>0, <2>1 DEF CommitsInv
  <2>3. c \in [id : Id \cup {None}, line : LogLine]
    <3>1. slot[cursor].id \in Id \cup {None}
      BY DEF IInv, TypeOK, SlotState
    <3> QED  BY <2>2, <3>1
  <2>4. commits' = Append(commits, c)
    BY <1>1 DEF Commit
  <2> HIDE DEF c
  <2>5. Len(commits') = Len(commits) + 1 /\ commits' \in Seq([id : Id \cup {None}, line : LogLine])
    BY <2>3, <2>4 DEF CommitsInv
  <2> QED  BY <1>0, <2>1, <2>5 DEF CommitsInv
<1>2. CASE ~Commit
  <2>1. UNCHANGED <<commits, committed>>
    BY <1>2, WaitingForCommit
  <2>2. CASE Baseline
    <3>1. log = <<>> /\ Len(log') = 1
      BY <2>2 DEF Baseline
    <3> QED  BY <1>0, <2>1, <3>1 DEF CommitsInv
  <2>3. CASE WriteLine
    <3>1. log' = Append(log, Line(round, cursor, slot[cursor].outcome, slot[cursor].design))
      BY <2>3 DEF WriteLine, Journalled
    <3>2. Len(log') = Len(log) + 1
      BY <1>0, <3>1
    <3> QED  BY <1>0, <2>1, <3>2 DEF CommitsInv
  <2> QED  BY <1>2, <2>1, <2>2, <2>3, WaitingForCommit DEF CommitsInv
<1> QED  BY <1>1, <1>2

LEMMA IntervalSize ==
  ASSUME NEW n \in Nat
  PROVE  IsFiniteSet(1..n) /\ Cardinality(1..n) = n
<1>1. IsFiniteSet(1..n) /\ Cardinality(1..n) = IF 1 > n THEN 0 ELSE n - 1 + 1
  BY FS_Interval
<1> QED  BY <1>1

(* What is harvested is the journal itself, as the commits are never more  *)
(* than its lines.                                                         *)
LEMMA HarvestIsLog ==
  ASSUME IInv, OrderInv, CommitsInv
  PROVE  Harvested = log
<1>1. /\ log \in Seq(LogLine) /\ committed \in Seq(LogLine)
      /\ Len(committed) <= Len(log) /\ Len(committed) \in Nat /\ Len(log) \in Nat
      /\ Len(commits) \in Nat /\ DOMAIN commits = 1..Len(commits)
  BY PrefixLines DEF IInv, TypeOK, OrderInv, CommitsInv
<1>2. Newest \subseteq 1..Len(commits)
  BY <1>1 DEF Newest
<1>3. IsFiniteSet(1..Len(commits)) /\ Cardinality(1..Len(commits)) = Len(commits)
  <2> DEFINE n == Len(commits)
  <2>1. n \in Nat
    BY <1>1
  <2> HIDE DEF n
  <2>2. IsFiniteSet(1..n) /\ Cardinality(1..n) = n
    BY <2>1, IntervalSize
  <2> QED  BY <2>2 DEF n
<1>4. Cardinality(Newest) <= Len(commits) /\ Cardinality(Newest) \in Nat
  BY <1>2, <1>3, FS_Subset, FS_CardinalityType
<1> QED  BY <1>1, <1>4 DEF Harvested, CommitsInv

(* Wherever the orchestrator died, the journal that goes into the rep      *)
(* directory has every line that is on disk or at HEAD, in order           *)
(* (run_one_job and reconstruct_log_from_git).                             *)
THEOREM RecordsHarvestIsComplete == RecordsSpec => []HarvestIsComplete
<1>1. RecordsInit => CommitsInv
  BY DEF RecordsInit, Init, CommitsInv
<1>2. IInv /\ OrderInv /\ CommitsInv => HarvestIsComplete
  <2> SUFFICES ASSUME IInv, OrderInv, CommitsInv
               PROVE  IsPrefix(log, Harvested) /\ IsPrefix(committed, Harvested)
    BY DEF HarvestIsComplete
  <2> QED  BY HarvestIsLog, PrefixOfSelf DEF IInv, TypeOK, OrderInv
<1>3. RecordsSpec => [](IInv /\ OrderInv)
  BY RecordsRunTournament, TournamentIInv, AlwaysOrder, PTL
<1> QED  BY <1>1, <1>2, <1>3, NextCommitsInv, PTL DEF RecordsSpec

-----------------------------------------------------------------------------
(* Outcomes.                                                               *)

LEMMA SlotStepOutcomes ==
  ASSUME IInv, OutcomeInv, NEW s \in Slot, SlotStep(s)
  PROVE  OutcomeInv'
<1>0. pc = "slots" /\ UNCHANGED <<pc, log>>
  BY DEF SlotStep, Propose, ProposalFails, CreateWorktree, RaiseFromSlot, Evaluate, files, main
<1>1. /\ \A t \in Slot \ {s} : slot'[t] = slot[t]
      /\ slot'[s].at = "returned" => slot'[s].outcome # "none"
  <2> USE DEF IInv, TypeOK, SlotAt
  <2>1. CASE Propose(s) \/ CreateWorktree(s) \/ RaiseFromSlot(s)
    BY <2>1 DEF Propose, CreateWorktree, RaiseFromSlot
  <2>2. CASE ProposalFails(s)
    BY <2>2 DEF ProposalFails, Returned
  <2>3. CASE Evaluate(s)
    BY <2>3 DEF Evaluate, Returned
  <2> QED  BY <2>1, <2>2, <2>3 DEF SlotStep
<1> QED  BY <1>0, <1>1 DEF OutcomeInv, Settled

LEMMA AcceptOutcomes ==
  ASSUME IInv, OrderInv, OutcomeInv,
         ResetCheckout \/ MergeWinner \/ ReclaimWinner \/ MergeFails \/ RetireLoser
  PROVE  OutcomeInv'
<1>1. pc \in Settled /\ log' \in {log, committed} /\ (log' = committed => committed # <<>> \/ log' = log)
  BY DEF ResetCheckout, MergeWinner, ReclaimWinner, MergeFails, RetireLoser,
         Reset, files, Settled
<1>2. ASSUME NEW t \in Slot
      PROVE  slot'[t].at = "returned" /\ slot'[t].outcome # "none"
  <2>1. slot[t].at = "returned" /\ slot[t].outcome # "none"
    BY <1>1 DEF OutcomeInv
  <2>2. CASE ResetCheckout \/ MergeFails
    BY <2>1, <2>2 DEF ResetCheckout, MergeFails, Downgraded, Returned, SlotAt, IInv, TypeOK
  <2>3. CASE MergeWinner \/ ReclaimWinner \/ RetireLoser
    BY <2>1, <2>3 DEF MergeWinner, ReclaimWinner, RetireLoser
  <2> QED  BY <2>2, <2>3
<1>3. /\ log \in Seq(LogLine) /\ committed \in Seq(LogLine)
      /\ Len(committed) <= Len(log) /\ \A i \in 1..Len(committed) : committed[i] = log[i]
  BY PrefixLines DEF IInv, TypeOK, OrderInv
<1>4. /\ \A i \in 1..Len(log') : log'[i].outcome # "none"
      /\ log' # <<>> => log'[1].round = 0
  <2>1. CASE log' = log
    BY <2>1 DEF OutcomeInv
  <2>2. CASE log' = committed
    <3>1. \A i \in 1..Len(committed) : i \in 1..Len(log)
      BY <1>3
    <3>2. committed # <<>> => 1 \in 1..Len(committed) /\ log # <<>>
      BY <1>3
    <3> QED  BY <1>3, <2>2, <3>1, <3>2 DEF OutcomeInv
  <2> QED  BY <1>1, <2>1, <2>2
<1> QED  BY <1>2, <1>4 DEF OutcomeInv

LEMMA JournalOutcomes ==
  ASSUME IInv, OutcomeInv, WriteLine \/ CommitLine \/ UnlinkHypothesis
  PROVE  OutcomeInv'
<1>1. CASE WriteLine
  <2> DEFINE line == Line(round, cursor, slot[cursor].outcome, slot[cursor].design)
  <2>1. log' = Append(log, line) /\ UNCHANGED slot /\ pc \in Settled
    BY <1>1 DEF WriteLine, Journalled, Settled
  <2>2. line.outcome # "none"
    BY <2>1 DEF Line, OutcomeInv, IInv, TypeOK
  <2> HIDE DEF line
  <2>3. /\ log # <<>> /\ log \in Seq(LogLine) /\ Len(log') = Len(log) + 1
        /\ log'[Len(log) + 1] = line /\ \A i \in 1..Len(log) : log'[i] = log[i]
    BY <1>1, <2>1 DEF WriteLine, IInv, TypeOK, JournalShape
  <2>4. \A i \in 1..Len(log') : log'[i].outcome # "none"
    BY <2>2, <2>3 DEF OutcomeInv
  <2>5. log'[1].round = 0
    BY <2>3 DEF OutcomeInv
  <2> QED  BY <2>1, <2>4, <2>5 DEF OutcomeInv
<1>2. CASE CommitLine
  BY <1>2 DEF CommitLine, OutcomeInv, Settled
<1>3. CASE UnlinkHypothesis
  BY <1>3 DEF UnlinkHypothesis, OutcomeInv, NoSlot, SlotAt, Settled
<1> QED  BY <1>1, <1>2, <1>3

LEMMA NextOutcomeInv ==
  ASSUME IInv, OrderInv, OutcomeInv, [Next]_vars
  PROVE  OutcomeInv'
<1>1. CASE Kill \/ BaselineFails \/ Finish \/ CommitFails
  BY <1>1 DEF Kill, BaselineFails, Finish, CommitFails, Forget, files, NoSlot, SlotAt,
              OutcomeInv, Settled
<1>2. CASE Start \/ CommitBaseline \/ NumberRounds \/ StartRound
  BY <1>2 DEF Start, CommitBaseline, NumberRounds, StartRound, files, SlotAt, OutcomeInv, Settled
<1>3. CASE Baseline
  <2>1. log' = <<Line(0, 0, "improvement", tip)>> /\ pc' = "baseline" /\ UNCHANGED slot
    BY <1>3 DEF Baseline
  <2>2. /\ \A i \in 1..Len(log') : log'[i].outcome # "none"
        /\ log'[1].round = 0
    BY <2>1 DEF Line
  <2> QED  BY <2>1, <2>2 DEF OutcomeInv, Settled
<1>4. CASE Collect
  BY <1>4 DEF Collect, Forget, files, NoSlot, SlotAt, OutcomeInv, Settled
<1>5. CASE UNCHANGED vars
  BY <1>5 DEF vars, files, main, OutcomeInv
<1> QED  BY <1>1, <1>2, <1>3, <1>4, <1>5, SlotStepOutcomes, AcceptOutcomes, JournalOutcomes
         DEF Next, MainStep

-----------------------------------------------------------------------------
(* The numbers of a first run.                                             *)

LEMMA SubSeqOfAppend ==
  ASSUME NEW lines \in Seq(LogLine), NEW l \in LogLine, NEW n \in 1..Len(lines)
  PROVE  SubSeq(Append(lines, l), 1, n) = SubSeq(lines, 1, n)
OBVIOUS

LEMMA SubSeqOfAll ==
  ASSUME NEW lines \in Seq(LogLine)
  PROVE  SubSeq(lines, 1, Len(lines)) = lines
OBVIOUS

LEMMA BeginNumbers ==
  ASSUME IInv, OrderInv, FirstRunInv, Begin
  PROVE  FirstRunInv'
<1>1. /\ pc = "down" /\ pc' = "boot" /\ starts \in Nat /\ starts' = starts + 1
      /\ exited' = "no" /\ UNCHANGED <<log, committed, numbers, due>>
  BY DEF Begin, Start, files, IInv, TypeOK
<1>2. log = <<>> => committed = <<>>
  <2>1. committed \in Seq(LogLine) /\ log \in Seq(LogLine)
    BY DEF IInv, TypeOK
  <2>2. Len(committed) <= Len(log)
    BY <2>1, PrefixLines DEF OrderInv
  <2> QED  BY <2>1, <2>2
<1> QED  BY <1>1, <1>2 DEF FirstRunInv

(* A step within a run that leaves the lines alone, and the numbers unless *)
(* it tears them.                                                          *)
LEMMA FirstRunKept ==
  ASSUME FirstRunInv, pc # "down", UNCHANGED <<log, starts>>,
         numbers' \in {numbers, Torn}, exited' # "ok", due' => pc' = "idle",
         starts = 1 =>
           /\ pc' \notin {"down", "baseline", "commit"} => log' = committed'
           /\ pc' \notin {"down", "boot", "baseline"} => WholeRounds(Len(log) - Written')
           /\ pc' \in {"boot", "baseline"} => numbers' = Absent /\ (log # <<>> => Len(log) = 1)
  PROVE  FirstRunInv'
<1>1. starts # 0
  BY DEF FirstRunInv
<1>2. ASSUME starts = 1, numbers' \notin {Absent, Torn}
      PROVE  \E n \in 1..Len(log') : TellsOf(n)' /\ WholeRounds(n)
  BY <1>2 DEF FirstRunInv, TellsOf
<1>3. WholeRounds(Len(log) - Written') <=> WholeRounds(Len(log) - Written)'
  BY DEF WholeRounds
<1> QED  BY <1>1, <1>2, <1>3 DEF FirstRunInv, WholeRounds

LEMMA RoundNumbers ==
  ASSUME IInv, FirstRunInv, Commit \/ BeginRound \/ CloseEntry \/ Join \/ Die
  PROVE  FirstRunInv'
<1>0. /\ TournamentSize \in Int /\ cursor \in Int /\ log \in Seq(LogLine)
      /\ pc # "down" => exited # "ok"
      /\ due => pc = "idle"
  BY TournamentAssumption DEF IInv, TypeOK, Slot, FirstRunInv
<1>1. CASE Commit
  <2>1. CASE CommitBaseline
    <3>1. /\ pc = "baseline" /\ pc' = "boot" /\ committed' = log
          /\ UNCHANGED <<log, starts, numbers, due, exited>>
      BY <1>1, <2>1 DEF Commit, CommitBaseline
    <3> QED  BY <1>0, <3>1, FirstRunKept DEF FirstRunInv
  <2>2. CASE CommitLine
    <3>1. /\ pc = "commit" /\ pc' = "unlink" /\ committed' = log
          /\ UNCHANGED <<log, starts, cursor, numbers, due, exited>>
      BY <1>1, <2>2 DEF Commit, CommitLine
    <3>2. Written' = Written
      BY <3>1 DEF Written
    <3> QED  BY <1>0, <3>1, <3>2, FirstRunKept DEF FirstRunInv
  <2> QED  BY <1>1, <2>1, <2>2 DEF Commit
<1>2. CASE BeginRound
  <2>1. /\ pc = "idle" /\ pc' = "slots" /\ ~due
        /\ UNCHANGED <<log, committed, starts, numbers, due, exited>>
    BY <1>2 DEF BeginRound, StartRound, files, recordVars
  <2>2. Written' = Written
    BY <2>1 DEF Written
  <2> QED  BY <1>0, <2>1, <2>2, FirstRunKept DEF FirstRunInv
<1>3. CASE CloseEntry
  <2>1. /\ pc = "unlink" /\ due' = (pc' = "idle")
        /\ UNCHANGED <<log, committed, starts, numbers, exited>>
    BY <1>3 DEF CloseEntry, UnlinkHypothesis
  <2>2. pc' \in {"journal", "idle"} /\ (starts = 1 => WholeRounds(Len(log) - Written'))
    <3>1. CASE cursor + 1 < TournamentSize
      <4>1. pc' = "journal" /\ cursor' = cursor + 1
        BY <1>3, <3>1 DEF CloseEntry, UnlinkHypothesis
      <4>2. Written' = Written
        BY <2>1, <4>1 DEF Written
      <4> QED  BY <2>1, <4>1, <4>2 DEF FirstRunInv
    <3>2. CASE ~(cursor + 1 < TournamentSize)
      <4>1. pc' = "idle" /\ cursor + 1 = TournamentSize
        BY <1>3, <3>2, TournamentAssumption DEF CloseEntry, UnlinkHypothesis, IInv, TypeOK, Slot
      <4>2. Written' = 0 /\ Written = TournamentSize
        BY <2>1, <4>1 DEF Written
      <4>3. starts = 1 => WholeRounds(Len(log) - TournamentSize)
        BY <2>1, <4>2 DEF FirstRunInv
      <4>4. Len(log) \in Int /\ Len(log) - TournamentSize + TournamentSize = Len(log) - 0
        BY <1>0
      <4>5. starts = 1 => WholeRounds(Len(log) - TournamentSize + TournamentSize)
        BY <1>0, <4>3, <4>4, OneRoundMore
      <4> QED  BY <4>1, <4>2, <4>4, <4>5
    <3> QED  BY <3>1, <3>2
  <2> QED  BY <1>0, <2>1, <2>2, FirstRunKept DEF FirstRunInv
<1>4. CASE Join
  <2>1. /\ pc = "slots" /\ pc' \in {"down", "accept"} /\ exited' \in {"failed", exited}
        /\ UNCHANGED <<log, committed, starts, numbers, due>>
    BY <1>4 DEF Join, Collect, Forget, files
  <2>2. Written' = Written
    BY <2>1 DEF Written
  <2> QED  BY <1>0, <2>1, <2>2, FirstRunKept DEF FirstRunInv
<1>5. CASE Die
  <2>1. /\ pc # "down" /\ pc' = "down" /\ exited' = "failed" /\ due' = FALSE
        /\ numbers' \in {numbers, Torn} /\ UNCHANGED <<log, committed, starts>>
    BY <1>5 DEF Die, BaselineFails, CommitFails, Kill, Forget, files
  <2> QED  BY <1>0, <2>1, FirstRunKept DEF FirstRunInv
<1> QED  BY <1>1, <1>2, <1>3, <1>4, <1>5

LEMMA WrittenNumbers ==
  ASSUME IInv, FirstRunInv, WriteSummary \/ Exit
  PROVE  FirstRunInv'
<1>1. /\ pc = "idle" /\ numbers' = Summarized(log) /\ due' = FALSE
      /\ UNCHANGED <<log, committed, starts>>
      /\ \/ pc' = "idle" /\ exited' = exited
         \/ pc' = "down" /\ exited' = "ok"
  BY DEF WriteSummary, Exit, Finish, Forget, vars, files, main, FirstRunInv
<1>2. log \in Seq(LogLine) /\ log # <<>> /\ SubSeq(log, 1, Len(log)) = log
  BY <1>1, SubSeqOfAll DEF IInv, TypeOK, JournalShape
<1>3. numbers' = Summarized(SubSeq(log, 1, Len(log)))
  BY <1>1, <1>2
<1>4. Len(log) \in 1..Len(log) /\ Written = 0 /\ Written' = 0
  BY <1>1, <1>2 DEF Written
<1>5. starts = 1 => WholeRounds(Len(log))
  <2>1. Len(log) - Written = Len(log)
    BY <1>2, <1>4
  <2> QED  BY <1>1, <2>1 DEF FirstRunInv
<1>6. TellsOf(Len(log))'
  BY <1>1, <1>3 DEF TellsOf
<1>7. starts # 0 /\ exited # "ok"
  BY <1>1 DEF FirstRunInv
<1> DEFINE n == Len(log)
<1>8. n \in 1..Len(log') /\ numbers' = Summarized(SubSeq(log', 1, n))
      /\ (starts = 1 => WholeRounds(n) /\ log' = committed' /\ WholeRounds(Len(log') - Written'))
  BY <1>1, <1>2, <1>3, <1>4, <1>5 DEF FirstRunInv
<1> HIDE DEF n
<1> QED  BY <1>1, <1>2, <1>6, <1>7, <1>8 DEF FirstRunInv, TellsOf, WholeRounds

LEMMA GoOnNumbers ==
  ASSUME IInv, FirstRunInv, GoOn
  PROVE  FirstRunInv'
<1>0. /\ log \in Seq(LogLine) /\ cursor \in Int
      /\ pc # "down" => exited # "ok"
      /\ due => pc = "idle"
      /\ UNCHANGED <<numbers, due, exited>>
  BY DEF IInv, TypeOK, Slot, FirstRunInv, GoOn, recordVars
<1>1. CASE Baseline
  <2>1. /\ pc = "boot" /\ pc' = "baseline" /\ log = <<>> /\ Len(log') = 1 /\ UNCHANGED starts
    BY <1>1 DEF Baseline
  <2>2. starts = 1 => numbers = Absent
    BY <2>1 DEF FirstRunInv
  <2> QED  BY <1>0, <2>1, <2>2 DEF FirstRunInv
<1>2. CASE NumberRounds
  <2>1. /\ pc = "boot" /\ pc' = "idle" /\ log # <<>>
        /\ UNCHANGED <<log, committed, starts>>
    BY <1>2 DEF NumberRounds, files
  <2>2. Written' = 0
    BY <2>1 DEF Written
  <2>3. starts = 1 => WholeRounds(Len(log) - Written')
    <3>1. starts = 1 => Len(log) - Written' = 1
      BY <2>1, <2>2 DEF FirstRunInv
    <3> QED  BY <3>1, OneIsWhole
  <2> QED  BY <1>0, <2>1, <2>3, FirstRunKept DEF FirstRunInv
<1>3. CASE ResetCheckout \/ MergeWinner \/ ReclaimWinner \/ MergeFails \/ RetireLoser
  <2>1. /\ pc \in Accepting /\ pc' \in Accepting \cup {"journal"}
        /\ pc' = "journal" => cursor' = 0
        /\ UNCHANGED <<committed, starts>> /\ log' \in {log, committed}
    BY <1>3 DEF ResetCheckout, MergeWinner, ReclaimWinner, MergeFails, RetireLoser,
                Advance, Reset, files, Accepting
  <2>2. Written = 0 /\ Written' = 0
    BY <2>1 DEF Written, Accepting
  <2>3. CASE UNCHANGED log
    BY <1>0, <2>1, <2>2, <2>3, FirstRunKept DEF FirstRunInv, Accepting
  <2>4. CASE starts # 1
    BY <1>0, <2>1, <2>4 DEF FirstRunInv, Accepting
  <2>5. CASE starts = 1
    <3>1. UNCHANGED log
      BY <2>1, <2>5 DEF FirstRunInv, Accepting
    <3> QED  BY <2>3, <3>1
  <2> QED  BY <2>4, <2>5
<1>4. CASE WriteLine
  <2> DEFINE line == Line(round, cursor, slot[cursor].outcome, slot[cursor].design)
  <2>1. /\ pc = "journal" /\ pc' = "commit" /\ log' = Append(log, line)
        /\ UNCHANGED <<cursor, starts>>
    BY <1>4 DEF WriteLine, Journalled
  <2>2. line \in LogLine
    <3>1. round \in 0..MaxRound
      BY <2>1, TournamentAssumption DEF IInv, RoundShape, TypeOK, Settled, Accepting
    <3>2. cursor \in Slot /\ slot[cursor] \in SlotState
      BY DEF IInv, TypeOK
    <3> QED  BY <3>1, <3>2, TournamentAssumption DEF IInv, TypeOK, Line, LogLine, SlotState
  <2> HIDE DEF line
  <2>3. Len(log') = Len(log) + 1 /\ Len(log) \in Nat
    BY <1>0, <2>1, <2>2
  <2>4. ASSUME starts = 1 PROVE WholeRounds(Len(log') - Written')
    <3>1. Len(log') - Written' = Len(log) - Written
      BY <1>0, <2>1, <2>3 DEF Written
    <3>2. WholeRounds(Len(log) - Written)
      BY <2>1, <2>4 DEF FirstRunInv
    <3> QED  BY <3>1, <3>2
  <2>5. ASSUME starts = 1, numbers \notin {Absent, Torn}
        PROVE  \E n \in 1..Len(log') : TellsOf(n)' /\ WholeRounds(n)
    <3>1. PICK n \in 1..Len(log) : TellsOf(n) /\ WholeRounds(n)
      BY <2>5 DEF FirstRunInv
    <3>2. SubSeq(log', 1, n) = SubSeq(log, 1, n)
      BY <1>0, <2>1, <2>2, SubSeqOfAppend
    <3>3. n \in 1..Len(log')
      BY <2>3
    <3>4. TellsOf(n)'
      <4>1. numbers = Summarized(SubSeq(log, 1, n))
        BY <3>1 DEF TellsOf
      <4>2. numbers' = Summarized(SubSeq(log', 1, n))
        BY <1>0, <3>2, <4>1
      <4> QED  BY <4>2 DEF TellsOf
    <3> QED  BY <3>1, <3>3, <3>4
  <2>6. starts # 0
    BY <2>1 DEF FirstRunInv
  <2> QED  BY <1>0, <2>1, <2>4, <2>5, <2>6 DEF FirstRunInv, WholeRounds
<1>5. ASSUME NEW s \in Slot, SlotStep(s)
      PROVE  FirstRunInv'
  <2>1. pc = "slots" /\ UNCHANGED <<pc, log, committed, starts>>
    BY <1>5 DEF SlotStep, Propose, ProposalFails, CreateWorktree, RaiseFromSlot, Evaluate,
                files, main
  <2>2. Written' = Written
    BY <2>1 DEF Written
  <2> QED  BY <1>0, <2>1, <2>2, FirstRunKept DEF FirstRunInv
<1> QED  BY <1>1, <1>2, <1>3, <1>4, <1>5 DEF GoOn

LEMMA NextFirstRunInv ==
  ASSUME IInv, OrderInv, FirstRunInv, [RecordsNext]_allVars
  PROVE  FirstRunInv'
<1>1. CASE UNCHANGED allVars
  BY <1>1 DEF allVars, recordVars, vars, files, main, FirstRunInv, TellsOf, Written
<1> QED  BY <1>1, BeginNumbers, RoundNumbers, WrittenNumbers, GoOnNumbers DEF RecordsNext

-----------------------------------------------------------------------------
(* What a summary says of lines.                                           *)

(* Lines as the tournament leaves them: the baseline first, a fitness with *)
(* each improvement, and an outcome to every line.                         *)
Journal(lines) ==
  /\ lines \in Seq(LogLine) /\ lines # <<>>
  /\ lines[1].outcome = "improvement" /\ lines[1].round = 0
  /\ \A i \in 1..Len(lines) : lines[i].outcome # "none"
  /\ \A i \in Improvements(lines) : lines[i].design # None

LEMMA FitnessOfLine ==
  ASSUME PositiveFitness, NEW lines \in Seq(LogLine), NEW i \in 1..Len(lines),
         lines[i].design # None
  PROVE  lines[i].design.perf \in Nat /\ i \in WithFitness(lines)
<1>1. lines[i] \in LogLine
  OBVIOUS
<1>2. lines[i].design \in InitialDesigns \cup Designs
  BY <1>1 DEF LogLine
<1>3. lines[i].design.perf \in Nat /\ lines[i].design.perf # 0
  BY <1>2, TournamentAssumption DEF PositiveFitness, Candidate
<1> QED  BY <1>3 DEF WithFitness

LEMMA ImprovementsCount ==
  ASSUME PositiveFitness, NEW lines, Journal(lines)
  PROVE  /\ WithFitness(lines) \cap Improvements(lines) = Improvements(lines)
         /\ 1 \in Improvements(lines)
         /\ WithFitness(lines) \subseteq 1..Len(lines)
         /\ \A i \in WithFitness(lines) : lines[i].design.perf \in Nat
<1>1. \A i \in Improvements(lines) : i \in 1..Len(lines) /\ lines[i].design # None
  BY DEF Journal, Improvements
<1>2. WithFitness(lines) \cap Improvements(lines) = Improvements(lines)
  BY <1>1, FitnessOfLine DEF Journal
<1>3. \A i \in WithFitness(lines) : i \in 1..Len(lines) /\ lines[i].design # None
  BY DEF WithFitness, Journal
<1> QED  BY <1>2, <1>3, FitnessOfLine DEF Journal, Improvements

(* The final fitness is the champion's. *)
LEMMA FinalIsChampion ==
  ASSUME PositiveFitness, NEW lines, Journal(lines)
  PROVE  /\ Final(lines) = Champion(lines).perf
         /\ \E i \in WithFitness(lines) : Final(lines) = lines[i].design.perf
<1> DEFINE S == WithFitness(lines) \cap Improvements(lines)
           last == CHOOSE i \in S : \A k \in S : k <= i
<1>1. PICK m \in Improvements(lines) :
        (\A j \in Improvements(lines) : j <= m) /\ Champion(lines) = lines[m].design
  BY ImprovementsCount, ChampionIsLast DEF Journal
<1>2. S = Improvements(lines) /\ S # {} /\ m \in S /\ \A k \in S : k <= m
  BY <1>1, ImprovementsCount
<1>3. last \in S /\ \A k \in S : k <= last
  BY <1>2
<1>4. Final(lines) = lines[last].design.perf
  BY <1>2, Zenon DEF Final, PerfAt
<1> HIDE DEF last
<1>5. last = m
  <2>1. last \in Int /\ m \in Int
    BY <1>2, <1>3 DEF Improvements
  <2> QED  BY <1>2, <1>3, <2>1
<1> QED  BY <1>1, <1>3, <1>4, <1>5

(* The baseline is the fitness of the first line. *)
LEMMA BaselineIsFirst ==
  ASSUME PositiveFitness, NEW lines, Journal(lines)
  PROVE  BaselineFitness(lines) = lines[1].design.perf
<1> DEFINE S == {i \in WithFitness(lines) \cap Improvements(lines) : lines[i].round = 0}
           first == CHOOSE i \in S : \A k \in S : i <= k
<1>1. 1 \in S /\ S # {} /\ \A k \in S : 1 <= k
  BY ImprovementsCount DEF Journal, Improvements
<1>2. first \in S /\ first <= 1
  BY <1>1
<1>3. BaselineFitness(lines) = lines[first].design.perf
  BY <1>1, Zenon DEF BaselineFitness, PerfAt
<1>4. first = 1
  <2>1. first \in 1..Len(lines)
    BY <1>2 DEF Improvements
  <2> HIDE DEF first
  <2> QED  BY <1>2, <2>1
<1> QED  BY <1>3, <1>4

(* Of the lines up to m, the first of the fittest. *)
IsBest(lines, m, i) ==
  /\ i \in WithFitness(lines) /\ i <= m
  /\ \A k \in WithFitness(lines) : k <= m =>
       \/ lines[k].design.perf < lines[i].design.perf
       \/ lines[k].design.perf = lines[i].design.perf /\ i <= k

HasBest(lines, m) ==
  (\E i \in WithFitness(lines) : i <= m) => \E i \in WithFitness(lines) : IsBest(lines, m, i)

(* One line more has a best line if the lines before have one. *)
LEMMA BestOfOneMore ==
  ASSUME NEW lines, WithFitness(lines) \subseteq 1..Len(lines),
         \A i \in WithFitness(lines) : lines[i].design.perf \in Nat,
         NEW m \in Nat, HasBest(lines, m)
  PROVE  HasBest(lines, m + 1)
<1> DEFINE S == WithFitness(lines)
           perf(i) == lines[i].design.perf
<1>0. \A i \in S : i \in Int /\ perf(i) \in Int
  OBVIOUS
<1> SUFFICES ASSUME NEW j \in S, j <= m + 1
             PROVE  \E i \in S : IsBest(lines, m + 1, i)
  BY DEF HasBest
<1>1. CASE m + 1 \notin S
  <2>1. \A i \in S : i <= m + 1 <=> i <= m
    BY <1>0, <1>1
  <2>2. PICK i \in S : IsBest(lines, m, i)
    BY <2>1 DEF HasBest
  <2>3. IsBest(lines, m + 1, i)
    BY <2>1, <2>2 DEF IsBest
  <2> QED  BY <2>3
<1>2. CASE m + 1 \in S /\ \A i \in S : i <= m => perf(i) < perf(m + 1)
  <2>1. \A i \in S : i <= m + 1 => i <= m \/ i = m + 1
    BY <1>0
  <2>2. IsBest(lines, m + 1, m + 1)
    BY <1>2, <2>1 DEF IsBest
  <2> QED  BY <1>2, <2>2
<1>3. CASE m + 1 \in S /\ \E i \in S : i <= m /\ ~(perf(i) < perf(m + 1))
  <2>1. PICK i \in S : IsBest(lines, m, i)
    BY <1>3 DEF HasBest
  <2>2. PICK k \in S : k <= m /\ ~(perf(k) < perf(m + 1))
    BY <1>3
  <2>3. perf(k) <= perf(i) /\ i <= m
    BY <1>0, <2>1, <2>2 DEF IsBest
  <2>4. perf(m + 1) <= perf(i) /\ i <= m + 1
    BY <1>0, <1>3, <2>2, <2>3
  <2>5. ASSUME NEW l \in S, l <= m + 1
        PROVE  perf(l) < perf(i) \/ (perf(l) = perf(i) /\ i <= l)
    <3>1. CASE l <= m
      BY <2>1, <3>1 DEF IsBest
    <3>2. CASE ~(l <= m)
      <4>1. l = m + 1
        BY <1>0, <2>5, <3>2
      <4> QED  BY <1>0, <2>4, <4>1
    <3> QED  BY <3>1, <3>2
  <2>6. IsBest(lines, m + 1, i)
    BY <2>4, <2>5 DEF IsBest
  <2> QED  BY <2>6
<1> QED  BY <1>1, <1>2, <1>3

(* The best fitness is no less than any.  There is a last m up to which    *)
(* the lines have a best one, and it is the last line.                     *)
LEMMA BestIsFittest ==
  ASSUME PositiveFitness, NEW lines, Journal(lines), NEW k \in WithFitness(lines)
  PROVE  lines[k].design.perf <= PerfAt(lines, WithFitness(lines), BestLine(lines))
<1> DEFINE S == WithFitness(lines)
           n == Len(lines)
           R == {m \in 0..n : HasBest(lines, m)}
<1>1. /\ n \in Nat /\ S \subseteq 1..n
      /\ \A i \in S : i \in Nat /\ i <= n /\ 1 <= i /\ lines[i].design.perf \in Nat
  BY ImprovementsCount DEF Journal
<1>2. R \in SUBSET (0..n) /\ R # {}
  <2>1. HasBest(lines, 0)
    BY <1>1 DEF HasBest
  <2> QED  BY <1>1, <2>1
<1>3. PICK m \in R : \A j \in R : j <= m
  <2> HIDE DEF R, n
  <2> QED  BY <1>1, <1>2, MaximumExists
<1>4. m = n
  <2> SUFFICES ASSUME m < n PROVE FALSE
    BY <1>1
  <2>1. m + 1 \in R
    BY <1>1, BestOfOneMore
  <2> QED  BY <1>3, <2>1
<1>5. HasBest(lines, n)
  BY <1>4
<1>6. PICK i \in S : IsBest(lines, n, i)
  BY <1>1, <1>5 DEF HasBest
<1>7. \E b \in S : \A j \in S :
        \/ lines[j].design.perf < lines[b].design.perf
        \/ lines[j].design.perf = lines[b].design.perf /\ b <= j
  BY <1>1, <1>6 DEF IsBest
<1>8. /\ BestLine(lines) \in S
      /\ \A j \in S :
           \/ lines[j].design.perf < lines[BestLine(lines)].design.perf
           \/ lines[j].design.perf = lines[BestLine(lines)].design.perf /\ BestLine(lines) <= j
  BY <1>7, Zenon DEF BestLine
<1>9. PerfAt(lines, S, BestLine(lines)) = lines[BestLine(lines)].design.perf
  BY <1>8 DEF PerfAt
<1> QED  BY <1>1, <1>8, <1>9

LEMMA DisjointUnion ==
  ASSUME NEW S, NEW T, IsFiniteSet(S), IsFiniteSet(T), S \cap T = {}
  PROVE  IsFiniteSet(S \cup T) /\ Cardinality(S \cup T) = Cardinality(S) + Cardinality(T)
<1>1. /\ IsFiniteSet(S \cup T)
      /\ Cardinality(S \cup T) = Cardinality(S) + Cardinality(T) - Cardinality(S \cap T)
  BY FS_Union
<1>2. Cardinality(S \cap T) = 0 /\ Cardinality(S) \in Nat /\ Cardinality(T) \in Nat
  BY FS_EmptySet, FS_CardinalityType
<1> QED  BY <1>1, <1>2

(* Every line is counted once, and failed placements in no count but the   *)
(* first.                                                                  *)
LEMMA LinesAreCounted ==
  ASSUME NEW lines, Journal(lines)
  PROVE  Cardinality(Improvements(lines)) + Cardinality(Lines(lines, "regression"))
           + Cardinality(Lines(lines, "broken"))
         = Len(lines) - Cardinality(Lines(lines, "placement_failed"))
<1> DEFINE n == Len(lines)
           A == Improvements(lines)
           B == Lines(lines, "regression")
           C == Lines(lines, "broken")
           D == Lines(lines, "placement_failed")
<1>1. n \in Nat /\ DOMAIN lines = 1..n /\ \A i \in 1..n : lines[i] \in LogLine
  BY DEF Journal
<1>2. /\ 1..n = ((A \cup B) \cup C) \cup D
      /\ A \cap B = {} /\ (A \cup B) \cap C = {} /\ ((A \cup B) \cup C) \cap D = {}
  BY <1>1 DEF Improvements, Lines, Journal, LogLine, Outcome
<1> HIDE DEF n, A, B, C, D
<1>3. IsFiniteSet(1..n) /\ Cardinality(1..n) = n
  BY <1>1, IntervalSize
<1>4. IsFiniteSet(A) /\ IsFiniteSet(B) /\ IsFiniteSet(C) /\ IsFiniteSet(D)
  BY <1>2, <1>3, FS_Subset
<1>5. /\ IsFiniteSet(A \cup B) /\ Cardinality(A \cup B) = Cardinality(A) + Cardinality(B)
  BY <1>2, <1>4, DisjointUnion
<1>6. /\ IsFiniteSet((A \cup B) \cup C)
      /\ Cardinality((A \cup B) \cup C) = Cardinality(A \cup B) + Cardinality(C)
  BY <1>2, <1>4, <1>5, DisjointUnion
<1>7. Cardinality(1..n) = Cardinality((A \cup B) \cup C) + Cardinality(D)
  BY <1>2, <1>4, <1>6, DisjointUnion
<1>8. /\ Cardinality(A) \in Nat /\ Cardinality(B) \in Nat
      /\ Cardinality(C) \in Nat /\ Cardinality(D) \in Nat
  BY <1>4, FS_CardinalityType
<1>9. Cardinality(A) + Cardinality(B) + Cardinality(C) = n - Cardinality(D)
  BY <1>3, <1>5, <1>6, <1>7, <1>8
<1> QED  BY <1>9 DEF n, A, B, C, D

LEMMA SummaryOfLines ==
  ASSUME PositiveFitness, NEW lines, Journal(lines)
  PROVE  LET row == Summarized(lines)
         IN  /\ row.iterations = Len(lines)
             /\ row.final = Champion(lines).perf
             /\ row.baseline = lines[1].design.perf
             /\ row.final <= row.best
             /\ row.accepted + row.rejected + row.broken
                  = row.iterations - Cardinality(Lines(lines, "placement_failed"))
<1>1. Final(lines) <= PerfAt(lines, WithFitness(lines), BestLine(lines))
  BY FinalIsChampion, BestIsFittest
<1> QED  BY <1>1, FinalIsChampion, BaselineIsFirst, LinesAreCounted DEF Summarized

(* The first lines of the journal are a journal. *)
LEMMA FirstLines ==
  ASSUME IInv, OutcomeInv, NEW n \in 1..Len(log)
  PROVE  Journal(SubSeq(log, 1, n)) /\ SubSeq(log, 1, n)[1] = log[1]
         /\ Len(SubSeq(log, 1, n)) = n
<1> DEFINE past == SubSeq(log, 1, n)
<1>1. log \in Seq(LogLine) /\ log # <<>>
  BY DEF IInv, TypeOK
<1>2. /\ past \in Seq(LogLine) /\ Len(past) = n /\ past # <<>>
      /\ \A i \in 1..n : i \in 1..Len(log) /\ past[i] = log[i]
  BY <1>1
<1> HIDE DEF past
<1>3. \A i \in Improvements(past) : i \in Improvements(log) /\ past[i] = log[i]
  BY <1>2 DEF Improvements
<1>4. \A i \in Improvements(log) : log[i].design # None
  BY MergedAreDesigns DEF IInv, JournalShape, Sound
<1>5. past[1] = log[1] /\ log[1].outcome = "improvement" /\ log[1].round = 0
  BY <1>1, <1>2 DEF IInv, JournalShape, Sound, OutcomeInv
<1>6. \A i \in 1..Len(past) : past[i].outcome # "none"
  BY <1>2 DEF OutcomeInv
<1>7. Journal(past)
  BY <1>2, <1>3, <1>4, <1>5, <1>6 DEF Journal
<1> QED  BY <1>2, <1>5, <1>7 DEF past

(* A summary is not mistaken for a file that is not there or torn. *)
LEMMA SummaryIsThere ==
  ASSUME NEW lines
  PROVE  Summarized(lines) \notin {Absent, Torn}
<1>1. "iterations" \in DOMAIN Summarized(lines)
  BY DEF Summarized
<1>2. "iterations" \notin DOMAIN Absent /\ "iterations" \notin DOMAIN Torn
  BY DEF Absent, Torn
<1> QED  BY <1>1, <1>2

(* The row of an orchestrator started once, as the benchmark does, tells   *)
(* of whole rounds of its journal: the final fitness is the champion's,    *)
(* the baseline that of the first design, every line is counted; after an  *)
(* exit 0 it tells of the whole journal (write_run_summary and             *)
(* summarize_run).                                                         *)
THEOREM RecordsSummaryAgrees ==
  ASSUME PositiveFitness
  PROVE  RecordsSpec => []SummaryAgrees
<1>1. RecordsInit => OutcomeInv /\ FirstRunInv
  BY DEF RecordsInit, Init, OutcomeInv, FirstRunInv, NoSlot, SlotAt, Settled
<1>2. IInv /\ OutcomeInv /\ FirstRunInv => SummaryAgrees
  <2> SUFFICES ASSUME IInv, OutcomeInv, FirstRunInv, pc = "down", starts = 1
               PROVE  SummaryAgrees
    BY DEF SummaryAgrees
  <2>0. log \in Seq(LogLine)
    BY DEF IInv, TypeOK
  <2>1. ASSUME exited = "ok"
        PROVE  ~RowNumbers.missing /\ RowNumbers.numbers.iterations = Len(log)
    <3>1. log # <<>> /\ numbers = Summarized(log)
      BY <2>0, <2>1, SubSeqOfAll DEF FirstRunInv, TellsOf
    <3>2. RowNumbers = [missing |-> FALSE, numbers |-> numbers]
      BY <3>1, SummaryIsThere DEF RowNumbers
    <3>3. numbers.iterations = Len(log)
      BY <3>1 DEF Summarized
    <3> QED  BY <3>2, <3>3
  <2>2. ASSUME ~RowNumbers.missing
        PROVE  LET row  == RowNumbers.numbers
                   past == SubSeq(log, 1, row.iterations)
               IN  /\ row.iterations \in 1..Len(log)
                   /\ (row.iterations - 1) % TournamentSize = 0
                   /\ row.final = Champion(past).perf
                   /\ row.baseline = log[1].design.perf /\ row.final <= row.best
                   /\ row.accepted + row.rejected + row.broken
                        = row.iterations - Cardinality(Lines(past, "placement_failed"))
    <3>1. numbers \notin {Absent, Torn} /\ RowNumbers.numbers = numbers
      BY <2>2 DEF RowNumbers
    <3>2. PICK n \in 1..Len(log) : TellsOf(n) /\ WholeRounds(n)
      BY <3>1 DEF FirstRunInv
    <3>3. RowNumbers.numbers = Summarized(SubSeq(log, 1, n))
      BY <3>1, <3>2 DEF TellsOf
    <3>4. (n - 1) % TournamentSize = 0
      BY <3>2, WholeRoundsDivide
    <3>5. /\ Journal(SubSeq(log, 1, n)) /\ SubSeq(log, 1, n)[1] = log[1]
          /\ Len(SubSeq(log, 1, n)) = n
      BY FirstLines
    <3> DEFINE past == SubSeq(log, 1, n)
    <3> HIDE DEF past
    <3>6. /\ RowNumbers.numbers.iterations = n
          /\ RowNumbers.numbers.final = Champion(past).perf
          /\ RowNumbers.numbers.baseline = log[1].design.perf
          /\ RowNumbers.numbers.final <= RowNumbers.numbers.best
          /\ RowNumbers.numbers.accepted + RowNumbers.numbers.rejected + RowNumbers.numbers.broken
               = n - Cardinality(Lines(past, "placement_failed"))
      <4>1. /\ Journal(past) /\ past[1] = log[1] /\ Len(past) = n
            /\ RowNumbers.numbers = Summarized(past)
        BY <3>3, <3>5 DEF past
      <4> QED  BY <4>1, SummaryOfLines
    <3> QED  BY <3>4, <3>6 DEF past
  <2> QED  BY <2>1, <2>2 DEF SummaryAgrees
<1>3. RecordsSpec => [](IInv /\ OrderInv)
  BY RecordsRunTournament, TournamentIInv, AlwaysOrder, PTL
<1>4. IInv /\ OrderInv /\ OutcomeInv /\ [RecordsNext]_allVars => OutcomeInv'
  BY StepsOfTournament, NextOutcomeInv
<1> QED  BY <1>1, <1>2, <1>3, <1>4, NextFirstRunInv, PTL DEF RecordsSpec

=============================================================================
