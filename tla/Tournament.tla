------------------------------ MODULE Tournament ------------------------------
(***************************************************************************)
(* A tournament run on one core: tools/orchestrator.py main() and          *)
(* append_log(), tools/tournament.py run_tournament_round() and run_slot() *)
(* and tools/worktree.py, over the state they share: the branch tip, the   *)
(* journal on disk and at HEAD, the worktrees and the hypothesis files.    *)
(*                                                                         *)
(* The slots of a round run concurrently; once all have returned, the      *)
(* coordinator alone picks the winner, merges it, destroys the losers and  *)
(* journals every entry.  The orchestrator may die between any two steps   *)
(* and be started again on what it left behind.                            *)
(***************************************************************************)
EXTENDS AcceptRule, SequencesExt

CONSTANTS
  TournamentSize,   \* --tournament-size
  InitialDesigns,   \* what the branch tip may measure before the first round
  Designs,          \* what a slot may measure
  Faults,           \* which of Fault may happen
  MaxRound,         \* bound: no round beyond this one is started
  MaxStarts         \* bound: times the orchestrator is started

Slot == 0..(TournamentSize - 1)

(* raise:   an exception escapes run_slot                                  *)
(* stray:   an agent writes another id of the round into its hypothesis    *)
(* merge:   accept_worktree raises before the branch moved                 *)
(* journal: append_log raises between its write and its commit             *)
(* kill:    the process is killed                                          *)
(* stop:    it dies before it picks a round's winner: killed, or the       *)
(*          commit of the baseline raises                                  *)
Fault == {"raise", "stray", "merge", "journal", "kill", "stop"}

ASSUME TournamentAssumption ==
  /\ TournamentSize \in Nat \ {0}
  /\ InitialDesigns \subseteq Candidate
  /\ Designs \subseteq Candidate
  /\ Faults \subseteq Fault
  /\ MaxRound \in Nat /\ MaxStarts \in Nat

VARIABLES
  tip,         \* the design at the tip of the target branch
  former,      \* history: the designs that were at the tip before
  log,         \* the lines of log.jsonl on disk
  committed,   \* the lines of log.jsonl at HEAD; <<>> while it is untracked
  trees,       \* ids that have a worktree (and so a branch)
  yamls,       \* ids that have a hypothesis file of today
  pc,          \* what the coordinator does next
  round,       \* the number of the round it is at
  anchor,      \* the champion it read from the log when the round began
  ids,         \* the hypothesis id it allocated to each slot
  slot,        \* where each slot is, with its worktree id and draft entry
  winner,      \* the slot picked as the winner, or None
  cursor,      \* the entry the coordinator handles next
  starts       \* times the orchestrator was started

files == <<log, committed, trees, yamls>>
main  == <<pc, round, anchor, ids, winner, cursor, starts>>
vars  == <<tip, former, files, main, slot>>

(* Faulty variant: the sequence number is not counted from the files. *)
UnnumberedId(seq, r, s) == [seq |-> 1 + s, round |-> r, slot |-> s]

(* allocate_round_ids: the date is left out, as a day's first sequence     *)
(* number is counted from that day's files alone.                          *)
HypId(seq, r, s) == [seq |-> seq, round |-> r, slot |-> s]

Line(r, s, outcome, design) ==
  [round |-> r, slot |-> s, outcome |-> outcome, design |-> design]

SlotAt(at, id, outcome, design) ==
  [at |-> at, id |-> id, outcome |-> outcome, design |-> design]

NoSlot == SlotAt("none", None, "none", None)

Init ==
  /\ tip \in InitialDesigns /\ former = {}
  /\ log = <<>> /\ committed = <<>>
  /\ trees = {} /\ yamls = {}
  /\ pc = "down" /\ round = 0 /\ anchor = None
  /\ ids = [s \in Slot |-> None]
  /\ slot = [s \in Slot |-> NoSlot]
  /\ winner = None /\ cursor = 0 /\ starts = 0

-----------------------------------------------------------------------------
(* What the journal says.                                                  *)

Improvements(lines) ==
  {i \in 1..Len(lines) : lines[i].outcome = "improvement"}

(* Faulty variant: the fittest improvement, not the last one. *)
FittestEver(lines) ==
  IF Improvements(lines) = {} THEN [perf |-> 0, lut |-> None]
  ELSE lines[CHOOSE i \in Improvements(lines) :
               \A j \in Improvements(lines) :
                 lines[j].design.perf <= lines[i].design.perf].design

(* _last_improvement, current_best and current_lut. *)
Champion(lines) ==
  IF Improvements(lines) = {} THEN [perf |-> 0, lut |-> None]
  ELSE lines[CHOOSE i \in Improvements(lines) :
               \A j \in Improvements(lines) : j <= i].design

(* Faulty variants: rounds are numbered by lines; a round is resumed. *)
RoundByLines(lines) == Len(lines)
RoundResumed(lines) == IF lines = <<>> THEN 1 ELSE lines[Len(lines)].round

(* main: one past the highest round journalled. *)
NextRound(lines) ==
  IF lines = <<>> THEN 1
  ELSE 1 + (CHOOSE r \in {lines[i].round : i \in 1..Len(lines)} :
              \A i \in 1..Len(lines) : lines[i].round <= r)

(* `git checkout HEAD -- cores/<target>/` drops what is not committed, but *)
(* leaves an untracked log.jsonl alone.                                    *)
Reset(lines) == IF committed = <<>> THEN lines ELSE committed

-----------------------------------------------------------------------------
(* The orchestrator's main thread outside a round.                         *)

(* What a process that ends takes with it. *)
Forget ==
  /\ round' = 0 /\ anchor' = None /\ winner' = None /\ cursor' = 0
  /\ ids' = [s \in Slot |-> None]
  /\ slot' = [s \in Slot |-> NoSlot]
  /\ UNCHANGED <<tip, former, starts>>

Start ==
  /\ pc = "down" /\ starts < MaxStarts
  /\ starts' = starts + 1
  /\ pc' = "boot"
  /\ UNCHANGED <<tip, former, files, round, anchor, ids, slot, winner, cursor>>

(* _run_baseline_retest measures the tip and journals it as round 0. *)
Baseline ==
  /\ pc = "boot" /\ log = <<>>
  /\ log' = <<Line(0, 0, "improvement", tip)>>
  /\ pc' = "baseline"
  /\ UNCHANGED <<tip, former, committed, trees, yamls, round, anchor, ids,
                 slot, winner, cursor, starts>>

CommitBaseline ==
  /\ pc = "baseline"
  /\ committed' = log
  /\ pc' = "boot"
  /\ UNCHANGED <<tip, former, log, trees, yamls, round, anchor, ids, slot,
                 winner, cursor, starts>>

(* A gate of the retest fails: SystemExit. *)
BaselineFails ==
  /\ pc = "boot" /\ log = <<>>
  /\ pc' = "down"
  /\ Forget /\ UNCHANGED files

NumberRounds ==
  /\ pc = "boot" /\ log # <<>>
  /\ round' = NextRound(log)
  /\ pc' = "idle"
  /\ UNCHANGED <<tip, former, files, anchor, ids, slot, winner, cursor, starts>>

(* All iterations are done. *)
Finish ==
  /\ pc = "idle"
  /\ pc' = "down"
  /\ Forget /\ UNCHANGED files

Kill ==
  /\ \/ "kill" \in Faults /\ pc # "down"
     \/ "stop" \in Faults /\ pc \in {"boot", "baseline", "idle", "slots"}
  /\ pc' = "down"
  /\ Forget /\ UNCHANGED files

(* run_tournament_round, up to the fan-out. *)
StartRound ==
  /\ pc = "idle" /\ round <= MaxRound
  /\ anchor' = Champion(log)
  /\ ids' = [s \in Slot |-> HypId(Cardinality(yamls) + 1 + s, round, s)]
  /\ slot' = [s \in Slot |-> SlotAt("hypothesis", None, "none", None)]
  /\ pc' = "slots"
  /\ UNCHANGED <<tip, former, files, round, winner, cursor, starts>>

-----------------------------------------------------------------------------
(* run_slot, in a thread per slot.                                         *)

(* destroy_worktree, after a faulty variant. *)
DestroyNothing(id) == UNCHANGED trees
Destroy(id) == trees' = trees \ {id}

Returned(s, id, outcome, design) ==
  slot' = [slot EXCEPT ![s] = SlotAt("returned", id, outcome, design)]

(* The id the agent writes into its hypothesis file: worktree_id. *)
WrittenIds(s) ==
  IF "stray" \in Faults THEN {ids[t] : t \in Slot} ELSE {ids[s]}

(* Phase 1: the agent writes a file that passes the schema. *)
Propose(s) ==
  /\ slot[s].at = "hypothesis"
  /\ yamls' = yamls \cup {ids[s]}
  /\ \E id \in WrittenIds(s) :
       slot' = [slot EXCEPT ![s] = SlotAt("create", id, "none", None)]
  /\ UNCHANGED <<tip, former, log, committed, trees, main>>

(* Phase 1 fails: no usable file, though one may have been left behind. *)
ProposalFails(s) ==
  /\ slot[s].at = "hypothesis"
  /\ yamls' \in {yamls, yamls \cup {ids[s]}}
  /\ Returned(s, ids[s], "broken", None)
  /\ UNCHANGED <<tip, former, log, committed, trees, main>>

(* create_worktree: a branch left behind is deleted first, but a branch    *)
(* that is checked out in a worktree cannot be, and `worktree add` raises. *)
CreateWorktree(s) ==
  /\ slot[s].at = "create" /\ slot[s].id \notin trees
  /\ trees' = trees \cup {slot[s].id}
  /\ slot' = [slot EXCEPT ![s] = SlotAt("evaluate", slot[s].id, "none", None)]
  /\ UNCHANGED <<tip, former, log, committed, yamls, main>>

(* An exception escapes run_slot; what it created stays. *)
RaiseFromSlot(s) ==
  /\ \/ slot[s].at = "create" /\ slot[s].id \in trees
     \/ slot[s].at \in {"create", "evaluate"} /\ "raise" \in Faults
  /\ slot' = [slot EXCEPT ![s] = SlotAt("raised", None, "none", None)]
  /\ UNCHANGED <<tip, former, files, main>>

(* Phases 2 to 6: broken() destroys the worktree, a failed placement and a *)
(* measured design return with it.                                         *)
Evaluate(s) ==
  /\ slot[s].at = "evaluate"
  /\ \/ /\ Returned(s, slot[s].id, "broken", None)
        /\ Destroy(slot[s].id)
     \/ /\ Returned(s, slot[s].id, "placement_failed", None)
        /\ UNCHANGED trees
     \/ /\ \E d \in Designs : Returned(s, slot[s].id, "regression", d)
        /\ UNCHANGED trees
  /\ UNCHANGED <<tip, former, log, committed, yamls, main>>

SlotStep(s) ==
  /\ pc = "slots"
  /\ \/ Propose(s) \/ ProposalFails(s) \/ CreateWorktree(s)
     \/ RaiseFromSlot(s) \/ Evaluate(s)

-----------------------------------------------------------------------------
(* The coordinator, after the fan-out.                                     *)

Entries == {[slot |-> s, design |-> slot[s].design] : s \in Slot}

(* The pool has joined every thread.  An exception from any of them ends   *)
(* the run; otherwise the winner is picked against the round's champion.   *)
Collect ==
  /\ pc = "slots"
  /\ \A s \in Slot : slot[s].at \in {"returned", "raised"}
  /\ UNCHANGED files
  /\ \/ /\ \E s \in Slot : slot[s].at = "raised"
        /\ pc' = "down" /\ Forget
     \/ /\ \A s \in Slot : slot[s].at = "returned"
        /\ LET w == PickWinner(Entries, anchor)
           IN  winner' = IF w = None THEN None ELSE w.slot
        /\ pc' = "accept"
        /\ UNCHANGED <<tip, former, round, anchor, ids, slot, cursor, starts>>

(* On to the next entry, and from the last one to the next phase. *)
Advance(this, then) ==
  IF cursor + 1 < TournamentSize
  THEN cursor' = cursor + 1 /\ pc' = this
  ELSE cursor' = 0 /\ pc' = then

(* The winner becomes an improvement.  accept_worktree commits its design, *)
(* discards what is uncommitted in the main checkout ...                   *)
ResetCheckout ==
  /\ pc = "accept" /\ cursor = winner
  /\ Returned(cursor, slot[cursor].id, "improvement", slot[cursor].design)
  /\ log' = Reset(log)
  /\ pc' = "merge"
  /\ UNCHANGED <<tip, former, committed, trees, yamls, round, anchor, ids,
                 winner, cursor, starts>>

(* ... merges with --ff-only ... *)
MergeWinner ==
  /\ pc = "merge"
  /\ tip' = slot[cursor].design
  /\ former' = former \cup {tip}
  /\ pc' = "reclaim"
  /\ UNCHANGED <<files, round, anchor, ids, slot, winner, cursor, starts>>

(* ... and calls destroy_worktree. *)
ReclaimWinner ==
  /\ pc = "reclaim"
  /\ Destroy(slot[cursor].id)
  /\ Advance("accept", "journal")
  /\ UNCHANGED <<tip, former, log, committed, yamls, round, anchor, ids, slot,
                 winner, starts>>

(* The winner's entry after a failed merge, after a faulty variant. *)
NotDowngraded == UNCHANGED slot
Downgraded == Returned(cursor, slot[cursor].id, "regression", slot[cursor].design)

(* accept_worktree raises before its reset, or after it. *)
MergeFails ==
  /\ "merge" \in Faults
  /\ (pc = "accept" /\ cursor = winner) \/ pc = "merge"
  /\ Downgraded
  /\ Destroy(slot[cursor].id)
  /\ Advance("accept", "journal")
  /\ UNCHANGED <<tip, former, log, committed, yamls, round, anchor, ids, winner,
                 starts>>

(* A measured design that lost is destroyed; other entries are left. *)
RetireLoser ==
  /\ pc = "accept" /\ cursor # winner
  /\ IF slot[cursor].outcome = "regression"
     THEN Destroy(slot[cursor].id) ELSE UNCHANGED trees
  /\ Advance("accept", "journal")
  /\ UNCHANGED <<tip, former, log, committed, yamls, round, anchor, ids, slot,
                 winner, starts>>

(* The journal with the entry's line, after a faulty variant. *)
Overwritten == <<Line(round, cursor, slot[cursor].outcome, slot[cursor].design)>>
Journalled ==
  Append(log, Line(round, cursor, slot[cursor].outcome, slot[cursor].design))

(* append_log: the line is written ... *)
WriteLine ==
  /\ pc = "journal"
  /\ log' = Journalled
  /\ pc' = "commit"
  /\ UNCHANGED <<tip, former, committed, trees, yamls, round, anchor, ids,
                 slot, winner, cursor, starts>>

(* ... then committed ... *)
CommitLine ==
  /\ pc = "commit"
  /\ committed' = log
  /\ pc' = "unlink"
  /\ UNCHANGED <<tip, former, log, trees, yamls, round, anchor, ids, slot,
                 winner, cursor, starts>>

(* ... or something raises on the way, which ends the run ... *)
CommitFails ==
  /\ \/ "journal" \in Faults /\ pc \in {"commit", "baseline"}
     \/ "stop" \in Faults /\ pc = "baseline"
  /\ pc' = "down"
  /\ Forget /\ UNCHANGED files

(* ... and the entry's hypothesis file is deleted. *)
UnlinkHypothesis ==
  /\ pc = "unlink"
  /\ yamls' = yamls \ {slot[cursor].id}
  /\ UNCHANGED <<tip, former, log, committed, trees, starts>>
  /\ IF cursor + 1 < TournamentSize
     THEN /\ cursor' = cursor + 1 /\ pc' = "journal"
          /\ UNCHANGED <<round, anchor, ids, slot, winner>>
     ELSE /\ cursor' = 0 /\ pc' = "idle"
          /\ round' = round + 1
          /\ anchor' = None /\ winner' = None
          /\ ids' = [s \in Slot |-> None]
          /\ slot' = [s \in Slot |-> NoSlot]

MainStep ==
  \/ Baseline \/ CommitBaseline \/ BaselineFails \/ NumberRounds
  \/ StartRound \/ Finish
  \/ Collect
  \/ ResetCheckout \/ MergeWinner \/ ReclaimWinner \/ MergeFails \/ RetireLoser
  \/ WriteLine \/ CommitLine \/ CommitFails \/ UnlinkHypothesis

Next == Start \/ Kill \/ MainStep \/ \E s \in Slot : SlotStep(s)

Spec == Init /\ [][Next]_vars

-----------------------------------------------------------------------------

Id == [seq : Nat, round : Nat, slot : Slot]
Outcome == {"none", "broken", "placement_failed", "regression", "improvement"}
LogLine == [round : 0..MaxRound, slot : Slot, outcome : Outcome,
            design : InitialDesigns \cup Designs \cup {None}]
SlotState ==
  [at : {"none", "hypothesis", "create", "evaluate", "returned", "raised"},
   id : Id \cup {None}, outcome : Outcome, design : Designs \cup {None}]

TypeOK ==
  /\ tip \in InitialDesigns \cup Designs
  /\ former \subseteq InitialDesigns \cup Designs
  /\ log \in Seq(LogLine) /\ committed \in Seq(LogLine)
  /\ trees \subseteq Id /\ yamls \subseteq Id
  /\ pc \in {"down", "boot", "baseline", "idle", "slots", "accept",
             "merge", "reclaim", "journal", "commit", "unlink"}
  /\ round \in Nat
  /\ anchor \in Design \cup {None}
  /\ ids \in [Slot -> Id \cup {None}]
  /\ slot \in [Slot -> SlotState]
  /\ winner \in Slot \cup {None}
  /\ cursor \in Slot
  /\ starts \in Nat

(* Designs that are, or were, at the tip of the branch. *)
Merged == former \cup {tip}

(* Whatever fails or dies, the champion that a round is judged against is  *)
(* a real design of the branch: every improvement in the journal was       *)
(* merged (a merge that failed is journalled as a regression), and so was  *)
(* the anchor (orchestrator.py, _last_improvement).                        *)
AnchorIsReal ==
  /\ \A i \in Improvements(log) : log[i].design \in Merged
  /\ anchor # None => anchor \in Merged

(* Whatever fails or dies, the branch moves only to a design that the rule *)
(* prefers to the champion its round started from.                         *)
MergesBeatAnchor ==
  [][tip' # tip => anchor # None /\ Accept(anchor, tip')]_<<tip, anchor>>

(* While no process dies between a merge and its journal line, a round is  *)
(* judged against the very tip its worktrees fork from, in every run that  *)
(* follows, whatever slots raised and whichever merges failed before.      *)
AnchorIsTip ==
  /\ pc = "slots" => anchor = tip
  /\ pc = "idle" => Champion(log) = tip

(* No (round, slot) is journalled twice, though a round that died is run   *)
(* again under the same number and lines may be lost on the way.           *)
OneLinePerSlot ==
  \A i, j \in 1..Len(log) :
    log[i].round = log[j].round /\ log[i].slot = log[j].slot => i = j

(* A round is journalled as a whole: every earlier round has a line for    *)
(* each of its slots, and the baseline comes first.                        *)
RoundsAreWhole ==
  pc = "idle" =>
    /\ log[1].round = 0
    /\ \A r \in 1..(round - 1), s \in Slot :
         \E i \in 1..Len(log) : log[i].round = r /\ log[i].slot = s

(* The id a slot is about to give its worktree is never taken, although    *)
(* sequence numbers start over as hypothesis files are deleted and         *)
(* worktrees of dead rounds stay: create_worktree does not raise.          *)
FreshWorktree ==
  \A s \in Slot : slot[s].at = "create" => slot[s].id \notin trees

(* Between the rounds of a first run the only worktrees on disk are those  *)
(* of slots that were journalled as placement_failed, though merges and    *)
(* commits fail; those of a run that died stay (destroy_worktree).         *)
WorktreesReclaimed ==
  pc = "idle" /\ starts = 1 =>
    \A w \in trees : \E i \in 1..Len(log) :
      /\ log[i].round = w.round /\ log[i].slot = w.slot
      /\ log[i].outcome = "placement_failed"

(* History is only added to: the journal at HEAD never loses or changes a  *)
(* line, whatever a crash left on disk and a later merge threw away.       *)
CommittedIsAppendOnly == [][IsPrefix(committed, committed')]_committed

(* With no death between a merge and its journal line, the branch climbs   *)
(* the ladder: each merge replaces the tip by a design the accept rule     *)
(* prefers to it.                                                          *)
BranchLadder == INSTANCE Ladder WITH champ <- tip
ClimbsLadder == BranchLadder!Spec

-----------------------------------------------------------------------------
(* What the repository says and this model refutes.                        *)

(* README.md: only a slot above the current champion merges.  Hence the    *)
(* tip is preferred to every tip before it.                                *)
OnlyBetterMerges == BranchLadder!BeatsAllFormer

===============================================================================
