--------------------------- MODULE TournamentProofs ---------------------------
(***************************************************************************)
(* For any number of slots, any designs and any mix of faults, the         *)
(* journal names only designs that were merged and the branch moves only   *)
(* to a design preferred to the champion its round was judged against; the *)
(* journal at HEAD only grows, a slot has one line in it, and worktrees    *)
(* get names that are free and are given back.  With no late death the     *)
(* branch climbs the ladder and rounds are journalled as a whole.          *)
(***************************************************************************)
EXTENDS Tournament, TLAPS, WellFoundedInduction, FiniteSetTheorems

-----------------------------------------------------------------------------
(* Facts about the journal.                                                *)

LEMMA MaximumExists ==
  ASSUME NEW n \in Nat, NEW S \in SUBSET (0..n), S # {}
  PROVE  \E i \in S : \A j \in S : j <= i
<1> DEFINE R == {p \in Nat \X Nat : p[1] < p[2]}
           T == {n - i : i \in S}
<1>1. T \subseteq Nat /\ T # {}
  <2>1. \A i \in S : n - i \in Nat
    OBVIOUS
  <2>2. PICK i \in S : TRUE
    OBVIOUS
  <2>3. n - i \in T
    OBVIOUS
  <2> QED  BY <2>1, <2>3
<1>2. IsWellFoundedOn(R, Nat)
  BY NatLessThanWellFounded DEF OpToRel
<1> HIDE DEF R
<1>3. \E m \in T : \A k \in T : ~ (<<k, m>> \in R)
  BY <1>1, <1>2, WFMin
<1>4. PICK m \in T : \A k \in T : ~ (k < m)
  BY <1>1, <1>3 DEF R
<1>5. PICK i \in S : m = n - i
  OBVIOUS
<1>6. ASSUME NEW j \in S PROVE j <= i
  <2>1. n - j \in T
    OBVIOUS
  <2>2. ~ (n - j < n - i)
    BY <2>1, <1>4, <1>5
  <2> QED  BY <2>2
<1> QED  BY <1>6

(* The champion is the design of the last improvement. *)
LEMMA ChampionIsLast ==
  ASSUME NEW lines \in Seq(LogLine), Improvements(lines) # {}
  PROVE  \E i \in Improvements(lines) :
           /\ \A j \in Improvements(lines) : j <= i
           /\ Champion(lines) = lines[i].design
<1>1. Improvements(lines) \in SUBSET (0..Len(lines)) /\ Len(lines) \in Nat
  BY DEF Improvements
<1>2. \E i \in Improvements(lines) : \A j \in Improvements(lines) : j <= i
  BY <1>1, MaximumExists
<1> QED  BY <1>2 DEF Champion

(* One more line makes its own design the champion if it is an             *)
(* improvement, and changes nothing otherwise.                             *)
LEMMA ChampionOfAppend ==
  ASSUME NEW lines \in Seq(LogLine), NEW l \in LogLine
  PROVE  Champion(Append(lines, l)) =
           IF l.outcome = "improvement" THEN l.design ELSE Champion(lines)
<1> DEFINE more == Append(lines, l)
           n == Len(lines)
<1>1. /\ n \in Nat /\ more \in Seq(LogLine) /\ Len(more) = n + 1
      /\ more[n + 1] = l /\ \A i \in 1..n : more[i] = lines[i]
  OBVIOUS
<1>2. CASE l.outcome = "improvement"
  <2>1. n + 1 \in Improvements(more)
    BY <1>1, <1>2 DEF Improvements
  <2>2. PICK i \in Improvements(more) :
          /\ \A j \in Improvements(more) : j <= i
          /\ Champion(more) = more[i].design
    BY <1>1, <2>1, ChampionIsLast
  <2>3. i = n + 1
    BY <1>1, <2>1, <2>2 DEF Improvements
  <2> QED  BY <1>1, <1>2, <2>2, <2>3
<1>3. CASE l.outcome # "improvement"
  <2>1. Improvements(more) = Improvements(lines)
    BY <1>1, <1>3 DEF Improvements
  <2>2. CASE Improvements(lines) = {}
    BY <1>3, <2>1, <2>2 DEF Champion
  <2>3. CASE Improvements(lines) # {}
    <3>1. PICK i \in Improvements(lines) :
            /\ \A j \in Improvements(lines) : j <= i
            /\ Champion(lines) = lines[i].design
      BY <2>3, ChampionIsLast
    <3>2. PICK k \in Improvements(more) :
            /\ \A j \in Improvements(more) : j <= k
            /\ Champion(more) = more[k].design
      BY <1>1, <2>1, <2>3, ChampionIsLast
    <3>3. i = k /\ i \in 1..n
      BY <1>1, <2>1, <3>1, <3>2 DEF Improvements
    <3> QED  BY <1>1, <1>3, <3>1, <3>2, <3>3
  <2> QED  BY <2>2, <2>3
<1> QED  BY <1>2, <1>3

(* Rounds are numbered upwards from the journal. *)
LEMMA NextRoundIsNat ==
  ASSUME NEW lines \in Seq(LogLine)
  PROVE  NextRound(lines) \in Nat
<1> DEFINE S == {lines[i].round : i \in 1..Len(lines)}
           top == CHOOSE r \in S : \A i \in 1..Len(lines) : lines[i].round <= r
<1>1. CASE lines = <<>>
  BY <1>1 DEF NextRound
<1>2. CASE lines # <<>>
  <2>1. \A i \in 1..Len(lines) : lines[i] \in LogLine
    OBVIOUS
  <2>2. S \in SUBSET (0..MaxRound)
    BY <2>1 DEF LogLine
  <2>3. lines[1].round \in S
    BY <1>2
  <2>4. PICK m \in S : \A q \in S : q <= m
    BY <2>2, <2>3, MaximumExists, TournamentAssumption
  <2>5. \E r \in S : \A i \in 1..Len(lines) : lines[i].round <= r
    BY <2>4
  <2>6. top \in S
    BY <2>5
  <2>7. top \in Nat
    <3> HIDE DEF top, S
    <3> QED  BY <2>2, <2>6, TournamentAssumption
  <2>8. NextRound(lines) = 1 + top
    BY <1>2, Zenon DEF NextRound
  <2> HIDE DEF top
  <2> QED  BY <2>7, <2>8
<1> QED  BY <1>1, <1>2

(* The rule accepts the round's winner (tournament.py, pick_winner). *)
LEMMA WinnerIsAccepted ==
  ASSUME NEW entries, NEW champ, PickWinner(entries, champ) # None
  PROVE  /\ PickWinner(entries, champ) \in entries
         /\ PickWinner(entries, champ).design # None
         /\ Accept(champ, PickWinner(entries, champ).design)
<1>1. PickWinner(entries, champ) \in Best(entries, champ)
  BY DEF PickWinner
<1> QED  BY <1>1 DEF Best, Accepted

-----------------------------------------------------------------------------
(* The inductive invariant.                                                *)

Accepting == {"accept", "merge", "reclaim"}

Settled == {"accept", "merge", "reclaim", "journal", "commit", "unlink"}

(* What the round's control flow guarantees of its own state: ids while    *)
(* slots run, a champion to judge by, and a winner that the rule accepts.  *)
RoundShape ==
  /\ pc = "slots" => \A s \in Slot : ids[s] \in Id
  /\ pc \notin Settled => winner = None /\ cursor = 0
  /\ IsFiniteSet(yamls)
  /\ pc \in {"slots"} \cup Settled => anchor # None /\ round <= MaxRound
  /\ \A s \in Slot : slot[s].at \in {"create", "evaluate"} => slot[s].id \in Id
  /\ pc \in {"merge", "reclaim"} => cursor = winner
  /\ pc \in Accepting /\ winner # None =>
       /\ slot[winner].design # None
       /\ Accept(anchor, slot[winner].design)

(* The baseline is the first line, and improvements name merged designs.   *)
Sound(lines) ==
  /\ lines # <<>> => lines[1].outcome = "improvement"
  /\ \A i \in Improvements(lines) : lines[i].design \in Merged

(* AnchorIsReal is not inductive alone: a merge may put the journal at     *)
(* HEAD back on disk, an entry is an improvement a step before its merge   *)
(* and is journalled some steps after it, and the champion is real only if *)
(* there is an improvement at all.                                         *)
JournalShape ==
  /\ Sound(log) /\ Sound(committed)
  /\ pc \notin {"down", "boot"} => log # <<>>
  /\ \A s \in Slot : slot[s].outcome = "improvement" =>
       slot[s].design \in Merged \/ (pc = "merge" /\ s = winner)
  /\ anchor # None => anchor \in Merged

IInv == TypeOK /\ RoundShape /\ JournalShape

LEMMA ZeroIsSlot == 0 \in Slot /\ 0 \in 0..MaxRound
BY TournamentAssumption DEF Slot

LEMMA NextIsSlot ==
  ASSUME NEW s \in Slot, s + 1 < TournamentSize
  PROVE  s + 1 \in Slot
BY TournamentAssumption DEF Slot

(* Nothing that was merged is forgotten, so a sound journal stays sound.   *)
LEMMA SoundStaysSound ==
  ASSUME NEW lines, Sound(lines), Merged \subseteq Merged'
  PROVE  \A i \in Improvements(lines) : lines[i].design \in Merged'
BY DEF Sound

LEMMA ChampionIsMerged ==
  ASSUME NEW lines \in Seq(LogLine), Sound(lines), lines # <<>>
  PROVE  Champion(lines) \in Merged
<1>1. 1 \in Improvements(lines)
  BY DEF Sound, Improvements
<1> QED  BY <1>1, ChampionIsLast DEF Sound

LEMMA MergedAreDesigns ==
  ASSUME TypeOK
  PROVE  Merged \subseteq Design /\ None \notin Merged
<1>1. Candidate \subseteq Design
  BY DEF Candidate, Design
<1>2. None \notin Candidate
  BY TargetAssumption DEF Candidate
<1> QED  BY <1>1, <1>2, TournamentAssumption DEF TypeOK, Merged

-----------------------------------------------------------------------------
(* Every step preserves it: one lemma per group of actions.                *)

LEMMA InitIInv == Init => IInv
<1> SUFFICES ASSUME Init PROVE IInv
  OBVIOUS
<1>1. TypeOK
  BY ZeroIsSlot DEF Init, TypeOK, SlotState, NoSlot, SlotAt, Outcome
<1>2. RoundShape
  BY FS_EmptySet DEF Init, RoundShape, NoSlot, SlotAt, Settled, Accepting
<1>3. JournalShape
  BY DEF Init, JournalShape, Sound, Improvements, NoSlot, SlotAt
<1> QED  BY <1>1, <1>2, <1>3 DEF IInv

(* A process that ends leaves the files as they are and nothing else.      *)
LEMMA ForgetIInv ==
  ASSUME IInv, Forget, UNCHANGED files, pc' = "down"
  PROVE  IInv'
<1> USE DEF IInv, Forget, files
<1>1. TypeOK'
  BY ZeroIsSlot DEF TypeOK, SlotState, NoSlot, SlotAt, Outcome
<1>2. RoundShape'
  BY DEF RoundShape, NoSlot, SlotAt, Settled, Accepting
<1>3. JournalShape'
  BY DEF JournalShape, Sound, Merged, NoSlot, SlotAt
<1> QED  BY <1>1, <1>2, <1>3

LEMMA BootIInv ==
  ASSUME IInv, Start \/ Baseline \/ CommitBaseline \/ NumberRounds
  PROVE  IInv'
<1> USE DEF IInv
<1>1. CASE Start
  BY <1>1 DEF Start, files, TypeOK, RoundShape, JournalShape, Sound, Merged, Settled, Accepting
<1>2. CASE Baseline
  <2> DEFINE line == Line(0, 0, "improvement", tip)
  <2>1. line \in LogLine /\ line.outcome = "improvement" /\ line.design = tip
    BY ZeroIsSlot DEF TypeOK, Line, LogLine, Outcome
  <2> HIDE DEF line
  <2>2. log' = <<line>> /\ log' \in Seq(LogLine) /\ log'[1] = line
    BY <1>2, <2>1 DEF Baseline, line
  <2>3. Sound(log)'
    BY <1>2, <2>1, <2>2 DEF Baseline, Sound, Merged, Improvements
  <2>4. TypeOK' /\ RoundShape'
    BY <1>2, <2>2 DEF Baseline, TypeOK, RoundShape, Settled, Accepting
  <2>5. JournalShape'
    BY <1>2, <2>2, <2>3 DEF Baseline, JournalShape, Sound, Merged
  <2> QED  BY <2>4, <2>5
<1>3. CASE CommitBaseline
  BY <1>3 DEF CommitBaseline, TypeOK, RoundShape, JournalShape, Sound, Merged, Settled, Accepting
<1>4. CASE NumberRounds
  BY <1>4, NextRoundIsNat
     DEF NumberRounds, files, TypeOK, RoundShape, JournalShape, Sound, Merged, Settled, Accepting
<1> QED  BY <1>1, <1>2, <1>3, <1>4

LEMMA StartRoundIInv ==
  ASSUME IInv, StartRound
  PROVE  IInv'
<1> USE DEF IInv, StartRound, files
<1>1. anchor' \in Merged /\ anchor' # None /\ anchor' \in Design
  BY ChampionIsMerged, MergedAreDesigns DEF JournalShape, TypeOK
<1>2. \A s \in Slot : ids'[s] \in Id
  <2>1. Cardinality(yamls) \in Nat /\ round \in Nat
    BY FS_CardinalityType DEF RoundShape, TypeOK
  <2>2. \A s \in Slot : Cardinality(yamls) + 1 + s \in Nat
    BY <2>1 DEF Slot
  <2> QED  BY <2>1, <2>2 DEF HypId, Id
<1>3. TypeOK'
  BY <1>1, <1>2 DEF TypeOK, SlotState, NoSlot, SlotAt, Outcome
<1>4. RoundShape'
  BY <1>1, <1>2 DEF RoundShape, TypeOK, NoSlot, SlotAt, Settled, Accepting
<1>5. JournalShape'
  BY <1>1 DEF JournalShape, Sound, Merged, NoSlot, SlotAt
<1> QED  BY <1>3, <1>4, <1>5

LEMMA SlotStepIInv ==
  ASSUME IInv, NEW s \in Slot, SlotStep(s)
  PROVE  IInv'
<1> USE DEF IInv, main, SlotAt
<1>0. /\ pc = "slots" /\ \A t \in Slot : ids[t] \in Id
      /\ IsFiniteSet(yamls) /\ IsFiniteSet(yamls \cup {ids[s]})
  BY FS_AddElement DEF SlotStep, RoundShape
<1>1. CASE Propose(s)
  <2>1. PICK id \in Id :
          slot' = [slot EXCEPT ![s] = SlotAt("create", id, "none", None)]
    BY <1>0, <1>1 DEF Propose, WrittenIds
  <2>2. TypeOK'
    BY <1>0, <1>1, <2>1 DEF Propose, TypeOK, SlotState, Outcome
  <2>3. RoundShape' /\ JournalShape'
    BY <1>0, <1>1, <2>1 DEF Propose, TypeOK, RoundShape, JournalShape, Sound,
                            Merged, Settled, Accepting
  <2> QED  BY <2>2, <2>3
<1>2. CASE ProposalFails(s)
  <2>1. TypeOK'
    BY <1>0, <1>2 DEF ProposalFails, Returned, TypeOK, SlotState, Outcome
  <2>2. RoundShape' /\ JournalShape'
    BY <1>0, <1>2 DEF ProposalFails, Returned, TypeOK, RoundShape,
                      JournalShape, Sound, Merged, Settled, Accepting
  <2> QED  BY <2>1, <2>2
<1>3. CASE CreateWorktree(s)
  <2>1. slot[s].id \in Id
    BY <1>3 DEF CreateWorktree, RoundShape
  <2>2. TypeOK'
    BY <1>0, <1>3, <2>1 DEF CreateWorktree, TypeOK, SlotState, Outcome
  <2>3. RoundShape' /\ JournalShape'
    BY <1>0, <1>3, <2>1 DEF CreateWorktree, TypeOK, RoundShape, JournalShape,
                            Sound, Merged, Settled, Accepting
  <2> QED  BY <2>2, <2>3
<1>4. CASE RaiseFromSlot(s)
  <2>1. TypeOK'
    BY <1>0, <1>4 DEF RaiseFromSlot, files, TypeOK, SlotState, Outcome
  <2>2. RoundShape' /\ JournalShape'
    BY <1>0, <1>4 DEF RaiseFromSlot, files, TypeOK, RoundShape, JournalShape,
                      Sound, Merged, Settled, Accepting
  <2> QED  BY <2>1, <2>2
<1>5. CASE Evaluate(s)
  <2>1. PICK o \in {"broken", "placement_failed", "regression"},
             d \in Designs \cup {None} :
          slot' = [slot EXCEPT ![s] = SlotAt("returned", slot[s].id, o, d)]
    BY <1>5 DEF Evaluate, Destroy, Returned
  <2>2. slot[s].id \in Id /\ trees' \subseteq trees
    BY <1>5 DEF Evaluate, Destroy, RoundShape
  <2>3. TypeOK'
    BY <1>0, <1>5, <2>1, <2>2 DEF Evaluate, Destroy, TypeOK, SlotState, Outcome
  <2>4. RoundShape' /\ JournalShape'
    BY <1>0, <1>5, <2>1, <2>2 DEF Evaluate, Destroy, TypeOK, RoundShape, JournalShape,
                                  Sound, Merged, Settled, Accepting
  <2> QED  BY <2>3, <2>4
<1> QED  BY <1>1, <1>2, <1>3, <1>4, <1>5 DEF SlotStep

LEMMA CollectIInv ==
  ASSUME IInv, Collect
  PROVE  IInv'
<1> USE DEF IInv
<1>1. CASE pc' = "down" /\ Forget
  BY <1>1, ForgetIInv DEF Collect
<1>2. CASE pc' = "accept" /\ UNCHANGED <<tip, former, round, anchor, ids, slot, cursor, starts>>
  <2> DEFINE w == PickWinner(Entries, anchor)
  <2>0. UNCHANGED files /\ pc = "slots" /\ winner' = IF w = None THEN None ELSE w.slot
    BY <1>2 DEF Collect
  <2>1. winner' # None => /\ winner' \in Slot
                          /\ slot[winner'].design # None
                          /\ Accept(anchor, slot[winner'].design)
    <3>1. ASSUME w # None
          PROVE  w \in Entries /\ w.design # None /\ Accept(anchor, w.design)
      BY <3>1, WinnerIsAccepted
    <3> HIDE DEF w
    <3>2. ASSUME w # None
          PROVE  w.slot \in Slot /\ w.design = slot[w.slot].design
      BY <3>1, <3>2 DEF Entries
    <3> QED  BY <2>0, <3>1, <3>2
  <2> HIDE DEF w
  <2>2. TypeOK'
    BY <1>2, <2>0, <2>1 DEF files, TypeOK
  <2>3. RoundShape'
    BY <1>2, <2>0, <2>1 DEF files, RoundShape, Settled, Accepting
  <2>4. JournalShape'
    BY <1>2, <2>0 DEF files, JournalShape, Sound, Merged
  <2> QED  BY <2>2, <2>3, <2>4
<1> QED  BY <1>1, <1>2 DEF Collect

(* accept_worktree as long as it does not raise. *)
LEMMA MergeIInv ==
  ASSUME IInv, ResetCheckout \/ MergeWinner \/ ReclaimWinner
  PROVE  IInv'
<1> USE DEF IInv
<1>0. /\ pc \in Accepting /\ cursor = winner /\ cursor \in Slot /\ winner # None
      /\ slot[cursor] \in SlotState /\ slot[cursor].design \in Designs
  <2>1. pc \in Accepting /\ cursor = winner /\ cursor \in Slot
    BY DEF ResetCheckout, MergeWinner, ReclaimWinner, Accepting, RoundShape, TypeOK
  <2>2. winner # None
    BY <2>1, TargetAssumption, TournamentAssumption DEF Slot
  <2> QED  BY <2>1, <2>2 DEF RoundShape, TypeOK, SlotState
<1>1. CASE ResetCheckout
  <2>1. slot' = [slot EXCEPT ![cursor] =
                   SlotAt("returned", slot[cursor].id, "improvement", slot[cursor].design)]
    BY <1>1 DEF ResetCheckout, Returned
  <2>2. log' \in Seq(LogLine) /\ log' # <<>> /\ Sound(log')
    BY <1>1 DEF ResetCheckout, Reset, JournalShape, TypeOK
  <2>3. TypeOK'
    BY <1>0, <1>1, <2>1, <2>2 DEF ResetCheckout, TypeOK, SlotState, Outcome, SlotAt
  <2>4. RoundShape'
    BY <1>0, <1>1, <2>1 DEF ResetCheckout, RoundShape, TypeOK, Settled, Accepting, SlotAt
  <2>5. Sound(log)' /\ Sound(committed)'
    BY <1>1, <2>2 DEF ResetCheckout, JournalShape, Sound, Merged
  <2>6. JournalShape'
    BY <1>0, <1>1, <2>1, <2>2, <2>5 DEF ResetCheckout, JournalShape, TypeOK, SlotAt, Merged
  <2> QED  BY <2>3, <2>4, <2>6
<1>2. CASE MergeWinner
  <2>1. tip' \in Designs /\ Merged' = Merged \cup {slot[cursor].design}
    BY <1>0, <1>2 DEF MergeWinner, Merged
  <2>2. TypeOK'
    BY <1>2, <2>1 DEF MergeWinner, files, TypeOK
  <2>3. RoundShape'
    BY <1>0, <1>2 DEF MergeWinner, files, RoundShape, Settled, Accepting
  <2>4. Sound(log)' /\ Sound(committed)'
    BY <1>2, <2>1 DEF MergeWinner, files, JournalShape, Sound
  <2>5. JournalShape'
    BY <1>0, <1>2, <2>1, <2>4 DEF MergeWinner, files, JournalShape
  <2> QED  BY <2>2, <2>3, <2>5
<1>3. CASE ReclaimWinner
  <2>1. pc' \in {"accept", "journal"} /\ cursor' \in Slot /\ trees' \subseteq trees
    BY <1>3, ZeroIsSlot, NextIsSlot DEF ReclaimWinner, Advance, Destroy, TypeOK
  <2>2. TypeOK'
    BY <1>3, <2>1 DEF ReclaimWinner, TypeOK
  <2>3. RoundShape'
    BY <1>3, <2>1 DEF ReclaimWinner, RoundShape, Settled, Accepting
  <2>4. JournalShape'
    BY <1>3, <2>1 DEF ReclaimWinner, JournalShape, Sound, Merged
  <2> QED  BY <2>2, <2>3, <2>4
<1> QED  BY <1>1, <1>2, <1>3

LEMMA RetireIInv ==
  ASSUME IInv, MergeFails \/ RetireLoser
  PROVE  IInv'
<1> USE DEF IInv
<1>0. /\ pc \in {"accept", "merge"} /\ pc' \in {"accept", "journal"} /\ cursor' \in Slot
      /\ UNCHANGED <<tip, former, log, committed, yamls, round, anchor, ids,
                     winner, starts>>
      /\ trees' \subseteq trees
  <2>1. Advance("accept", "journal")
    BY DEF MergeFails, RetireLoser, Destroy
  <2>2. pc' \in {"accept", "journal"} /\ cursor' \in Slot
    BY <2>1, ZeroIsSlot, NextIsSlot DEF Advance, TypeOK
  <2>3. trees' \subseteq trees
    BY DEF MergeFails, RetireLoser, Destroy
  <2> QED  BY <2>2, <2>3 DEF MergeFails, RetireLoser, Destroy
<1>1. CASE MergeFails
  <2>1. /\ cursor = winner /\ cursor \in Slot /\ slot[cursor] \in SlotState
        /\ slot' = [slot EXCEPT ![cursor] =
                      SlotAt("returned", slot[cursor].id, "regression", slot[cursor].design)]
    BY <1>1 DEF MergeFails, Downgraded, Returned, RoundShape, TypeOK
  <2>2. TypeOK'
    BY <1>0, <2>1 DEF TypeOK, SlotState, Outcome, SlotAt
  <2>3. RoundShape'
    BY <1>0, <2>1 DEF RoundShape, TypeOK, Settled, Accepting, SlotAt
  <2>4. Sound(log)' /\ Sound(committed)'
    BY <1>0 DEF JournalShape, Sound, Merged
  <2>5. JournalShape'
    BY <1>0, <2>1, <2>4 DEF JournalShape, TypeOK, SlotAt, Merged
  <2> QED  BY <2>2, <2>3, <2>5
<1>2. CASE RetireLoser
  <2>1. UNCHANGED slot /\ pc = "accept"
    BY <1>2 DEF RetireLoser
  <2>2. TypeOK'
    BY <1>0, <2>1 DEF TypeOK
  <2>3. RoundShape'
    BY <1>0, <2>1 DEF RoundShape, Settled, Accepting
  <2>4. JournalShape'
    BY <1>0, <2>1 DEF JournalShape, Sound, Merged
  <2> QED  BY <2>2, <2>3, <2>4
<1> QED  BY <1>1, <1>2

LEMMA JournalIInv ==
  ASSUME IInv, WriteLine \/ CommitLine \/ UnlinkHypothesis
  PROVE  IInv'
<1> USE DEF IInv
<1>1. CASE WriteLine
  <2> DEFINE line == Line(round, cursor, slot[cursor].outcome, slot[cursor].design)
  <2>1. /\ line \in LogLine
        /\ line.outcome = "improvement" => line.design \in Merged
    <3>1. round \in 0..MaxRound
      BY <1>1, TournamentAssumption DEF WriteLine, RoundShape, TypeOK, Settled, Accepting
    <3>2. cursor \in Slot /\ slot[cursor] \in SlotState
      BY DEF TypeOK
    <3>3. pc = "journal"
      BY <1>1 DEF WriteLine
    <3> QED  BY <3>1, <3>2, <3>3 DEF Line, LogLine, SlotState, JournalShape
  <2> HIDE DEF line
  <2>2. /\ log' = Append(log, line) /\ pc = "journal" /\ pc' = "commit"
        /\ UNCHANGED <<tip, former, committed, trees, yamls, round, anchor,
                       ids, slot, winner, cursor, starts>>
    BY <1>1 DEF WriteLine, Journalled, line
  <2>3. /\ log \in Seq(LogLine) /\ log # <<>> /\ log' \in Seq(LogLine)
        /\ log' # <<>> /\ log'[1] = log[1]
        /\ Len(log') = Len(log) + 1 /\ log'[Len(log) + 1] = line
        /\ \A i \in 1..Len(log) : log'[i] = log[i]
    BY <2>1, <2>2 DEF TypeOK, JournalShape
  <2>4. Sound(log')
    <3>1. ASSUME NEW i \in Improvements(log')
          PROVE  log'[i].design \in Merged
      <4>1. CASE i = Len(log) + 1
        BY <2>1, <2>3, <3>1, <4>1 DEF Improvements
      <4>2. CASE i # Len(log) + 1
        <5>1. i \in Improvements(log) /\ log'[i] = log[i]
          BY <2>3, <3>1, <4>2 DEF Improvements
        <5> QED  BY <5>1 DEF JournalShape, Sound
      <4> QED  BY <4>1, <4>2
    <3> QED  BY <2>3, <3>1 DEF JournalShape, Sound
  <2>5. TypeOK' /\ RoundShape'
    BY <2>2, <2>3 DEF TypeOK, RoundShape, Settled, Accepting
  <2>6. JournalShape'
    BY <2>2, <2>3, <2>4 DEF JournalShape, Sound, Merged
  <2> QED  BY <2>5, <2>6
<1>2. CASE CommitLine
  BY <1>2 DEF CommitLine, TypeOK, RoundShape, JournalShape, Sound, Merged, Settled, Accepting
<1>0. IsFiniteSet(yamls) /\ IsFiniteSet(yamls \ {slot[cursor].id})
  BY FS_RemoveElement DEF RoundShape
<1>3. CASE UnlinkHypothesis /\ cursor + 1 < TournamentSize
  BY <1>0, <1>3, NextIsSlot
     DEF UnlinkHypothesis, TypeOK, RoundShape, JournalShape, Sound, Merged, Settled, Accepting
<1>4. CASE UnlinkHypothesis /\ ~ (cursor + 1 < TournamentSize)
  <2>1. TypeOK'
    BY <1>4, ZeroIsSlot DEF UnlinkHypothesis, TypeOK, SlotState, NoSlot, SlotAt, Outcome
  <2>2. RoundShape' /\ JournalShape'
    BY <1>0, <1>4 DEF UnlinkHypothesis, RoundShape, JournalShape, Sound,
                      Merged, Settled, Accepting, NoSlot, SlotAt
  <2> QED  BY <2>1, <2>2
<1> QED  BY <1>1, <1>2, <1>3, <1>4

LEMMA NextIInv == IInv /\ [Next]_vars => IInv'
<1> SUFFICES ASSUME IInv, [Next]_vars PROVE IInv'
  OBVIOUS
<1>1. CASE Kill \/ BaselineFails \/ Finish \/ CommitFails
  BY <1>1, ForgetIInv DEF Kill, BaselineFails, Finish, CommitFails
<1>2. CASE UNCHANGED vars
  BY <1>2 DEF vars, files, main, IInv, TypeOK, RoundShape, JournalShape, Sound, Merged, Settled, Accepting
<1> QED  BY <1>1, <1>2, BootIInv, StartRoundIInv, SlotStepIInv, CollectIInv,
            MergeIInv, RetireIInv, JournalIInv DEF Next, MainStep

THEOREM TournamentIInv == Spec => []IInv
BY InitIInv, NextIInv, PTL DEF Spec

-----------------------------------------------------------------------------

(* The files, the branch and the state of a round are well typed for any   *)
(* tournament size and mix of faults.                                      *)
THEOREM TournamentTypeOK == Spec => []TypeOK
BY TournamentIInv, PTL DEF IInv

(* Whatever fails or dies, every improvement journalled was merged and a   *)
(* round is judged against a design that really was the branch's tip       *)
(* (orchestrator.py, _last_improvement).                                   *)
THEOREM TournamentAnchorIsReal == Spec => []AnchorIsReal
<1>1. IInv => AnchorIsReal
  BY DEF IInv, JournalShape, Sound, AnchorIsReal
<1> QED  BY <1>1, TournamentIInv, PTL

(* Whatever fails or dies, the branch moves only to a design preferred to  *)
(* the champion its round was judged against (pick_winner and the accept   *)
(* loop of run_tournament_round).                                          *)
THEOREM TournamentMergesBeatAnchor == Spec => MergesBeatAnchor
<1>1. IInv /\ [Next]_vars => [tip' # tip => anchor # None /\ Accept(anchor, tip')]_<<tip, anchor>>
  <2> SUFFICES ASSUME IInv, [Next]_vars, tip' # tip
               PROVE  anchor # None /\ Accept(anchor, tip')
    OBVIOUS
  <2>1. MergeWinner
    BY DEF Next, MainStep, vars, Start, Kill, Forget, Baseline, CommitBaseline,
           BaselineFails, NumberRounds, StartRound, Finish, Collect, ResetCheckout,
           ReclaimWinner, MergeFails,
           RetireLoser, WriteLine, CommitLine, CommitFails, UnlinkHypothesis,
           SlotStep, Propose, ProposalFails, CreateWorktree, RaiseFromSlot, Evaluate
  <2>2. cursor = winner /\ pc = "merge" /\ tip' = slot[cursor].design /\ cursor \in Slot
    BY <2>1 DEF MergeWinner, IInv, RoundShape, TypeOK
  <2>3. winner # None
    BY <2>2, TargetAssumption, TournamentAssumption DEF Slot
  <2> QED  BY <2>2, <2>3 DEF IInv, RoundShape, Settled, Accepting
<1> QED  BY <1>1, TournamentIInv, PTL DEF Spec, MergesBeatAnchor

-----------------------------------------------------------------------------
(* The order of the journal.                                               *)

Earlier(k, l) == k.round < l.round \/ (k.round = l.round /\ k.slot < l.slot)

Ordered(lines) ==
  \A i, j \in 1..Len(lines) : i < j => Earlier(lines[i], lines[j])

(* The lines come before slot c of round r. *)
Before(lines, r, c) ==
  \A i \in 1..Len(lines) : Earlier(lines[i], [round |-> r, slot |-> c])

(* HEAD holds a beginning of the journal, whose lines are in strict order  *)
(* of rounds and slots, all before the one to be written next: a round     *)
(* that died without a line keeps its number, any other one loses it.      *)
OrderInv ==
  /\ IsPrefix(committed, log)
  /\ Ordered(log)
  /\ pc \in {"idle", "slots"} \cup Accepting => Before(log, round, 0)
  /\ pc = "journal" => Before(log, round, cursor)
  /\ pc \in {"commit", "unlink"} => Before(log, round, cursor + 1)

LEMMA PrefixLines ==
  ASSUME NEW shorter \in Seq(LogLine), NEW lines \in Seq(LogLine),
         IsPrefix(shorter, lines)
  PROVE  /\ Len(shorter) <= Len(lines)
         /\ \A i \in 1..Len(shorter) : shorter[i] = lines[i]
<1>1. Len(shorter) <= Len(lines) /\ SubSeq(shorter, 1, Len(shorter)) = SubSeq(lines, 1, Len(shorter))
  BY DEF IsPrefix
<1>2. ASSUME NEW i \in 1..Len(shorter)
      PROVE  /\ SubSeq(shorter, 1, Len(shorter))[i] = shorter[i]
             /\ SubSeq(lines, 1, Len(shorter))[i] = lines[i]
  BY <1>1
<1> QED  BY <1>1, <1>2

LEMMA PrefixOfSelf ==
  ASSUME NEW lines \in Seq(LogLine)
  PROVE  IsPrefix(lines, lines)
BY DEF IsPrefix

(* Rounds are numbered past every line of the journal. *)
LEMMA NextRoundIsPast ==
  ASSUME NEW lines \in Seq(LogLine)
  PROVE  \A i \in 1..Len(lines) : lines[i].round < NextRound(lines)
<1> SUFFICES ASSUME NEW k \in 1..Len(lines) PROVE lines[k].round < NextRound(lines)
  OBVIOUS
<1> DEFINE S == {lines[i].round : i \in 1..Len(lines)}
           top == CHOOSE r \in S : \A i \in 1..Len(lines) : lines[i].round <= r
<1>1. \A i \in 1..Len(lines) : lines[i] \in LogLine
  OBVIOUS
<1>2. S \in SUBSET (0..MaxRound) /\ lines[k].round \in S
  BY <1>1 DEF LogLine
<1>3. PICK m \in S : \A q \in S : q <= m
  BY <1>2, MaximumExists, TournamentAssumption
<1>4. \E r \in S : \A i \in 1..Len(lines) : lines[i].round <= r
  BY <1>3
<1>5. top \in S /\ lines[k].round <= top
  BY <1>4
<1>6. NextRound(lines) = 1 + top
  <2>1. lines # <<>>
    OBVIOUS
  <2> QED  BY <2>1, Zenon DEF NextRound
<1>7. top \in Nat /\ lines[k].round \in Nat
  <2> HIDE DEF top, S
  <2>1. 0..MaxRound \subseteq Nat
    BY TournamentAssumption
  <2> QED  BY <1>2, <1>5, <2>1
<1> HIDE DEF top
<1> QED  BY <1>5, <1>6, <1>7

(* What a death leaves: the files, and nothing about a round. *)
LEMMA FilesKeepOrder ==
  ASSUME OrderInv, UNCHANGED files, pc' = "down"
  PROVE  OrderInv'
BY DEF OrderInv, files, Accepting, Ordered, Earlier

LEMMA BootOrder ==
  ASSUME IInv, OrderInv, Start \/ Baseline \/ CommitBaseline \/ NumberRounds \/ StartRound
  PROVE  OrderInv'
<1> USE DEF OrderInv, Accepting
<1>1. CASE Start
  BY <1>1 DEF Start, files, Ordered, Earlier
<1>2. CASE Baseline
  <2>1. log = <<>> /\ committed \in Seq(LogLine)
    BY <1>2 DEF Baseline, IInv, TypeOK
  <2>2. committed = <<>>
    BY <2>1 DEF IsPrefix
  <2>3. IsPrefix(<<>>, log')
    BY <1>2 DEF Baseline, IsPrefix
  <2>4. Len(log') = 1
    BY <1>2 DEF Baseline
  <2> QED  BY <1>2, <2>2, <2>3, <2>4 DEF Baseline, Ordered
<1>3. CASE CommitBaseline
  BY <1>3, PrefixOfSelf DEF CommitBaseline, Ordered, Earlier, IInv, TypeOK
<1>4. CASE NumberRounds
  <2>1. log \in Seq(LogLine)
    BY DEF IInv, TypeOK
  <2>2. Before(log, NextRound(log), 0)
    BY <2>1, NextRoundIsPast DEF Before, Earlier
  <2> QED  BY <1>4, <2>2 DEF NumberRounds, files, Ordered, Earlier
<1>5. CASE StartRound
  BY <1>5 DEF StartRound, files, Ordered, Earlier, Before
<1> QED  BY <1>1, <1>2, <1>3, <1>4, <1>5

LEMMA AcceptOrder ==
  ASSUME IInv, OrderInv, ResetCheckout \/ MergeWinner \/ ReclaimWinner \/ MergeFails \/ RetireLoser
  PROVE  OrderInv'
<1>1. /\ pc \in Accepting /\ UNCHANGED <<committed, round>>
      /\ pc' \in Accepting \/ (pc' = "journal" /\ cursor' = 0)
  BY DEF ResetCheckout, MergeWinner, ReclaimWinner, MergeFails, RetireLoser,
         Advance, Destroy, files, Accepting
<1>2. log \in Seq(LogLine) /\ committed \in Seq(LogLine)
  BY DEF IInv, TypeOK
<1>3. log' \in {log, committed} /\ IsPrefix(log', log)
  BY <1>2, PrefixOfSelf DEF ResetCheckout, MergeWinner, ReclaimWinner, MergeFails,
     RetireLoser, Reset, files, OrderInv
<1>4. IsPrefix(committed, log')
  BY <1>2, <1>3, PrefixOfSelf DEF OrderInv
<1>5. /\ Len(log') <= Len(log) /\ \A i \in 1..Len(log') : log'[i] = log[i]
      /\ Len(log') \in Nat /\ Len(log) \in Nat
  BY <1>2, <1>3, PrefixLines
<1>6. Ordered(log') /\ Before(log', round, 0)
  BY <1>1, <1>5 DEF OrderInv, Ordered, Before
<1> QED  BY <1>1, <1>4, <1>6 DEF OrderInv, Accepting

LEMMA JournalOrder ==
  ASSUME IInv, OrderInv, WriteLine \/ CommitLine \/ UnlinkHypothesis
  PROVE  OrderInv'
<1> USE DEF OrderInv, Accepting
<1>0. log \in Seq(LogLine) /\ committed \in Seq(LogLine) /\ cursor \in Slot /\ cursor \in Int
  BY DEF IInv, TypeOK, Slot
<1>1. CASE WriteLine
  <2> DEFINE line == Line(round, cursor, slot[cursor].outcome, slot[cursor].design)
  <2>1. /\ pc = "journal" /\ pc' = "commit" /\ log' = Append(log, line)
        /\ UNCHANGED <<committed, round, cursor>>
    BY <1>1 DEF WriteLine, Journalled
  <2>2. line \in LogLine /\ line.round = round /\ line.slot = cursor
    <3>1. round \in 0..MaxRound
      BY <2>1, TournamentAssumption DEF IInv, RoundShape, TypeOK, Settled, Accepting
    <3>2. slot[cursor] \in SlotState
      BY DEF IInv, TypeOK
    <3> QED  BY <1>0, <3>1, <3>2 DEF Line, LogLine, SlotState
  <2> HIDE DEF line
  <2>3. /\ Len(log') = Len(log) + 1 /\ Len(log) \in Nat /\ log' \in Seq(LogLine)
        /\ log'[Len(log) + 1] = line /\ \A i \in 1..Len(log) : log'[i] = log[i]
    BY <1>0, <2>1, <2>2
  <2>4. \A i \in 1..Len(log) : Earlier(log[i], line)
    BY <2>1, <2>2 DEF Before, Earlier
  <2>5. Ordered(log')
    BY <2>3, <2>4 DEF Ordered
  <2>6. Before(log', round, cursor + 1)
    <3>1. ASSUME NEW i \in 1..Len(log)
          PROVE  Earlier(log'[i], [round |-> round, slot |-> cursor + 1])
      <4>1. log[i] \in LogLine /\ log'[i] = log[i]
        BY <1>0, <2>3
      <4>2. log[i].slot \in Int
        BY <4>1 DEF LogLine, Slot
      <4> QED  BY <1>0, <2>1, <4>1, <4>2 DEF Before, Earlier
    <3>2. Earlier(log'[Len(log) + 1], [round |-> round, slot |-> cursor + 1])
      BY <1>0, <2>2, <2>3 DEF Earlier
    <3>3. \A i \in 1..Len(log') : i \in 1..Len(log) \/ i = Len(log) + 1
      BY <2>3
    <3> QED  BY <2>1, <3>1, <3>2, <3>3 DEF Before
  <2>7. IsPrefix(committed, log')
    <3>1. Len(committed) <= Len(log) /\ Len(committed) \in Nat
      BY <1>0, PrefixLines
    <3>2. SubSeq(log', 1, Len(committed)) = SubSeq(log, 1, Len(committed))
      BY <1>0, <2>3, <3>1
    <3> QED  BY <2>3, <3>1, <3>2 DEF IsPrefix
  <2> QED  BY <2>1, <2>5, <2>6, <2>7
<1>2. CASE CommitLine
  BY <1>0, <1>2, PrefixOfSelf DEF CommitLine, Ordered, Earlier, Before
<1>3. CASE UnlinkHypothesis
  <2>1. /\ pc = "unlink" /\ UNCHANGED <<log, committed>>
        /\ \/ pc' = "journal" /\ cursor' = cursor + 1 /\ round' = round
           \/ pc' = "idle" /\ round' = round + 1
    BY <1>3 DEF UnlinkHypothesis
  <2>2. round \in Nat /\ \A i \in 1..Len(log) : log[i].round \in Int
    <3>1. \A i \in 1..Len(log) : log[i] \in LogLine
      BY <1>0
    <3> QED  BY <3>1, TournamentAssumption DEF LogLine, IInv, TypeOK
  <2>3. Before(log, round, cursor + 1)
    BY <2>1
  <2>4. Before(log, round + 1, 0)
    BY <2>2, <2>3 DEF Before, Earlier
  <2> QED  BY <2>1, <2>3, <2>4
<1> QED  BY <1>1, <1>2, <1>3

LEMMA NextOrder == IInv /\ OrderInv /\ [Next]_vars => OrderInv'
<1> SUFFICES ASSUME IInv, OrderInv, [Next]_vars PROVE OrderInv'
  OBVIOUS
<1>1. CASE Kill \/ BaselineFails \/ Finish \/ CommitFails
  BY <1>1, FilesKeepOrder DEF Kill, BaselineFails, Finish, CommitFails
<1>2. CASE Collect
  <2>1. CASE pc' = "down"
    BY <1>2, <2>1, FilesKeepOrder DEF Collect
  <2>2. CASE pc' = "accept" /\ pc = "slots" /\ UNCHANGED <<log, committed, round>>
    BY <2>2 DEF OrderInv, Accepting, Before
  <2> QED  BY <1>2, <2>1, <2>2 DEF Collect, files
<1>3. ASSUME NEW s \in Slot, SlotStep(s) PROVE OrderInv'
  <2>1. UNCHANGED <<pc, log, committed, round, cursor>> /\ pc = "slots"
    BY <1>3 DEF SlotStep, Propose, ProposalFails, CreateWorktree,
                RaiseFromSlot, Evaluate, main, files
  <2> QED  BY <2>1 DEF OrderInv, Before, Accepting
<1>4. CASE UNCHANGED vars
  BY <1>4 DEF vars, files, main, OrderInv, Before
<1> QED  BY <1>1, <1>2, <1>3, <1>4, BootOrder, AcceptOrder, JournalOrder
         DEF Next, MainStep

LEMMA AlwaysOrder == Spec => []OrderInv
<1>1. Init => OrderInv
  BY DEF Init, OrderInv, Ordered, IsPrefix, Accepting
<1> QED  BY <1>1, NextOrder, TournamentIInv, PTL DEF Spec

(* A slot of a round is journalled once, though a round that died may be   *)
(* run again under its number (main and append_log).                       *)
THEOREM TournamentOneLinePerSlot == Spec => []OneLinePerSlot
<1>1. IInv /\ OrderInv => OneLinePerSlot
  <2> SUFFICES ASSUME IInv, OrderInv, NEW i \in 1..Len(log), NEW j \in 1..Len(log),
                      log[i].round = log[j].round, log[i].slot = log[j].slot
               PROVE  i = j
    BY DEF OneLinePerSlot
  <2>1. log[i] \in LogLine
    BY DEF IInv, TypeOK
  <2>2. log[i].round \in Int /\ log[i].slot \in Int
    BY <2>1, TournamentAssumption DEF LogLine, Slot
  <2>3. ~(i < j) /\ ~(j < i)
    BY <2>2 DEF OrderInv, Ordered, Earlier
  <2> QED  BY <2>3
<1> QED  BY <1>1, TournamentIInv, AlwaysOrder, PTL

(* Whatever a crash left on disk and a merge threw away, the journal at    *)
(* HEAD never loses or changes a line (append_log, accept_worktree).       *)
THEOREM TournamentCommittedIsAppendOnly == Spec => CommittedIsAppendOnly
<1>1. IInv /\ OrderInv /\ [Next]_vars => [IsPrefix(committed, committed')]_committed
  <2> SUFFICES ASSUME IInv, OrderInv, [Next]_vars, committed' # committed
               PROVE  IsPrefix(committed, committed')
    OBVIOUS
  <2>1. committed' = log
    BY DEF Next, MainStep, vars, files, Start, Kill, Forget, Baseline, CommitBaseline,
           BaselineFails, NumberRounds, StartRound, Finish, Collect, ResetCheckout,
           MergeWinner, ReclaimWinner, MergeFails,
           RetireLoser, WriteLine, CommitLine, CommitFails, UnlinkHypothesis,
           SlotStep, Propose, ProposalFails, CreateWorktree, RaiseFromSlot, Evaluate
  <2> QED  BY <2>1 DEF OrderInv
<1> QED  BY <1>1, TournamentIInv, AlwaysOrder, PTL DEF Spec, CommittedIsAppendOnly

-----------------------------------------------------------------------------
(* Worktree ids.                                                           *)

NoStray == "stray" \notin Faults

InRound == pc \in {"slots"} \cup Settled

(* How many hypothesis files the round found that gave out this id. *)
Base(x) == x.seq - 1 - x.slot

(* Hypothesis files of rounds that died. *)
Old == yamls \ {ids[s] : s \in Slot}

(* The journal at HEAD has a line that keeps this id's round from being    *)
(* run again.                                                              *)
Past(w) == \E i \in 1..Len(committed) : w.round <= committed[i].round

(* Once a round has written its files, a later one finds more of them: it  *)
(* numbers its ids past every worktree, except those of journalled rounds, *)
(* whose files are gone but whose number is never used again.              *)
FreshInv ==
  /\ ~InRound =>
       /\ \A s \in Slot : slot[s].at = "none"
       /\ \A x \in yamls : Base(x) < Cardinality(yamls)
       /\ \A w \in trees : Base(w) < Cardinality(yamls) \/ Past(w)
  /\ InRound =>
       /\ \A s \in Slot : ids[s] = HypId(Cardinality(Old) + 1 + s, round, s)
       /\ \A x \in Old : Base(x) < Cardinality(Old)
       /\ \A w \in trees :
            \/ Base(w) < Cardinality(Old)
            \/ Past(w)
            \/ /\ w \in yamls
               /\ \E s \in Slot : w = ids[s] /\ slot[s].at \notin {"hypothesis", "create"}
       /\ \A s \in Slot :
            /\ slot[s].at \in {"create", "evaluate", "returned"} => slot[s].id = ids[s]
            /\ slot[s].at \in {"create", "evaluate"} => ids[s] \in yamls
  /\ pc \in Settled => \A s \in Slot : slot[s].at = "returned"
  /\ pc \in {"journal", "commit", "unlink"} =>
       \A s \in Slot : s < cursor => ids[s] \notin yamls
  /\ pc = "commit" => \E i \in 1..Len(log) : log[i].round = round
  /\ pc = "unlink" => \E i \in 1..Len(committed) : committed[i].round = round

LEMMA FieldsOfId ==
  ASSUME NEW q, NEW r, NEW s
  PROVE  HypId(q, r, s).seq = q /\ HypId(q, r, s).round = r /\ HypId(q, r, s).slot = s
BY DEF HypId

LEMMA IdsOfRound ==
  ASSUME IInv, FreshInv, InRound
  PROVE  /\ IsFiniteSet(Old) /\ Cardinality(Old) \in Nat
         /\ \A s \in Slot : /\ s \in Int /\ ids[s].round = round /\ ids[s].slot = s
                            /\ Base(ids[s]) = Cardinality(Old)
         /\ \A s, t \in Slot : ids[s] = ids[t] => s = t
<1>1. IsFiniteSet(Old) /\ Cardinality(Old) \in Nat
  BY FS_Subset, FS_CardinalityType DEF IInv, RoundShape, Old
<1>2. ASSUME NEW s \in Slot
      PROVE  /\ s \in Int /\ ids[s].slot = s /\ ids[s].round = round
             /\ ids[s].seq = Cardinality(Old) + 1 + s
  <2>1. ids[s] = HypId(Cardinality(Old) + 1 + s, round, s)
    BY DEF FreshInv
  <2> QED  BY <2>1, FieldsOfId DEF Slot
<1>3. ASSUME NEW s \in Slot PROVE Base(ids[s]) = Cardinality(Old)
  BY <1>1, <1>2 DEF Base
<1>4. ASSUME NEW s \in Slot, NEW t \in Slot, ids[s] = ids[t] PROVE s = t
  BY <1>2, <1>4
<1> QED  BY <1>1, <1>2, <1>3, <1>4

(* A file of the round makes the files more than the round found. *)
LEMMA OldAreFewer ==
  ASSUME IInv, FreshInv, InRound
  PROVE  /\ Cardinality(yamls) \in Nat
         /\ Cardinality(Old) <= Cardinality(yamls)
         /\ yamls # Old => Cardinality(Old) < Cardinality(yamls)
BY IdsOfRound, FS_Subset, FS_CardinalityType DEF IInv, RoundShape, Old

(* The end of a round, or of the process in it. *)
LEMMA DeathIsFresh ==
  ASSUME IInv, FreshInv, UNCHANGED files, pc' = "down",
         \A s \in Slot : slot'[s].at = "none"
  PROVE  FreshInv'
<1>1. ~InRound' /\ pc' \notin Settled \cup {"journal", "commit", "unlink"}
  BY DEF InRound, Settled, Accepting
<1>2. CASE ~InRound
  BY <1>1, <1>2 DEF FreshInv, files, Past
<1>3. CASE InRound
  <2>1. ASSUME NEW x \in yamls PROVE Base(x) < Cardinality(yamls)
    <3>1. CASE x \in Old
      <4>1. Base(x) < Cardinality(Old) /\ Cardinality(Old) <= Cardinality(yamls)
        BY <1>3, <3>1, OldAreFewer DEF FreshInv
      <4>2. Base(x) \in Int
        BY DEF IInv, TypeOK, Id, Slot, Base
      <4> QED  BY <1>3, <4>1, <4>2, IdsOfRound, OldAreFewer
    <3>2. CASE x \notin Old
      <4>1. PICK s \in Slot : x = ids[s]
        BY <3>2 DEF Old
      <4> QED  BY <1>3, <3>2, <4>1, IdsOfRound, OldAreFewer
    <3> QED  BY <3>1, <3>2
  <2>2. ASSUME NEW w \in trees PROVE Base(w) < Cardinality(yamls) \/ Past(w)
    <3>1. CASE Base(w) < Cardinality(Old)
      <4>1. Base(w) \in Int
        BY DEF IInv, TypeOK, Id, Slot, Base
      <4> QED  BY <1>3, <3>1, <4>1, IdsOfRound, OldAreFewer
    <3> QED  BY <1>3, <2>1, <3>1 DEF FreshInv
  <2> QED  BY <1>1, <2>1, <2>2 DEF FreshInv, files, Past
<1> QED  BY <1>2, <1>3

LEMMA StartRoundIsFresh ==
  ASSUME IInv, FreshInv, StartRound
  PROVE  FreshInv'
<1>1. ~InRound /\ InRound' /\ pc' = "slots" /\ UNCHANGED <<files, round>>
  BY DEF StartRound, InRound, Settled, Accepting
<1>2. /\ \A s \in Slot : ids'[s] = HypId(Cardinality(yamls) + 1 + s, round, s)
      /\ \A s \in Slot : slot'[s].at = "hypothesis"
  BY DEF StartRound, SlotAt
<1>3. Cardinality(yamls) \in Nat
  BY FS_CardinalityType DEF IInv, RoundShape
<1>4. Old' = yamls
  <2>1. ASSUME NEW s \in Slot PROVE Base(ids'[s]) = Cardinality(yamls)
    <3>1. /\ ids'[s].seq = Cardinality(yamls) + 1 + s /\ ids'[s].slot = s
          /\ s \in Int
      BY <1>2, FieldsOfId DEF Slot
    <3> QED  BY <1>3, <3>1 DEF Base
  <2>2. \A x \in yamls : Base(x) # Cardinality(yamls)
    BY <1>1, <1>3 DEF FreshInv
  <2> QED  BY <1>1, <2>1, <2>2 DEF Old, files
<1> QED  BY <1>1, <1>2, <1>4 DEF FreshInv, files, Past, Settled, Accepting

LEMMA SlotStepIsFresh ==
  ASSUME NoStray, IInv, FreshInv, NEW s \in Slot, SlotStep(s)
  PROVE  FreshInv'
<1>0. /\ pc = "slots" /\ InRound /\ InRound' /\ pc' \notin Settled
      /\ UNCHANGED <<pc, round, ids, committed, log, cursor>>
      /\ yamls' = yamls \/ yamls' = yamls \cup {ids[s]}
  BY DEF SlotStep, Propose, ProposalFails, CreateWorktree, RaiseFromSlot,
         Evaluate, main, files, InRound, Settled, Accepting
<1>1. Old' = Old
  BY <1>0 DEF Old
<1>2. /\ \A t \in Slot \ {s} : slot'[t] = slot[t]
      /\ slot'[s].at \in {"create", "evaluate", "returned", "raised"}
      /\ slot'[s].at \in {"create", "evaluate", "returned"} => slot'[s].id = ids[s]
      /\ slot'[s].at \in {"create", "evaluate"} => ids[s] \in yamls'
      /\ slot'[s].at = "create" => slot[s].at = "hypothesis"
      /\ \/ trees' \subseteq trees
         \/ /\ trees' = trees \cup {ids[s]} /\ ids[s] \in yamls'
            /\ slot'[s].at = "evaluate"
  <2> USE <1>0 DEF FreshInv, SlotAt, IInv, TypeOK, main
  <2>1. CASE Propose(s)
    BY <2>1 DEF Propose, WrittenIds, NoStray
  <2>2. CASE ProposalFails(s)
    BY <2>2 DEF ProposalFails, Returned
  <2>3. CASE CreateWorktree(s)
    BY <2>3 DEF CreateWorktree
  <2>4. CASE RaiseFromSlot(s)
    BY <2>4 DEF RaiseFromSlot, files
  <2>5. CASE Evaluate(s)
    BY <2>5 DEF Evaluate, Returned, Destroy
  <2> QED  BY <2>1, <2>2, <2>3, <2>4, <2>5 DEF SlotStep
<1>3. ASSUME NEW w \in trees'
      PROVE  \/ Base(w) < Cardinality(Old)
             \/ Past(w)
             \/ /\ w \in yamls'
                /\ \E t \in Slot : w = ids[t] /\ slot'[t].at \notin {"hypothesis", "create"}
  <2>1. CASE w \in trees
    <3>1. CASE \E t \in Slot : w = ids[t] /\ slot[t].at \notin {"hypothesis", "create"}
      <4>1. PICK t \in Slot : w = ids[t] /\ slot[t].at \notin {"hypothesis", "create"}
        BY <3>1
      <4>2. slot'[t].at \notin {"hypothesis", "create"}
        BY <1>2, <4>1
      <4> QED  BY <1>0, <2>1, <4>1, <4>2 DEF FreshInv
    <3> QED  BY <1>0, <2>1, <3>1 DEF FreshInv
  <2>2. CASE w \notin trees
    BY <1>2, <2>2
  <2> QED  BY <2>1, <2>2
<1> QED  BY <1>0, <1>1, <1>2, <1>3 DEF FreshInv, Past, Settled, Accepting

(* The coordinator between the fan-out and the journal. *)
LEMMA CoordinatorIsFresh ==
  ASSUME IInv, FreshInv,
         pc \in {"slots"} \cup Accepting, pc' \in Accepting \cup {"journal"},
         pc' = "journal" => cursor' = 0,
         UNCHANGED <<yamls, round, ids, committed>>, trees' \subseteq trees,
         \A s \in Slot : slot'[s].at = "returned" /\ slot'[s].id = slot[s].id,
         \A s \in Slot : slot[s].at = "returned"
  PROVE  FreshInv'
<1>1. InRound /\ InRound' /\ Old' = Old
  BY DEF InRound, Settled, Accepting, Old
<1>2. \A s \in Slot : ~(s < 0)
  BY DEF Slot
<1>3. ASSUME NEW w \in trees'
      PROVE  \/ Base(w) < Cardinality(Old)
             \/ Past(w)
             \/ /\ w \in yamls
                /\ \E t \in Slot : w = ids[t] /\ slot'[t].at \notin {"hypothesis", "create"}
  BY <1>1 DEF FreshInv
<1> QED  BY <1>1, <1>2, <1>3 DEF FreshInv, Past, Settled, Accepting

LEMMA AcceptIsFresh ==
  ASSUME IInv, FreshInv, ResetCheckout \/ MergeWinner \/ ReclaimWinner \/ MergeFails \/ RetireLoser
  PROVE  FreshInv'
<1>1. /\ pc \in Accepting /\ pc' \in Accepting \cup {"journal"}
      /\ pc' = "journal" => cursor' = 0
      /\ UNCHANGED <<yamls, round, ids, committed>> /\ trees' \subseteq trees
  BY DEF ResetCheckout, MergeWinner, ReclaimWinner, MergeFails, RetireLoser,
         Advance, Destroy, files, Accepting
<1>2. \A s \in Slot : slot[s].at = "returned"
  BY <1>1 DEF FreshInv, Settled, Accepting
<1>3. ASSUME NEW s \in Slot
      PROVE  slot'[s].at = "returned" /\ slot'[s].id = slot[s].id
  <2>1. CASE ResetCheckout \/ MergeWinner \/ ReclaimWinner
    BY <1>2, <2>1 DEF ResetCheckout, MergeWinner, ReclaimWinner,
                      Returned, SlotAt, IInv, TypeOK
  <2>2. CASE MergeFails
    BY <1>2, <2>2 DEF MergeFails, Downgraded, Returned, SlotAt, IInv, TypeOK
  <2>3. CASE RetireLoser
    BY <1>2, <2>3 DEF RetireLoser, Returned, SlotAt, IInv, TypeOK
  <2> QED  BY <2>1, <2>2, <2>3
<1> QED  BY <1>1, <1>2, <1>3, CoordinatorIsFresh

LEMMA JournalIsFresh ==
  ASSUME IInv, OrderInv, FreshInv, WriteLine \/ CommitLine \/ UnlinkHypothesis
  PROVE  FreshInv'
<1>0. /\ InRound /\ pc \in Settled /\ pc \in {"journal", "commit", "unlink"}
      /\ \A s \in Slot : slot[s].at = "returned" /\ slot[s].id = ids[s]
      /\ log \in Seq(LogLine) /\ committed \in Seq(LogLine)
      /\ cursor \in Slot /\ round \in Nat
  <2>1. InRound /\ pc \in Settled /\ pc \in {"journal", "commit", "unlink"}
    BY DEF WriteLine, CommitLine, UnlinkHypothesis, InRound, Settled
  <2> QED  BY <2>1 DEF FreshInv, IInv, TypeOK
<1>1. CASE WriteLine
  <2> DEFINE line == Line(round, cursor, slot[cursor].outcome, slot[cursor].design)
  <2>1. /\ pc = "journal" /\ pc' = "commit" /\ log' = Append(log, line)
        /\ UNCHANGED <<committed, trees, yamls, round, ids, slot, cursor>>
    BY <1>1 DEF WriteLine, Journalled
  <2>2. line.round = round
    BY DEF Line
  <2> HIDE DEF line
  <2>3. Len(log') = Len(log) + 1 /\ log'[Len(log) + 1] = line /\ Len(log) \in Nat
    BY <1>0, <2>1
  <2>4. \E i \in 1..Len(log') : log'[i].round = round
    BY <2>2, <2>3
  <2>5. InRound' /\ Old' = Old
    BY <2>1 DEF InRound, Settled, Old
  <2> QED  BY <1>0, <2>1, <2>4, <2>5 DEF FreshInv, Past, Settled, Accepting
<1>2. CASE CommitLine
  <2>1. /\ pc = "commit" /\ pc' = "unlink" /\ committed' = log
        /\ UNCHANGED <<log, trees, yamls, round, ids, slot, cursor>>
    BY <1>2 DEF CommitLine
  <2>2. InRound' /\ Old' = Old
    BY <2>1 DEF InRound, Settled, Old
  <2>3. ASSUME NEW w \in trees, Past(w) PROVE Past(w)'
    <3>1. PICK i \in 1..Len(committed) : w.round <= committed[i].round
      BY <2>3 DEF Past
    <3>2. i \in 1..Len(log) /\ log[i] = committed[i]
      BY <1>0, <3>1, PrefixLines DEF OrderInv
    <3> QED  BY <2>1, <3>1, <3>2 DEF Past
  <2> QED  BY <1>0, <2>1, <2>2, <2>3 DEF FreshInv, Settled, Accepting
<1>3. CASE UnlinkHypothesis
  <2>1. /\ pc = "unlink" /\ yamls' = yamls \ {ids[cursor]}
        /\ UNCHANGED <<log, committed, trees>>
    BY <1>0, <1>3 DEF UnlinkHypothesis
  <2>2. \A w : Past(w)' <=> Past(w)
    BY <2>1 DEF Past
  <2>3. Past(ids[cursor])
    <3>1. PICK i \in 1..Len(committed) : committed[i].round = round
      BY <2>1 DEF FreshInv
    <3>2. ids[cursor].round <= committed[i].round
      BY <1>0, <3>1, IdsOfRound
    <3> QED  BY <3>2 DEF Past
  <2>4. \A x \in yamls' : x \in yamls /\ x # ids[cursor]
    BY <2>1
  <2>5. \A s \in Slot : s < cursor + 1 => ids[s] \notin yamls'
    <3>1. \A s \in Slot : s < cursor + 1 => s < cursor \/ s = cursor
      <4>1. cursor \in Int
        BY <1>0 DEF Slot, IInv, TypeOK
      <4> QED  BY <4>1 DEF Slot
    <3> QED  BY <2>1, <2>4, <3>1 DEF FreshInv
  <2>6. CASE cursor + 1 < TournamentSize
    <3>1. /\ pc' = "journal" /\ cursor' = cursor + 1
          /\ UNCHANGED <<round, ids, slot>>
      BY <1>3, <2>6 DEF UnlinkHypothesis
    <3>2. InRound' /\ Old' = Old
      BY <1>0, <2>1, <3>1 DEF InRound, Settled, Old
    <3>3. ASSUME NEW w \in trees
          PROVE  \/ Base(w) < Cardinality(Old)
                 \/ Past(w)
                 \/ /\ w \in yamls'
                    /\ \E t \in Slot : w = ids[t] /\ slot[t].at \notin {"hypothesis", "create"}
      BY <1>0, <2>1, <2>3 DEF FreshInv
    <3> QED  BY <1>0, <2>1, <2>2, <2>5, <3>1, <3>2, <3>3 DEF FreshInv, Settled, Accepting
  <2>7. CASE ~ (cursor + 1 < TournamentSize)
    <3>1. pc' = "idle" /\ \A s \in Slot : slot'[s].at = "none"
      BY <1>3, <2>7 DEF UnlinkHypothesis, NoSlot, SlotAt
    <3>2. \A s \in Slot : s < cursor + 1
      BY <1>0, <2>7, TournamentAssumption DEF Slot
    <3>3. yamls' = Old
      BY <1>0, <2>1, <2>5, <3>2 DEF Old
    <3>4. ASSUME NEW w \in trees PROVE Base(w) < Cardinality(Old) \/ Past(w)
      <4>1. ASSUME NEW t \in Slot, w = ids[t] PROVE w = ids[cursor] \/ w \notin yamls
        BY <2>1, <2>5, <3>2, <4>1
      <4> QED  BY <1>0, <2>3, <4>1 DEF FreshInv
    <3>5. \A x \in Old : Base(x) < Cardinality(Old)
      BY <1>0 DEF FreshInv
    <3> QED  BY <2>1, <2>2, <3>1, <3>3, <3>4, <3>5 DEF FreshInv, InRound, Settled, Accepting
  <2> QED  BY <2>6, <2>7
<1> QED  BY <1>1, <1>2, <1>3

LEMMA NextFreshInv ==
  ASSUME NoStray, IInv, OrderInv, FreshInv, [Next]_vars
  PROVE  FreshInv'
<1>1. CASE Kill \/ BaselineFails \/ Finish \/ CommitFails
  BY <1>1, DeathIsFresh DEF Kill, BaselineFails, Finish, CommitFails, Forget, NoSlot, SlotAt
<1>2. CASE Collect
  <2>1. CASE pc' = "down" /\ Forget
    BY <1>2, <2>1, DeathIsFresh DEF Collect, Forget, NoSlot, SlotAt
  <2>2. CASE pc' = "accept" /\ \A s \in Slot : slot[s].at = "returned"
    <3>1. pc = "slots" /\ UNCHANGED <<files, round, ids, slot>>
      BY <1>2, <2>2 DEF Collect
    <3> QED  BY <2>2, <3>1, CoordinatorIsFresh DEF files, Accepting
  <2> QED  BY <1>2, <2>1, <2>2 DEF Collect
<1>3. CASE Start \/ Baseline \/ CommitBaseline \/ NumberRounds
  <2>1. /\ ~InRound /\ ~InRound' /\ UNCHANGED <<trees, yamls, slot>>
        /\ pc' \notin Settled
    BY <1>3 DEF Start, Baseline, CommitBaseline, NumberRounds, files, InRound,
                Settled, Accepting
  <2>2. ASSUME NEW w \in trees, Past(w) PROVE Past(w)'
    <3>1. CASE UNCHANGED committed
      BY <2>2, <3>1 DEF Past
    <3>2. CASE committed' = log
      <4>1. PICK i \in 1..Len(committed) : w.round <= committed[i].round
        BY <2>2 DEF Past
      <4>2. i \in 1..Len(log) /\ log[i] = committed[i]
        BY <4>1, PrefixLines DEF OrderInv, IInv, TypeOK
      <4> QED  BY <3>2, <4>1, <4>2 DEF Past
    <3> QED  BY <1>3, <3>1, <3>2 DEF Start, Baseline, CommitBaseline, NumberRounds, files
  <2> QED  BY <2>1, <2>2 DEF FreshInv, Settled
<1>4. CASE UNCHANGED vars
  BY <1>4 DEF vars, files, main, FreshInv, InRound, Old, Past
<1> QED  BY <1>1, <1>2, <1>3, <1>4, StartRoundIsFresh, SlotStepIsFresh, AcceptIsFresh,
            JournalIsFresh DEF Next, MainStep

LEMMA AlwaysFresh ==
  ASSUME NoStray
  PROVE  Spec => []FreshInv
<1>1. Init => FreshInv
  BY DEF Init, FreshInv, InRound, Settled, Accepting, NoSlot, SlotAt
<1> QED  BY <1>1, NextFreshInv, TournamentIInv, AlwaysOrder, PTL DEF Spec

(* As long as agents write the ids they were given, the worktree of a slot *)
(* can always be created: no round before, dead or not, left one of that   *)
(* name (allocate_round_ids, create_worktree).                             *)
THEOREM TournamentFreshWorktree ==
  ASSUME NoStray
  PROVE  Spec => []FreshWorktree
<1>1. IInv /\ OrderInv /\ FreshInv => FreshWorktree
  <2> SUFFICES ASSUME IInv, OrderInv, FreshInv, NEW s \in Slot, slot[s].at = "create"
               PROVE  slot[s].id \notin trees
    BY DEF FreshWorktree
  <2>1. pc = "slots" /\ InRound /\ slot[s].id = ids[s]
    BY DEF FreshInv, InRound, Settled
  <2>2. ~ Past(ids[s])
    <3> SUFFICES ASSUME NEW i \in 1..Len(committed), ids[s].round <= committed[i].round
                 PROVE  FALSE
      BY DEF Past
    <3>1. i \in 1..Len(log) /\ log[i] = committed[i] /\ committed[i] \in LogLine
      BY PrefixLines DEF OrderInv, IInv, TypeOK
    <3>2. Earlier(committed[i], [round |-> round, slot |-> 0])
      BY <2>1, <3>1 DEF OrderInv, Before
    <3>3. committed[i].round < round
      <4>1. committed[i].slot \in Slot
        BY <3>1 DEF LogLine
      <4>2. ~ (committed[i].slot < 0)
        BY <4>1, TournamentAssumption DEF Slot
      <4> QED  BY <3>2, <4>2 DEF Earlier
    <3>4. committed[i].round \in Int /\ round \in Int
      <4>1. committed[i].round \in 0..MaxRound
        BY <3>1 DEF LogLine
      <4> QED  BY <4>1, TournamentAssumption DEF IInv, TypeOK
    <3> QED  BY <2>1, <3>3, <3>4, IdsOfRound
  <2>3. ~ (Base(ids[s]) < Cardinality(Old))
    BY <2>1, IdsOfRound
  <2>4. \A t \in Slot : ids[s] = ids[t] => slot[t].at = "create"
    BY <2>1, IdsOfRound
  <2> QED  BY <2>1, <2>2, <2>3, <2>4 DEF FreshInv
<1>2. Spec => []FreshInv
  BY AlwaysFresh
<1> QED  BY <1>1, <1>2, TournamentIInv, AlwaysOrder, PTL

-----------------------------------------------------------------------------
(* Worktrees given back.                                                   *)

(* Journalled as a placement that failed. *)
Kept(w) ==
  \E i \in 1..Len(log) :
    /\ log[i].round = w.round /\ log[i].slot = w.slot
    /\ log[i].outcome = "placement_failed"

(* The slot's worktree may be on disk. *)
Holds(s) ==
  \/ pc = "slots" /\ slot[s].at \in {"evaluate", "raised"}
  \/ /\ pc \in {"slots"} \cup Settled /\ slot[s].at = "returned"
     /\ slot[s].outcome = "placement_failed"
     /\ pc = "journal" => cursor <= s
     /\ pc \in {"commit", "unlink"} => cursor < s
  \/ /\ pc \in {"slots"} \cup Accepting /\ slot[s].at = "returned"
     /\ slot[s].outcome = "regression" /\ cursor <= s
  \/ pc \in {"merge", "reclaim"} /\ s = cursor

(* A first run starts from nothing, throws no line away, and each worktree *)
(* is a slot's that has not been passed, or was journalled to be kept.     *)
ReclaimInv ==
  /\ starts = 0 => pc = "down" /\ trees = {} /\ log = <<>> /\ committed = <<>>
  /\ starts = 1 /\ pc # "down" =>
       /\ pc \notin {"baseline", "commit"} => log = committed
       /\ \A w \in trees : Kept(w) \/ \E s \in Slot : w = ids[s] /\ Holds(s)

LEMMA SlotStepReclaims ==
  ASSUME NoStray, IInv, FreshInv, ReclaimInv, NEW s \in Slot, SlotStep(s)
  PROVE  ReclaimInv'
<1>0. /\ pc = "slots" /\ InRound /\ cursor = 0
      /\ UNCHANGED <<pc, ids, log, committed, cursor, starts>>
  BY DEF SlotStep, Propose, ProposalFails, CreateWorktree, RaiseFromSlot,
         Evaluate, main, files, InRound, IInv, RoundShape, Settled
<1>1. \A t \in Slot \ {s} : slot'[t] = slot[t]
  BY DEF SlotStep, Propose, ProposalFails, CreateWorktree, RaiseFromSlot,
         Evaluate, Returned, IInv, TypeOK
<1>2. ASSUME NEW t \in Slot \ {s}, Holds(t) PROVE Holds(t)'
  BY <1>0, <1>1, <1>2 DEF Holds
<1>3. /\ trees' \subseteq trees \cup {ids[s]}
      /\ ids[s] \in trees' /\ (Holds(s) \/ ids[s] \notin trees) => Holds(s)'
  <2> USE <1>0 DEF Holds, FreshInv, SlotAt, IInv, TypeOK, main, Slot
  <2>1. CASE Propose(s)
    BY <2>1 DEF Propose
  <2>2. CASE ProposalFails(s)
    BY <2>2 DEF ProposalFails
  <2>3. CASE CreateWorktree(s)
    BY <2>3 DEF CreateWorktree
  <2>4. CASE RaiseFromSlot(s)
    BY <2>4 DEF RaiseFromSlot, files
  <2>5. CASE Evaluate(s)
    <3>1. CASE Returned(s, slot[s].id, "broken", None) /\ Destroy(slot[s].id)
      <4>1. slot[s].id = ids[s]
        BY <2>5 DEF Evaluate
      <4>2. trees' = trees \ {ids[s]}
        BY <3>1, <4>1 DEF Destroy
      <4> QED  BY <4>2
    <3>2. CASE /\ slot'[s].at = "returned" /\ UNCHANGED trees
               /\ slot'[s].outcome \in {"placement_failed", "regression"}
      <4>1. cursor' <= s
        BY TournamentAssumption
      <4> QED  BY <3>2, <4>1
    <3>3. \A d, o : Returned(s, slot[s].id, o, d) =>
                     slot'[s].at = "returned" /\ slot'[s].outcome = o
      BY DEF Returned
    <3>4. \/ Returned(s, slot[s].id, "broken", None) /\ Destroy(slot[s].id)
          \/ /\ UNCHANGED trees
             /\ \E d : \/ Returned(s, slot[s].id, "placement_failed", d)
                      \/ Returned(s, slot[s].id, "regression", d)
      BY <2>5 DEF Evaluate
    <3> QED  BY <3>1, <3>2, <3>3, <3>4
  <2> QED  BY <2>1, <2>2, <2>3, <2>4, <2>5 DEF SlotStep
<1>4. \A w : Kept(w)' <=> Kept(w)
  BY <1>0 DEF Kept
<1> QED  BY <1>0, <1>2, <1>3, <1>4 DEF ReclaimInv

(* Steps that pass no slot and only shorten the list of worktrees. *)
LEMMA AcceptReclaims ==
  ASSUME IInv, FreshInv, ReclaimInv,
         ResetCheckout \/ MergeWinner \/ ReclaimWinner \/ MergeFails \/ RetireLoser
  PROVE  ReclaimInv'
<1>0. /\ pc \in Accepting /\ InRound /\ UNCHANGED <<ids, committed, starts>>
      /\ log' \in {log, committed} /\ trees' \subseteq trees
      /\ pc' \in Accepting \cup {"journal"}
      /\ \/ pc' = "accept" /\ cursor' = cursor + 1
         \/ pc' = "journal" /\ cursor' = 0 /\ ~(cursor + 1 < TournamentSize)
         \/ pc' \in {"merge", "reclaim"} /\ cursor' = cursor
  <2> USE DEF files, Accepting, InRound, Settled
  <2>1. CASE ResetCheckout
    BY <2>1 DEF ResetCheckout, Reset
  <2>2. CASE MergeWinner
    BY <2>2 DEF MergeWinner
  <2>3. CASE ReclaimWinner \/ MergeFails \/ RetireLoser
    BY <2>3 DEF ReclaimWinner, MergeFails, RetireLoser, Advance, Destroy
  <2> QED  BY <2>1, <2>2, <2>3
<1>1. /\ cursor \in Slot /\ cursor \in Int /\ \A t \in Slot : t \in Int /\ 0 <= t
      /\ \A t \in Slot : ~(cursor + 1 < TournamentSize) => t <= cursor
      /\ \A t \in Slot : slot[t].at = "returned" /\ slot[t].id = ids[t]
      /\ \A t \in Slot : cursor <= t /\ t # cursor => cursor + 1 <= t
  <2>1. cursor \in Slot
    BY DEF IInv, TypeOK
  <2>2. \A t \in Slot : slot[t].at = "returned" /\ slot[t].id = ids[t]
    BY <1>0 DEF FreshInv, Settled, Accepting
  <2>3. \A t \in Slot : t \in Int /\ 0 <= t /\ t < TournamentSize
    BY TournamentAssumption DEF Slot
  <2> QED  BY <2>1, <2>2, <2>3, TournamentAssumption
<1>2. \A t \in Slot \ {cursor} : slot'[t] = slot[t]
  BY DEF ResetCheckout, MergeWinner, ReclaimWinner, MergeFails, RetireLoser,
         Downgraded, Returned, IInv, TypeOK
<1>3. ASSUME starts = 1 PROVE log = committed /\ log' = log
  BY <1>0, <1>3 DEF ReclaimInv, Accepting
<1>4. \A t \in Slot \ {cursor} : Holds(t) => Holds(t)'
  <2> SUFFICES ASSUME NEW t \in Slot \ {cursor}, Holds(t) PROVE Holds(t)'
    OBVIOUS
  <2>1. slot'[t].at = "returned" /\ slot'[t].outcome = slot[t].outcome
    BY <1>1, <1>2
  <2>2. \/ slot[t].outcome = "placement_failed"
        \/ slot[t].outcome = "regression" /\ cursor + 1 <= t
    BY <1>0, <1>1 DEF Holds, Accepting
  <2>3. CASE slot[t].outcome = "placement_failed"
    <3>1. pc' \in Settled /\ pc' \notin {"commit", "unlink"}
      BY <1>0 DEF Settled, Accepting
    <3>2. pc' = "journal" => cursor' <= t
      BY <1>0, <1>1
    <3> QED  BY <2>1, <2>3, <3>1, <3>2 DEF Holds
  <2>4. CASE slot[t].outcome = "regression" /\ cursor + 1 <= t
    <3>1. pc' \in Accepting
      BY <1>0, <1>1, <2>4 DEF Accepting
    <3>2. cursor' <= t
      BY <1>0, <1>1, <2>4, <3>1 DEF Accepting
    <3> QED  BY <2>1, <2>4, <3>1, <3>2 DEF Holds
  <2> QED  BY <2>2, <2>3, <2>4
<1>5. \A t \in Slot : t = cursor /\ Holds(t) => Holds(t)' \/ ids[t] \notin trees'
  <2> SUFFICES ASSUME NEW t \in Slot, t = cursor, Holds(t), ids[t] \in trees'
               PROVE  Holds(t)'
    OBVIOUS
  <2>1. CASE ResetCheckout \/ MergeWinner
    BY <2>1 DEF ResetCheckout, MergeWinner, Holds
  <2>2. CASE ReclaimWinner \/ MergeFails
    BY <1>1, <2>2 DEF ReclaimWinner, MergeFails, Destroy
  <2>3. CASE RetireLoser
    <3>1. slot[t].outcome = "placement_failed"
      BY <1>1, <2>3 DEF RetireLoser, Destroy, Holds
    <3>2. slot' = slot
      BY <2>3 DEF RetireLoser
    <3> QED  BY <1>0, <1>1, <3>1, <3>2 DEF Holds, Settled, Accepting
  <2> QED  BY <2>1, <2>2, <2>3
<1>6. ASSUME starts = 1, NEW w \in trees'
      PROVE  Kept(w)' \/ \E s \in Slot : w = ids'[s] /\ Holds(s)'
  <2>1. CASE Kept(w)
    BY <1>3, <1>6, <2>1 DEF Kept
  <2>2. CASE \E s \in Slot : w = ids[s] /\ Holds(s)
    <3>1. PICK s \in Slot : w = ids[s] /\ Holds(s)
      BY <2>2
    <3>2. Holds(s)'
      BY <1>4, <1>5, <1>6, <3>1
    <3> QED  BY <1>0, <3>1, <3>2
  <2> QED  BY <1>0, <1>6, <2>1, <2>2 DEF ReclaimInv, Accepting
<1> QED  BY <1>0, <1>3, <1>6 DEF ReclaimInv, Accepting

LEMMA JournalReclaims ==
  ASSUME IInv, FreshInv, ReclaimInv, WriteLine \/ CommitLine \/ UnlinkHypothesis
  PROVE  ReclaimInv'
<1>0. /\ InRound /\ pc \in Settled /\ UNCHANGED <<trees, starts>>
      /\ \A s \in Slot : slot[s].at = "returned"
      /\ log \in Seq(LogLine) /\ cursor \in Slot
      /\ cursor \in Int /\ \A t \in Slot : t \in Int /\ t < TournamentSize
      /\ TournamentSize \in Int
  <2>1. /\ InRound /\ pc \in Settled /\ UNCHANGED <<trees, starts>>
        /\ log \in Seq(LogLine) /\ cursor \in Slot
    BY DEF WriteLine, CommitLine, UnlinkHypothesis, InRound, Settled, IInv, TypeOK
  <2>2. \A s \in Slot : s \in Int /\ s < TournamentSize
    BY TournamentAssumption DEF Slot
  <2> QED  BY <2>1, <2>2, TournamentAssumption DEF FreshInv
<1> SUFFICES ASSUME starts = 1 PROVE ReclaimInv'
  BY <1>0 DEF ReclaimInv, InRound, Settled
<1>1. /\ \A w \in trees : Kept(w) \/ \E s \in Slot : w = ids[s] /\ Holds(s)
      /\ pc # "commit" => log = committed
  BY <1>0 DEF ReclaimInv, InRound, Settled
<1>2. CASE WriteLine
  <2> DEFINE line == Line(round, cursor, slot[cursor].outcome, slot[cursor].design)
  <2>1. /\ pc = "journal" /\ pc' = "commit" /\ log' = Append(log, line)
        /\ UNCHANGED <<round, ids, slot, cursor>>
    BY <1>2 DEF WriteLine, Journalled
  <2>2. line.round = round /\ line.slot = cursor /\ line.outcome = slot[cursor].outcome
    BY DEF Line
  <2> HIDE DEF line
  <2>3. /\ Len(log') = Len(log) + 1 /\ Len(log) \in Nat
        /\ log'[Len(log) + 1] = line /\ \A i \in 1..Len(log) : log'[i] = log[i]
    BY <1>0, <2>1
  <2>4. ASSUME NEW w, Kept(w) PROVE Kept(w)'
    BY <2>3, <2>4 DEF Kept
  <2>5. ASSUME NEW s \in Slot, Holds(s) PROVE Holds(s)' \/ \E i \in 1..Len(log') :
                       /\ log'[i].round = ids[s].round /\ log'[i].slot = ids[s].slot
                       /\ log'[i].outcome = "placement_failed"
    <3>1. /\ slot[s].at = "returned" /\ slot[s].outcome = "placement_failed"
          /\ cursor <= s
      BY <2>1, <2>5 DEF Holds, Accepting
    <3>2. CASE cursor = s
      <4>1. ids[s].round = round /\ ids[s].slot = s
        BY <1>0, IdsOfRound
      <4> QED  BY <2>2, <2>3, <3>1, <3>2, <4>1
    <3>3. CASE cursor # s
      <4>1. cursor < s
        BY <1>0, <3>1, <3>3
      <4> QED  BY <2>1, <3>1, <4>1 DEF Holds, Settled
    <3> QED  BY <3>2, <3>3
  <2>6. ASSUME NEW w \in trees PROVE Kept(w)' \/ \E s \in Slot : w = ids[s] /\ Holds(s)'
    BY <1>1, <2>4, <2>5 DEF Kept
  <2> QED  BY <1>0, <2>1, <2>6 DEF ReclaimInv
<1>3. CASE CommitLine
  <2>1. /\ pc = "commit" /\ pc' = "unlink" /\ committed' = log
        /\ UNCHANGED <<log, ids, slot, cursor>>
    BY <1>3 DEF CommitLine
  <2>2. \A s \in Slot : Holds(s) => Holds(s)'
    BY <2>1 DEF Holds, Settled, Accepting
  <2>3. \A w : Kept(w) => Kept(w)'
    BY <2>1 DEF Kept
  <2> QED  BY <1>0, <1>1, <2>1, <2>2, <2>3 DEF ReclaimInv
<1>4. CASE UnlinkHypothesis
  <2>1. pc = "unlink" /\ UNCHANGED <<log, committed>> /\ \A w : Kept(w) => Kept(w)'
    BY <1>4 DEF UnlinkHypothesis, Kept
  <2>2. ASSUME NEW s \in Slot, Holds(s)
        PROVE  cursor < s /\ slot[s].outcome = "placement_failed"
    BY <2>1, <2>2 DEF Holds, Settled, Accepting
  <2>3. CASE cursor + 1 < TournamentSize
    <3>1. pc' = "journal" /\ cursor' = cursor + 1 /\ UNCHANGED <<ids, slot>>
      BY <1>4, <2>3 DEF UnlinkHypothesis
    <3>2. ASSUME NEW s \in Slot, Holds(s) PROVE Holds(s)'
      <4>1. cursor + 1 <= s
        BY <1>0, <2>2, <3>2
      <4> QED  BY <1>0, <2>2, <3>1, <3>2, <4>1 DEF Holds, Settled
    <3> QED  BY <1>0, <1>1, <2>1, <3>1, <3>2 DEF ReclaimInv
  <2>4. CASE ~ (cursor + 1 < TournamentSize)
    <3>1. pc' = "idle"
      BY <1>4, <2>4 DEF UnlinkHypothesis
    <3>2. \A s \in Slot : ~ (cursor < s)
      BY <1>0, <2>4
    <3> QED  BY <1>0, <1>1, <2>1, <2>2, <3>1, <3>2 DEF ReclaimInv
  <2> QED  BY <2>3, <2>4
<1> QED  BY <1>2, <1>3, <1>4

LEMMA NextReclaimInv ==
  ASSUME NoStray, IInv, FreshInv, ReclaimInv, [Next]_vars
  PROVE  ReclaimInv'
<1>1. CASE Kill \/ BaselineFails \/ Finish \/ CommitFails
  <2>1. pc' = "down" /\ pc # "down" /\ UNCHANGED starts
    BY <1>1 DEF Kill, BaselineFails, Finish, CommitFails, Forget
  <2> QED  BY <2>1 DEF ReclaimInv
<1>2. CASE Collect
  <2>1. /\ pc = "slots" /\ UNCHANGED <<log, committed, trees, starts>>
        /\ pc' \in {"down", "accept"}
    BY <1>2 DEF Collect, Forget, files
  <2>2. CASE pc' = "down"
    BY <2>1, <2>2 DEF ReclaimInv
  <2>3. CASE pc' = "accept"
    <3>1. UNCHANGED <<ids, slot, cursor>> /\ \A s \in Slot : slot[s].at = "returned"
      BY <1>2, <2>3 DEF Collect
    <3>2. \A s \in Slot : Holds(s) => Holds(s)'
      BY <2>1, <2>3, <3>1 DEF Holds, Settled, Accepting
    <3>3. \A w : Kept(w) => Kept(w)'
      BY <2>1 DEF Kept
    <3> QED  BY <2>1, <2>3, <3>1, <3>2, <3>3 DEF ReclaimInv
  <2> QED  BY <2>1, <2>2, <2>3
<1>3. CASE Start
  <2>1. starts \in Nat /\ pc = "down" /\ starts' = starts + 1 /\ pc' = "boot"
        /\ UNCHANGED <<trees, log, committed>>
    BY <1>3 DEF Start, files, IInv, TypeOK
  <2> QED  BY <2>1 DEF ReclaimInv
<1>4. CASE Baseline \/ CommitBaseline \/ NumberRounds \/ StartRound
  <2>1. /\ pc \in {"boot", "baseline", "idle"} /\ UNCHANGED <<trees, starts>>
        /\ pc' \in {"boot", "baseline", "idle", "slots"}
        /\ log' = log \/ log = <<>>
        /\ pc' = "baseline" \/ log' = committed' \/ (log' = log /\ committed' = committed)
        /\ pc = "baseline" => log' = committed'
    BY <1>4 DEF Baseline, CommitBaseline, NumberRounds, StartRound, files
  <2>2. \A s \in Slot : ~ Holds(s)
    BY <2>1 DEF Holds, Settled, Accepting
  <2>3. ASSUME NEW w, Kept(w) PROVE Kept(w)'
    <3>1. log # <<>>
      BY <2>3 DEF Kept
    <3> QED  BY <2>1, <2>3, <3>1 DEF Kept
  <2> QED  BY <2>1, <2>2, <2>3 DEF ReclaimInv
<1>5. CASE UNCHANGED vars
  BY <1>5 DEF vars, files, main, ReclaimInv, Kept, Holds
<1> QED  BY <1>1, <1>2, <1>3, <1>4, <1>5, SlotStepReclaims, AcceptReclaims,
            JournalReclaims DEF Next, MainStep

(* Between the rounds of a first run the only worktrees on disk are those  *)
(* of slots journalled as placement_failed, as long as agents write the    *)
(* ids they were given (destroy_worktree and the calls to it).             *)
THEOREM TournamentWorktreesReclaimed ==
  ASSUME NoStray
  PROVE  Spec => []WorktreesReclaimed
<1>1. Init => ReclaimInv
  BY DEF Init, ReclaimInv
<1>2. ReclaimInv => WorktreesReclaimed
  BY DEF ReclaimInv, WorktreesReclaimed, Kept, Holds, Settled, Accepting
<1>3. Spec => []FreshInv
  BY AlwaysFresh
<1> QED  BY <1>1, <1>2, <1>3, NextReclaimInv, TournamentIInv, PTL DEF Spec

-----------------------------------------------------------------------------
(* The ladder.  As long as the process does not die while it merges a      *)
(* winner and journals the round, the tournament implements the Ladder:    *)
(* slots may raise, agents may stray, merges may fail, and the process may *)
(* die before it picks the winner of a round and be started again.         *)

NoLateDeath == "kill" \notin Faults /\ "journal" \notin Faults

Improved(s) == slot[s].outcome = "improvement"

(* The winner is merged and the coordinator has yet to write its line. *)
Pending ==
  /\ winner # None /\ Improved(winner)
  /\ cursor < winner \/ (cursor = winner /\ pc = "journal")

(* The journal on disk is the one at HEAD but for the line being added and *)
(* for a baseline whose commit failed, which leaves it untracked; its      *)
(* champion is the tip but for the merge being journalled; and only the    *)
(* winner is ever an improvement.                                          *)
LadderInv ==
  /\ pc # "commit" => log = committed \/ committed = <<>>
  /\ pc \in {"down", "boot"} /\ log # <<>> => Champion(log) = tip
  /\ pc \in {"baseline", "idle", "slots"} => Champion(log) = tip
  /\ pc = "slots" => anchor = tip
  /\ \A s \in Slot : Improved(s) =>
       /\ pc \in Settled /\ s = winner
       /\ pc # "merge" => tip = slot[s].design
  /\ pc \in Accepting => Champion(log) = anchor
  /\ pc = "accept" =>
       /\ \A s \in Slot : Improved(s) => s < cursor
       /\ (\A s \in Slot : ~ Improved(s)) => tip = anchor
  /\ pc = "merge" => tip = anchor
  /\ pc \in {"merge", "reclaim"} => Improved(winner)
  /\ pc \in {"journal", "commit", "unlink"} /\ ~ Pending => Champion(log) = tip

LInv == IInv /\ LadderInv

-----------------------------------------------------------------------------

LEMMA InitLadderInv == Init => LadderInv
BY DEF Init, LadderInv, Improved, NoSlot, SlotAt, Accepting

LEMMA ForgetLadderInv ==
  ASSUME LInv, Forget, UNCHANGED files, pc' = "down",
         pc # "commit", log # <<>> => Champion(log) = tip
  PROVE  LadderInv'
BY DEF Forget, files, LInv, LadderInv, Improved, NoSlot, SlotAt, Settled, Accepting

LEMMA BootLadderInv ==
  ASSUME LInv, Start \/ Baseline \/ CommitBaseline \/ NumberRounds \/ StartRound
  PROVE  LadderInv'
<1> USE DEF LInv, LadderInv
<1>1. CASE Start
  BY <1>1 DEF Start, files, Improved, Settled, Accepting
<1>2. CASE Baseline
  <2> DEFINE line == Line(0, 0, "improvement", tip)
  <2>1. line \in LogLine /\ line.outcome = "improvement" /\ line.design = tip
    BY ZeroIsSlot DEF IInv, TypeOK, Line, LogLine, Outcome
  <2>2. Append(<<>>, line) = <<line>> /\ <<>> \in Seq(LogLine)
    OBVIOUS
  <2> HIDE DEF line
  <2>3. Champion(<<line>>) = tip
    BY <2>1, <2>2, ChampionOfAppend
  <2> QED  BY <1>2, <2>3 DEF Baseline, Improved, Settled, Accepting, line
<1>3. CASE CommitBaseline
  BY <1>3 DEF CommitBaseline, Improved, Settled, Accepting
<1>4. CASE NumberRounds
  BY <1>4 DEF NumberRounds, files, Improved, Settled, Accepting
<1>5. CASE StartRound
  BY <1>5 DEF StartRound, files, Improved, Settled, Accepting, SlotAt
<1> QED  BY <1>1, <1>2, <1>3, <1>4, <1>5

LEMMA SlotStepLadderInv ==
  ASSUME LInv, NEW s \in Slot, SlotStep(s)
  PROVE  LadderInv'
<1> USE DEF LInv, IInv
<1>1. pc = "slots" /\ pc' = pc /\ UNCHANGED <<tip, log, committed, anchor, winner, cursor>>
  BY DEF SlotStep, Propose, ProposalFails, CreateWorktree, RaiseFromSlot,
         Evaluate, main, files
<1>2. /\ \A t \in Slot \ {s} : slot'[t] = slot[t]
      /\ slot'[s].outcome # "improvement"
  <2>1. CASE Propose(s)
    BY <2>1 DEF Propose, SlotAt, TypeOK
  <2>2. CASE ProposalFails(s)
    BY <2>2 DEF ProposalFails, Returned, SlotAt, TypeOK
  <2>3. CASE CreateWorktree(s) \/ RaiseFromSlot(s)
    BY <2>3 DEF CreateWorktree, RaiseFromSlot, SlotAt, TypeOK
  <2>4. CASE Evaluate(s)
    BY <2>4 DEF Evaluate, Destroy, Returned, SlotAt, TypeOK
  <2> QED  BY <2>1, <2>2, <2>3, <2>4 DEF SlotStep
<1>3. \A t \in Slot : ~ Improved(t)'
  BY <1>1, <1>2 DEF LadderInv, Improved, TypeOK, Settled, Accepting
<1> QED  BY <1>1, <1>3 DEF LadderInv

LEMMA AcceptLadderInv ==
  ASSUME LInv, ResetCheckout \/ MergeWinner \/ ReclaimWinner \/ MergeFails \/ RetireLoser
  PROVE  LadderInv'
<1> USE DEF LInv, IInv
<1>0. /\ pc \in Accepting /\ Champion(log) = anchor
      /\ UNCHANGED <<committed, anchor, winner>>
      /\ log' = log
      /\ cursor \in Slot /\ (winner # None => winner \in Slot)
  BY DEF ResetCheckout, MergeWinner, ReclaimWinner, MergeFails, RetireLoser,
         Destroy, files, LadderInv, Reset, TypeOK, Accepting
<1>1. \A s \in Slot : s \in Int /\ s >= 0
  BY DEF Slot
<1>2. ASSUME cursor = winner
      PROVE  winner # None /\ winner \in Slot
  BY <1>0, <1>2, TargetAssumption, TournamentAssumption DEF Slot
<1>3. ASSUME Advance("accept", "journal")
      PROVE  \/ pc' = "accept" /\ cursor' = cursor + 1
             \/ pc' = "journal" /\ cursor' = 0
  BY <1>3 DEF Advance
<1>4. CASE ResetCheckout
  <2>1. /\ pc = "accept" /\ pc' = "merge" /\ cursor = winner
        /\ UNCHANGED <<tip, cursor>>
        /\ slot' = [slot EXCEPT ![winner] =
                      SlotAt("returned", slot[winner].id, "improvement", slot[winner].design)]
    BY <1>4 DEF ResetCheckout, Returned
  <2>2. \A s \in Slot : ~ Improved(s)
    BY <1>1, <2>1 DEF LadderInv
  <2>3. \A s \in Slot : Improved(s)' <=> s = winner
    BY <1>0, <1>2, <2>1, <2>2 DEF Improved, TypeOK, SlotAt
  <2> QED  BY <1>0, <1>2, <2>1, <2>2, <2>3 DEF LadderInv, Settled, Accepting
<1>5. CASE MergeWinner
  <2>1. /\ pc = "merge" /\ pc' = "reclaim" /\ cursor = winner
        /\ tip' = slot[winner].design /\ UNCHANGED <<slot, cursor>>
    BY <1>5 DEF MergeWinner, RoundShape
  <2>2. \A s \in Slot : Improved(s)' <=> Improved(s)
    BY <2>1 DEF Improved
  <2>3. Improved(winner)' <=> Improved(winner)
    BY <1>0, <2>1 DEF Improved
  <2> QED  BY <1>0, <2>1, <2>2, <2>3 DEF LadderInv, Settled, Accepting
<1>6. CASE ReclaimWinner
  <2>1. /\ pc = "reclaim" /\ cursor = winner /\ UNCHANGED <<tip, slot>>
        /\ Advance("accept", "journal")
    BY <1>6 DEF ReclaimWinner, Destroy, RoundShape
  <2>2. \A s \in Slot : Improved(s)' <=> Improved(s)
    BY <2>1 DEF Improved
  <2>3. Improved(winner) /\ Improved(winner)' /\ winner # None /\ winner \in Slot
    BY <1>0, <1>2, <2>1 DEF LadderInv, Improved
  <2>4. pc' = "journal" => Pending'
    BY <1>0, <1>1, <1>3, <2>1, <2>3 DEF Pending
  <2>5. pc' = "accept" => \A s \in Slot : Improved(s)' => s < cursor'
    BY <1>0, <1>1, <1>3, <2>1, <2>2 DEF LadderInv
  <2> QED  BY <1>0, <1>3, <2>1, <2>2, <2>3, <2>4, <2>5 DEF LadderInv, Settled, Accepting
<1>7. CASE MergeFails
  <2>1. /\ pc \in {"accept", "merge"} /\ cursor = winner /\ UNCHANGED tip
        /\ Advance("accept", "journal")
        /\ slot' = [slot EXCEPT ![winner] =
                      SlotAt("returned", slot[winner].id, "regression", slot[winner].design)]
    BY <1>7 DEF MergeFails, Downgraded, Returned, Destroy, RoundShape
  <2>2. \A s \in Slot : ~ Improved(s)'
    BY <1>0, <1>2, <2>1 DEF LadderInv, Improved, TypeOK, SlotAt
  <2>3. tip = anchor
    BY <1>1, <2>1 DEF LadderInv
  <2> QED  BY <1>0, <1>2, <1>3, <2>1, <2>2, <2>3 DEF LadderInv, Settled, Accepting
<1>8. CASE RetireLoser
  <2>1. pc = "accept" /\ UNCHANGED <<tip, slot>> /\ Advance("accept", "journal")
    BY <1>8 DEF RetireLoser, Destroy
  <2>2. \A s \in Slot : Improved(s)' <=> Improved(s)
    BY <2>1 DEF Improved
  <2>3. CASE \A s \in Slot : ~ Improved(s)
    BY <1>0, <1>3, <2>1, <2>2, <2>3 DEF LadderInv, Settled, Accepting
  <2>4. CASE \E s \in Slot : Improved(s)
    <3>1. Improved(winner) /\ winner \in Slot /\ winner # None
      BY <2>4, TargetAssumption, TournamentAssumption DEF LadderInv, Slot
    <3>2. pc' = "journal" => Pending'
      BY <1>0, <1>1, <1>3, <2>1, <2>2, <3>1 DEF Pending
    <3> QED  BY <1>0, <1>1, <1>3, <2>1, <2>2, <3>1, <3>2 DEF LadderInv, Settled, Accepting
  <2> QED  BY <2>3, <2>4
<1> QED  BY <1>4, <1>5, <1>6, <1>7, <1>8

LEMMA JournalLadderInv ==
  ASSUME LInv, WriteLine \/ CommitLine \/ UnlinkHypothesis
  PROVE  LadderInv'
<1> USE DEF LInv, IInv
<1>0. /\ cursor \in Slot /\ (winner # None => winner \in Slot)
      /\ \A s \in Slot : s \in Int /\ s >= 0 /\ s < TournamentSize
  BY TournamentAssumption DEF TypeOK, Slot
<1>1. CASE WriteLine
  <2> DEFINE line == Line(round, cursor, slot[cursor].outcome, slot[cursor].design)
  <2>1. /\ pc = "journal" /\ pc' = "commit" /\ log' = Append(log, line)
        /\ UNCHANGED <<tip, committed, anchor, slot, winner, cursor>>
    BY <1>1 DEF WriteLine, Journalled
  <2>2. line \in LogLine /\ log \in Seq(LogLine)
    <3>1. round \in 0..MaxRound
      BY <2>1, TournamentAssumption DEF RoundShape, TypeOK, Settled, Accepting
    <3>2. slot[cursor] \in SlotState
      BY DEF TypeOK
    <3> QED  BY <1>0, <3>1, <3>2 DEF TypeOK, Line, LogLine, SlotState
  <2>3. line.outcome = slot[cursor].outcome /\ line.design = slot[cursor].design
    BY DEF Line
  <2> HIDE DEF line
  <2>4. Champion(log') = IF Improved(cursor) THEN slot[cursor].design ELSE Champion(log)
    BY <2>1, <2>2, <2>3, ChampionOfAppend DEF Improved
  <2>5. ~ Pending' => Champion(log') = tip
    <3>1. CASE Improved(cursor)
      BY <1>0, <2>1, <2>4, <3>1 DEF LadderInv
    <3>2. CASE ~ Improved(cursor)
      <4>1. ~ Pending' => ~ Pending
        BY <1>0, <2>1, <3>2 DEF Pending, Improved
      <4> QED  BY <2>1, <2>4, <3>2, <4>1 DEF LadderInv
    <3> QED  BY <3>1, <3>2
  <2> QED  BY <2>1, <2>5 DEF LadderInv, Improved, Settled, Accepting
<1>2. CASE CommitLine
  <2>1. Pending' <=> Pending
    BY <1>2 DEF CommitLine, Pending, Improved
  <2> QED  BY <1>2, <2>1 DEF CommitLine, LadderInv, Improved, Settled, Accepting
<1>3. CASE UnlinkHypothesis /\ cursor + 1 < TournamentSize
  <2>1. Pending' <=> Pending
    BY <1>0, <1>3 DEF UnlinkHypothesis, Pending, Improved
  <2> QED  BY <1>3, <2>1 DEF UnlinkHypothesis, LadderInv, Improved, Settled, Accepting
<1>4. CASE UnlinkHypothesis /\ ~ (cursor + 1 < TournamentSize)
  <2>1. ~ Pending
    BY <1>0, <1>4, TournamentAssumption DEF UnlinkHypothesis, Pending
  <2> QED  BY <1>4, <2>1 DEF UnlinkHypothesis, LadderInv, Improved, NoSlot,
                             SlotAt, Settled, Accepting
<1> QED  BY <1>1, <1>2, <1>3, <1>4

LEMMA NextLadderInv ==
  ASSUME NoLateDeath, LInv, [Next]_vars
  PROVE  LadderInv'
<1> USE DEF LInv
<1>1. CASE BaselineFails \/ Finish
  BY <1>1, ForgetLadderInv DEF BaselineFails, Finish, LadderInv
<1>2. CASE Collect
  <2>1. CASE pc' = "down" /\ Forget
    BY <1>2, <2>1, ForgetLadderInv DEF Collect, LadderInv
  <2>2. CASE pc' = "accept" /\ UNCHANGED <<tip, former, round, anchor, ids, slot, cursor, starts>>
    BY <1>2, <2>2 DEF Collect, files, LadderInv, Improved, Settled, Accepting
  <2> QED  BY <1>2, <2>1, <2>2 DEF Collect
<1>3. CASE UNCHANGED vars
  BY <1>3 DEF vars, files, main, LadderInv, Improved, Pending
<1>4. CASE Kill \/ CommitFails
  <2>1. pc \in {"boot", "baseline", "idle", "slots"}
    BY <1>4 DEF Kill, CommitFails, NoLateDeath
  <2> QED  BY <1>4, <2>1, ForgetLadderInv DEF Kill, CommitFails, LadderInv
<1> QED  BY <1>1, <1>2, <1>3, <1>4, BootLadderInv, SlotStepLadderInv, AcceptLadderInv,
            JournalLadderInv DEF Next, MainStep

(* A round is judged against the very tip its worktrees fork from, whatever *)
(* slots raised and merges failed before (current_best, current_lut and    *)
(* create_worktree's base branch agree).                                   *)
THEOREM TournamentAnchorIsTip ==
  ASSUME NoLateDeath
  PROVE  Spec => []AnchorIsTip
<1>1. LInv => AnchorIsTip
  BY DEF LInv, LadderInv, AnchorIsTip
<1> QED  BY <1>1, InitIInv, NextIInv, InitLadderInv, NextLadderInv, PTL DEF Spec, LInv

(* The ladder judges by the same rule.                                     *)
LEMMA SameRule ==
  ASSUME NEW old, NEW new
  PROVE  BranchLadder!Accept(old, new) <=> Accept(old, new)
BY DEF Accept, Score, BothMet, StrictPareto, Deficit, Weight, OrZero,
       BranchLadder!Accept, BranchLadder!Score, BranchLadder!BothMet,
       BranchLadder!StrictPareto, BranchLadder!Deficit, BranchLadder!Weight,
       BranchLadder!OrZero

(* The branch climbs the ladder: every merge replaces the tip by a design  *)
(* that the accept rule prefers to it (run_tournament_round).              *)
THEOREM TournamentClimbsLadder ==
  ASSUME NoLateDeath
  PROVE  Spec => ClimbsLadder
<1>1. Init => BranchLadder!Init
  BY DEF Init, BranchLadder!Init
<1>2. LInv /\ [Next]_vars => [BranchLadder!Next]_<<tip, former>>
  <2> SUFFICES ASSUME LInv, [Next]_vars, ~ UNCHANGED <<tip, former>>
               PROVE  BranchLadder!Next
    OBVIOUS
  <2> USE DEF LInv, IInv
  <2>1. MergeWinner
    BY DEF Next, MainStep, vars, Start, Kill, Forget, Baseline, CommitBaseline,
           BaselineFails, NumberRounds, StartRound, Finish, Collect, ResetCheckout,
           ReclaimWinner, MergeFails,
           RetireLoser, WriteLine, CommitLine, CommitFails, UnlinkHypothesis,
           SlotStep, Propose, ProposalFails, CreateWorktree, RaiseFromSlot, Evaluate
  <2>2. /\ cursor = winner /\ pc = "merge" /\ cursor \in Slot
        /\ tip' = slot[winner].design /\ former' = former \cup {tip}
    BY <2>1 DEF MergeWinner, RoundShape, TypeOK
  <2>3. winner # None
    BY <2>2, TargetAssumption, TournamentAssumption DEF Slot
  <2>4. slot[winner].design \in Designs /\ Accept(anchor, slot[winner].design)
    BY <2>2, <2>3 DEF RoundShape, Accepting, TypeOK, SlotState
  <2>5. tip = anchor
    BY <2>2 DEF LadderInv
  <2> QED  BY <2>2, <2>4, <2>5, SameRule DEF BranchLadder!Next, BranchLadder!Promote
<1> QED  BY <1>1, <1>2, InitIInv, NextIInv, InitLadderInv, NextLadderInv, PTL
         DEF Spec, LInv, ClimbsLadder, BranchLadder!Spec, BranchLadder!vars

-----------------------------------------------------------------------------
(* Whole rounds.                                                           *)

HasLine(lines, r, s) ==
  \E i \in 1..Len(lines) : lines[i].round = r /\ lines[i].slot = s

Whole(lines, r) ==
  /\ lines[1].round = 0
  /\ \A q \in 1..(r - 1), s \in Slot : HasLine(lines, q, s)

(* The rounds before the current one are whole, and the current one up to  *)
(* the cursor once it is journalled; outside a round, those before the     *)
(* number that the next start will give it.                                *)
WholeInv ==
  /\ pc \in {"down", "boot", "baseline"} /\ log # <<>> => Whole(log, NextRound(log))
  /\ pc \in {"idle", "slots"} \cup Settled => Whole(log, round)
  /\ pc = "journal" => \A s \in Slot : s < cursor => HasLine(log, round, s)
  /\ pc \in {"commit", "unlink"} =>
       \A s \in Slot : s <= cursor => HasLine(log, round, s)

(* A number past all lines is no smaller than the one main() takes. *)
LEMMA NextRoundIsLeast ==
  ASSUME NEW lines \in Seq(LogLine), lines # <<>>, NEW r \in Nat,
         \A i \in 1..Len(lines) : lines[i].round < r
  PROVE  NextRound(lines) <= r
<1> DEFINE S == {lines[i].round : i \in 1..Len(lines)}
           top == CHOOSE q \in S : \A i \in 1..Len(lines) : lines[i].round <= q
<1>1. \A i \in 1..Len(lines) : lines[i] \in LogLine
  OBVIOUS
<1>2. S \in SUBSET (0..MaxRound) /\ lines[1].round \in S
  BY <1>1 DEF LogLine
<1>3. PICK m \in S : \A q \in S : q <= m
  BY <1>2, MaximumExists, TournamentAssumption
<1>4. \E q \in S : \A i \in 1..Len(lines) : lines[i].round <= q
  BY <1>3
<1>5. top \in S
  BY <1>4
<1>6. NextRound(lines) = 1 + top
  BY Zenon DEF NextRound
<1>7. top \in Nat /\ top < r
  <2>1. 0..MaxRound \subseteq Nat /\ \A q \in S : q < r
    BY TournamentAssumption
  <2> HIDE DEF top, S
  <2> QED  BY <1>2, <1>5, <2>1
<1> HIDE DEF top
<1> QED  BY <1>6, <1>7

(* A death before a winner is picked leaves whole rounds. *)
LEMMA DeathLeavesWhole ==
  ASSUME LInv, OrderInv, WholeInv, UNCHANGED log, pc' = "down",
         pc \in {"boot", "baseline", "idle", "slots"}
  PROVE  WholeInv'
<1>1. CASE pc \in {"boot", "baseline"}
  BY <1>1 DEF WholeInv, Settled, Accepting
<1>2. CASE pc \in {"idle", "slots"} /\ log # <<>>
  <2>1. log \in Seq(LogLine) /\ round \in Nat /\ NextRound(log) \in Nat
    BY NextRoundIsNat DEF LInv, IInv, TypeOK
  <2>2. \A i \in 1..Len(log) : log[i].round < round
    <3> SUFFICES ASSUME NEW i \in 1..Len(log) PROVE log[i].round < round
      OBVIOUS
    <3>1. log[i] \in LogLine /\ Earlier(log[i], [round |-> round, slot |-> 0])
      BY <1>2, <2>1 DEF OrderInv, Before
    <3> QED  BY <3>1 DEF Earlier, LogLine, Slot
  <2>3. NextRound(log) <= round
    BY <1>2, <2>1, <2>2, NextRoundIsLeast
  <2>4. Whole(log, NextRound(log))
    BY <1>2, <2>1, <2>3 DEF WholeInv, Whole
  <2> QED  BY <2>4 DEF WholeInv, Settled, Accepting
<1>3. CASE log = <<>>
  BY <1>3 DEF WholeInv, Settled, Accepting
<1> QED  BY <1>1, <1>2, <1>3

LEMMA JournalKeepsWhole ==
  ASSUME LInv, WholeInv, WriteLine \/ CommitLine \/ UnlinkHypothesis
  PROVE  WholeInv'
<1> USE DEF WholeInv, Settled, Accepting
<1>0. /\ log \in Seq(LogLine) /\ log # <<>> /\ cursor \in Slot /\ round \in Nat
      /\ \A s \in Slot : s \in Int /\ s < TournamentSize
  BY TournamentAssumption
     DEF LInv, IInv, JournalShape, TypeOK, Slot, WriteLine, CommitLine, UnlinkHypothesis
<1>1. CASE WriteLine
  <2> DEFINE line == Line(round, cursor, slot[cursor].outcome, slot[cursor].design)
  <2>1. /\ pc = "journal" /\ pc' = "commit" /\ log' = Append(log, line)
        /\ UNCHANGED <<round, cursor>>
    BY <1>1 DEF WriteLine, Journalled
  <2>2. line.round = round /\ line.slot = cursor
    BY DEF Line
  <2> HIDE DEF line
  <2>3. /\ Len(log') = Len(log) + 1 /\ Len(log) \in Nat \ {0}
        /\ log'[Len(log) + 1] = line /\ \A i \in 1..Len(log) : log'[i] = log[i]
    BY <1>0, <2>1
  <2>4. ASSUME NEW r, NEW s, HasLine(log, r, s) PROVE HasLine(log', r, s)
    BY <2>3, <2>4 DEF HasLine
  <2>5. HasLine(log', round, cursor)
    BY <2>2, <2>3 DEF HasLine
  <2>6. Whole(log', round)
    BY <2>1, <2>3, <2>4 DEF Whole
  <2>7. \A s \in Slot : s <= cursor => s < cursor \/ s = cursor
    BY <1>0
  <2> QED  BY <2>1, <2>4, <2>5, <2>6, <2>7
<1>2. CASE CommitLine
  BY <1>2 DEF CommitLine
<1>3. CASE UnlinkHypothesis /\ cursor + 1 < TournamentSize
  BY <1>0, <1>3 DEF UnlinkHypothesis
<1>4. CASE UnlinkHypothesis /\ ~ (cursor + 1 < TournamentSize)
  <2>1. /\ pc = "unlink" /\ pc' = "idle" /\ round' = round + 1 /\ UNCHANGED log
    BY <1>4 DEF UnlinkHypothesis
  <2>2. \A s \in Slot : s <= cursor
    BY <1>0, <1>4, TournamentAssumption
  <2>3. \A s \in Slot : HasLine(log, round, s)
    BY <2>1, <2>2
  <2>4. ASSUME NEW q \in 1..((round + 1) - 1), NEW s \in Slot
        PROVE  HasLine(log, q, s)
    <3>1. q = round \/ q \in 1..(round - 1)
      BY <1>0
    <3> QED  BY <2>1, <2>3, <3>1 DEF Whole
  <2> QED  BY <2>1, <2>4 DEF Whole
<1> QED  BY <1>1, <1>2, <1>3, <1>4

LEMMA NextWholeInv ==
  ASSUME NoLateDeath, LInv, OrderInv, WholeInv, [Next]_vars
  PROVE  WholeInv'
<1>1. CASE Kill \/ CommitFails \/ BaselineFails \/ Finish
  BY <1>1, DeathLeavesWhole DEF Kill, CommitFails, BaselineFails, Finish, files, NoLateDeath
<1>2. CASE Start
  BY <1>2 DEF Start, files, WholeInv, Settled, Accepting
<1>3. CASE Baseline
  <2> DEFINE line == Line(0, 0, "improvement", tip)
  <2>1. pc' = "baseline" /\ log' = <<line>> /\ line \in LogLine /\ line.round = 0
    BY <1>3, ZeroIsSlot DEF Baseline, Line, LogLine, Outcome, LInv, IInv, TypeOK
  <2> HIDE DEF line
  <2>2. log' \in Seq(LogLine) /\ log' # <<>> /\ Len(log') = 1 /\ log'[1] = line
    BY <2>1
  <2>3. NextRound(log') <= 1 /\ NextRound(log') \in Nat
    BY <2>1, <2>2, NextRoundIsLeast, NextRoundIsNat
  <2>4. Whole(log', NextRound(log'))
    BY <2>1, <2>2, <2>3 DEF Whole
  <2> QED  BY <2>1, <2>4 DEF WholeInv, Settled, Accepting
<1>4. CASE CommitBaseline
  BY <1>4 DEF CommitBaseline, WholeInv, Settled, Accepting
<1>5. CASE NumberRounds
  BY <1>5 DEF NumberRounds, files, WholeInv, Settled, Accepting
<1>6. CASE StartRound
  BY <1>6 DEF StartRound, files, WholeInv, Settled, Accepting
<1>7. CASE Collect
  <2>1. CASE pc' = "down"
    BY <1>7, <2>1, DeathLeavesWhole DEF Collect, files
  <2>2. CASE pc' = "accept" /\ pc = "slots" /\ UNCHANGED <<log, round>>
    BY <2>2 DEF WholeInv, Settled, Accepting
  <2> QED  BY <1>7, <2>1, <2>2 DEF Collect, files
<1>8. CASE ResetCheckout \/ MergeWinner \/ ReclaimWinner \/ MergeFails \/ RetireLoser
  <2>1. /\ pc \in Accepting /\ UNCHANGED <<log, round>>
        /\ pc' \in Accepting \/ (pc' = "journal" /\ cursor' = 0)
    BY <1>8 DEF ResetCheckout, MergeWinner, ReclaimWinner, MergeFails, RetireLoser,
                Advance, Destroy, files, Accepting, Reset, LInv, LadderInv
  <2>2. \A s \in Slot : ~ (s < 0)
    BY DEF Slot
  <2> QED  BY <2>1, <2>2 DEF WholeInv, Settled, Accepting
<1>9. ASSUME NEW s \in Slot, SlotStep(s) PROVE WholeInv'
  <2>1. UNCHANGED <<pc, log, round, cursor>> /\ pc = "slots"
    BY <1>9 DEF SlotStep, Propose, ProposalFails, CreateWorktree,
                RaiseFromSlot, Evaluate, main, files
  <2> QED  BY <2>1 DEF WholeInv, Settled, Accepting
<1>10. CASE UNCHANGED vars
  BY <1>10 DEF vars, files, main, WholeInv
<1> QED  BY <1>1, <1>2, <1>3, <1>4, <1>5, <1>6, <1>7, <1>8, <1>9, <1>10,
            JournalKeepsWhole DEF Next, MainStep

(* A round is journalled as a whole: the next one begins only when every   *)
(* slot of those before it has its line, and the baseline comes first      *)
(* (append_log, run_tournament_round and the numbering in main).           *)
THEOREM TournamentRoundsAreWhole ==
  ASSUME NoLateDeath
  PROVE  Spec => []RoundsAreWhole
<1>1. Init => WholeInv
  BY DEF Init, WholeInv, Settled, Accepting
<1>2. WholeInv => RoundsAreWhole
  BY DEF WholeInv, Whole, HasLine, RoundsAreWhole
<1> QED  BY <1>1, <1>2, InitIInv, NextIInv, InitLadderInv, NextLadderInv, AlwaysOrder,
            NextWholeInv, PTL DEF Spec, LInv

===============================================================================
