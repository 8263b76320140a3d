------------------------------ MODULE AgentCalls ------------------------------
(***************************************************************************)
(* The agent calls of one tournament round and the main checkout they      *)
(* share: tools/agents/hypothesis.py, implement.py and scribe.py, the      *)
(* sandbox checks run_slot() puts around them (tools/tournament.py) and    *)
(* the scribe and commit steps of append_log() (tools/orchestrator.py).    *)
(*                                                                         *)
(* The slots run concurrently, and every agent is a process in, or beside, *)
(* one checkout: what the code compares, restores and trusts may be        *)
(* changed by another slot's agent between any two of its steps.  An agent *)
(* may write any path while it runs: a new edition, or the content that    *)
(* was there before the last one.                                          *)
(***************************************************************************)
EXTENDS Sandbox, Integers, FiniteSets, SequencesExt

CONSTANTS
  Slot,        \* the slots of the round
  Journal,     \* cores/<target>/experiments/log.jsonl
  Lessons,     \* cores/<target>/LESSONS.md
  Core,        \* the paths under cores/<target>/
  Owned,       \* paths somebody may have left dirty before the round
  Flaws,       \* what may be wrong with a hypothesis file an agent writes
  Misdeeds,    \* which of Misdeed the agents do
  MaxEdits     \* bound: misdeeds, except failures

(* stray:   an agent writes a shared path or undoes the last write to one  *)
(* tree:    an implementing agent touches an off-limits path of a worktree *)
(* plant:   an implementing agent leaves an ignored build output           *)
(* fail:    an agent exits with an error, or a scribe times out            *)
(* rewrite: the scribe rewrites LESSONS.md                                 *)
(* delete:  the scribe deletes LESSONS.md                                  *)
Misdeed == {"stray", "tree", "plant", "fail", "rewrite", "delete"}

ASSUME AgentAssumption ==
  /\ Slot \subseteq Nat /\ Slot # {} /\ IsFiniteSet(Slot)
  /\ {Journal, Lessons} \subseteq Core /\ Journal # Lessons
  /\ Core \subseteq Path /\ Core \cap Ignored = {} /\ Core \cap Contract = {}
  /\ Owned \subseteq Path \ (Ignored \cup Core)
  /\ Flaws \subseteq SUBSET {"brace", "long", "junk"}
  /\ Misdeeds \subseteq Misdeed
  /\ MaxEdits \in Nat
  /\ NoFile = <<>>
  /\ None \notin Seq(Nat)

VARIABLES
  disk,        \* content of each path of the main checkout
  head,        \* its content at HEAD
  files,       \* the hypothesis files, oldest first (git ignores them)
  at,          \* where each slot is
  tries,       \* how often its current agent was started
  before,      \* dirty state before its hypothesis agent
  breaches,    \* off-limits paths still to be rolled back
  resolved,    \* the hypothesis file it took for its own
  snap,        \* contract snapshot before its implementing agent
  off,         \* its worktree has an off-limits change
  planted,     \* its worktree has an ignored output the agent left
  stuck,       \* history: off-limits paths its rollback failed to restore
  stale,       \* history: contract paths of which its gates read another
               \* edition than its snapshot's, not put back since
  stage,       \* what the coordinator is at
  left,        \* slots whose entry is not journalled yet
  text,        \* LESSONS.md before the scribe
  dirt,        \* dirty state before the scribe
  skipped,     \* the entry being journalled carries scribe_skipped
  edits,       \* misdeeds so far; the last edition's number
  authors,     \* history: the calls that wrote each path
  usedPlant,   \* history: slots whose gates read a planted output
  mine         \* history: paths outside the core dirty before the round

checkout  == <<disk, head, edits, authors>>
slotVars  == <<at, tries, before, breaches, resolved, snap, off, planted,
               stuck, stale>>
coordVars == <<stage, left, text, dirt, skipped>>
vars == <<checkout, files, slotVars, coordVars, usedPlant, mine>>

Call == {"hypothesis", "implement", "scribe"} \X Slot
Running == {"hypothesis", "implement"}
Ended == {"raised", "broken", "measured"}

-----------------------------------------------------------------------------
(* Hypothesis files.                                                       *)

(* Faulty variant: the slots of a round share one sequence number. *)
SharedSeqId(s) == [seq |-> 1, slot |-> s]

(* The id allocate_round_ids gives to a slot; the date and the round are   *)
(* the same for all.                                                       *)
Id(s) == [seq |-> 1 + s, slot |-> s]

(* The name of id `long` starts with the text of id `short`. *)
StartsWith(long, short) ==
  /\ long.seq = short.seq
  /\ \/ long.slot = short.slot
     \/ short.slot > 0 /\ long.slot \div 10 = short.slot

File(id, suffixed, flaws) ==
  [id |-> id, suffixed |-> suffixed, flaws |-> flaws]

(* normalize_hypothesis_yaml strips a stray closing brace and the core's   *)
(* directory; what does not parse even then stays as it is.                *)
Normalized(f) ==
  IF "junk" \in f.flaws THEN f ELSE [f EXCEPT !.flaws = {}]

(* validate_hypothesis. *)
Valid(f) == f.flaws = {}

(* The files the resolver of run_hypothesis_agent looks at for slot s: its *)
(* exact name, or else every name that starts with it.                     *)
Exact(s) == {i \in DOMAIN files : files[i].id = Id(s) /\ ~files[i].suffixed}
Candidates(s) ==
  IF Exact(s) # {} THEN Exact(s)
  ELSE {i \in DOMAIN files : StartsWith(files[i].id, Id(s))}

-----------------------------------------------------------------------------
Start == <<0>>

Init ==
  /\ head = [p \in Path |-> Start]
  /\ \E dirty \in SUBSET Owned :
       /\ disk = [p \in Path |-> IF p \in dirty THEN <<0, 0>> ELSE Start]
       /\ mine = dirty
  /\ files = <<>>
  /\ at = [s \in Slot |-> "idle"]
  /\ tries = [s \in Slot |-> 0]
  /\ before = [s \in Slot |-> None]
  /\ breaches = [s \in Slot |-> {}]
  /\ resolved = [s \in Slot |-> None]
  /\ snap = [s \in Slot |-> None]
  /\ off = [s \in Slot |-> FALSE]
  /\ planted = [s \in Slot |-> FALSE]
  /\ stuck = [s \in Slot |-> {}]
  /\ stale = [s \in Slot |-> {}]
  /\ stage = "slots" /\ left = Slot
  /\ text = None /\ dirt = None /\ skipped = FALSE
  /\ edits = 0
  /\ authors = [p \in Path |-> {}]
  /\ usedPlant = {}

Now == DirtyState(disk, head)

CountMisdeed == edits < MaxEdits /\ edits' = edits + 1

(* A new edition of path p, by `call`. *)
Edit(call, p, content) ==
  /\ CountMisdeed
  /\ disk' = [disk EXCEPT ![p] = content]
  /\ authors' = [authors EXCEPT ![p] = @ \cup {call}]
  /\ UNCHANGED head

-----------------------------------------------------------------------------
(* Phase 1: run_hypothesis_agent.                                          *)

StartHypothesis(s) ==
  /\ stage = "slots" /\ at[s] = "idle"
  /\ at' = [at EXCEPT ![s] = "hypothesis"]
  /\ before' = [before EXCEPT ![s] = Now]
  /\ tries' = [tries EXCEPT ![s] = 1]
  /\ UNCHANGED <<checkout, files, breaches, resolved, snap, off, planted,
                 stuck, stale, coordVars, usedPlant, mine>>

AgentWrites(s, p) ==
  /\ "stray" \in Misdeeds /\ at[s] \in Running
  /\ Edit(<<at[s], s>>, p, Append(disk[p], edits'))
  /\ UNCHANGED <<files, slotVars, coordVars, usedPlant, mine>>

(* Path p gets an earlier content back, which may be the snapshot's. *)
PutBack(p) == stale' = [s \in Slot |-> stale[s] \ {p}]

(* An agent undoes the last write to p, its own or another's; it does not  *)
(* undo what the owner wrote before the round.                             *)
AgentUndoes(s, p) ==
  /\ "stray" \in Misdeeds /\ at[s] \in Running
  /\ disk[p] # NoFile /\ Last(disk[p]) # 0
  /\ Edit(<<at[s], s>>, p, Front(disk[p]))
  /\ PutBack(p)
  /\ UNCHANGED <<files, at, tries, before, breaches, resolved, snap, off,
                 planted, stuck, coordVars, usedPlant, mine>>

(* Faulty variant: the retry takes its own baseline. *)
AgentRetriedAfresh(s) ==
  /\ "fail" \in Misdeeds
  /\ at[s] \in Running /\ tries[s] = 1
  /\ tries' = [tries EXCEPT ![s] = 2]
  /\ before' = [before EXCEPT ![s] = Now]
  /\ UNCHANGED <<checkout, files, at, breaches, resolved, snap, off,
                 planted, stuck, stale, coordVars, usedPlant, mine>>

(* Faulty variant: every nonzero exit is retried. *)
AgentRetriedForever(s) ==
  /\ "fail" \in Misdeeds
  /\ at[s] \in Running /\ tries[s] >= 1
  /\ tries' = [tries EXCEPT ![s] = @ + 1]
  /\ UNCHANGED <<checkout, files, at, before, breaches, resolved, snap, off,
                 planted, stuck, stale, coordVars, usedPlant, mine>>

(* A nonzero exit is retried once, under the same baseline. *)
AgentRetried(s) ==
  /\ "fail" \in Misdeeds
  /\ at[s] \in Running /\ tries[s] = 1
  /\ tries' = [tries EXCEPT ![s] = 2]
  /\ UNCHANGED <<checkout, files, at, before, breaches, resolved, snap, off,
                 planted, stuck, stale, coordVars, usedPlant, mine>>

(* A second one raises before the off-limits check. *)
AgentRaises(s) ==
  /\ "fail" \in Misdeeds
  /\ at[s] = "hypothesis" /\ tries[s] = 2
  /\ at' = [at EXCEPT ![s] = "raised"]
  /\ tries' = [tries EXCEPT ![s] = 0]
  /\ before' = [before EXCEPT ![s] = None]
  /\ UNCHANGED <<checkout, files, breaches, resolved, snap, off,
                 planted, stuck, stale, coordVars, usedPlant, mine>>

(* The agent exits with 0, or is killed at its time limit; it has written  *)
(* the file it was asked for, or one with a suffixed name, or none.        *)
AgentReturns(s) ==
  /\ at[s] = "hypothesis"
  /\ \/ \E suffixed \in BOOLEAN, flaws \in Flaws :
          files' = Append(files, File(Id(s), suffixed, flaws))
     \/ UNCHANGED files
  /\ at' = [at EXCEPT ![s] = "check"]
  /\ tries' = [tries EXCEPT ![s] = 0]
  /\ UNCHANGED <<checkout, before, breaches, resolved, snap, off,
                 planted, stuck, stale, coordVars, usedPlant, mine>>

(* _git_offlimits_changes.  Only hypothesis files are allowed, which git   *)
(* does not list anyway.                                                   *)
CheckAgent(s) ==
  /\ at[s] = "check"
  /\ breaches' = [breaches EXCEPT ![s] = ChangedSince(before[s], Now, {})]
  /\ IF breaches'[s] = {}
     THEN /\ at' = [at EXCEPT ![s] = "resolve"]
          /\ before' = [before EXCEPT ![s] = None]
     ELSE /\ at' = [at EXCEPT ![s] = "rollback"]
          /\ UNCHANGED before
  /\ UNCHANGED <<checkout, files, tries, resolved, snap, off, planted,
                 stuck, stale, coordVars, usedPlant, mine>>

(* revert_paths, one git command per path, whose failure goes unnoticed;   *)
(* the journal is never restored.  The call then raises.                   *)
RollBack(s) ==
  /\ at[s] = "rollback"
  /\ \E p \in breaches[s] : \E failed \in SUBSET ({p} \cap Tracked(head)) :
       /\ disk' = Reverted(disk, head, before[s], {p} \ {Journal}, failed)
       /\ IF disk'[p] = disk[p] THEN UNCHANGED stale ELSE PutBack(p)
       /\ stuck' = [stuck EXCEPT ![s] = @ \cup failed]
       /\ breaches' = [breaches EXCEPT ![s] = @ \ {p}]
       /\ IF breaches[s] = {p}
          THEN /\ at' = [at EXCEPT ![s] = "broken"]
               /\ before' = [before EXCEPT ![s] = None]
          ELSE UNCHANGED <<at, before>>
  /\ UNCHANGED <<head, edits, authors, files, tries, resolved, snap,
                 off, planted, coordVars, usedPlant, mine>>

(* The newest candidate is normalised on disk and validated; with none, or *)
(* an invalid one, the slot ends.                                          *)
Resolve(s) ==
  /\ at[s] = "resolve"
  /\ \/ /\ Candidates(s) = {}
        /\ at' = [at EXCEPT ![s] = "broken"]
        /\ UNCHANGED <<files, resolved>>
     \/ \E i \in Candidates(s) :
          /\ \A k \in Candidates(s) : k <= i
          /\ files' = [files EXCEPT ![i] = Normalized(@)]
          /\ resolved' = [resolved EXCEPT ![s] = files[i].id]
          /\ at' = [at EXCEPT ![s] = IF Valid(files'[i]) THEN "snapshot"
                                                         ELSE "broken"]
  /\ UNCHANGED <<checkout, tries, before, breaches, snap, off, planted, stuck,
                 stale, coordVars, usedPlant, mine>>
-----------------------------------------------------------------------------
(* Phase 2: the worktree exists, the contract is fingerprinted, the        *)
(* implementing agent runs.                                                *)

TakeSnapshot(s) ==
  /\ at[s] = "snapshot"
  /\ snap' = [snap EXCEPT ![s] = Snapshot(disk)]
  /\ at' = [at EXCEPT ![s] = "implement"]
  /\ tries' = [tries EXCEPT ![s] = 1]
  /\ UNCHANGED <<checkout, files, before, breaches, resolved, off, planted,
                 stuck, stale, coordVars, usedPlant, mine>>

InTree ==
  {"snapshot", "implement", "inspect", "purge", "build", "gates", "late"}

(* The agent touches an off-limits path of its own worktree, or of another *)
(* slot's.                                                                 *)
TouchTree(s, t) ==
  /\ "tree" \in Misdeeds
  /\ at[s] = "implement" /\ at[t] \in InTree /\ ~off[t]
  /\ CountMisdeed
  /\ off' = [off EXCEPT ![t] = TRUE]
  /\ UNCHANGED <<disk, head, authors, files, at, tries, before, breaches,
                 resolved, snap, planted, stuck, stale, coordVars, usedPlant,
                 mine>>

PlantOutput(s) ==
  /\ "plant" \in Misdeeds
  /\ at[s] = "implement" /\ ~planted[s]
  /\ CountMisdeed
  /\ planted' = [planted EXCEPT ![s] = TRUE]
  /\ UNCHANGED <<disk, head, authors, files, at, tries, before, breaches,
                 resolved, snap, off, stuck, stale, coordVars, usedPlant,
                 mine>>

(* run_implementation_agent returns what the lint says, whether the agent  *)
(* succeeded, failed twice or was killed.                                  *)
ImplementReturns(s) ==
  /\ at[s] = "implement"
  /\ \E next \in {"inspect", "broken"} : at' = [at EXCEPT ![s] = next]
  /\ tries' = [tries EXCEPT ![s] = 0]
  /\ UNCHANGED <<checkout, files, before, breaches, resolved, snap, off,
                 planted, stuck, stale, coordVars, usedPlant, mine>>

(* offlimits_changes and contract_breaches. *)
Breached(s) == off[s] \/ SnapshotChanges(snap[s], Snapshot(disk)) # {}

Inspect(s) ==
  /\ at[s] = "inspect"
  /\ at' = [at EXCEPT ![s] = IF Breached(s) THEN "broken" ELSE "purge"]
  /\ UNCHANGED <<checkout, files, tries, before, breaches, resolved, snap, off,
                 planted, stuck, stale, coordVars, usedPlant, mine>>

(* purge_ignored_outputs. *)
Purge(s) ==
  /\ at[s] = "purge"
  /\ planted' = [planted EXCEPT ![s] = FALSE]
  /\ at' = [at EXCEPT ![s] = "build"]
  /\ UNCHANGED <<checkout, files, tries, before, breaches, resolved, snap, off,
                 stuck, stale, coordVars, usedPlant, mine>>

(* A gate reads the contract as it is now and passes, or ends the slot. *)
Gate(s) ==
  /\ at[s] \in {"build", "gates"}
  /\ stale' =
       [stale EXCEPT ![s] = @ \cup SnapshotChanges(snap[s], Snapshot(disk))]
  /\ usedPlant' = IF planted[s] THEN usedPlant \cup {s} ELSE usedPlant
  /\ \E next \in {IF at[s] = "build" THEN "gates" ELSE "late", "broken"} :
       at' = [at EXCEPT ![s] = next]
  /\ UNCHANGED <<checkout, files, tries, before, breaches, resolved, snap, off,
                 planted, stuck, coordVars, mine>>

(* Faulty variant: nothing is compared again after the gates. *)
TrustGates(s) ==
  /\ at[s] = "late"
  /\ at' = [at EXCEPT ![s] = "measured"]
  /\ UNCHANGED <<checkout, files, tries, before, breaches, resolved, snap, off,
                 planted, stuck, stale, coordVars, usedPlant, mine>>

(* The late re-check. *)
LateCheck(s) ==
  /\ at[s] = "late"
  /\ at' = [at EXCEPT ![s] = IF Breached(s) THEN "broken" ELSE "measured"]
  /\ UNCHANGED <<checkout, files, tries, before, breaches, resolved, snap, off,
                 planted, stuck, stale, coordVars, usedPlant, mine>>

-----------------------------------------------------------------------------
(* The coordinator, once every slot has returned.                          *)

(* A winner's merge restores the tracked files of the core.  What the      *)
(* threads held is gone once they are joined.                              *)
Merge ==
  /\ \E s \in Slot : at[s] = "measured"
  /\ disk' = [p \in Path |-> IF p \in Core /\ head[p] # NoFile THEN head[p]
                                                           ELSE disk[p]]

JoinSlots ==
  /\ stage = "slots"
  /\ \A s \in Slot : at[s] \in Ended
  /\ Merge \/ UNCHANGED disk
  /\ stage' = "entry"
  /\ tries' = [s \in Slot |-> 0]
  /\ before' = [s \in Slot |-> None]
  /\ breaches' = [s \in Slot |-> {}]
  /\ snap' = [s \in Slot |-> None]
  /\ off' = [s \in Slot |-> FALSE]
  /\ planted' = [s \in Slot |-> FALSE]
  /\ stuck' = [s \in Slot |-> {}]
  /\ stale' = [s \in Slot |-> {}]
  /\ UNCHANGED <<head, edits, authors, files, at, resolved, left, text, dirt,
                 skipped, usedPlant, mine>>

Entry == CHOOSE s \in left : \A t \in left : s <= t

(* The line an entry adds to a file, numbered from the round's last one. *)
Line == 1 + Cardinality(left)

(* run_scribe_agent for the next entry, under the log lock. *)
StartScribe ==
  /\ stage = "entry"
  /\ text' = disk[Lessons]
  /\ dirt' = Now
  /\ stage' = "scribe"
  /\ UNCHANGED <<checkout, files, slotVars, left, skipped, usedPlant,
                 mine>>

ScribeAppends ==
  /\ stage = "scribe" /\ disk[Lessons] = text
  /\ disk' = [disk EXCEPT ![Lessons] = Append(@, Line)]
  /\ UNCHANGED <<head, edits, authors, files, slotVars, coordVars,
                 usedPlant, mine>>

ScribeRewrites ==
  /\ "rewrite" \in Misdeeds /\ stage = "scribe"
  /\ Edit(<<"scribe", Entry>>, Lessons, <<edits'>>)
  /\ UNCHANGED <<files, slotVars, coordVars, usedPlant, mine>>

ScribeDeletes ==
  /\ "delete" \in Misdeeds /\ stage = "scribe"
  /\ Edit(<<"scribe", Entry>>, Lessons, NoFile)
  /\ UNCHANGED <<files, slotVars, coordVars, usedPlant, mine>>

ScribeStrays(p) ==
  /\ "stray" \in Misdeeds /\ stage = "scribe" /\ p # Lessons
  /\ Edit(<<"scribe", Entry>>, p, Append(disk[p], edits'))
  /\ UNCHANGED <<files, slotVars, coordVars, usedPlant, mine>>

(* A scribe that fails or times out is skipped before anything is checked. *)
ScribeRaises ==
  /\ "fail" \in Misdeeds /\ stage = "scribe"
  /\ skipped' = TRUE
  /\ stage' = "commit"
  /\ UNCHANGED <<checkout, files, slotVars, left, text, dirt,
                 usedPlant, mine>>

ScribeBreaches == ChangedSince(dirt, Now, {Lessons})

(* Off-limits paths are rolled back, where git succeeds, and the scribe is *)
(* skipped ...                                                             *)
ScribeBreached ==
  /\ stage = "scribe" /\ ScribeBreaches # {}
  /\ \E failed \in SUBSET (ScribeBreaches \cap Tracked(head)) :
       disk' = Reverted(disk, head, dirt, ScribeBreaches \ {Journal}, failed)
  /\ skipped' = TRUE
  /\ stage' = "commit"
  /\ UNCHANGED <<head, edits, authors, files, slotVars, left, text, dirt,
                 usedPlant, mine>>

(* Faulty variant: the append-only check compares lengths only. *)
GrownText(new) == new = NoFile \/ Len(new) >= Len(text)

(* The file is gone, untouched, or starts with the old text. *)
AppendedText(new) == new = NoFile \/ IsPrefix(text, new)

(* ... a rewritten LESSONS.md is restored ...                              *)
ScribeRewrote ==
  /\ stage = "scribe" /\ ScribeBreaches = {}
  /\ ~AppendedText(disk[Lessons])
  /\ disk' = [disk EXCEPT ![Lessons] = text]
  /\ skipped' = TRUE
  /\ stage' = "commit"
  /\ UNCHANGED <<head, edits, authors, files, slotVars, left, text, dirt,
                 usedPlant, mine>>

(* ... and whatever else it did to LESSONS.md stands. *)
ScribeReturns ==
  /\ stage = "scribe" /\ ScribeBreaches = {}
  /\ AppendedText(disk[Lessons])
  /\ skipped' = FALSE
  /\ stage' = "commit"
  /\ UNCHANGED <<checkout, files, slotVars, left, text, dirt,
                 usedPlant, mine>>

(* The line is appended; journal and LESSONS.md, if it is there, are       *)
(* committed; the hypothesis file is deleted.                              *)
CommitEntry ==
  /\ stage = "commit"
  /\ disk' = [disk EXCEPT ![Journal] = Append(@, Line)]
  /\ head' = [head EXCEPT ![Journal] = disk'[Journal],
                          ![Lessons] = IF disk[Lessons] = NoFile THEN @
                                                       ELSE disk[Lessons]]
  /\ \/ \E i \in DOMAIN files :
          /\ files[i].id = resolved[Entry] /\ ~files[i].suffixed
          /\ files' = RemoveAt(files, i)
     \/ /\ \A i \in DOMAIN files :
             files[i].id = resolved[Entry] => files[i].suffixed
        /\ UNCHANGED files
  /\ left' = left \ {Entry}
  /\ stage' = IF left' = {} THEN "over" ELSE "entry"
  /\ UNCHANGED <<edits, authors, slotVars, text, dirt, skipped,
                 usedPlant, mine>>

-----------------------------------------------------------------------------
SlotStep(s) ==
  \/ StartHypothesis(s)  \/ AgentRetried(s)
  \/ AgentRaises(s)      \/ AgentReturns(s)    \/ CheckAgent(s)
  \/ RollBack(s)         \/ Resolve(s)         \/ TakeSnapshot(s)
  \/ PlantOutput(s)      \/ ImplementReturns(s) \/ Inspect(s)
  \/ Purge(s)            \/ Gate(s)            \/ LateCheck(s)
  \/ \E p \in Path : AgentWrites(s, p) \/ AgentUndoes(s, p)
  \/ \E t \in Slot : TouchTree(s, t)

CoordinatorStep ==
  \/ JoinSlots       \/ StartScribe    \/ ScribeAppends \/ ScribeRewrites
  \/ ScribeDeletes   \/ ScribeRaises   \/ ScribeBreached \/ ScribeRewrote
  \/ ScribeReturns   \/ CommitEntry
  \/ \E p \in Path : ScribeStrays(p)

Next == CoordinatorStep \/ \E s \in Slot : SlotStep(s)

Spec == Init /\ [][Next]_vars

-----------------------------------------------------------------------------
(* Properties.                                                             *)

Content == Seq(Nat)
IdSet == [seq : Nat, slot : Nat]

(* Every variable has its type. *)
TypeOK ==
  /\ disk \in [Path -> Content] /\ head \in [Path -> Content]
  /\ files \in Seq([id : IdSet, suffixed : BOOLEAN,
                     flaws : SUBSET {"brace", "long", "junk"}])
  /\ at \in [Slot -> {"idle", "check", "rollback", "resolve"}
                      \cup Running \cup InTree \cup Ended]
  /\ tries \in [Slot -> 0..2]
  /\ before \in [Slot -> [Path -> Content \cup {None}] \cup {None}]
  /\ breaches \in [Slot -> SUBSET Path]
  /\ resolved \in [Slot -> IdSet \cup {None}]
  /\ snap \in [Slot -> [Contract -> Content] \cup {None}]
  /\ off \in [Slot -> BOOLEAN] /\ planted \in [Slot -> BOOLEAN]
  /\ stuck \in [Slot -> SUBSET Path] /\ stale \in [Slot -> SUBSET Contract]
  /\ stage \in {"slots", "entry", "scribe", "commit", "over"}
  /\ left \subseteq Slot
  /\ text \in Content \cup {None}
  /\ dirt \in [Path -> Content \cup {None}] \cup {None}
  /\ skipped \in BOOLEAN /\ edits \in 0..MaxEdits
  /\ authors \in [Path -> SUBSET Call]
  /\ usedPlant \subseteq Slot
  /\ mine \subseteq Owned

(* A path outside the core that somebody left dirty before the round is    *)
(* never thrown away for HEAD's version: not by a rollback, whichever      *)
(* agents wrote to it, not by a merge (revert_paths, tools/sandbox.py).    *)
OwnersWorkStays == \A p \in mine : disk[p] # head[p]

(* A write by one hypothesis agent alone to a path that was clean is gone  *)
(* once that agent's call has ended, whatever checks and rollbacks of      *)
(* other slots came in between, unless the call raised before its check.   *)
(* Where git could not restore it, and on the journal, it may stay, but    *)
(* then the slot is broken: none goes on from its hypothesis with such a   *)
(* write on disk.  run_hypothesis_agent: "revert those changes and raise". *)
StrayIsUndone ==
  stage = "slots" =>
  \A s \in Slot, p \in Path \ (Ignored \cup mine) :
    authors[p] = {<<"hypothesis", s>>}
      /\ at[s] \notin {"hypothesis", "check", "rollback", "raised"}
    => \/ disk[p] = head[p]
       \/ at[s] = "broken" /\ p \in stuck[s] \cup {Journal}

(* Nothing a rollback does reaches the journal: while slots run, log.jsonl *)
(* changes only by what an agent writes to it.                             *)
JournalIsNotRolledBack ==
  [][stage = "slots" /\ stage' = "slots" /\ disk'[Journal] # disk[Journal]
       => edits' # edits]_vars

(* Fail closed: of a measured slot, a gate read another edition of a       *)
(* contract path than its snapshot holds only if somebody put the path     *)
(* back after that gate, by a rollback or by undoing the write: an edition *)
(* that is still there at the late check breaks every slot that used it.   *)
(* And no gate read an output its agent had planted (run_slot).            *)
FailsClosed ==
  \A s \in Slot : at[s] = "measured" => stale[s] = {} /\ s \notin usedPlant

(* A slot never takes another slot's hypothesis for its own, although it   *)
(* accepts every name that begins with its id (r1s1 and r1s10).            *)
NeverASiblingsFile ==
  \A s \in Slot : resolved[s] # None => resolved[s] = Id(s)

(* A commit of append_log drops a line of LESSONS.md only if its entry     *)
(* says that the scribe was skipped, or if the scribe already found a      *)
(* LESSONS.md that did not continue HEAD's.                                *)
LessonsGrow ==
  [][head'[Lessons] # head[Lessons] =>
       \/ IsPrefix(head[Lessons], head'[Lessons])
       \/ skipped
       \/ ~IsPrefix(head[Lessons], text)]_vars

===============================================================================
