--------------------------- MODULE AgentCallsProofs ---------------------------
(***************************************************************************)
(* For any number of slots, paths and misdeeds: what the rollbacks, the    *)
(* contract checks and the scribe's checks leave of a checkout that every  *)
(* agent may write to.                                                     *)
(***************************************************************************)
EXTENDS AgentCalls, FiniteSetTheorems, WellFoundedInduction, TLAPS

Places == {"idle", "check", "rollback", "resolve"}
            \cup Running \cup InTree \cup Ended
Dirty == [Path -> Content \cup {None}]

(* The part of the type invariant that the properties rest on.  Only while *)
(* a slot's hypothesis call lasts does it hold a baseline; the coordinator *)
(* begins when all slots have ended.                                       *)
Typed ==
  /\ disk \in [Path -> Content] /\ head \in [Path -> Content]
  /\ at \in [Slot -> Places]
  /\ before \in [Slot -> Dirty \cup {None}]
  /\ breaches \in [Slot -> SUBSET Path] /\ stuck \in [Slot -> SUBSET Path]
  /\ DOMAIN authors = Path
  /\ edits \in Nat /\ left \subseteq Slot
  /\ stage \in {"slots", "entry", "scribe", "commit", "over"}
  /\ text \in Content \cup {None} /\ dirt \in Dirty \cup {None}
  /\ stage \in {"scribe", "commit"} => text \in Content /\ dirt \in Dirty
  /\ stage # "slots" => \A s \in Slot : at[s] \in Ended
  /\ \A s \in Slot :
       at[s] \in {"hypothesis", "check", "rollback"} => before[s] \in Dirty

-----------------------------------------------------------------------------
(* Typed.                                                                  *)

LEMMA InitTyped == Init => Typed
<1> SUFFICES ASSUME Init PROVE Typed
  OBVIOUS
<1>1. Start \in Content /\ <<0, 0>> \in Content
  BY DEF Start, Content
<1>2. disk \in [Path -> Content] /\ head \in [Path -> Content]
  <2> PICK dirty :
        disk = [p \in Path |-> IF p \in dirty THEN <<0, 0>> ELSE Start]
    BY DEF Init
  <2> QED  BY <1>1 DEF Init
<1> QED  BY <1>2 DEF Init, Typed, Places

LEMMA NowIsDirty ==
  ASSUME disk \in [Path -> Content], head \in [Path -> Content]
  PROVE  Now \in Dirty
  BY DEF Now, DirtyState, Dirty

LEMMA RevertedType ==
  ASSUME disk \in [Path -> Content], head \in [Path -> Content],
         NEW b, NEW P, NEW F
  PROVE  Reverted(disk, head, b, P, F) \in [Path -> Content]
  BY DEF Reverted

LEMMA AppendType ==
  ASSUME disk \in [Path -> Content], NEW p \in Path, NEW n \in Nat
  PROVE  Append(disk[p], n) \in Content
  BY DEF Content

LEMMA FrontType ==
  ASSUME NEW c \in Content, c # NoFile
  PROVE  /\ Front(c) \in Content /\ Len(Front(c)) = Len(c) - 1
         /\ \A i \in 1..Len(Front(c)) : Front(c)[i] = c[i]
<1> DEFINE n == Len(c) - 1
<1>1. c \in Seq(Nat) /\ Len(c) \in Nat \ {0}
  BY AgentAssumption DEF Content
<1>2. n \in Nat /\ n + 1 = Len(c) /\ \A k \in 1..n : c[k] \in Nat
  BY <1>1
<1>3. Front(c) = SubSeq(c, 1, n)
  BY DEF Front
<1> HIDE DEF n
<1>4. Len(SubSeq(c, 1, n)) = n /\ \A i \in 1..n : SubSeq(c, 1, n)[i] = c[i]
  BY <1>1, <1>2
<1>5. SubSeq(c, 1, n) \in Seq(Nat)
  BY <1>1, <1>2
<1>6. n = Len(c) - 1
  BY <1>1, <1>2
<1> QED  BY <1>3, <1>4, <1>5, <1>6 DEF Content

LEMMA LineType == Typed => Line \in Nat
<1> SUFFICES ASSUME Typed PROVE Line \in Nat
  OBVIOUS
<1>1. IsFiniteSet(left)
  BY FS_Subset, AgentAssumption DEF Typed
<1>2. Cardinality(left) \in Nat
  BY <1>1, FS_CardinalityType
<1> QED  BY <1>2 DEF Line

(* Steps of a slot that neither start nor check its hypothesis agent. *)
LEMMA SlotTyped ==
  ASSUME Typed, NEW s \in Slot, SlotStep(s)
  PROVE  Typed'
<1> USE DEF checkout, slotVars, coordVars
<1>1. CASE StartHypothesis(s) \/ CheckAgent(s)
  <2>1. Now \in Dirty
    BY NowIsDirty DEF Typed
  <2>2. ChangedSince(before[s], Now, {}) \in SUBSET Path
    BY DEF ChangedSince
  <2> QED  BY <1>1, <2>1, <2>2
           DEF Typed, StartHypothesis, CheckAgent, Places, Running, Ended
<1>2. CASE \/ AgentRetried(s) \/ AgentRaises(s) \/ AgentReturns(s)
           \/ Resolve(s) \/ TakeSnapshot(s) \/ PlantOutput(s)
           \/ ImplementReturns(s) \/ Inspect(s) \/ Purge(s) \/ Gate(s)
           \/ LateCheck(s)
  <2> USE DEF Typed, Places, Running, InTree, Ended
  <2>1. CASE AgentRetried(s)
    BY <2>1 DEF AgentRetried
  <2>2. CASE AgentRaises(s)
    BY <2>2 DEF AgentRaises
  <2>3. CASE AgentReturns(s)
    BY <2>3 DEF AgentReturns
  <2>4. CASE Resolve(s)
    <3>1. \E a \in {"snapshot", "broken"} : at' = [at EXCEPT ![s] = a]
      BY <2>4 DEF Resolve
    <3> QED  BY <2>4, <3>1 DEF Resolve
  <2>5. CASE TakeSnapshot(s)
    BY <2>5 DEF TakeSnapshot
  <2>6. CASE PlantOutput(s)
    BY <2>6 DEF PlantOutput, CountMisdeed
  <2>7. CASE ImplementReturns(s)
    BY <2>7 DEF ImplementReturns
  <2>8. CASE Inspect(s) \/ Purge(s) \/ LateCheck(s)
    BY <2>8 DEF Inspect, Purge, LateCheck
  <2>9. CASE Gate(s)
    <3>1. \E a \in {"gates", "late", "broken"} : at' = [at EXCEPT ![s] = a]
      BY <2>9 DEF Gate
    <3> QED  BY <2>9, <3>1 DEF Gate
  <2> QED  BY <1>2, <2>1, <2>2, <2>3, <2>4, <2>5, <2>6, <2>7, <2>8, <2>9
<1>3. CASE RollBack(s)
  <2> PICK p \in breaches[s] :
        /\ \E failed : disk' = Reverted(disk, head, before[s], {p} \ {Journal},
                                        failed)
        /\ breaches' = [breaches EXCEPT ![s] = @ \ {p}]
        /\ \/ /\ at' = [at EXCEPT ![s] = "broken"]
              /\ before' = [before EXCEPT ![s] = None]
           \/ UNCHANGED <<at, before>>
    BY <1>3 DEF RollBack
  <2>1. disk' \in [Path -> Content]
    BY RevertedType DEF Typed
  <2>2. stuck' \in [Slot -> SUBSET Path]
    <3>1. \E failed \in SUBSET Path : stuck' = [stuck EXCEPT ![s] = @ \cup failed]
      BY <1>3 DEF RollBack, Tracked
    <3> QED  BY <3>1 DEF Typed
  <2> QED  BY <1>3, <2>1, <2>2 DEF Typed, RollBack, Places, Ended
<1>4. ASSUME NEW p \in Path, AgentWrites(s, p) PROVE Typed'
  <2>1. edits' \in Nat /\ Append(disk[p], edits') \in Content
    <3>1. edits' \in Nat
      BY <1>4 DEF AgentWrites, Edit, CountMisdeed, Typed
    <3> QED  BY <3>1, AppendType DEF Typed
  <2>2. disk' \in [Path -> Content] /\ DOMAIN authors' = Path
    BY <1>4, <2>1 DEF AgentWrites, Edit, Typed
  <2> QED  BY <1>4, <2>1, <2>2 DEF AgentWrites, Edit, Typed
<1>5. ASSUME NEW p \in Path, AgentUndoes(s, p) PROVE Typed'
  <2>1. Front(disk[p]) \in Content
    BY <1>5, FrontType DEF AgentUndoes, Typed
  <2>2. disk' \in [Path -> Content] /\ DOMAIN authors' = Path /\ edits' \in Nat
    BY <1>5, <2>1 DEF AgentUndoes, Edit, CountMisdeed, Typed
  <2> QED  BY <1>5, <2>2 DEF AgentUndoes, Edit, Typed
<1>6. ASSUME NEW t \in Slot, TouchTree(s, t) PROVE Typed'
  BY <1>6 DEF TouchTree, CountMisdeed, Typed
<1> QED  BY <1>1, <1>2, <1>3, <1>4, <1>5, <1>6 DEF SlotStep

LEMMA CoordinatorTyped ==
  ASSUME Typed, CoordinatorStep
  PROVE  Typed'
<1> USE DEF checkout, slotVars, coordVars
<1>1. CASE JoinSlots
  <2>1. disk' \in [Path -> Content]
    BY <1>1 DEF JoinSlots, Merge, Typed
  <2>2. \A s \in Slot : at[s] \in Ended
    BY <1>1 DEF JoinSlots
  <2> QED  BY <1>1, <2>1, <2>2 DEF JoinSlots, Typed, Ended
<1>2. CASE StartScribe
  <2>1. disk[Lessons] \in Content /\ Now \in Dirty
    BY NowIsDirty, AgentAssumption DEF Typed
  <2> QED  BY <1>2, <2>1 DEF StartScribe, Typed, Ended
<1>3. CASE ScribeAppends
  <2>1. Append(disk[Lessons], Line) \in Content
    BY LineType, AppendType, AgentAssumption DEF Typed
  <2>2. disk' \in [Path -> Content]
    BY <1>3, <2>1 DEF ScribeAppends, Typed
  <2> QED  BY <1>3, <2>2 DEF ScribeAppends, Typed
<1>4. ASSUME NEW call, NEW p \in Path, NEW c \in Content, Edit(call, p, c),
             stage = "scribe", UNCHANGED <<slotVars, coordVars>>
      PROVE  Typed'
  <2>1. disk' \in [Path -> Content] /\ DOMAIN authors' = Path /\ edits' \in Nat
    BY <1>4 DEF Edit, CountMisdeed, Typed
  <2> QED  BY <1>4, <2>1 DEF Edit, Typed
<1>5. CASE ScribeRewrites \/ ScribeDeletes
  <2>1. CASE ScribeRewrites
    <3>1. <<edits'>> \in Content
      BY <2>1 DEF ScribeRewrites, Edit, CountMisdeed, Content, Typed
    <3> QED  BY <1>4, <2>1, <3>1, AgentAssumption DEF ScribeRewrites
  <2>2. CASE ScribeDeletes
    <3>1. NoFile \in Content
      BY AgentAssumption DEF Content
    <3> QED  BY <1>4, <2>2, <3>1, AgentAssumption DEF ScribeDeletes
  <2> QED  BY <1>5, <2>1, <2>2
<1>6. ASSUME NEW p \in Path, ScribeStrays(p) PROVE Typed'
  <2>1. Append(disk[p], edits') \in Content
    <3>1. edits' \in Nat
      BY <1>6 DEF ScribeStrays, Edit, CountMisdeed, Typed
    <3> QED  BY <3>1, AppendType DEF Typed
  <2> QED  BY <1>4, <1>6, <2>1 DEF ScribeStrays
<1>7. CASE ScribeRaises \/ ScribeReturns
  BY <1>7 DEF ScribeRaises, ScribeReturns, Typed
<1>8. CASE ScribeBreached
  <2>1. disk' \in [Path -> Content]
    BY <1>8, RevertedType DEF ScribeBreached, Typed
  <2> QED  BY <1>8, <2>1 DEF ScribeBreached, Typed
<1>9. CASE ScribeRewrote
  BY <1>9 DEF ScribeRewrote, Typed
<1>10. CASE CommitEntry
  <2>1. Append(disk[Journal], Line) \in Content
    BY LineType, AppendType, AgentAssumption DEF Typed
  <2>2. disk' \in [Path -> Content] /\ head' \in [Path -> Content]
    <3>1. disk' \in [Path -> Content]
      BY <1>10, <2>1 DEF CommitEntry, Typed
    <3>2. disk'[Journal] \in Content /\ disk[Lessons] \in Content
          /\ head[Lessons] \in Content
      BY <3>1, AgentAssumption DEF Typed
    <3> QED  BY <1>10, <3>1, <3>2 DEF CommitEntry, Typed
  <2>3. left' \subseteq Slot /\ stage' \in {"over", "entry"}
        /\ UNCHANGED <<at, before, breaches, authors, edits, text, dirt>>
    BY <1>10 DEF CommitEntry, Typed
  <2> QED  BY <1>10, <2>2, <2>3 DEF CommitEntry, Typed, Ended
<1> QED  BY <1>1, <1>2, <1>3, <1>5, <1>6, <1>7, <1>8, <1>9, <1>10
         DEF CoordinatorStep

LEMMA NextTyped == Typed /\ [Next]_vars => Typed'
<1>1. Typed /\ UNCHANGED vars => Typed'
  BY DEF Typed, vars, checkout, slotVars, coordVars
<1> QED  BY <1>1, SlotTyped, CoordinatorTyped DEF Next

LEMMA AlwaysTyped == Spec => []Typed
<1> QED  BY InitTyped, NextTyped, PTL DEF Spec

-----------------------------------------------------------------------------
(* The owner's work.                                                       *)

(* What somebody left dirty is longer than what HEAD holds, begins with    *)
(* what no agent undoes, and every baseline shows it.                      *)
WorkInv ==
  \A p \in mine :
    /\ p \in Path \ (Ignored \cup Core)
    /\ Len(disk[p]) >= 2 /\ disk[p][2] = 0 /\ head[p] = Start
    /\ \A s \in Slot :
         at[s] \in {"hypothesis", "check", "rollback"} => before[s][p] # None
    /\ stage \in {"scribe", "commit"} => dirt[p] # None

LEMMA StartIsShort ==
  ASSUME NEW c, Len(c) >= 2
  PROVE  c # Start
<1>1. Len(<<0>>) = 1
  OBVIOUS
<1>2. Len(Start) # Len(c)
  BY <1>1 DEF Start
<1> QED  BY <1>2, Zenon

LEMMA InitWorkInv == Init => WorkInv
<1> SUFFICES ASSUME Init, NEW p \in mine
             PROVE  /\ p \in Path \ (Ignored \cup Core)
                    /\ Len(disk[p]) >= 2 /\ disk[p][2] = 0 /\ head[p] = Start
  BY DEF WorkInv, Init
<1>1. mine \subseteq Owned /\ disk[p] = <<0, 0>>
  BY AgentAssumption DEF Init
<1> QED  BY <1>1, AgentAssumption DEF Init

(* A dirty path that git sees is in every baseline taken of it. *)
LEMMA NowSees ==
  ASSUME Typed, NEW p \in Path \ Ignored, disk[p] # head[p]
  PROVE  Now[p] # None /\ Now[p] = disk[p]
  BY AgentAssumption DEF Typed, Now, DirtyState, Content

LEMMA NextWorkInv == Typed /\ WorkInv /\ [Next]_vars => WorkInv'
<1> SUFFICES ASSUME Typed, WorkInv, [Next]_vars PROVE WorkInv'
  OBVIOUS
<1> USE DEF checkout, slotVars, coordVars
<1>1. mine' = mine
  BY DEF Next, SlotStep, CoordinatorStep, vars, StartHypothesis, AgentRetried,
         AgentRaises, AgentReturns, CheckAgent, RollBack, Resolve,
         TakeSnapshot, PlantOutput, ImplementReturns, Inspect, Purge, Gate,
         LateCheck, AgentWrites, AgentUndoes, TouchTree, JoinSlots, StartScribe,
         ScribeAppends, ScribeRewrites, ScribeDeletes, ScribeRaises,
         ScribeBreached, ScribeRewrote, ScribeReturns, CommitEntry,
         ScribeStrays
<1> SUFFICES ASSUME NEW p \in mine
             PROVE  /\ Len(disk'[p]) >= 2 /\ disk'[p][2] = 0 /\ head'[p] = Start
                    /\ \A s \in Slot :
                         at'[s] \in {"hypothesis", "check", "rollback"} =>
                           before'[s][p] # None
                    /\ stage' \in {"scribe", "commit"} => dirt'[p] # None
  BY <1>1 DEF WorkInv
<1>2. /\ p \in Path \ (Ignored \cup Core) /\ disk[p] # head[p]
      /\ Len(disk[p]) >= 2 /\ disk[p][2] = 0 /\ head[p] = Start
      /\ \A s \in Slot :
           at[s] \in {"hypothesis", "check", "rollback"} => before[s][p] # None
      /\ stage \in {"scribe", "commit"} => dirt[p] # None
      /\ p # Journal /\ p # Lessons
  <2>1. /\ p \in Path \ (Ignored \cup Core) /\ Len(disk[p]) >= 2
        /\ disk[p][2] = 0 /\ head[p] = Start
    BY DEF WorkInv
  <2>2. disk[p] # head[p]
    BY <2>1, StartIsShort
  <2> QED  BY <2>1, <2>2, AgentAssumption DEF WorkInv
<1>3. disk[p] \in Content /\ Now[p] # None
  BY <1>2, NowSees DEF Typed
<1>4. ASSUME NEW s \in Slot, SlotStep(s)
      PROVE  /\ Len(disk'[p]) >= 2 /\ disk'[p][2] = 0 /\ head'[p] = Start
             /\ \A t \in Slot :
                  at'[t] \in {"hypothesis", "check", "rollback"} =>
                    before'[t][p] # None
             /\ stage' \in {"scribe", "commit"} => dirt'[p] # None
  <2> USE <1>2
  <2>1. CASE StartHypothesis(s)
    BY <1>3, <2>1 DEF StartHypothesis, Typed
  <2>2. CASE AgentRaises(s) \/ AgentReturns(s) \/ CheckAgent(s) \/ Resolve(s)
    BY <2>2 DEF AgentRaises, AgentReturns, CheckAgent, Resolve, Typed
  <2>3. CASE \/ AgentRetried(s) \/ PlantOutput(s)
             \/ \E t \in Slot : TouchTree(s, t)
    BY <2>3 DEF AgentRetried, PlantOutput, TouchTree
  <2>4. CASE TakeSnapshot(s) \/ ImplementReturns(s) \/ Inspect(s) \/ Purge(s)
             \/ LateCheck(s)
    BY <2>4 DEF TakeSnapshot, ImplementReturns, Inspect, Purge, LateCheck,
                Typed
  <2>5. CASE Gate(s)
    <3>1. \E a \in {"gates", "late", "broken"} : at' = [at EXCEPT ![s] = a]
      BY <2>5 DEF Gate
    <3> QED  BY <2>5, <3>1 DEF Gate, Typed
  <2>6. CASE RollBack(s)
    <3>1. PICK q \in breaches[s] : \E failed :
            disk' = Reverted(disk, head, before[s], {q} \ {Journal}, failed)
      BY <2>6 DEF RollBack
    <3>2. disk'[p] = disk[p]
      BY <2>6, <3>1 DEF Reverted, RollBack
    <3>3. \/ /\ at' = [at EXCEPT ![s] = "broken"]
             /\ before' = [before EXCEPT ![s] = None]
          \/ UNCHANGED <<at, before>>
      BY <2>6 DEF RollBack
    <3> QED  BY <2>6, <3>2, <3>3 DEF RollBack, Typed
  <2>7. ASSUME NEW q \in Path, AgentWrites(s, q)
        PROVE  /\ Len(disk'[p]) >= 2 /\ disk'[p][2] = 0
               /\ UNCHANGED <<head, at, before, stage, dirt>>
    <3>1. disk' = [disk EXCEPT ![q] = Append(disk[q], edits')]
          /\ edits' \in Nat
      BY <2>7 DEF AgentWrites, Edit, CountMisdeed, Typed
    <3>2. /\ Len(Append(disk[p], edits')) = Len(disk[p]) + 1
          /\ Append(disk[p], edits')[2] = disk[p][2]
      BY <1>3, <3>1 DEF Content
    <3>3. disk'[p] = disk[p] \/ disk'[p] = Append(disk[p], edits')
      BY <3>1 DEF Typed
    <3> QED  BY <1>3, <2>7, <3>2, <3>3 DEF AgentWrites, Edit, Content
  <2>8. ASSUME NEW q \in Path, AgentUndoes(s, q)
        PROVE  /\ Len(disk'[p]) >= 2 /\ disk'[p][2] = 0
               /\ UNCHANGED <<head, at, before, stage, dirt>>
    <3>1. disk' = [disk EXCEPT ![q] = Front(disk[q])]
          /\ disk[q] # NoFile /\ Last(disk[q]) # 0
      BY <2>8 DEF AgentUndoes, Edit
    <3>2. CASE p = q
      <4>1. Len(disk[p]) >= 3
        BY <1>3, <3>1, <3>2 DEF Last, Content
      <4>2. Len(Front(disk[p])) >= 2 /\ Front(disk[p])[2] = disk[p][2]
        BY <1>3, <3>1, <3>2, <4>1, FrontType DEF Content
      <4> QED  BY <2>8, <3>1, <3>2, <4>2 DEF AgentUndoes, Edit, Typed
    <3>3. CASE p # q
      BY <2>8, <3>1, <3>3 DEF AgentUndoes, Edit, Typed
    <3> QED  BY <3>2, <3>3
  <2> QED  BY <1>4, <2>1, <2>2, <2>3, <2>4, <2>5, <2>6, <2>7, <2>8
           DEF SlotStep
<1>5. ASSUME CoordinatorStep
      PROVE  /\ Len(disk'[p]) >= 2 /\ disk'[p][2] = 0 /\ head'[p] = Start
             /\ \A t \in Slot :
                  at'[t] \in {"hypothesis", "check", "rollback"} =>
                    before'[t][p] # None
             /\ stage' \in {"scribe", "commit"} => dirt'[p] # None
  <2> USE <1>2
  <2>1. CASE JoinSlots
    BY <2>1 DEF JoinSlots, Merge, Ended
  <2>2. CASE StartScribe
    BY <1>3, <2>2 DEF StartScribe, Typed
  <2>3. CASE ScribeAppends \/ ScribeRewrote
    BY <2>3 DEF ScribeAppends, ScribeRewrote, Typed
  <2>4. CASE ScribeRewrites \/ ScribeDeletes
    BY <2>4 DEF ScribeRewrites, ScribeDeletes, Edit, Typed
  <2>5. CASE ScribeRaises \/ ScribeReturns
    BY <2>5 DEF ScribeRaises, ScribeReturns
  <2>6. CASE ScribeBreached
    BY <2>6 DEF ScribeBreached, Reverted
  <2>7. CASE CommitEntry
    <3>1. disk'[p] = disk[p] /\ head'[p] = head[p] /\ UNCHANGED <<at, before>>
      BY <2>7 DEF CommitEntry, Typed
    <3>2. stage' \notin {"scribe", "commit"}
      BY <2>7 DEF CommitEntry
    <3> QED  BY <3>1, <3>2
  <2>8. ASSUME NEW q \in Path, ScribeStrays(q)
        PROVE  /\ Len(disk'[p]) >= 2 /\ disk'[p][2] = 0
               /\ UNCHANGED <<head, at, before, stage, dirt>>
    <3>1. disk' = [disk EXCEPT ![q] = Append(disk[q], edits')]
          /\ edits' \in Nat
      BY <2>8 DEF ScribeStrays, Edit, CountMisdeed, Typed
    <3>2. /\ Len(Append(disk[p], edits')) = Len(disk[p]) + 1
          /\ Append(disk[p], edits')[2] = disk[p][2]
      BY <1>3, <3>1 DEF Content
    <3>3. disk'[p] = disk[p] \/ disk'[p] = Append(disk[p], edits')
      BY <3>1 DEF Typed
    <3> QED  BY <1>3, <2>8, <3>2, <3>3 DEF ScribeStrays, Edit, Content
  <2> QED  BY <1>5, <2>1, <2>2, <2>3, <2>4, <2>5, <2>6, <2>7, <2>8
           DEF CoordinatorStep
<1>6. CASE UNCHANGED vars
  BY <1>2, <1>6 DEF vars
<1> QED  BY <1>4, <1>5, <1>6 DEF Next

(* revert_paths and _apply_winner: no rollback, whichever agents wrote in  *)
(* whatever order, and no merge takes away what somebody had left dirty    *)
(* outside the core.                                                       *)
THEOREM AgentsLeaveOwnersWork == Spec => []OwnersWorkStays
<1>1. WorkInv => OwnersWorkStays
  BY StartIsShort DEF WorkInv, OwnersWorkStays
<1> QED  BY <1>1, InitWorkInv, NextWorkInv, AlwaysTyped, PTL DEF Spec

-----------------------------------------------------------------------------
(* The contract.                                                           *)

Judged == {"implement", "inspect", "purge", "build", "gates", "late"}

UpTo(c, n) == \A i \in 1..Len(c) : c[i] <= n

(* An edition is new to every content and snapshot there is.  A path that  *)
(* a gate read apart from the snapshot's can therefore come back to it     *)
(* only by being put back.                                                 *)
ContractInv ==
  /\ snap \in [Slot -> [Contract -> Content] \cup {None}]
  /\ stale \in [Slot -> SUBSET Contract] /\ planted \in [Slot -> BOOLEAN]
  /\ usedPlant = {}
  /\ stage = "slots" =>
       \A p \in Path : UpTo(disk[p], edits) /\ UpTo(head[p], edits)
  /\ \A s \in Slot :
       /\ at[s] \in {"build", "gates", "late"} => ~planted[s]
       /\ at[s] \in Judged =>
            /\ snap[s] \in [Contract -> Content]
            /\ \A p \in Contract :
                 /\ UpTo(snap[s][p], edits)
                 /\ p \in stale[s] => disk[p] # snap[s][p]
       /\ at[s] \notin Judged \cup Ended => stale[s] = {}
       /\ at[s] = "measured" => stale[s] = {}

LEMMA InitContractInv == Init => ContractInv
<1> SUFFICES ASSUME Init PROVE ContractInv
  OBVIOUS
<1>1. \A p \in Path : UpTo(disk[p], edits) /\ UpTo(head[p], edits)
  <2> PICK dirty :
        disk = [p \in Path |-> IF p \in dirty THEN <<0, 0>> ELSE Start]
    BY DEF Init
  <2>1. edits = 0 /\ UpTo(<<0>>, 0) /\ UpTo(<<0, 0>>, 0)
    BY DEF Init, UpTo
  <2> QED  BY <2>1 DEF Init, Start
<1> QED  BY <1>1 DEF Init, ContractInv, Judged, Ended

LEMMA UpToGrows ==
  ASSUME Typed, edits' \in {edits, edits + 1}, NEW c \in Content, UpTo(c, edits)
  PROVE  UpTo(c, edits')
  BY DEF UpTo, Typed, Content

(* Steps that leave the checkout alone. *)
LEMMA ContractKept ==
  ASSUME Typed, ContractInv, edits' \in {edits, edits + 1},
         UNCHANGED <<disk, head, snap, stale, planted, usedPlant>>,
         stage' = "slots" => stage = "slots",
         \A s \in Slot :
           \/ at'[s] = at[s]
           \/ at'[s] = "broken"
           \/ at[s] \notin Judged \cup Ended /\ at'[s] \notin Judged
                /\ at'[s] # "measured"
           \/ at[s] = "implement" /\ at'[s] = "inspect"
           \/ at[s] = "inspect" /\ at'[s] = "purge"
  PROVE  ContractInv'
<1>1. stage' = "slots" =>
        \A p \in Path : UpTo(disk'[p], edits') /\ UpTo(head'[p], edits')
  BY UpToGrows DEF ContractInv, Typed
<1>2. ASSUME NEW s \in Slot, at'[s] \in Judged
      PROVE  /\ snap'[s] \in [Contract -> Content]
             /\ \A p \in Contract :
                  /\ UpTo(snap'[s][p], edits')
                  /\ p \in stale'[s] => disk'[p] # snap'[s][p]
  <2>1. at[s] \in Judged
    BY <1>2 DEF Judged, Ended
  <2> QED  BY <2>1, UpToGrows DEF ContractInv
<1>3. ASSUME NEW s \in Slot
      PROVE  /\ at'[s] \in {"build", "gates", "late"} => ~planted'[s]
             /\ at'[s] \notin Judged \cup Ended => stale'[s] = {}
             /\ at'[s] = "measured" => stale'[s] = {}
  BY DEF ContractInv, Judged, Ended
<1> QED  BY <1>1, <1>2, <1>3 DEF ContractInv

(* Writes to one path: no gate's reading of another path is affected, and  *)
(* the path itself is put back or gets a content no snapshot holds.        *)
LEMMA ContractWritten ==
  ASSUME Typed, ContractInv, stage = "slots", NEW q \in Path, NEW c \in Content,
         disk' = [disk EXCEPT ![q] = c], edits' \in {edits, edits + 1},
         UpTo(c, edits'),
         UNCHANGED <<head, snap, planted, usedPlant>>,
         \A s \in Slot : at'[s] = at[s] \/ at'[s] = "broken",
         \/ stale' = [s \in Slot |-> stale[s] \ {q}]
         \/ /\ UNCHANGED stale
            /\ \/ c = disk[q]
               \/ \A b \in Content : UpTo(b, edits) => b # c
  PROVE  ContractInv'
<1>1. \A p \in Path : UpTo(disk'[p], edits') /\ UpTo(head'[p], edits')
  BY UpToGrows DEF ContractInv, Typed
<1>2. ASSUME NEW s \in Slot, at'[s] \in Judged
      PROVE  /\ snap'[s] \in [Contract -> Content]
             /\ \A p \in Contract :
                  /\ UpTo(snap'[s][p], edits')
                  /\ p \in stale'[s] => disk'[p] # snap'[s][p]
  <2>1. at[s] \in Judged
    BY <1>2 DEF Judged
  <2>2. snap[s] \in [Contract -> Content]
    BY <2>1 DEF ContractInv
  <2>3. ASSUME NEW p \in Contract
        PROVE  /\ UpTo(snap[s][p], edits) /\ snap[s][p] \in Content
               /\ p \in stale[s] => disk[p] # snap[s][p]
               /\ p \in Path
    BY <2>1, <2>2, SandboxAssumption DEF ContractInv
  <2>4. ASSUME NEW p \in Contract, p \in stale'[s]
        PROVE  disk'[p] # snap[s][p]
    <3>1. p \in stale[s] /\ (p = q => UNCHANGED stale)
      BY <2>4
    <3>2. CASE p # q
      BY <2>3, <3>1, <3>2 DEF Typed
    <3>3. CASE p = q
      <4>1. disk'[p] = c /\ UNCHANGED stale
        BY <3>1, <3>3 DEF Typed
      <4>2. CASE c = disk[q]
        BY <2>3, <3>1, <3>3, <4>1, <4>2
      <4>3. CASE c # disk[q]
        <5>1. stale' # [t \in Slot |-> stale[t] \ {q}]
          BY <3>1, <3>3, <2>4
        <5> QED  BY <2>3, <3>3, <4>1, <4>3, <5>1
      <4> QED  BY <4>2, <4>3
    <3> QED  BY <3>2, <3>3
  <2> QED  BY <2>2, <2>3, <2>4, UpToGrows
<1>3. stale' \in [Slot -> SUBSET Contract]
      /\ \A s \in Slot : stale'[s] \subseteq stale[s]
  BY DEF ContractInv
<1>4. ASSUME NEW s \in Slot
      PROVE  /\ at'[s] \in {"build", "gates", "late"} => ~planted'[s]
             /\ at'[s] \notin Judged \cup Ended => stale'[s] = {}
             /\ at'[s] = "measured" => stale'[s] = {}
  BY <1>3 DEF ContractInv, Ended
<1> QED  BY <1>1, <1>2, <1>3, <1>4 DEF ContractInv

LEMMA WriteKeepsContract ==
  ASSUME Typed, ContractInv, NEW s \in Slot, NEW q \in Path,
         AgentWrites(s, q) \/ AgentUndoes(s, q)
  PROVE  ContractInv'
<1>1. /\ edits \in Nat /\ edits' = edits + 1 /\ stage = "slots"
      /\ disk[q] \in Content /\ UpTo(disk[q], edits)
      /\ UNCHANGED <<at, head, snap, planted, usedPlant>>
  <2>1. stage = "slots"
    BY DEF AgentWrites, AgentUndoes, Typed, Ended, Running
  <2> QED  BY <2>1 DEF AgentWrites, AgentUndoes, Edit, CountMisdeed, Typed,
                       slotVars, ContractInv
<1>2. CASE AgentWrites(s, q)
  <2> DEFINE c == Append(disk[q], edits + 1)
  <2>1. disk' = [disk EXCEPT ![q] = c] /\ UNCHANGED stale
    BY <1>1, <1>2 DEF AgentWrites, Edit, slotVars
  <2>2. c \in Content /\ Len(c) = Len(disk[q]) + 1 /\ c[Len(c)] = edits + 1
        /\ \A i \in 1..Len(disk[q]) : c[i] = disk[q][i]
    BY <1>1 DEF Content
  <2>3. Len(disk[q]) \in Nat /\ \A i \in 1..Len(disk[q]) : disk[q][i] \in Nat
    BY <1>1 DEF Content
  <2> HIDE DEF c
  <2>4. UpTo(c, edits + 1)
    <3> SUFFICES ASSUME NEW i \in 1..Len(c) PROVE c[i] <= edits + 1
      BY DEF UpTo
    <3>1. CASE i = Len(c)
      BY <1>1, <2>2, <3>1
    <3>2. CASE i # Len(c)
      <4>1. i \in 1..Len(disk[q])
        BY <2>2, <2>3, <3>2
      <4>2. c[i] = disk[q][i] /\ disk[q][i] <= edits /\ disk[q][i] \in Nat
        BY <1>1, <2>2, <2>3, <4>1 DEF UpTo
      <4> QED  BY <1>1, <4>2
    <3> QED  BY <3>1, <3>2
  <2>5. \A b \in Content : UpTo(b, edits) => b # c
    <3>1. ~UpTo(c, edits)
      <4>1. Len(c) \in 1..Len(c) /\ ~(c[Len(c)] <= edits)
        BY <1>1, <2>2, <2>3
      <4> QED  BY <4>1 DEF UpTo
    <3> QED  BY <3>1
  <2> QED  BY <1>1, <2>1, <2>2, <2>4, <2>5, ContractWritten
<1>3. CASE AgentUndoes(s, q)
  <2> DEFINE c == Front(disk[q])
  <2>1. /\ disk' = [disk EXCEPT ![q] = c] /\ disk[q] # NoFile
        /\ stale' = [t \in Slot |-> stale[t] \ {q}]
    BY <1>3 DEF AgentUndoes, Edit, PutBack
  <2>2. c \in Content /\ Len(c) = Len(disk[q]) - 1
        /\ \A i \in 1..Len(c) : c[i] = disk[q][i]
    BY <1>1, <2>1, FrontType
  <2>3. Len(disk[q]) \in Nat /\ \A i \in 1..Len(disk[q]) : disk[q][i] \in Nat
    BY <1>1 DEF Content
  <2> HIDE DEF c
  <2>4. UpTo(c, edits + 1)
    <3> SUFFICES ASSUME NEW i \in 1..Len(c) PROVE c[i] <= edits + 1
      BY DEF UpTo
    <3>1. i \in 1..Len(disk[q])
      BY <2>2, <2>3
    <3>2. c[i] = disk[q][i] /\ disk[q][i] <= edits /\ disk[q][i] \in Nat
      BY <1>1, <2>2, <2>3, <3>1 DEF UpTo
    <3> QED  BY <1>1, <3>2
  <2> QED  BY <1>1, <2>1, <2>2, <2>4, ContractWritten
<1> QED  BY <1>2, <1>3

(* A rollback writes HEAD's content to one path, if it writes at all. *)
LEMMA RollBackKeepsContract ==
  ASSUME Typed, ContractInv, NEW s \in Slot, RollBack(s)
  PROVE  ContractInv'
<1> USE DEF coordVars
<1>1. PICK q \in breaches[s] : \E failed :
        /\ disk' = Reverted(disk, head, before[s], {q} \ {Journal}, failed)
        /\ IF disk'[q] = disk[q] THEN UNCHANGED stale ELSE PutBack(q)
  BY DEF RollBack
<1>2. q \in Path /\ stage = "slots" /\ UNCHANGED <<edits, head, snap, planted,
                                                  usedPlant>>
  BY DEF RollBack, Typed, Ended
<1>3. disk' = [disk EXCEPT ![q] = disk'[q]]
  <2>1. \A p \in Path : p # q => disk'[p] = disk[p]
    BY <1>1 DEF Reverted
  <2>2. disk' \in [Path -> Content]
    BY <1>1, RevertedType DEF Typed
  <2> QED  BY <1>2, <2>1, <2>2 DEF Typed
<1>4. /\ disk'[q] \in Content /\ disk'[q] \in {disk[q], head[q]}
      /\ UpTo(disk'[q], edits')
  BY <1>1, <1>2 DEF Reverted, Typed, ContractInv
<1>5. \A t \in Slot : at'[t] = at[t] \/ at'[t] = "broken"
  BY DEF RollBack, Typed
<1> QED  BY <1>1, <1>2, <1>3, <1>4, <1>5, ContractWritten DEF PutBack

LEMMA NextContractInv == Typed /\ ContractInv /\ [Next]_vars => ContractInv'
<1> SUFFICES ASSUME Typed, ContractInv, [Next]_vars PROVE ContractInv'
  OBVIOUS
<1> USE DEF checkout, slotVars, coordVars
<1>1. ASSUME NEW s \in Slot, SlotStep(s) PROVE ContractInv'
  <2>1. CASE StartHypothesis(s) \/ AgentRaises(s) \/ AgentReturns(s)
    BY <2>1, ContractKept
    DEF StartHypothesis, AgentRaises, AgentReturns, Typed, Judged, Ended
  <2>2. CASE CheckAgent(s) \/ AgentRetried(s)
    BY <2>2, ContractKept DEF CheckAgent, AgentRetried, Typed, Judged, Ended
  <2>3. CASE RollBack(s)
    BY <2>3, RollBackKeepsContract
  <2>4. CASE Resolve(s)
    <3>1. \E a \in {"snapshot", "broken"} : at' = [at EXCEPT ![s] = a]
      BY <2>4 DEF Resolve
    <3>2. at[s] = "resolve"
      BY <2>4 DEF Resolve
    <3> QED  BY <2>4, <3>1, <3>2, ContractKept
             DEF Resolve, Typed, Judged, Ended
  <2>5. CASE TakeSnapshot(s)
    <3>1. Snapshot(disk) \in [Contract -> Content]
      BY SandboxAssumption DEF Snapshot, Typed
    <3>2. \A p \in Contract : Snapshot(disk)[p] = disk[p]
      BY DEF Snapshot
    <3>3. \A p \in Contract : UpTo(disk[p], edits)
      BY <2>5, SandboxAssumption DEF TakeSnapshot, ContractInv, Typed, Ended
    <3> QED  BY <2>5, <3>1, <3>2, <3>3
             DEF TakeSnapshot, ContractInv, Typed, Judged, Ended
  <2>6. CASE PlantOutput(s)
    <3>1. /\ \A p \in Path : stage = "slots" =>
               UpTo(disk[p], edits') /\ UpTo(head[p], edits')
          /\ \A t \in Slot : at[t] \in Judged =>
               \A p \in Contract : UpTo(snap[t][p], edits')
      BY <2>6, UpToGrows DEF PlantOutput, CountMisdeed, ContractInv, Typed
    <3> QED  BY <2>6, <3>1 DEF PlantOutput, ContractInv, Judged, Ended
  <2>7. CASE \/ ImplementReturns(s) \/ Inspect(s)
             \/ \E t \in Slot : TouchTree(s, t)
    BY <2>7, ContractKept DEF ImplementReturns, Inspect, TouchTree,
                              CountMisdeed, Typed, Judged, Ended
  <2>8. CASE Purge(s)
    BY <2>8 DEF Purge, ContractInv, Judged, Ended, Typed
  <2>9. CASE Gate(s)
    <3> DEFINE more == SnapshotChanges(snap[s], Snapshot(disk))
    <3>1. /\ at[s] \in {"build", "gates"}
          /\ UNCHANGED <<disk, head, edits, snap, planted, stage>>
          /\ stale' = [stale EXCEPT ![s] = @ \cup more]
          /\ usedPlant' = {}
      BY <2>9 DEF Gate, ContractInv
    <3>2. \E a \in {"gates", "late", "broken"} : at' = [at EXCEPT ![s] = a]
      BY <2>9 DEF Gate
    <3>3. more \subseteq Contract /\ \A p \in more : disk[p] # snap[s][p]
      BY DEF SnapshotChanges, Snapshot
    <3>4. stale' \in [Slot -> SUBSET Contract]
      BY <3>1, <3>3 DEF ContractInv
    <3>5. \A p \in Contract : p \in stale'[s] => disk[p] # snap[s][p]
      BY <3>1, <3>3 DEF ContractInv, Judged
    <3> QED  BY <3>1, <3>2, <3>4, <3>5 DEF ContractInv, Judged, Ended, Typed
  <2>10. CASE LateCheck(s)
    <3>1. \E a \in {"measured", "broken"} : at' = [at EXCEPT ![s] = a]
          /\ (a = "measured" => ~Breached(s))
      BY <2>10 DEF LateCheck
    <3>2. ~Breached(s) => \A p \in Contract : disk[p] = snap[s][p]
      BY DEF Breached, SnapshotChanges, Snapshot
    <3>3. ~Breached(s) => stale[s] = {}
      BY <2>10, <3>2 DEF LateCheck, ContractInv, Judged
    <3> QED  BY <2>10, <3>1, <3>3
             DEF LateCheck, ContractInv, Judged, Ended, Typed
  <2>11. ASSUME NEW q \in Path, AgentWrites(s, q) \/ AgentUndoes(s, q)
         PROVE  ContractInv'
    BY <2>11, WriteKeepsContract
  <2> QED  BY <1>1, <2>1, <2>2, <2>3, <2>4, <2>5, <2>6, <2>7, <2>8, <2>9,
              <2>10, <2>11 DEF SlotStep
<1>2. CASE CoordinatorStep
  <2>1. \A s \in Slot : at[s] \in Ended /\ at'[s] \in Ended
    <3>1. Typed'
      BY <1>2, CoordinatorTyped
    <3> QED  BY <1>2, <3>1
             DEF CoordinatorStep, JoinSlots, StartScribe, ScribeAppends,
                 ScribeRewrites, ScribeDeletes, ScribeRaises, ScribeBreached,
                 ScribeRewrote, ScribeReturns, CommitEntry, ScribeStrays, Typed
  <2>2. stage' # "slots"
    BY <1>2 DEF CoordinatorStep, JoinSlots, StartScribe, ScribeAppends,
                ScribeRewrites, ScribeDeletes, ScribeRaises, ScribeBreached,
                ScribeRewrote, ScribeReturns, CommitEntry, ScribeStrays
  <2>3. CASE JoinSlots
    BY <2>1, <2>2, <2>3 DEF JoinSlots, ContractInv, Judged, Ended
  <2>4. CASE ~JoinSlots
    <3>1. UNCHANGED <<at, snap, stale, planted, usedPlant>>
      BY <1>2, <2>4
      DEF CoordinatorStep, StartScribe, ScribeAppends, ScribeRewrites,
          ScribeDeletes, ScribeRaises, ScribeBreached, ScribeRewrote,
          ScribeReturns, CommitEntry, ScribeStrays
    <3> QED  BY <2>1, <2>2, <3>1 DEF ContractInv, Judged, Ended
  <2> QED  BY <2>3, <2>4
<1>3. CASE UNCHANGED vars
  BY <1>3 DEF vars, ContractInv
<1> QED  BY <1>1, <1>2, <1>3 DEF Next

(* run_slot's two re-checks fail closed: whatever agents of whichever      *)
(* slots write to the contract between any two steps of the code, a        *)
(* measured slot was judged by the contract of its snapshot, or by another *)
(* that was taken back before the late check looked.                       *)
THEOREM AgentsFailClosed == Spec => []FailsClosed
<1>1. ContractInv => FailsClosed
  BY DEF ContractInv, FailsClosed
<1> QED  BY <1>1, InitContractInv, NextContractInv, AlwaysTyped, PTL DEF Spec

-----------------------------------------------------------------------------
(* Stray writes.                                                           *)

Shared == Path \ (Ignored \cup mine)
Early == {"hypothesis", "check", "rollback"}

(* While slots run, a clean path is dirty only by somebody's write; a path *)
(* that one hypothesis agent alone has written to is clean in its baseline *)
(* and among its breaches until it is rolled back, or cannot be.           *)
StrayAt(p, s) ==
  /\ authors[p] = {} => disk[p] = head[p]
  /\ at[s] = "idle" => <<"hypothesis", s>> \notin authors[p]
  /\ at[s] \in Early /\ authors[p] \subseteq {<<"hypothesis", s>>} =>
       before[s][p] = None
  /\ authors[p] = {<<"hypothesis", s>>} /\ disk[p] # head[p] =>
       \/ at[s] \in {"hypothesis", "check", "raised"}
       \/ at[s] = "rollback" /\ p \in breaches[s]
       \/ at[s] \in {"rollback", "broken"} /\ p \in stuck[s] \cup {Journal}

StrayInv ==
  stage = "slots" => \A p \in Shared, s \in Slot : StrayAt(p, s)

LEMMA InitStrayInv == Init => StrayInv
<1> SUFFICES ASSUME Init, NEW p \in Shared, NEW s \in Slot
             PROVE  authors[p] = {} /\ disk[p] = head[p] /\ at[s] = "idle"
  BY DEF StrayInv, StrayAt, Early
<1>1. PICK dirty \in SUBSET Owned :
        disk = [q \in Path |-> IF q \in dirty THEN <<0, 0>> ELSE Start]
  BY DEF Init
<1> QED  BY <1>1 DEF Init, Shared

(* Steps that write nothing and keep every slot where it is, or take it    *)
(* from one place after its check to another.                              *)
LEMMA StrayKept ==
  ASSUME StrayInv, UNCHANGED <<disk, head, authors, breaches, stuck, mine>>,
         stage' = "slots" => stage = "slots",
         \A s \in Slot :
           \/ at'[s] = at[s] /\ before'[s] = before[s]
           \/ at[s] \notin Early \cup {"idle", "raised", "broken"}
                /\ at'[s] \notin Early \cup {"idle"}
           \/ at[s] = "hypothesis" /\ at'[s] = "check"
                /\ before'[s] = before[s]
           \/ at[s] = "hypothesis" /\ at'[s] = "raised"
  PROVE  StrayInv'
<1> SUFFICES ASSUME NEW p \in Shared, NEW s \in Slot, stage = "slots"
             PROVE  StrayAt(p, s)'
  BY DEF StrayInv, Shared
<1>1. StrayAt(p, s)
  BY DEF StrayInv
<1> QED  BY <1>1 DEF StrayAt, Early

LEMMA StartKeepsStray ==
  ASSUME Typed, StrayInv, NEW s \in Slot, StartHypothesis(s)
  PROVE  StrayInv'
<1> USE DEF StartHypothesis, checkout, coordVars
<1> SUFFICES ASSUME NEW p \in Shared, NEW t \in Slot, stage = "slots"
             PROVE  StrayAt(p, t)'
  BY DEF StrayInv, Shared
<1>1. StrayAt(p, t) /\ UNCHANGED <<stuck, breaches, authors, disk, head>>
  BY DEF StrayInv
<1>2. CASE t # s
  BY <1>1, <1>2 DEF StrayAt, Typed
<1>3. CASE t = s
  <2>1. at[s] = "idle" /\ at'[s] = "hypothesis" /\ before'[s] = Now
    BY DEF Typed
  <2>2. <<"hypothesis", s>> \notin authors[p]
    BY <1>1, <1>3, <2>1 DEF StrayAt
  <2>3. authors[p] \subseteq {<<"hypothesis", s>>} => Now[p] = None
    BY <1>1, <2>2 DEF StrayAt, Now, DirtyState, Shared
  <2> QED  BY <1>1, <1>3, <2>1, <2>2, <2>3 DEF StrayAt
<1> QED  BY <1>2, <1>3

(* A path that this agent alone made dirty is among its breaches. *)
LEMMA CheckKeepsStray ==
  ASSUME Typed, StrayInv, NEW s \in Slot, CheckAgent(s)
  PROVE  StrayInv'
<1> USE DEF CheckAgent, checkout, coordVars
<1> SUFFICES ASSUME NEW p \in Shared, NEW t \in Slot, stage = "slots"
             PROVE  StrayAt(p, t)'
  BY DEF StrayInv, Shared
<1>1. StrayAt(p, t) /\ UNCHANGED <<stuck, authors, disk, head>>
  BY DEF StrayInv
<1>2. CASE t # s
  BY <1>1, <1>2 DEF StrayAt, Typed
<1>3. CASE t = s
  <2>1. /\ at[s] = "check"
        /\ \/ at'[s] = "resolve" /\ breaches'[s] = {}
           \/ at'[s] = "rollback" /\ before' = before
        /\ breaches'[s] = ChangedSince(before[s], Now, {})
    BY DEF Typed
  <2>2. ASSUME authors[p] = {<<"hypothesis", s>>}, disk[p] # head[p]
        PROVE  p \in breaches'[s]
    <3>1. before[s][p] = None
      BY <1>1, <1>3, <2>1, <2>2 DEF StrayAt, Early
    <3>2. Now[p] # None /\ p \in Path
      BY <2>2, NowSees DEF Shared
    <3> QED  BY <2>1, <3>1, <3>2 DEF ChangedSince
  <2> QED  BY <1>1, <1>3, <2>1, <2>2 DEF StrayAt, Early
<1> QED  BY <1>2, <1>3

(* A rollback restores a path that was clean before, unless git fails or   *)
(* it is the journal.                                                      *)
LEMMA RollBackKeepsStray ==
  ASSUME Typed, StrayInv, NEW s \in Slot, RollBack(s)
  PROVE  StrayInv'
<1> USE DEF coordVars
<1> DEFINE Step(q, failed) ==
      /\ disk' = Reverted(disk, head, before[s], {q} \ {Journal}, failed)
      /\ stuck' = [stuck EXCEPT ![s] = @ \cup failed]
      /\ breaches' = [breaches EXCEPT ![s] = @ \ {q}]
      /\ IF breaches[s] = {q}
         THEN /\ at' = [at EXCEPT ![s] = "broken"]
              /\ before' = [before EXCEPT ![s] = None]
         ELSE UNCHANGED <<at, before>>
<1> PICK q \in breaches[s] :
      \E failed \in SUBSET ({q} \cap Tracked(head)) : Step(q, failed)
  BY DEF RollBack
<1> PICK failed \in SUBSET ({q} \cap Tracked(head)) : Step(q, failed)
  OBVIOUS
<1> SUFFICES ASSUME NEW p \in Shared, NEW t \in Slot, stage = "slots"
             PROVE  StrayAt(p, t)'
  BY DEF StrayInv, RollBack, Shared
<1>1. p \in Path /\ (disk'[p] = disk[p] \/ disk'[p] = head[p])
  BY DEF Reverted, Shared
<1>2. StrayAt(p, t) /\ UNCHANGED <<authors, head>>
  BY DEF StrayInv, RollBack
<1>3. CASE t # s
  BY <1>1, <1>2, <1>3 DEF StrayAt, Typed
<1>4. CASE t = s
  <2>1. /\ at[s] = "rollback"
        /\ \/ at'[s] = "broken" /\ breaches[s] = {q}
           \/ at'[s] = "rollback" /\ before' = before
    BY DEF RollBack, Typed
  <2>2. ASSUME authors[p] = {<<"hypothesis", s>>}, p = q,
               p \notin failed \cup {Journal}
        PROVE  disk'[p] = head[p]
    <3>1. before[s][p] = None
      BY <1>2, <1>4, <2>1, <2>2 DEF StrayAt, Early
    <3> QED  BY <1>1, <2>2, <3>1 DEF Reverted
  <2>3. /\ breaches'[s] = breaches[s] \ {q}
        /\ stuck'[s] = stuck[s] \cup failed
    BY DEF Typed
  <2> QED  BY <1>1, <1>2, <1>4, <2>1, <2>2, <2>3 DEF StrayAt, Early
<1> QED  BY <1>3, <1>4

LEMMA WriteKeepsStray ==
  ASSUME Typed, StrayInv, NEW s \in Slot, NEW q \in Path,
         AgentWrites(s, q) \/ AgentUndoes(s, q)
  PROVE  StrayInv'
<1>1. /\ UNCHANGED <<at, before, breaches, stuck, head, stage, mine>>
      /\ \E c : disk' = [disk EXCEPT ![q] = c]
      /\ authors' = [authors EXCEPT ![q] = @ \cup {<<at[s], s>>}]
      /\ at[s] \in Running
  BY DEF AgentWrites, AgentUndoes, Edit, slotVars, coordVars
<1> SUFFICES ASSUME NEW p \in Shared, NEW t \in Slot, stage = "slots"
             PROVE  StrayAt(p, t)'
  BY <1>1 DEF StrayInv, Shared
<1>2. StrayAt(p, t)
  BY DEF StrayInv
<1>3. CASE p # q
  BY <1>1, <1>2, <1>3 DEF StrayAt, Typed
<1>4. CASE p = q
  <2>1. authors'[p] = authors[p] \cup {<<at[s], s>>}
    BY <1>1, <1>4 DEF Typed
  <2>2. ASSUME <<"hypothesis", t>> \in {<<at[s], s>>}
        PROVE  at[t] = "hypothesis"
    BY <2>2
  <2> QED  BY <1>1, <1>2, <2>1, <2>2 DEF StrayAt, Running
<1> QED  BY <1>3, <1>4

LEMMA NextStrayInv == Typed /\ StrayInv /\ [Next]_vars => StrayInv'
<1> SUFFICES ASSUME Typed, StrayInv, [Next]_vars PROVE StrayInv'
  OBVIOUS
<1> USE DEF checkout, slotVars, coordVars
<1>1. ASSUME NEW s \in Slot, SlotStep(s) PROVE StrayInv'
  <2>1. CASE StartHypothesis(s)
    BY <2>1, StartKeepsStray
  <2>2. CASE AgentRaises(s) \/ AgentReturns(s)
    BY <2>2, StrayKept DEF AgentRaises, AgentReturns, Typed
  <2>3. CASE CheckAgent(s)
    BY <2>3, CheckKeepsStray
  <2>4. CASE RollBack(s)
    BY <2>4, RollBackKeepsStray
  <2>5. CASE Resolve(s)
    <3>1. \E a \in {"snapshot", "broken"} : at' = [at EXCEPT ![s] = a]
      BY <2>5 DEF Resolve
    <3> QED  BY <2>5, <3>1, StrayKept DEF Resolve, Typed, Early
  <2>6. CASE TakeSnapshot(s) \/ ImplementReturns(s) \/ Inspect(s) \/ Purge(s)
             \/ LateCheck(s)
    BY <2>6, StrayKept DEF TakeSnapshot, ImplementReturns, Inspect, Purge,
                           LateCheck, Typed, Early
  <2>7. CASE Gate(s)
    <3>1. \E a \in {"gates", "late", "broken"} : at' = [at EXCEPT ![s] = a]
      BY <2>7 DEF Gate
    <3> QED  BY <2>7, <3>1, StrayKept DEF Gate, Typed, Early
  <2>8. CASE \/ AgentRetried(s) \/ PlantOutput(s)
             \/ \E t \in Slot : TouchTree(s, t)
    BY <2>8, StrayKept DEF AgentRetried, PlantOutput, TouchTree
  <2>9. ASSUME NEW q \in Path, AgentWrites(s, q) \/ AgentUndoes(s, q)
        PROVE  StrayInv'
    BY <2>9, WriteKeepsStray
  <2> QED  BY <1>1, <2>1, <2>2, <2>3, <2>4, <2>5, <2>6, <2>7, <2>8, <2>9
           DEF SlotStep
<1>2. CASE CoordinatorStep
  BY <1>2 DEF CoordinatorStep, JoinSlots, StartScribe, ScribeAppends,
              ScribeRewrites, ScribeDeletes, ScribeRaises, ScribeBreached,
              ScribeRewrote, ScribeReturns, CommitEntry, ScribeStrays, StrayInv
<1>3. CASE UNCHANGED vars
  BY <1>3 DEF vars, StrayInv, StrayAt, Shared
<1> QED  BY <1>1, <1>2, <1>3 DEF Next

(* run_hypothesis_agent takes back what its agent alone did to a clean     *)
(* path, or breaks the slot, whichever checks and rollbacks of other slots *)
(* run in between and whichever of git's commands fail.                    *)
THEOREM AgentsStrayIsUndone == Spec => []StrayIsUndone
<1>1. StrayInv => StrayIsUndone
  BY DEF StrayInv, StrayAt, StrayIsUndone, Shared
<1> QED  BY <1>1, InitStrayInv, NextStrayInv, AlwaysTyped, PTL DEF Spec

-----------------------------------------------------------------------------
(* Hypothesis files.                                                       *)

OwnFile == [id : {Id(s) : s \in Slot}, suffixed : BOOLEAN,
            flaws : SUBSET {"brace", "long", "junk"}]

(* While slots run, every hypothesis file bears the id of one of them. *)
FileInv ==
  /\ stage = "slots" => files \in Seq(OwnFile)
  /\ DOMAIN resolved = Slot
  /\ NeverASiblingsFile

LEMMA SlotIds ==
  ASSUME NEW s \in Slot, NEW t \in Slot, StartsWith(Id(t), Id(s))
  PROVE  t = s
  BY AgentAssumption DEF StartsWith, Id

LEMMA ResolveKeepsFiles ==
  ASSUME Typed, FileInv, NEW s \in Slot, Resolve(s)
  PROVE  FileInv'
<1> USE DEF coordVars
<1>1. stage = "slots" /\ files \in Seq(OwnFile)
  BY DEF Resolve, Typed, Ended, FileInv
<1>2. CASE UNCHANGED <<files, resolved>>
  BY <1>2 DEF Resolve, FileInv, NeverASiblingsFile
<1>3. ASSUME NEW i \in Candidates(s),
             files' = [files EXCEPT ![i] = Normalized(@)],
             resolved' = [resolved EXCEPT ![s] = files[i].id]
      PROVE  FileInv'
  <2>1. i \in DOMAIN files /\ files[i] \in OwnFile
    BY <1>1 DEF Candidates, Exact
  <2>2. files[i].id = Id(s)
    <3>1. PICK t \in Slot : files[i].id = Id(t)
      BY <2>1 DEF OwnFile
    <3>2. i \in Exact(s) \/ StartsWith(Id(t), Id(s))
      BY <3>1 DEF Candidates
    <3> QED  BY <3>1, <3>2, SlotIds DEF Exact
  <2>3. Normalized(files[i]) \in OwnFile
    BY <2>1 DEF Normalized, OwnFile
  <2>4. files' \in Seq(OwnFile)
    BY <1>1, <1>3, <2>1, <2>3
  <2> QED  BY <1>3, <2>2, <2>4 DEF FileInv, NeverASiblingsFile
<1> QED  BY <1>2, <1>3 DEF Resolve

LEMMA NextFileInv == Typed /\ FileInv /\ [Next]_vars => FileInv'
<1> SUFFICES ASSUME Typed, FileInv, [Next]_vars PROVE FileInv'
  OBVIOUS
<1> USE DEF checkout, slotVars, coordVars
<1>1. ASSUME NEW s \in Slot, AgentReturns(s) PROVE FileInv'
  <2>1. ASSUME NEW x \in BOOLEAN, NEW flaws \in Flaws
        PROVE  File(Id(s), x, flaws) \in OwnFile
    BY AgentAssumption DEF File, OwnFile
  <2>2. stage = "slots" => files' \in Seq(OwnFile)
    BY <1>1, <2>1 DEF AgentReturns, FileInv
  <2> QED  BY <1>1, <2>2 DEF AgentReturns, FileInv, NeverASiblingsFile
<1>2. CASE /\ UNCHANGED resolved
           /\ stage' = "slots" => stage = "slots" /\ UNCHANGED files
  BY <1>2 DEF FileInv, NeverASiblingsFile
<1>3. ASSUME NEW s \in Slot, SlotStep(s), ~Resolve(s), ~AgentReturns(s)
      PROVE  UNCHANGED <<files, resolved, stage>>
  BY <1>3 DEF SlotStep, StartHypothesis, AgentRetried, AgentRaises,
              CheckAgent, RollBack, TakeSnapshot, PlantOutput,
              ImplementReturns, Inspect, Purge, Gate, LateCheck, AgentWrites,
              AgentUndoes, TouchTree
<1>4. CASE CoordinatorStep
  <2>1. UNCHANGED resolved /\ stage' # "slots"
    BY <1>4 DEF CoordinatorStep, JoinSlots, StartScribe, ScribeAppends,
                ScribeRewrites, ScribeDeletes, ScribeRaises, ScribeBreached,
                ScribeRewrote, ScribeReturns, CommitEntry, ScribeStrays
  <2> QED  BY <1>2, <2>1
<1>5. CASE UNCHANGED vars
  BY <1>2, <1>5 DEF vars
<1> QED  BY <1>1, <1>2, <1>3, <1>4, <1>5, ResolveKeepsFiles DEF Next

(* Whatever files the agents write and whichever of them the resolver      *)
(* finds by its prefix: no slot takes a sibling's hypothesis for its own.  *)
THEOREM AgentsNeverASiblingsFile == Spec => []NeverASiblingsFile
<1>1. Init => FileInv
  BY DEF Init, FileInv, NeverASiblingsFile
<1>2. FileInv => NeverASiblingsFile
  BY DEF FileInv
<1> QED  BY <1>1, <1>2, NextFileInv, AlwaysTyped, PTL DEF Spec

-----------------------------------------------------------------------------
(* The journal and the lessons.                                            *)

(* What may be committed without a mark of the scribe's failure. *)
LessonInv ==
  stage = "commit" /\ ~skipped => AppendedText(disk[Lessons])

LEMMA NextLessonInv == Typed /\ LessonInv /\ [Next]_vars => LessonInv'
<1> SUFFICES ASSUME Typed, LessonInv, [Next]_vars PROVE LessonInv'
  OBVIOUS
<1> USE DEF checkout, slotVars, coordVars
<1>1. ASSUME NEW s \in Slot, SlotStep(s) PROVE LessonInv'
  <2>1. stage = "slots" /\ stage' = "slots"
    BY <1>1
    DEF SlotStep, StartHypothesis, AgentRetried, AgentRaises, AgentReturns,
        CheckAgent, RollBack, Resolve, TakeSnapshot, PlantOutput,
        ImplementReturns, Inspect, Purge, Gate, LateCheck, AgentWrites,
        AgentUndoes, TouchTree, Typed, Ended, Running
  <2> QED  BY <2>1 DEF LessonInv
<1>2. CASE CoordinatorStep
  <2>1. CASE ScribeReturns
    BY <2>1 DEF ScribeReturns, LessonInv, AppendedText
  <2>2. CASE ~ScribeReturns
    <3>1. stage' # "commit" \/ skipped'
      BY <1>2, <2>2 DEF CoordinatorStep, JoinSlots, StartScribe,
         ScribeAppends, ScribeRewrites, ScribeDeletes, ScribeRaises,
         ScribeBreached, ScribeRewrote, CommitEntry, ScribeStrays
    <3> QED  BY <3>1 DEF LessonInv
  <2> QED  BY <2>1, <2>2
<1>3. CASE UNCHANGED vars
  BY <1>3 DEF vars, LessonInv, AppendedText
<1> QED  BY <1>1, <1>2, <1>3 DEF Next

LEMMA PrefixOfPrefix ==
  ASSUME NEW a \in Content, NEW b \in Content, NEW c \in Content,
         IsPrefix(a, b), IsPrefix(b, c)
  PROVE  IsPrefix(a, c)
<1> USE DEF Content, IsPrefix
<1>1. Len(a) <= Len(b) /\ Len(b) <= Len(c)
  OBVIOUS
<1>2. \A i \in 1..Len(a) : a[i] = b[i]
  <2>1. \A i \in 1..Len(a) : SubSeq(a, 1, Len(a))[i] = a[i]
                             /\ SubSeq(b, 1, Len(a))[i] = b[i]
    OBVIOUS
  <2> QED  BY <2>1
<1>3. \A i \in 1..Len(b) : b[i] = c[i]
  <2>1. \A i \in 1..Len(b) : SubSeq(b, 1, Len(b))[i] = b[i]
                             /\ SubSeq(c, 1, Len(b))[i] = c[i]
    OBVIOUS
  <2> QED  BY <2>1
<1>4. SubSeq(a, 1, Len(a)) = SubSeq(c, 1, Len(a))
  BY <1>1, <1>2, <1>3
<1> QED  BY <1>1, <1>4

(* A commit of append_log takes lines out of LESSONS.md only where the     *)
(* entry says so or the scribe had already found them gone.                *)
THEOREM AgentsLessonsGrow == Spec => LessonsGrow
<1>1. Init => LessonInv
  BY DEF Init, LessonInv
<1>2. Typed /\ LessonInv /\ [Next]_vars =>
        [head'[Lessons] # head[Lessons] =>
           \/ IsPrefix(head[Lessons], head'[Lessons])
           \/ skipped
           \/ ~IsPrefix(head[Lessons], text)]_vars
  <2> SUFFICES ASSUME Typed, LessonInv, Next, head'[Lessons] # head[Lessons],
                      ~skipped, IsPrefix(head[Lessons], text)
               PROVE  IsPrefix(head[Lessons], head'[Lessons])
    OBVIOUS
  <2> USE DEF checkout, slotVars, coordVars
  <2>1. CommitEntry
    BY DEF Next, SlotStep, CoordinatorStep, JoinSlots, StartScribe,
           ScribeAppends, ScribeRewrites, ScribeDeletes, ScribeRaises,
           ScribeBreached, ScribeRewrote, ScribeReturns, ScribeStrays, Edit,
           StartHypothesis, AgentRetried, AgentRaises, AgentReturns,
           CheckAgent, RollBack, Resolve, TakeSnapshot, PlantOutput,
           ImplementReturns, Inspect, Purge, Gate, LateCheck, AgentWrites,
           AgentUndoes, TouchTree
  <2>2. head'[Lessons] = disk[Lessons] /\ disk[Lessons] # NoFile
    BY <2>1, AgentAssumption DEF CommitEntry, Typed
  <2>3. IsPrefix(text, disk[Lessons])
    BY <2>1, <2>2 DEF CommitEntry, LessonInv, AppendedText
  <2>4. /\ head[Lessons] \in Content /\ text \in Content
        /\ disk[Lessons] \in Content
    BY <2>1, AgentAssumption DEF CommitEntry, Typed
  <2> QED  BY <2>2, <2>3, <2>4, PrefixOfPrefix
<1> QED  BY <1>1, <1>2, NextLessonInv, AlwaysTyped, PTL DEF Spec, LessonsGrow

(* No check and no rollback of any slot touches log.jsonl. *)
THEOREM AgentsJournalIsNotRolledBack == Spec => JournalIsNotRolledBack
<1>1. Typed /\ [Next]_vars =>
        [stage = "slots" /\ stage' = "slots" /\ disk'[Journal] # disk[Journal]
           => edits' # edits]_vars
  <2> SUFFICES ASSUME Typed, Next, stage = "slots", stage' = "slots",
                      UNCHANGED edits
               PROVE  disk'[Journal] = disk[Journal]
    OBVIOUS
  <2> USE DEF checkout, slotVars, coordVars
  <2>1. ~CoordinatorStep
    BY DEF CoordinatorStep, JoinSlots, StartScribe,
           ScribeAppends, ScribeRewrites, ScribeDeletes, ScribeRaises,
           ScribeBreached, ScribeRewrote, ScribeReturns, CommitEntry,
           ScribeStrays
  <2>2. ASSUME NEW s \in Slot, RollBack(s)
        PROVE  disk'[Journal] = disk[Journal]
    BY <2>2, AgentAssumption DEF RollBack, Reverted
  <2>3. ASSUME NEW s \in Slot, SlotStep(s), ~RollBack(s)
        PROVE  UNCHANGED disk \/ edits' = edits + 1
    BY <2>3
    DEF SlotStep, StartHypothesis, AgentRetried, AgentRaises, AgentReturns,
        CheckAgent, Resolve, TakeSnapshot, PlantOutput, ImplementReturns,
        Inspect, Purge, Gate, LateCheck, AgentWrites, AgentUndoes, Edit,
        CountMisdeed, TouchTree
  <2> QED  BY <2>1, <2>2, <2>3 DEF Next, Typed
<1> QED  BY <1>1, AlwaysTyped, PTL DEF Spec, JournalIsNotRolledBack

-----------------------------------------------------------------------------
(* The whole type invariant.                                               *)

HypothesisFile ==
  [id : IdSet, suffixed : BOOLEAN, flaws : SUBSET {"brace", "long", "junk"}]

(* There is an entry to journal as long as the coordinator is at one, so   *)
(* that a scribe always writes for some slot.                              *)
Coordinating == stage \in {"entry", "scribe", "commit"}
TypeInv ==
  /\ TypeOK
  /\ stage = "slots" => left = Slot
  /\ Coordinating => left # {}

LEMMA LeastExists ==
  ASSUME NEW T \in SUBSET Nat, T # {}
  PROVE  \E m \in T : \A k \in T : m <= k
<1> DEFINE R == {p \in Nat \X Nat : p[1] < p[2]}
<1>1. IsWellFoundedOn(R, Nat)
  BY NatLessThanWellFounded DEF OpToRel
<1> HIDE DEF R
<1>2. PICK m \in T : \A k \in T : ~ (<<k, m>> \in R)
  BY <1>1, WFMin
<1>3. ASSUME NEW k \in T PROVE m <= k
  <2>1. m \in Nat /\ k \in Nat
    OBVIOUS
  <2>2. ~ (k < m)
    BY <1>2, <2>1 DEF R
  <2> QED  BY <2>1, <2>2
<1> QED  BY <1>3

LEMMA EntryIsLeft ==
  ASSUME left \subseteq Slot, left # {}
  PROVE  Entry \in left
<1>1. left \in SUBSET Nat
  BY AgentAssumption
<1>2. \E s \in left : \A t \in left : s <= t
  BY <1>1, LeastExists
<1> QED  BY <1>2 DEF Entry

LEMMA IdType ==
  ASSUME NEW s \in Slot
  PROVE  Id(s) \in IdSet
  BY AgentAssumption DEF Id, IdSet

LEMMA RemoveAtType ==
  ASSUME NEW S, NEW q \in Seq(S), NEW i \in DOMAIN q
  PROVE  RemoveAt(q, i) \in Seq(S)
<1>1. i \in 1..Len(q) /\ Len(q) \in Nat
  OBVIOUS
<1>2. SubSeq(q, 1, i - 1) \in Seq(S)
  <2>1. \A k \in 1..(i - 1) : q[k] \in S
    BY <1>1
  <2> QED  BY <1>1, <2>1
<1>3. SubSeq(q, i + 1, Len(q)) \in Seq(S)
  <2>1. \A k \in (i + 1)..Len(q) : q[k] \in S
    BY <1>1
  <2> QED  BY <1>1, <2>1
<1> QED  BY <1>2, <1>3 DEF RemoveAt

(* Where the slots and the coordinator are, and the checkout. *)
LEMMA NextPlaceType ==
  ASSUME Typed, TypeInv, [Next]_vars
  PROVE  /\ disk' \in [Path -> Content] /\ head' \in [Path -> Content]
         /\ at' \in [Slot -> Places] /\ before' \in [Slot -> Dirty \cup {None}]
         /\ breaches' \in [Slot -> SUBSET Path]
         /\ stuck' \in [Slot -> SUBSET Path]
         /\ left' \subseteq Slot
         /\ stage' \in {"slots", "entry", "scribe", "commit", "over"}
         /\ text' \in Content \cup {None} /\ dirt' \in Dirty \cup {None}
  BY NextTyped DEF Typed

(* What a slot's own steps do to the rest. *)
LEMMA SlotTypeInv ==
  ASSUME Typed, TypeInv, NEW s \in Slot, SlotStep(s)
  PROVE  /\ files' \in Seq(HypothesisFile)
         /\ tries' \in [Slot -> 0..2]
         /\ resolved' \in [Slot -> IdSet \cup {None}]
         /\ snap' \in [Slot -> [Contract -> Content] \cup {None}]
         /\ off' \in [Slot -> BOOLEAN] /\ planted' \in [Slot -> BOOLEAN]
         /\ stale' \in [Slot -> SUBSET Contract]
         /\ edits' \in 0..MaxEdits
         /\ authors' \in [Path -> SUBSET Call]
         /\ usedPlant' \subseteq Slot
         /\ UNCHANGED <<stage, left, skipped, mine>>
<1> USE DEF checkout, slotVars, coordVars
<1>1. /\ files \in Seq(HypothesisFile) /\ tries \in [Slot -> 0..2]
      /\ resolved \in [Slot -> IdSet \cup {None}]
      /\ snap \in [Slot -> [Contract -> Content] \cup {None}]
      /\ off \in [Slot -> BOOLEAN] /\ planted \in [Slot -> BOOLEAN]
      /\ stale \in [Slot -> SUBSET Contract]
      /\ edits \in 0..MaxEdits /\ authors \in [Path -> SUBSET Call]
      /\ usedPlant \subseteq Slot
  BY DEF TypeInv, TypeOK, HypothesisFile
<1>2. ASSUME \/ StartHypothesis(s) \/ AgentRetried(s) \/ AgentRaises(s)
             \/ CheckAgent(s) \/ ImplementReturns(s)
             \/ Inspect(s) \/ Purge(s) \/ LateCheck(s)
      PROVE  /\ UNCHANGED <<files, resolved, snap, off, stale, edits, authors,
                            usedPlant, stage, left, skipped, mine>>
             /\ tries' \in [Slot -> 0..2] /\ planted' \in [Slot -> BOOLEAN]
  <2>1. /\ UNCHANGED <<files, resolved, snap, off, stale, edits, authors,
                       usedPlant, stage, left, skipped, mine>>
        /\ \/ UNCHANGED tries
           \/ \E n \in 0..2 : tries' = [tries EXCEPT ![s] = n]
        /\ UNCHANGED planted \/ planted' = [planted EXCEPT ![s] = FALSE]
    BY <1>2 DEF StartHypothesis, AgentRetried, AgentRaises, CheckAgent,
                ImplementReturns, Inspect, Purge, LateCheck
  <2> QED  BY <1>1, <2>1
<1>3. CASE AgentReturns(s)
  <2>1. ASSUME NEW x \in BOOLEAN, NEW flaws \in Flaws
        PROVE  File(Id(s), x, flaws) \in HypothesisFile
    BY IdType, AgentAssumption DEF File, HypothesisFile
  <2>2. files' \in Seq(HypothesisFile)
    <3>1. \/ UNCHANGED files
          \/ \E f \in HypothesisFile : files' = Append(files, f)
      BY <1>3, <2>1 DEF AgentReturns
    <3> QED  BY <1>1, <3>1
  <2> QED  BY <1>1, <1>3, <2>2 DEF AgentReturns
<1>4. CASE Resolve(s)
  <2>1. ASSUME NEW i \in DOMAIN files
        PROVE  /\ Normalized(files[i]) \in HypothesisFile
               /\ files[i].id \in IdSet
    <3>1. files[i] \in HypothesisFile
      BY <1>1
    <3> QED  BY <3>1 DEF Normalized, HypothesisFile
  <2>2. Candidates(s) \subseteq DOMAIN files
    BY DEF Candidates, Exact
  <2>3. \/ UNCHANGED <<files, resolved>>
        \/ \E i \in DOMAIN files :
             /\ files' = [files EXCEPT ![i] = Normalized(files[i])]
             /\ resolved' = [resolved EXCEPT ![s] = files[i].id]
    BY <1>4, <2>2 DEF Resolve
  <2>4. files' \in Seq(HypothesisFile)
    BY <1>1, <2>1, <2>3
  <2>5. resolved' \in [Slot -> IdSet \cup {None}]
    BY <1>1, <2>1, <2>3
  <2> QED  BY <1>1, <1>4, <2>4, <2>5 DEF Resolve
<1>5. CASE TakeSnapshot(s)
  <2>1. Snapshot(disk) \in [Contract -> Content]
    BY SandboxAssumption DEF Snapshot, Typed
  <2> QED  BY <1>1, <1>5, <2>1 DEF TakeSnapshot
<1>6. CASE PlantOutput(s)
  BY <1>1, <1>6, AgentAssumption DEF PlantOutput, CountMisdeed
<1>7. ASSUME NEW t \in Slot, TouchTree(s, t)
      PROVE  /\ off' \in [Slot -> BOOLEAN] /\ edits' \in 0..MaxEdits
             /\ UNCHANGED <<files, tries, resolved, snap, planted, stale,
                            authors, usedPlant, stage, left, skipped,
                            mine>>
  BY <1>1, <1>7, AgentAssumption DEF TouchTree, CountMisdeed
<1>8. CASE Gate(s)
  <2>1. SnapshotChanges(snap[s], Snapshot(disk)) \subseteq Contract
    BY DEF SnapshotChanges
  <2> QED  BY <1>1, <1>8, <2>1 DEF Gate
<1>9. CASE RollBack(s)
  <2>1. stale' \in [Slot -> SUBSET Contract]
    BY <1>1, <1>9 DEF RollBack, PutBack
  <2> QED  BY <1>1, <1>9, <2>1 DEF RollBack
<1>10. ASSUME NEW p \in Path, AgentWrites(s, p) \/ AgentUndoes(s, p)
       PROVE  /\ authors' \in [Path -> SUBSET Call] /\ edits' \in 0..MaxEdits
              /\ stale' \in [Slot -> SUBSET Contract]
              /\ UNCHANGED <<files, tries, resolved, snap, off, planted,
                             usedPlant, stage, left, skipped, mine>>
  <2>1. <<at[s], s>> \in Call
    BY <1>10 DEF AgentWrites, AgentUndoes, Call, Running
  <2>2. stale' \in [Slot -> SUBSET Contract]
    BY <1>1, <1>10 DEF AgentWrites, AgentUndoes, PutBack
  <2>3. /\ authors' = [authors EXCEPT ![p] = @ \cup {<<at[s], s>>}]
        /\ edits < MaxEdits /\ edits' = edits + 1
        /\ UNCHANGED <<files, tries, resolved, snap, off, planted,
                       usedPlant, stage, left, skipped, mine>>
    BY <1>10 DEF AgentWrites, AgentUndoes, Edit, CountMisdeed
  <2>4. authors' \in [Path -> SUBSET Call]
    BY <1>1, <2>1, <2>3
  <2> QED  BY <1>1, <2>2, <2>3, <2>4, AgentAssumption
<1> QED  BY <1>1, <1>2, <1>3, <1>4, <1>5, <1>6, <1>7, <1>8, <1>9, <1>10
         DEF SlotStep

LEMMA CoordinatorTypeInv ==
  ASSUME Typed, TypeInv, CoordinatorStep
  PROVE  /\ files' \in Seq(HypothesisFile)
         /\ tries' \in [Slot -> 0..2]
         /\ resolved' = resolved
         /\ snap' \in [Slot -> [Contract -> Content] \cup {None}]
         /\ off' \in [Slot -> BOOLEAN] /\ planted' \in [Slot -> BOOLEAN]
         /\ stale' \in [Slot -> SUBSET Contract]
         /\ skipped' \in BOOLEAN /\ edits' \in 0..MaxEdits
         /\ authors' \in [Path -> SUBSET Call]
         /\ UNCHANGED <<usedPlant, mine>>
         /\ stage' # "slots" /\ (Coordinating' => left' # {})
<1> USE DEF checkout, slotVars, coordVars
<1>1. /\ files \in Seq(HypothesisFile) /\ tries \in [Slot -> 0..2]
      /\ snap \in [Slot -> [Contract -> Content] \cup {None}]
      /\ off \in [Slot -> BOOLEAN] /\ planted \in [Slot -> BOOLEAN]
      /\ stale \in [Slot -> SUBSET Contract]
      /\ skipped \in BOOLEAN
      /\ edits \in 0..MaxEdits /\ authors \in [Path -> SUBSET Call]
      /\ left \subseteq Slot
      /\ stage = "slots" => left = Slot
      /\ Coordinating => left # {}
  BY DEF TypeInv, TypeOK, HypothesisFile
<1>2. CASE JoinSlots
  BY <1>1, <1>2, AgentAssumption DEF JoinSlots, Coordinating
<1>3. CASE StartScribe \/ ScribeAppends \/ ScribeRaises \/ ScribeBreached
           \/ ScribeRewrote \/ ScribeReturns
  BY <1>1, <1>3 DEF StartScribe, ScribeAppends, ScribeRaises, ScribeBreached,
                    ScribeRewrote, ScribeReturns, Coordinating
<1>4. ASSUME NEW p \in Path, NEW content, stage = "scribe",
             Edit(<<"scribe", Entry>>, p, content)
      PROVE  authors' \in [Path -> SUBSET Call] /\ edits' \in 0..MaxEdits
  <2>1. Entry \in Slot
    <3>1. left # {} /\ left \subseteq Slot
      BY <1>1, <1>4 DEF Coordinating
    <3>2. Entry \in left
      BY <3>1, EntryIsLeft
    <3> QED  BY <3>1, <3>2
  <2> DEFINE call == <<"scribe", Entry>>
  <2>2. call \in Call
    BY <2>1 DEF Call
  <2>3. /\ authors' = [authors EXCEPT ![p] = authors[p] \cup {call}]
        /\ edits < MaxEdits /\ edits' = edits + 1
    BY <1>4 DEF Edit, CountMisdeed
  <2> HIDE DEF call
  <2>4. authors' \in [Path -> SUBSET Call]
    BY <1>1, <2>2, <2>3
  <2> QED  BY <1>1, <2>3, <2>4, AgentAssumption
<1>5. CASE ScribeRewrites
  BY <1>1, <1>4, <1>5, AgentAssumption DEF ScribeRewrites, Coordinating
<1>6. CASE ScribeDeletes
  BY <1>1, <1>4, <1>6, AgentAssumption DEF ScribeDeletes, Coordinating
<1>7. ASSUME NEW p \in Path, ScribeStrays(p)
      PROVE  /\ authors' \in [Path -> SUBSET Call] /\ edits' \in 0..MaxEdits
             /\ UNCHANGED <<files, slotVars, coordVars, usedPlant, mine>>
             /\ stage = "scribe"
  BY <1>4, <1>7 DEF ScribeStrays
<1>8. CASE CommitEntry
  <2>1. files' \in Seq(HypothesisFile)
    BY <1>1, <1>8, RemoveAtType DEF CommitEntry
  <2>2. stage' = (IF left' = {} THEN "over" ELSE "entry")
    BY <1>8 DEF CommitEntry
  <2> QED  BY <1>1, <1>8, <2>1, <2>2 DEF CommitEntry, Coordinating
<1> QED  BY <1>1, <1>2, <1>3, <1>5, <1>6, <1>7, <1>8
         DEF CoordinatorStep, Coordinating

LEMMA NextTypeInv == Typed /\ TypeInv /\ [Next]_vars => TypeInv'
<1> SUFFICES ASSUME Typed, TypeInv, [Next]_vars PROVE TypeInv'
  OBVIOUS
<1>1. Places = {"idle", "check", "rollback", "resolve"}
                 \cup Running \cup InTree \cup Ended
  BY DEF Places
<1>2. CASE UNCHANGED vars
  BY <1>2 DEF vars, checkout, slotVars, coordVars, TypeInv, TypeOK, Coordinating
<1>3. CASE CoordinatorStep
  BY <1>3, NextPlaceType, CoordinatorTypeInv
     DEF TypeInv, TypeOK, Dirty, Places, HypothesisFile
<1>4. ASSUME NEW s \in Slot, SlotStep(s) PROVE TypeInv'
  BY <1>4, NextPlaceType, SlotTypeInv
     DEF TypeInv, TypeOK, Dirty, Places, HypothesisFile, Coordinating
<1> QED  BY <1>2, <1>3, <1>4 DEF Next

(* Every variable has its type, for any slots, paths and misdeeds; the     *)
(* files of a round stay hypothesis files whoever normalises or deletes    *)
(* them (run_hypothesis_agent, append_log).                                *)
THEOREM AgentsTypeOK == Spec => []TypeOK
<1>1. Init => TypeInv
  <2> SUFFICES ASSUME Init PROVE TypeInv
    OBVIOUS
  <2>1. Typed
    BY InitTyped
  <2>2. mine \subseteq Owned
    BY DEF Init
  <2>3. files \in Seq(HypothesisFile)
    BY DEF Init
  <2>4. /\ tries \in [Slot -> 0..2] /\ resolved \in [Slot -> IdSet \cup {None}]
        /\ snap \in [Slot -> [Contract -> Content] \cup {None}]
        /\ off \in [Slot -> BOOLEAN] /\ planted \in [Slot -> BOOLEAN]
        /\ stale \in [Slot -> SUBSET Contract]
    <3>1. /\ tries = [x \in Slot |-> 0] /\ resolved = [x \in Slot |-> None]
          /\ snap = [x \in Slot |-> None] /\ off = [x \in Slot |-> FALSE]
          /\ planted = [x \in Slot |-> FALSE] /\ stale = [x \in Slot |-> {}]
      BY DEF Init
    <3> QED  BY <3>1
  <2>5. /\ skipped \in BOOLEAN /\ edits \in 0..MaxEdits
        /\ usedPlant \subseteq Slot
        /\ stage = "slots" /\ left = Slot
    <3>1. /\ skipped = FALSE /\ edits = 0 /\ usedPlant = {}
          /\ stage = "slots" /\ left = Slot
      BY DEF Init
    <3>2. MaxEdits \in Nat
      BY AgentAssumption
    <3>3. skipped \in BOOLEAN /\ usedPlant \subseteq Slot
      BY <3>1, Zenon
    <3> QED  BY <3>1, <3>2, <3>3
  <2>6. authors \in [Path -> SUBSET Call]
    <3>1. authors = [x \in Path |-> {}]
      BY DEF Init
    <3> QED  BY <3>1
  <2> QED  BY <2>1, <2>2, <2>3, <2>4, <2>5, <2>6
           DEF Typed, TypeInv, TypeOK, Coordinating, Places, Dirty,
               HypothesisFile
<1>2. TypeInv => TypeOK
  BY DEF TypeInv
<1> QED  BY <1>1, <1>2, AlwaysTyped, NextTypeInv, PTL DEF Spec

===============================================================================
