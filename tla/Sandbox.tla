-------------------------------- MODULE Sandbox -------------------------------
(***************************************************************************)
(* The integrity checks of tools/sandbox.py, as operators over one         *)
(* checkout: what is on disk and what HEAD holds, each a map from paths to *)
(* contents.  A path stands for a group of files the checks treat alike,   *)
(* NoFile is the content of a file that is not there, and a hash is the    *)
(* content itself.                                                         *)
(***************************************************************************)
CONSTANTS
  None,        \* no value
  NoFile,      \* the content of a path that does not exist
  Path,        \* the paths of the checkout
  Ignored,     \* those of them git ignores
  Contract     \* those that define the evaluation: CONTRACT_PATHS, the
               \* riscv-formal checkout, the EDA binaries

ASSUME SandboxAssumption ==
  Ignored \subseteq Path /\ Contract \subseteq Path

(* dirty_state: None is the absence of a key. *)
DirtyState(disk, head) ==
  [p \in Path |-> IF p \in Ignored \/ disk[p] = head[p] THEN None ELSE disk[p]]

(* changed_since. *)
ChangedSince(before, after, allowed) ==
  {p \in Path \ allowed : before[p] # after[p]}

(* Faulty variant: every breach is restored, whoever made it dirty. *)
RevertedToHead(disk, head, before, paths, failed) ==
  [p \in Path |-> IF p \in paths \ failed THEN head[p] ELSE disk[p]]

(* revert_paths: a tracked path goes back to HEAD, a new one is deleted,   *)
(* which is HEAD's NoFile; one that was dirty before is left alone.  The   *)
(* exit code of git checkout is not looked at: a path for which it failed  *)
(* stays as it is.                                                         *)
Reverted(disk, head, before, paths, failed) ==
  [p \in Path |-> IF p \in paths \ failed /\ before[p] = None THEN head[p]
                                                            ELSE disk[p]]

(* The paths for which git checkout may fail (the index is locked, say). *)
Tracked(head) == {p \in Path : head[p] # NoFile}

(* take_snapshot: what the evaluation depends on, ignored or not. *)
Snapshot(disk) == [p \in Contract |-> disk[p]]

(* snapshot_changes. *)
SnapshotChanges(before, after) == {p \in Contract : before[p] # after[p]}

===============================================================================
