------------------------------ MODULE AcceptRule ------------------------------
(***************************************************************************)
(* The two-phase accept rule (tools/accept_rule.py) and the round's winner *)
(* pick (tools/tournament.py, pick_winner), as pure operators.             *)
(*                                                                         *)
(* A design is what the FPGA gate measures of a core: its CoreMark fitness *)
(* and its LUT4 count.  A candidate always has both (run_fpga_eval fails   *)
(* closed when the LUT4 count is missing); the champion read back from an  *)
(* old log line may lack the LUT4 count.                                   *)
(***************************************************************************)
EXTENDS Integers, FiniteSets

CONSTANTS
  CoremarkTarget,   \* --coremark-target, or None
  LutTarget,        \* --lut-target, or None
  None              \* Python's None: a target or a LUT4 count that is not set

ASSUME TargetAssumption ==
  /\ None \notin Int /\ None \notin [perf : Nat, lut : Nat]
  /\ CoremarkTarget \in (Nat \ {0}) \cup {None}
  /\ LutTarget \in (Nat \ {0}) \cup {None}

Design    == [perf : Nat, lut : Nat \cup {None}]
Candidate == [perf : Nat, lut : Nat]

-----------------------------------------------------------------------------

(* `x or 0` on a value that may be None. *)
OrZero(x) == IF x = None THEN 0 ELSE x

(* The saturating deficit of one axis: 0 at or past the target, the        *)
(* (negative) distance to it below.  The code divides by the target; Score *)
(* multiplies by the other axis's target instead.                          *)
Deficit(value, target, lowerIsBetter) ==
  LET raw == IF lowerIsBetter THEN target - value ELSE value - target
  IN  IF raw < 0 THEN raw ELSE 0

(* The factor by which Score scales the other axis. *)
Weight(target) == IF target = None THEN 1 ELSE target

(* The code's score times Weight(CoremarkTarget) * Weight(LutTarget): an   *)
(* integer with the same sign and the same order as the code's fraction.   *)
Score(d) ==
  (IF CoremarkTarget # None
     THEN Deficit(d.perf, CoremarkTarget, FALSE) * Weight(LutTarget) ELSE 0)
  +
  (IF LutTarget # None /\ d.lut # None
     THEN Deficit(d.lut, LutTarget, TRUE) * Weight(CoremarkTarget) ELSE 0)

BothMet(d) ==
  /\ CoremarkTarget # None
  /\ LutTarget # None
  /\ d.lut # None
  /\ d.perf >= CoremarkTarget
  /\ d.lut <= LutTarget

(* Faulty variant: gaining on one axis is enough. *)
DominatesEither(old, new) == new.perf > old.perf \/ new.lut < old.lut

(* Strict dominance on (perf, lut); only asked of designs that both have a *)
(* LUT4 count.                                                             *)
StrictPareto(old, new) ==
  /\ new.perf >= old.perf /\ new.lut <= old.lut
  /\ new.perf > old.perf \/ new.lut < old.lut

(* Faulty variant: a tie on the score is accepted. *)
AcceptOnTie(old, new) ==
  IF CoremarkTarget = None /\ LutTarget = None
  THEN new.perf >= old.perf
  ELSE Score(new) >= Score(old)

(* accept(old, new): no target, phase 1, phase 2, or one target reached.   *)
Accept(old, new) ==
  IF CoremarkTarget = None /\ LutTarget = None
  THEN new.perf > old.perf
  ELSE \/ Score(new) > Score(old)
       \/ /\ Score(old) = 0 /\ Score(new) = 0
          /\ \/ BothMet(old) /\ BothMet(new) /\ StrictPareto(old, new)
             \/ LutTarget = None /\ new.perf > old.perf
             \/ CoremarkTarget = None /\ OrZero(new.lut) < OrZero(old.lut)

-----------------------------------------------------------------------------

(* The order of pick_winner's max(): fitness first, then fewer LUTs, then  *)
(* the lower slot.                                                         *)
Outranks(e, f) ==
  \/ e.design.perf > f.design.perf
  \/ /\ e.design.perf = f.design.perf
     /\ \/ e.design.lut < f.design.lut
        \/ e.design.lut = f.design.lut /\ e.slot < f.slot

(* Faulty variant: the accept rule is not asked. *)
Measured(entries, champ) == {e \in entries : e.design # None}

(* The entries of a round that passed every gate and that the rule accepts *)
(* over the champion the round started from.                               *)
Accepted(entries, champ) ==
  {e \in entries : e.design # None /\ Accept(champ, e.design)}

(* The candidates max() may return; at most one, since slots differ. *)
Best(entries, champ) ==
  LET candidates == Accepted(entries, champ)
  IN  {e \in candidates : \A f \in candidates \ {e} : Outranks(e, f)}

(* The winner of a round, or None.  `entries` is a set of records with a   *)
(* slot and a design; the design is None when a gate failed.               *)
PickWinner(entries, champ) ==
  IF Best(entries, champ) = {} THEN None
  ELSE CHOOSE e \in Best(entries, champ) : TRUE

===============================================================================
