----------------------------- MODULE LadderProofs -----------------------------
(***************************************************************************)
(* The accept rule is a strict partial order on designs, for every choice  *)
(* of targets; so a branch that follows it never returns to a design it    *)
(* left, and never leaves phase 2.                                         *)
(***************************************************************************)
EXTENDS Ladder, TLAPS

-----------------------------------------------------------------------------
(* Facts about the score.                                                  *)

LEMMA DeficitNonPositive ==
  ASSUME NEW v \in Int, NEW t \in Int, NEW low \in BOOLEAN
  PROVE  Deficit(v, t, low) \in Int /\ Deficit(v, t, low) <= 0
BY DEF Deficit

LEMMA WeightPositive ==
  ASSUME NEW t \in (Nat \ {0}) \cup {None}
  PROVE  Weight(t) \in Nat \ {0}
BY DEF Weight

LEMMA ProductNonPositive ==
  ASSUME NEW a \in Int, a <= 0, NEW w \in Nat \ {0}
  PROVE  a * w \in Int /\ a * w <= 0
OBVIOUS

(* The score of a design is an integer and never positive: 0 is the best   *)
(* a design can do (accept_rule.score).                                    *)
LEMMA ScoreNonPositive ==
  ASSUME NEW d \in Design
  PROVE  Score(d) \in Int /\ Score(d) <= 0
<1> DEFINE P == Deficit(d.perf, CoremarkTarget, FALSE) * Weight(LutTarget)
           L == Deficit(d.lut, LutTarget, TRUE) * Weight(CoremarkTarget)
<1>1. ASSUME CoremarkTarget # None
      PROVE  P \in Int /\ P <= 0
  <2>1. d.perf \in Int /\ CoremarkTarget \in Int
    BY <1>1, TargetAssumption DEF Design
  <2>2. /\ Deficit(d.perf, CoremarkTarget, FALSE) \in Int
        /\ Deficit(d.perf, CoremarkTarget, FALSE) <= 0
    BY <2>1, DeficitNonPositive
  <2>3. Weight(LutTarget) \in Nat \ {0}
    BY WeightPositive, TargetAssumption
  <2> QED  BY <2>2, <2>3, ProductNonPositive
<1>2. ASSUME LutTarget # None, d.lut # None
      PROVE  L \in Int /\ L <= 0
  <2>1. d.lut \in Int /\ LutTarget \in Int
    BY <1>2, TargetAssumption DEF Design
  <2>2. /\ Deficit(d.lut, LutTarget, TRUE) \in Int
        /\ Deficit(d.lut, LutTarget, TRUE) <= 0
    BY <2>1, DeficitNonPositive
  <2>3. Weight(CoremarkTarget) \in Nat \ {0}
    BY WeightPositive, TargetAssumption
  <2> QED  BY <2>2, <2>3, ProductNonPositive
<1> HIDE DEF P, L
<1>3. Score(d) = (IF CoremarkTarget # None THEN P ELSE 0)
                 + (IF LutTarget # None /\ d.lut # None THEN L ELSE 0)
  BY DEF Score, P, L
<1> QED  BY <1>1, <1>2, <1>3

(* A design that meets both targets has the best score there is.           *)
LEMMA BothMetScoresZero ==
  ASSUME NEW d \in Design, BothMet(d)
  PROVE  Score(d) = 0
<1>1. Deficit(d.perf, CoremarkTarget, FALSE) = 0
  BY TargetAssumption DEF Deficit, BothMet, Design
<1>2. Deficit(d.lut, LutTarget, TRUE) = 0
  BY TargetAssumption DEF Deficit, BothMet, Design
<1>3. 0 * Weight(LutTarget) = 0 /\ 0 * Weight(CoremarkTarget) = 0
  BY WeightPositive, TargetAssumption
<1>4. Deficit(d.perf, CoremarkTarget, FALSE) * Weight(LutTarget) = 0
  BY <1>1, <1>3
<1>5. Deficit(d.lut, LutTarget, TRUE) * Weight(CoremarkTarget) = 0
  BY <1>2, <1>3
<1>6. CoremarkTarget # None /\ LutTarget # None /\ d.lut # None
  BY DEF BothMet
<1>7. Score(d) = 0 + 0
  BY <1>4, <1>5, <1>6, Zenon DEF Score
<1> QED  BY <1>7

-----------------------------------------------------------------------------
(* The rule is irreflexive and transitive.                                 *)

(* No design is accepted over itself (accept: every comparison is strict). *)
LEMMA AcceptIrreflexive ==
  ASSUME NEW d \in Design
  PROVE  ~ Accept(d, d)
BY ScoreNonPositive, TargetAssumption
   DEF Accept, StrictPareto, BothMet, OrZero, Design

(* Two accepted steps in a row amount to one the rule would have accepted. *)
LEMMA AcceptTransitive ==
  ASSUME NEW a \in Design, NEW b \in Design, NEW c \in Design,
         Accept(a, b), Accept(b, c)
  PROVE  Accept(a, c)
<1>1. CASE CoremarkTarget = None /\ LutTarget = None
  BY <1>1 DEF Accept, Design
<1>2. CASE ~ (CoremarkTarget = None /\ LutTarget = None)
  <2>1. /\ Score(a) \in Int /\ Score(b) \in Int /\ Score(c) \in Int
        /\ Score(b) <= 0 /\ Score(c) <= 0
    BY ScoreNonPositive
  <2>2. CASE Score(b) > Score(a) \/ Score(c) > Score(b)
    BY <1>2, <2>1, <2>2 DEF Accept
  <2>3. CASE ~ (Score(b) > Score(a) \/ Score(c) > Score(b))
    <3>1. /\ Score(a) = 0 /\ Score(b) = 0 /\ Score(c) = 0
          /\ \/ BothMet(a) /\ BothMet(b) /\ StrictPareto(a, b)
             \/ LutTarget = None /\ b.perf > a.perf
             \/ CoremarkTarget = None /\ OrZero(b.lut) < OrZero(a.lut)
          /\ \/ BothMet(b) /\ BothMet(c) /\ StrictPareto(b, c)
             \/ LutTarget = None /\ c.perf > b.perf
             \/ CoremarkTarget = None /\ OrZero(c.lut) < OrZero(b.lut)
      BY <1>2, <2>3 DEF Accept
    <3>2. CASE LutTarget = None
      <4>1. c.perf > a.perf
        BY <1>2, <3>1, <3>2 DEF BothMet, Design
      <4> QED  BY <1>2, <3>1, <3>2, <4>1 DEF Accept
    <3>3. CASE CoremarkTarget = None
      <4>1. OrZero(c.lut) < OrZero(a.lut)
        BY <1>2, <3>1, <3>3, TargetAssumption DEF BothMet, Design, OrZero
      <4> QED  BY <1>2, <3>1, <3>3, <4>1 DEF Accept
    <3>4. CASE LutTarget # None /\ CoremarkTarget # None
      <4>1. StrictPareto(a, c)
        BY <3>1, <3>4, TargetAssumption DEF StrictPareto, BothMet, Design
      <4> QED  BY <1>2, <3>1, <3>4, <4>1 DEF Accept
    <3> QED  BY <3>2, <3>3, <3>4
  <2> QED  BY <2>2, <2>3
<1> QED  BY <1>1, <1>2

-----------------------------------------------------------------------------
(* The ladder.                                                             *)

LEMMA DesignsAreDesigns == InitialDesigns \cup Designs \subseteq Design
BY LadderAssumption DEF Design, Candidate

(* The champion and the former champions are designs the core has had.     *)
THEOREM LadderTypeOK == Spec => []TypeOK
<1>1. Init => TypeOK
  BY DEF Init, TypeOK
<1>2. TypeOK /\ [Next]_vars => TypeOK'
  BY DEF TypeOK, Next, Promote, vars
<1> QED  BY <1>1, <1>2, PTL DEF Spec

(* The champion is preferred to every design the branch ever left: the     *)
(* inductive form of "the rule has no cycle".                              *)
THEOREM LadderBeatsAllFormer == Spec => []BeatsAllFormer
<1>1. Init => BeatsAllFormer
  BY DEF Init, BeatsAllFormer
<1>2. TypeOK /\ BeatsAllFormer /\ [Next]_vars => BeatsAllFormer'
  <2> SUFFICES ASSUME TypeOK, BeatsAllFormer, [Next]_vars
               PROVE  BeatsAllFormer'
    OBVIOUS
  <2>1. ASSUME NEW d \in Designs, Promote(d)
        PROVE  BeatsAllFormer'
    <3>1. champ \in Design /\ d \in Design /\ former \subseteq Design
      BY DesignsAreDesigns DEF TypeOK
    <3>2. \A f \in former : Accept(f, d)
      BY <2>1, <3>1, AcceptTransitive DEF BeatsAllFormer, Promote
    <3> QED  BY <2>1, <3>2 DEF BeatsAllFormer, Promote
  <2>2. CASE UNCHANGED vars
    BY <2>2 DEF vars, BeatsAllFormer
  <2> QED  BY <2>1, <2>2 DEF Next
<1> QED  BY <1>1, <1>2, LadderTypeOK, PTL DEF Spec

(* A design the branch left never comes back.                              *)
THEOREM LadderNeverRevisits == Spec => []NeverRevisits
<1>1. TypeOK /\ BeatsAllFormer => NeverRevisits
  BY AcceptIrreflexive, DesignsAreDesigns
     DEF TypeOK, BeatsAllFormer, NeverRevisits
<1> QED  BY <1>1, LadderTypeOK, LadderBeatsAllFormer, PTL

(* Once both targets are met they stay met and neither axis gets worse.    *)
THEOREM LadderMetStaysMet == Spec => MetStaysMet
<1> DEFINE Kept == BothMet(champ) => /\ BothMet(champ')
                                     /\ champ'.perf >= champ.perf
                                     /\ champ'.lut <= champ.lut
<1>1. TypeOK /\ [Next]_vars => [Kept]_vars
  <2> SUFFICES ASSUME TypeOK, NEW d \in Designs, Promote(d), BothMet(champ)
               PROVE  BothMet(d) /\ d.perf >= champ.perf /\ d.lut <= champ.lut
    BY DEF Next, Promote
  <2>1. champ \in Design /\ d \in Design
    BY DesignsAreDesigns DEF TypeOK
  <2>2. Score(champ) = 0 /\ Score(d) \in Int /\ Score(d) <= 0
    BY <2>1, BothMetScoresZero, ScoreNonPositive
  <2>3. BothMet(d) /\ StrictPareto(champ, d)
    BY <2>2 DEF Promote, Accept, BothMet
  <2> QED  BY <2>3 DEF StrictPareto
<1> QED  BY <1>1, LadderTypeOK, PTL DEF Spec, MetStaysMet

===============================================================================
