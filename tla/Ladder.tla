-------------------------------- MODULE Ladder --------------------------------
(***************************************************************************)
(* What the tournament promises of a core's branch, with nothing of how it *)
(* is done: the design at the tip changes only to a design that the accept *)
(* rule prefers to it.                                                     *)
(***************************************************************************)
EXTENDS AcceptRule

CONSTANTS
  InitialDesigns,   \* what the branch may start from
  Designs           \* what a round may measure

ASSUME LadderAssumption ==
  /\ InitialDesigns \subseteq Design
  /\ Designs \subseteq Candidate

VARIABLES
  champ,    \* the design at the tip of the branch
  former    \* every design that was at the tip before it

vars == <<champ, former>>

Init ==
  /\ champ \in InitialDesigns
  /\ former = {}

Promote(d) ==
  /\ Accept(champ, d)
  /\ champ' = d
  /\ former' = former \cup {champ}

Next == \E d \in Designs : Promote(d)

Spec == Init /\ [][Next]_vars

-----------------------------------------------------------------------------

TypeOK ==
  /\ champ \in InitialDesigns \cup Designs
  /\ former \subseteq InitialDesigns \cup Designs

(* The rule has no cycle: a design that was replaced never comes back, in  *)
(* whatever order candidates are offered and whichever mode the targets    *)
(* select (accept_rule.accept).                                            *)
NeverRevisits == champ \notin former

(* The champion is preferred to every design that it, or a champion before *)
(* it, replaced: accepting step by step never loses ground over many steps.*)
BeatsAllFormer == \A d \in former : Accept(d, champ)

(* Phase 2 is never left: once both targets are met the champion keeps     *)
(* meeting them, and from then on neither axis ever gets worse.            *)
MetStaysMet ==
  [][BothMet(champ) => /\ BothMet(champ')
                       /\ champ'.perf >= champ.perf
                       /\ champ'.lut <= champ.lut]_vars

===============================================================================
