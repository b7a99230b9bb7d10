----------------------------- MODULE CutJourney -----------------------------
(***************************************************************************)
(* A route carries an actor's cut to another actor's.  The transition plans *)
(* which branches to open and to pack; a script then opens them one by one, *)
(* parents first, and packs them one by one, children first.  Nodes the     *)
(* target does not select may stay behind: they are not copied.             *)
(*                                                                         *)
(* Where the transition refuses, every sequence of opens and packs is       *)
(* tried instead.                                                           *)
(***************************************************************************)
EXTENDS CutForest

CONSTANT Forests  \* the forests under study: each satisfies IsForest

VARIABLES
  forest,          \* never changes
  source, target,  \* the cuts of the source and of the target; never change
  phase,           \* "plan", "open", "pack", "derived" or "refused"
  toOpen, toPack,  \* the branches still to open, to pack
  cut              \* what is selected so far

vars == <<forest, source, target, phase, toOpen, toPack, cut>>

\* Reference meaning of a cut: no selected node lies above another.
Antichain(S) == \A p, q \in S : StartsWith(p, q) => p = q

ValidCuts(f) == {S \in SUBSET f.nodes : Antichain(S)}

Init ==
  /\ forest \in Forests
  /\ source \in ValidCuts(forest) /\ target \in ValidCuts(forest)
  /\ phase = "plan"
  /\ toOpen = {} /\ toPack = {}
  /\ cut = source

PlanTransition ==
  /\ phase = "plan" /\ HasTransition(forest, source, target)
  /\ LET t == Transition(forest, source, target)
     IN  toOpen' = t.open /\ toPack' = t.pack
  /\ phase' = "open"
  /\ UNCHANGED <<forest, source, target, cut>>

Refuse ==
  /\ phase = "plan" /\ ~HasTransition(forest, source, target)
  /\ phase' = "refused"
  /\ UNCHANGED <<forest, source, target, toOpen, toPack, cut>>

NextToOpen(b) == b \in toOpen /\ \A a \in toOpen : a = b \/ OpensBefore(b, a)
NextToPack(b) == b \in toPack /\ \A a \in toPack : a = b \/ PacksBefore(b, a)

OpenNext(b) ==
  /\ phase = "open" /\ NextToOpen(b)
  /\ Openable(forest, cut, b)
  /\ cut' = Opened(forest, cut, b)
  /\ toOpen' = toOpen \ {b}
  /\ UNCHANGED <<forest, source, target, phase, toPack>>

AllOpened ==
  /\ phase = "open" /\ toOpen = {}
  /\ phase' = "pack"
  /\ UNCHANGED <<forest, source, target, toOpen, toPack, cut>>

PackNext(b) ==
  /\ phase = "pack" /\ NextToPack(b)
  /\ Packable(forest, cut, b)
  /\ cut' = Packed(forest, cut, b)
  /\ toPack' = toPack \ {b}
  /\ UNCHANGED <<forest, source, target, phase, toOpen>>

AllPacked ==
  /\ phase = "pack" /\ toPack = {}
  /\ phase' = "derived"
  /\ UNCHANGED <<forest, source, target, toOpen, toPack, cut>>

\* Any open or pack, in any order, of a journey the transition refuses.
TryOpen(b) ==
  /\ phase = "refused" /\ Openable(forest, cut, b)
  /\ cut' = Opened(forest, cut, b)
  /\ UNCHANGED <<forest, source, target, phase, toOpen, toPack>>

TryPack(b) ==
  /\ phase = "refused" /\ Packable(forest, cut, b)
  /\ cut' = Packed(forest, cut, b)
  /\ UNCHANGED <<forest, source, target, phase, toOpen, toPack>>

Next ==
  \/ PlanTransition
  \/ Refuse
  \/ AllOpened
  \/ AllPacked
  \/ \E b \in forest.nodes : OpenNext(b) \/ PackNext(b) \/ TryOpen(b) \/ TryPack(b)

\* The program carries out what it plans: nothing else can stop it.
Spec == Init /\ [][Next]_vars /\ WF_vars(Next)

-----------------------------------------------------------------------------
\* Comparing each path with the one just before it, in the derived order, is
\* enough to find an ancestor among the selected (the comment in is_valid_cut).
AdjacentPathsSuffice ==
  phase = "plan" /\ source = {} /\ target = {} =>
    \A S \in SUBSET forest.nodes : IsValidCut(forest, S) <=> Antichain(S)

\* What is selected along the way is a cut again, and where a planned journey
\* ends everything the target selects has been obtained.  A refusal is right: no
\* sequence of opens and packs obtains the target's cut.
JourneyExact ==
  /\ Antichain(cut) /\ cut \subseteq forest.nodes
  /\ phase = "derived" => target \subseteq cut
  /\ phase = "refused" => ~(target \subseteq cut)

\* Every planned journey ends: the order of the operations never asks to open a
\* branch whose parent is still packed, nor to pack one whose children are; and
\* it is exact, in a forest in which comparing neighbours tells the cuts.
JourneyEndsExactly ==
  [](JourneyExact /\ AdjacentPathsSuffice) /\ <>(phase \in {"derived", "refused"})
=============================================================================
