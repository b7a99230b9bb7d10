----------------------------- MODULE RouteNeeds -----------------------------
(***************************************************************************)
(* The function `needs' of src/routing/graph.rs: a depth-first traversal    *)
(* per actor, in name order, that reuses the closures published for the     *)
(* actors before it.                                                        *)
(*                                                                         *)
(* The traversal's stack is a set that is popped in any order: the order of *)
(* its entries and their repetitions are forgotten, so what is shown here   *)
(* holds for every order.                                                   *)
(***************************************************************************)
EXTENDS RouteGraph, FiniteSets

CONSTANT MaxConsumes  \* bound on the consume edges of a graph

ASSUME MaxConsumesAssumption == MaxConsumes \in Nat

VARIABLES
  emits, consumes,  \* the graph; never change
  src,              \* the actor whose needs are being computed
  phase,            \* "source" before the traversal of src, "pop" during it
  stack,            \* targets still to be popped
  expanded,         \* targets popped once already
  srcReachable,     \* the needs of src found so far
  reachable         \* the needs published for the actors before src

vars == <<emits, consumes, src, phase, stack, expanded, srcReachable, reachable>>

graph == <<emits, consumes>>

Init ==
  /\ emits \in Relation2
  /\ consumes \in Relation2
  /\ Cardinality({e \in Actor \X Actor : e[2] \in consumes[e[1]]}) <= MaxConsumes
  /\ src = 1
  /\ phase = "source"
  /\ stack = {} /\ expanded = {} /\ srcReachable = {}
  /\ reachable = [a \in {} |-> {}]

\* The needs of src start from its direct consumes, its traversal from its emits.
StartSource ==
  /\ phase = "source" /\ src \in Actor
  /\ srcReachable' = consumes[src]
  /\ stack' = emits[src]
  /\ expanded' = {}
  /\ phase' = "pop"
  /\ UNCHANGED <<graph, src, reachable>>

\* A target popped before is not expanded again.
PopExpanded(dst) ==
  /\ phase = "pop" /\ dst \in stack
  /\ dst \in expanded
  /\ srcReachable' = srcReachable \cup {dst}
  /\ stack' = stack \ {dst}
  /\ UNCHANGED <<graph, src, phase, expanded, reachable>>

\* An actor before src contributes its published closure at once.
PopResolved(dst) ==
  /\ phase = "pop" /\ dst \in stack
  /\ dst \notin expanded /\ dst < src
  /\ expanded' = expanded \cup {dst}
  /\ srcReachable' = srcReachable \cup {dst} \cup reachable[dst]
  /\ stack' = stack \ {dst}
  /\ UNCHANGED <<graph, src, phase, reachable>>

\* Mutants of PopUnresolved: the targets already known as needs are not
\* traversed, and an actor is not marked as expanded.
PopUnresolvedUnknown(dst) ==
  /\ phase = "pop" /\ dst \in stack
  /\ dst \notin expanded /\ dst >= src
  /\ expanded' = expanded \cup {dst}
  /\ srcReachable' = srcReachable \cup {dst} \cup consumes[dst]
  /\ stack' = (stack \ {dst}) \cup (emits[dst] \ srcReachable)
  /\ UNCHANGED <<graph, src, phase, reachable>>

PopUnresolvedUnmarked(dst) ==
  /\ phase = "pop" /\ dst \in stack
  /\ dst \notin expanded /\ dst >= src
  /\ srcReachable' = srcReachable \cup {dst} \cup consumes[dst]
  /\ stack' = (stack \ {dst}) \cup emits[dst]
  /\ UNCHANGED <<graph, src, phase, expanded, reachable>>

\* Any other actor contributes its consumes, and its emits are traversed.
PopUnresolved(dst) ==
  /\ phase = "pop" /\ dst \in stack
  /\ dst \notin expanded /\ dst >= src
  /\ expanded' = expanded \cup {dst}
  /\ srcReachable' = srcReachable \cup {dst} \cup consumes[dst]
  /\ stack' = (stack \ {dst}) \cup emits[dst]
  /\ UNCHANGED <<graph, src, phase, reachable>>

\* The emptied stack ends the traversal; the closure is published.
Publish ==
  /\ phase = "pop" /\ stack = {}
  /\ reachable' = [a \in 1..src |-> IF a = src THEN srcReachable ELSE reachable[a]]
  /\ src' = src + 1
  /\ phase' = "source"
  /\ UNCHANGED <<graph, stack, expanded, srcReachable>>

Done == phase = "source" /\ src > ActorCount

Next ==
  \/ StartSource
  \/ \E dst \in Actor : PopExpanded(dst) \/ PopResolved(dst) \/ PopUnresolved(dst)
  \/ Publish

\* The loop runs to its end: nothing but the program itself can stop it.
Spec == Init /\ [][Next]_vars /\ WF_vars(Next)

-----------------------------------------------------------------------------
TypeOK ==
  /\ emits \in Relation2 /\ consumes \in Relation2
  /\ src \in 1..(ActorCount + 1)
  /\ phase \in {"source", "pop"}
  /\ phase = "pop" => src \in Actor
  /\ stack \subseteq Actor /\ expanded \subseteq Actor /\ srcReachable \subseteq Actor
  /\ reachable \in [1..(src - 1) -> SUBSET Actor]

\* Every published set is exactly the needs of its actor: what its emit routes
\* reach, and what they consume.  In particular the shortcut through an earlier
\* actor's closure loses nothing and adds nothing, emit cycles through src
\* included, and an actor that is both consumed and emitted is still expanded.
NeedsCorrect ==
  \A a \in DOMAIN reachable : reachable[a] = NeedsOf(emits, consumes, a)

\* The traversal ends on every graph, cyclic ones included.
Terminates == <>Done

\* The inductive invariant: what is popped or stacked is reached, and what is
\* reached is popped, stacked, or reached from an earlier actor already popped.
StackReached == phase = "pop" => stack \cup expanded \subseteq Reach(emits, src)

ExpandedCovered ==
  phase = "pop" =>
    /\ emits[src] \subseteq stack \cup expanded
    /\ \A d \in expanded :
         IF d < src THEN reachable[d] \subseteq srcReachable
         ELSE emits[d] \subseteq stack \cup expanded /\ consumes[d] \subseteq srcReachable

SoFar ==
  phase = "pop" =>
    /\ consumes[src] \cup expanded \subseteq srcReachable
    /\ srcReachable \subseteq NeedsOf(emits, consumes, src)

IInv == TypeOK /\ NeedsCorrect /\ StackReached /\ ExpandedCovered /\ SoFar
=============================================================================
