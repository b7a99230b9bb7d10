----------------------------- MODULE RouteGraph -----------------------------
(***************************************************************************)
(* The route graph of an app (src/routing/graph.rs) and what its needs and  *)
(* its components mean, stated without the algorithms that compute them.    *)
(*                                                                         *)
(* An actor is numbered by the position of its name in the order of names,  *)
(* which is the order the planner visits actors in.  A graph is two         *)
(* functions from actors to sets of actors: `emits' and `consumes'.         *)
(***************************************************************************)
EXTENDS Naturals

CONSTANT ActorCount  \* the number of actors of the app

ASSUME ActorCountAssumption == ActorCount \in Nat

Actor == 1..ActorCount

Relation2 == [Actor -> SUBSET Actor]

\* The actors reached from src along one emit edge or more.
EmitClosed(emits, S) == \A d \in S : emits[d] \subseteq S

Reach(emits, src) ==
  {d \in Actor : \A S \in SUBSET Actor :
     emits[src] \subseteq S /\ EmitClosed(emits, S) => d \in S}

\* The templates an actor needs: what its routes reach, and what it and they
\* consume.  A consumed actor contributes itself only.
NeedsOf(emits, consumes, src) ==
  Reach(emits, src) \cup consumes[src]
    \cup UNION {consumes[d] : d \in Reach(emits, src)}

=============================================================================
