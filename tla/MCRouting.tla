------------------------------ MODULE MCRouting ------------------------------
(***************************************************************************)
(* Two parts of the route planner in one run: the needs of every actor of a  *)
(* small graph, and the journeys between the cuts of a few forests.  The     *)
(* initial state chooses which; the variables of the other part stay as they *)
(* are.                                                                     *)
(***************************************************************************)
EXTENDS RouteNeeds, Sequences

VARIABLES
  study,                                        \* "needs" or "journey"
  forest, source, target, step, toOpen, toPack, cut  \* of a journey

journey == <<forest, source, target, step, toOpen, toPack, cut>>

\* Two branches within a branch, beside a leaf.
Nested ==
  [nodes    |-> {<<0>>, <<0, 0>>, <<0, 0, 0>>, <<0, 0, 1>>,
                 <<0, 1>>, <<0, 1, 0>>, <<0, 1, 1>>, <<1>>},
   branches |-> {<<0>>, <<0, 0>>, <<0, 1>>}]

\* Two families and a leaf, as the compiler's planner builds them.
Families ==
  [nodes    |-> {<<0>>, <<0, 0>>, <<0, 1>>, <<1>>, <<1, 0>>, <<1, 1>>, <<2>>},
   branches |-> {<<0>>, <<1>>}]

\* A chain of single children, and a branch without any.
Degenerate ==
  [nodes    |-> {<<0>>, <<0, 0>>, <<0, 0, 0>>, <<1>>, <<1, 0>>, <<1, 1>>},
   branches |-> {<<0>>, <<0, 0>>, <<1>>, <<1, 0>>}]

MCForests == {Nested, Families, Degenerate}

J == INSTANCE CutJourney WITH Forests <- MCForests, phase <- step

ASSUME JourneyForests == \A f \in MCForests : J!IsForest(f)

NoNeeds ==
  /\ emits = [a \in Actor |-> {}] /\ consumes = emits
  /\ src = ActorCount + 1 /\ phase = "source"
  /\ stack = {} /\ expanded = {} /\ srcReachable = {}
  /\ reachable = [a \in Actor |-> {}]
NoJourney ==
  /\ forest = Degenerate /\ source = {} /\ target = {} /\ step = "derived"
  /\ toOpen = {} /\ toPack = {} /\ cut = {}

RoutingInit ==
  \/ study = "needs" /\ Init /\ NoJourney
  \/ study = "journey" /\ J!Init /\ NoNeeds

RoutingNext ==
  \/ study = "needs" /\ Next /\ UNCHANGED <<study, journey>>
  \/ study = "journey" /\ J!Next /\ UNCHANGED <<study, vars>>

routingVars == <<study, vars, journey>>

\* The program carries out what it plans: nothing else can stop it.
RoutingSpec == RoutingInit /\ [][RoutingNext]_routingVars /\ WF_routingVars(RoutingNext)

-----------------------------------------------------------------------------
(* The properties of a journey.                                            *)

JourneyEndsExactly == J!JourneyEndsExactly
=============================================================================
