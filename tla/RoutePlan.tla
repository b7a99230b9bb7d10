------------------------------ MODULE RoutePlan ------------------------------
(***************************************************************************)
(* The route planner (src/routing/plan.rs and commitment.rs), and what the  *)
(* compiler makes of its plan (compiler/model/routes.rs and layout.rs).     *)
(*                                                                         *)
(* Actors are classified, state domain by state domain, into weak           *)
(* components; a component becomes a cohort and perhaps a family; then each *)
(* actor is given a cut of the commitment forest that the families define.  *)
(* The needs of an actor are those RouteNeeds computes.                     *)
(***************************************************************************)
EXTENDS RouteGraph, CutForest

CONSTANTS
  RouteApps,      \* the apps under study: see ValidRouteApp
  CompilerOrder   \* the actors in the order the app declares them

Domain == 1..ActorCount  \* states, in the order of their names

\* What an app gives the planner: the static targets of the outputs and of the
\* inputs of an actor's entries, the state each actor owns, and the actor enums
\* used as selectors, whose variants own the state of the actor that selects.
ValidRouteApp(a) ==
  /\ a.outputs \in Relation2 /\ a.inputs \in Relation2
  /\ a.state \in [Actor -> Domain]
  /\ a.selectors \in Seq([source : Actor, variants : Seq(Actor)])
  /\ \A n \in DOMAIN a.selectors :
       \A v \in DOMAIN a.selectors[n].variants :
            a.state[a.selectors[n].variants[v]] = a.state[a.selectors[n].source]

ASSUME RoutePlanAssumption ==
  /\ \A a \in RouteApps : ValidRouteApp(a)
  /\ CompilerOrder \in Seq(Actor)
  /\ Len(CompilerOrder) = ActorCount
  /\ \A x \in Actor : \E n \in DOMAIN CompilerOrder : CompilerOrder[n] = x

VARIABLES
  app,          \* never changes
  phase,        \* "selectors", "components", "grow", "cuts", "done", "rejected"
  classified,   \* the actors assigned to a component
  members,      \* the component being discovered, and its queued actors
  queued,
  cohorts,      \* the cohorts and the families found so far
  families,
  plan,         \* the forest, the paths into it, and the needs of the actors
  cuts,         \* the cuts published so far, by actor
  transitions   \* the pairs of actors a transition is planned for

vars == <<app, phase, classified, members, queued, cohorts, families, plan, cuts, transitions>>

Items(s) == {s[n] : n \in DOMAIN s}

Least(S) == CHOOSE x \in S : \A y \in S : x <= y

-----------------------------------------------------------------------------
(* The graph: self-outputs add no emit edge, the self-input of the only     *)
(* actor of an app adds no consume edge.                                    *)

Emits == [a \in Actor |-> app.outputs[a] \ {a}]

Consumes == [a \in Actor |-> IF ActorCount = 1 THEN app.inputs[a] \ {a} ELSE app.inputs[a]]

DomainActors(d) == {a \in Actor : app.state[a] = d}

\* Mutant of Neighbors: follows the direction of the edges.
DirectedNeighbors(a) == (DomainActors(app.state[a]) \cap Emits[a]) \ {a}

\* The actors of a's domain that an emit edge joins to a, either way.
Neighbors(a) ==
  {b \in DomainActors(app.state[a]) \ {a} : b \in Emits[a] \/ a \in Emits[b]}

\* The members an emit edge enters from outside the domain.
GatesOf(component, d) ==
  {t \in component : \E s \in Actor \ DomainActors(d) : t \in Emits[s]}

\* The places of S in the compiler's order, and the actors found there.
PlacesOf(S) == {n \in DOMAIN CompilerOrder : CompilerOrder[n] \in S}

Nth(places, k) == CHOOSE p \in places : Cardinality({q \in places : q < p}) = k - 1

OrderedMembers(S) ==
  LET places == PlacesOf(S)
  IN  [k \in 1..Cardinality(places) |-> CompilerOrder[Nth(places, k)]]

-----------------------------------------------------------------------------
(* Selectors.                                                              *)

\* validate_selector_requirements: two variants or more, none repeated.
ValidSelector(s) == Len(s.variants) >= 2 /\ Cardinality(Items(s.variants)) = Len(s.variants)

SelectorsOf(component) ==
  {n \in DOMAIN app.selectors : app.selectors[n].source \in component}

Prefix(component) == app.selectors[Least(SelectorsOf(component))].variants

\* selector_prefix_for_component: the selectors of a component stay within it and
\* agree on one order.
SelectorsAgree(component) ==
  \A n \in SelectorsOf(component) :
    /\ Items(app.selectors[n].variants) \subseteq component
    /\ app.selectors[n].variants = Prefix(component)

Table(component, gates) ==
  IF SelectorsOf(component) = {} THEN OrderedMembers(component \ gates)
  ELSE Prefix(component) \o OrderedMembers(component \ (gates \cup Items(Prefix(component))))

\* Without a selector, a family needs three members and two table actors.
MakesFamily(component, gates) ==
  \/ SelectorsOf(component) # {}
  \/ Cardinality(component) >= 3 /\ Len(Table(component, gates)) >= 2

Family(component, d) ==
  LET gates == GatesOf(component, d)
  IN  [domain  |-> d,
       rep     |-> OrderedMembers(IF gates = {} THEN component ELSE gates)[1],
       members |-> component,
       gates   |-> gates,
       table   |-> Table(component, gates)]

-----------------------------------------------------------------------------
(* The forest: one root per family, in the place of its first member, and   *)
(* one per actor outside the families.                                      *)

FamiliesWith(a) == {f \in families : a \in Items(f.table)}

InFamily(a) == FamiliesWith(a) # {}

FamilyOf(a) == CHOOSE f \in families : a \in Items(f.table)

Heads == {a \in Actor : InFamily(a) => a = Least(Items(FamilyOf(a).table))}

RootPaths == [h \in Heads |-> <<Cardinality({x \in Heads : x < h})>>]

\* The place of a in the table of f, counted from 0.
ChildIndex(f, a) == (CHOOSE n \in DOMAIN f.table : f.table[n] = a) - 1

FamilyPaths == [f \in families |-> RootPaths[Least(Items(f.table))]]

\* build_commitment_forest.
ActorPaths ==
  [a \in Actor |-> IF InFamily(a) THEN FamilyPaths[FamilyOf(a)] \o <<ChildIndex(FamilyOf(a), a)>>
                   ELSE RootPaths[a]]

ForestOf(actorPaths, familyPaths) ==
  LET branches == {familyPaths[f] : f \in families}
  IN  [nodes    |-> {actorPaths[a] : a \in Actor} \cup branches,
       branches |-> branches]

-----------------------------------------------------------------------------
(* Cuts.                                                                   *)

CohortsWith(a) == {c \in cohorts : a \in c}

\* Mutant of NeedsEmits: the cohort cliques are left out.
SourceEmits == [a \in Actor |-> Emits[a]]

\* The emits of the cloned graph, with a clique for each cohort.
NeedsEmits == [a \in Actor |-> Emits[a] \cup ((UNION CohortsWith(a)) \ {a})]

\* The phases of commitment_plan that come before the cuts.
CommitmentPlan ==
  LET emits == NeedsEmits
      reads == Consumes
      actor == ActorPaths
      family == FamilyPaths
  IN  [forest |-> ForestOf(actor, family), actor |-> actor, family |-> family,
       needs  |-> [a \in Actor |-> NeedsOf(emits, reads, a)]]

ActorPath(a) == plan.actor[a]

FamilyPath(f) == plan.family[f]

CutForNeeds(needs) ==
  {IF InFamily(a) THEN FamilyPath(FamilyOf(a)) ELSE ActorPath(a) : a \in needs}

\* expose_actors: exposing one member of a family opens its whole table.
Exposed(cut, actors) ==
  LET opened == {FamilyOf(a) : a \in {x \in actors : InFamily(x)}}
  IN  (cut \ {FamilyPath(f) : f \in opened})
        \cup {ActorPath(a) : a \in actors \cup UNION {Items(f.table) : f \in opened}}

\* Mutant of CutOutsideCohort: what the actor reads stays packed.
CutReadingPacked(a) == CutForNeeds(plan.needs[a])

CutOutsideCohort(a) == Exposed(CutForNeeds(plan.needs[a]), Consumes[a])

\* Mutant of CutOfCohort: only what the cohort reads is exposed.
CutOfCohortReads(c) ==
  Exposed(CutForNeeds(plan.needs[Least(c)]), UNION {Consumes[m] : m \in c})

CutOfCohort(c) ==
  Exposed(CutForNeeds(plan.needs[Least(c)]), c \cup UNION {Consumes[m] : m \in c})

-----------------------------------------------------------------------------
(* The planner.                                                            *)

NoPlan == <<>>

Init ==
  /\ app \in RouteApps
  /\ phase = "selectors"
  /\ classified = {} /\ members = {} /\ queued = {}
  /\ cohorts = {} /\ families = {}
  /\ plan = NoPlan
  /\ cuts = [a \in {} |-> {}]
  /\ transitions = {}

Reject ==
  /\ phase' = "rejected"
  /\ UNCHANGED <<app, classified, members, queued, cohorts, families, plan, cuts, transitions>>

RejectSelectors ==
  /\ phase = "selectors"
  /\ \E n \in DOMAIN app.selectors : ~ValidSelector(app.selectors[n])
  /\ Reject

AcceptSelectors ==
  /\ phase = "selectors"
  /\ \A n \in DOMAIN app.selectors : ValidSelector(app.selectors[n])
  /\ phase' = "components"
  /\ UNCHANGED <<app, classified, members, queued, cohorts, families, plan, cuts, transitions>>

\* The next component starts at the first unassigned actor of the first domain
\* that has one.
StartComponent ==
  /\ phase = "components" /\ classified # Actor
  /\ LET d == Least({app.state[a] : a \in Actor \ classified})
         a == Least(DomainActors(d) \ classified)
     IN  /\ classified' = classified \cup {a}
         /\ queued' = {a}
  /\ members' = {}
  /\ phase' = "grow"
  /\ UNCHANGED <<app, cohorts, families, plan, cuts, transitions>>

\* An actor is assigned when it is queued.
Grow(a) ==
  /\ phase = "grow" /\ a \in queued
  /\ members' = members \cup {a}
  /\ queued' = (queued \ {a}) \cup (Neighbors(a) \ classified)
  /\ classified' = classified \cup Neighbors(a)
  /\ UNCHANGED <<app, phase, cohorts, families, plan, cuts, transitions>>

ComponentFound == phase = "grow" /\ queued = {}

RejectComponent == ComponentFound /\ ~SelectorsAgree(members) /\ Reject

ClassifyComponent ==
  /\ ComponentFound /\ SelectorsAgree(members)
  /\ LET d == app.state[Least(members)]
     IN  families' = IF MakesFamily(members, GatesOf(members, d))
                       THEN families \cup {Family(members, d)} ELSE families
  /\ cohorts' = IF Cardinality(members) > 1 THEN cohorts \cup {members} ELSE cohorts
  /\ phase' = "components"
  /\ UNCHANGED <<app, classified, members, queued, plan, cuts, transitions>>

\* validate_families and validate_cohorts.
ValidConstraints ==
  /\ \A f \in families : f.table # <<>> /\ Cardinality(Items(f.table)) = Len(f.table)
  /\ \A a \in Actor : Cardinality(FamiliesWith(a)) <= 1 /\ Cardinality(CohortsWith(a)) <= 1

\* Either planning fails, or the forest and the needs are ready for the cuts.
CheckConstraints ==
  /\ phase = "components" /\ classified = Actor
  /\ IF ValidConstraints
       THEN phase' = "cuts" /\ plan' = CommitmentPlan
       ELSE phase' = "rejected" /\ UNCHANGED plan
  /\ UNCHANGED <<app, classified, members, queued, cohorts, families, cuts, transitions>>

Unplanned == Actor \ DOMAIN cuts

Publish(actors, cut) ==
  cuts' = [a \in DOMAIN cuts \cup actors |-> IF a \in actors THEN cut ELSE cuts[a]]

PlanActor ==
  /\ phase = "cuts" /\ Unplanned # {}
  /\ LET a == Least(Unplanned)
     IN  CohortsWith(a) = {} /\ Publish({a}, CutOutsideCohort(a))
  /\ UNCHANGED <<app, phase, classified, members, queued, cohorts, families, plan, transitions>>

PlanCohort ==
  /\ phase = "cuts" /\ Unplanned # {}
  /\ \E c \in CohortsWith(Least(Unplanned)) : Publish(c, CutOfCohort(c))
  /\ UNCHANGED <<app, phase, classified, members, queued, cohorts, families, plan, transitions>>

OutputPairs == {st \in Actor \X Actor : st[2] \in app.outputs[st[1]]}

\* infer_direct_routes: every output is given its transition, or planning fails.
PlanTransitions ==
  /\ phase = "cuts" /\ Unplanned = {}
  /\ IF \A st \in OutputPairs : HasTransition(plan.forest, cuts[st[1]], cuts[st[2]])
       THEN phase' = "done" /\ transitions' = OutputPairs
       ELSE phase' = "rejected" /\ UNCHANGED transitions
  /\ UNCHANGED <<app, classified, members, queued, cohorts, families, plan, cuts>>

Next ==
  \/ RejectSelectors \/ AcceptSelectors
  \/ StartComponent \/ (\E a \in Actor : Grow(a))
  \/ RejectComponent \/ ClassifyComponent
  \/ CheckConstraints
  \/ PlanActor \/ PlanCohort \/ PlanTransitions

Spec == Init /\ [][Next]_vars

-----------------------------------------------------------------------------
(* The route fields the compiler generates in an actor's state.             *)

ComponentFamilies(a) == {f \in families : a \in f.members}

LeafActors(cut) == {a \in Actor : ActorPath(a) \in cut}
CutFamilies(cut) == {f \in families : FamilyPath(f) \in cut}

\* An actor of a family's component keeps the table, and the templates of the
\* component actors outside it; every other selected node is a field of its own.
RouteFields(a) ==
  LET own       == ComponentFamilies(a)
      component == UNION {f.members : f \in own}
  IN  [templates |-> (LeafActors(cuts[a]) \ component)
                       \cup UNION {f.members \ Items(f.table) : f \in own},
       digests   |-> CutFamilies(cuts[a]) \ own,
       tables    |-> own]

-----------------------------------------------------------------------------
(* Reference meanings.                                                     *)

Done == phase = "done"

\* The weak component of a: the smallest set that holds a and no emit edge of its
\* domain leaves, either way.
ComponentOf(a) ==
  {b \in Actor : \A S \in SUBSET Actor :
     /\ a \in S
     /\ \A x \in S, y \in DomainActors(app.state[a]) :
          y \in Emits[x] \/ x \in Emits[y] => y \in S
     => b \in S}

\* What a's own entries and those of its cohort read directly.
ReadBy(a) == Consumes[a] \cup UNION {UNION {Consumes[m] : m \in c} : c \in CohortsWith(a)}

\* The actors a cut gives access to, open or packed.
Selects(cut, a) == ActorPath(a) \in cut \/ (InFamily(a) /\ FamilyPath(FamilyOf(a)) \in cut)

-----------------------------------------------------------------------------
(* Properties.                                                             *)

\* The traversal finds exactly the weak components of each domain: the cohorts
\* are those of two actors or more, so they partition, and no two families of
\* two domains or of two selectors share an actor.
ComponentsFound ==
  Done =>
    cohorts = {c \in {ComponentOf(a) : a \in Actor} : Cardinality(c) > 1}

\* The planner's own constraints are never refused: the families it derives are
\* non-empty and disjoint whatever the graph and the selectors are.  A family
\* table holds two distinct actors or more, and the component's other actors are
\* exactly those of its gates that no selector names.
FamiliesWellFormed ==
  /\ phase = "components" /\ classified = Actor => ValidConstraints
  /\ \A f \in families :
       /\ Cardinality(Items(f.table)) >= 2
       /\ f.members \ Items(f.table) =
            f.gates \ UNION {Items(app.selectors[n].variants) : n \in SelectorsOf(f.members)}

\* A cut gives access to what the actor needs, and to nothing that neither it nor
\* its cohort needs, reads or shares a table with.
CutSelectsNeeds(a) ==
  \A b \in Actor :
    /\ b \in plan.needs[a] => Selects(cuts[a], b)
    /\ Selects(cuts[a], b) =>
         \E x \in plan.needs[a] : x = b \/ (InFamily(x) /\ b \in Items(FamilyOf(x).table))

\* A foreign table stays packed where nothing in it is read.
ForeignTablesStayPacked(a) ==
  \A f \in families :
    Items(f.table) \cap ({a} \cup (UNION CohortsWith(a)) \cup ReadBy(a)) = {} =>
      \A b \in Items(f.table) : ActorPath(b) \notin cuts[a]

\* Every planned cut is one of the forest, selects what its actor needs and no
\* more, and packs a foreign table exactly as far as the entries allow: what an
\* entry reads directly is open, and a table nothing reads from stays packed.
CutsMeanNeeds ==
  Done =>
    \A a \in Actor :
      /\ IsValidCut(plan.forest, cuts[a])
      /\ CutSelectsNeeds(a)
      /\ \A b \in ReadBy(a) : ActorPath(b) \in cuts[a]
      /\ ForeignTablesStayPacked(a)

\* The cohorts are what the traversal should find, and the members of one carry
\* one cut, in which all of them are open: their states have one layout, and each
\* can create any other.  The families are as their components require.
CohortsShareCuts ==
  /\ ComponentsFound /\ FamiliesWellFormed
  /\ Done => \A c \in cohorts : \A a, b \in c :
       cuts[a] = cuts[b] /\ ActorPath(b) \in cuts[a]

\* No app whose selectors are accepted fails to be planned: every output's target
\* cut can be derived from its source's, across domains, cohorts and families.
TransitionsDerivable ==
  phase = "cuts" /\ Unplanned = {} =>
    \A st \in OutputPairs : HasTransition(plan.forest, cuts[st[1]], cuts[st[2]])

\* The generated fields stand for the actor's cut and for nothing else.
FieldsMatchCut ==
  Done =>
    \A a \in Actor :
      LET fields == RouteFields(a)
      IN  cuts[a] = {ActorPath(b) : b \in fields.templates}
                      \cup {FamilyPath(f) : f \in fields.digests}
                      \cup {ActorPath(b) : b \in UNION {Items(f.table) : f \in fields.tables}}
=============================================================================
