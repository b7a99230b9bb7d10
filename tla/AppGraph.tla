------------------------------ MODULE AppGraph ------------------------------
(***************************************************************************)
(* The order in which the apps of a source graph are compiled.  A planner   *)
(* visits the selected app and, depth first, the apps whose actors the      *)
(* declarations it uses refer to; the builder then compiles the plan in     *)
(* order and links to each app the artifacts of its dependencies, which it  *)
(* finds by app name alone.                                                 *)
(***************************************************************************)
EXTENDS Naturals, Sequences, SequencesExt, FiniteSets, Functions

CONSTANTS
  Programs,  \* resolved programs under study, see below
  Roots,     \* the source apps that may be selected
  None

\* A source app is a pair of numbers: its source, in path order, and its name.
\* program.apps:     the actors of each declared source app;
\* program.shared:   what each source exports besides actors and apps;
\* program.uses[d]:  the declarations a declaration refers to;
\* program.members[d]: the source apps whose actors it refers to.
ValidProgram(p) ==
  /\ IsFiniteSet(DOMAIN p.uses) /\ DOMAIN p.members = DOMAIN p.uses
  /\ \A d \in DOMAIN p.uses :
       p.uses[d] \subseteq DOMAIN p.uses /\ p.members[d] \subseteq Nat \X Nat
  /\ IsFiniteSet(DOMAIN p.apps \cup UNION {p.members[d] : d \in DOMAIN p.members})
  /\ \A app \in DOMAIN p.apps :
       app \in Nat \X Nat /\ p.shared[app[1]] \cup p.apps[app] \subseteq DOMAIN p.uses

ASSUME AppGraphAssumption ==
  /\ \A p \in Programs : ValidProgram(p)
  /\ Roots \subseteq Nat \X Nat

VARIABLES
  program, root,  \* never change
  appSources,     \* the source an app name was last visited in
  complete,       \* visited source apps
  stack,          \* the source apps being visited, and the dependencies to visit
  order,          \* the build units
  outcome,        \* "plan", "build", "built" or "refused"
  reported,       \* the cycle, the conflict or the missing app of a refusal
  artifacts,      \* the source app whose artifact an app name holds
  linked          \* <<unit, dependency, artifact>> of every link made

planVars == <<appSources, complete, stack, order, reported>>
buildVars == <<artifacts, linked>>
vars == <<program, root, planVars, outcome, buildVars>>

\* declaration_closure
Used(S) == S \cup UNION {program.uses[d] : d \in S}

Closure[S \in SUBSET DOMAIN program.uses] == IF Used(S) = S THEN S ELSE Closure[Used(S)]

\* app_declarations: what the source exports, and the app's actors.
AppDeclarations(app) == Closure[program.shared[app[1]] \cup program.apps[app]]

Dependencies(app) == UNION {program.members[d] : d \in AppDeclarations(app)}

Before(a, b) == a[1] < b[1] \/ (a[1] = b[1] /\ a[2] < b[2])
Least(apps) == CHOOSE app \in apps : \A other \in apps : other = app \/ Before(app, other)

Active == [i \in DOMAIN stack |-> stack[i].app]

Init ==
  /\ program \in Programs /\ root \in Roots
  /\ appSources = <<>> /\ complete = {} /\ stack = <<>> /\ order = <<>>
  /\ outcome = "plan" /\ reported = None
  /\ artifacts = <<>> /\ linked = {}

Visited(app) == [name \in DOMAIN appSources \cup {app[2]} |->
                   IF name = app[2] THEN app[1] ELSE appSources[name]]

\* A plausible bug, for the mutation runs: names are not compared.
NoConflicts(app) == FALSE

Conflicts(app) == app[2] \in DOMAIN appSources /\ appSources[app[2]] # app[1]

\* What the caller has still to visit once it calls visit on its next app.
Called == IF stack = <<>> THEN <<>>
          ELSE [stack EXCEPT ![Len(stack)].pending = @ \ {Least(@)}]

\* The app visit is called on: the selected one, or a dependency.
Wanted == IF stack = <<>> THEN root ELSE Least(Last(stack).pending)
Calling == /\ outcome = "plan"
           /\ IF stack = <<>> THEN order = <<>> ELSE Last(stack).pending # {}

\* visit: one name from two sources is refused before anything else.
RefuseConflict ==
  /\ Calling /\ Conflicts(Wanted)
  /\ appSources' = Visited(Wanted)
  /\ outcome' = "refused" /\ reported' = [conflict |-> {<<appSources[Wanted[2]], Wanted[2]>>, Wanted}]
  /\ UNCHANGED <<program, root, complete, stack, order, buildVars>>

SkipComplete ==
  /\ Calling /\ ~Conflicts(Wanted) /\ Wanted \in complete
  /\ stack' = Called
  /\ UNCHANGED <<program, root, appSources, complete, order, outcome, reported, buildVars>>

\* A plausible bug, for the mutation runs: the whole stack is reported.
RefuseCycleWholeStack ==
  /\ Calling /\ ~Conflicts(Wanted) /\ Wanted \in Range(Active)
  /\ reported' = [cycle |-> Active]
  /\ outcome' = "refused"
  /\ UNCHANGED <<program, root, appSources, complete, stack, order, buildVars>>

RefuseCycle ==
  /\ Calling /\ ~Conflicts(Wanted) /\ Wanted \in Range(Active)
  /\ LET start == CHOOSE i \in DOMAIN Active : Active[i] = Wanted
     IN  reported' = [cycle |-> SubSeq(Active, start, Len(Active))]
  /\ outcome' = "refused"
  /\ UNCHANGED <<program, root, appSources, complete, stack, order, buildVars>>

RefuseMissing ==
  /\ Calling /\ ~Conflicts(Wanted) /\ Wanted \notin complete \cup Range(Active)
  /\ Wanted \notin DOMAIN program.apps
  /\ appSources' = Visited(Wanted)
  /\ outcome' = "refused" /\ reported' = [missing |-> Wanted]
  /\ UNCHANGED <<program, root, complete, stack, order, buildVars>>

Enter ==
  /\ Calling /\ ~Conflicts(Wanted) /\ Wanted \notin complete \cup Range(Active)
  /\ Wanted \in DOMAIN program.apps
  /\ appSources' = Visited(Wanted)
  /\ stack' = Append(Called, [app |-> Wanted, pending |-> Dependencies(Wanted)])
  /\ UNCHANGED <<program, root, complete, order, outcome, reported, buildVars>>

\* All dependencies of the app are visited: it is compiled after them.
Leave ==
  /\ outcome = "plan" /\ stack # <<>> /\ Last(stack).pending = {}
  /\ stack' = Front(stack)
  /\ complete' = complete \cup {Last(stack).app}
  /\ order' = Append(order, Last(stack).app)
  /\ outcome' = IF Len(stack) = 1 THEN "build" ELSE "plan"
  /\ UNCHANGED <<program, root, appSources, reported, buildVars>>

\* build_app_graph: the next unit is linked to artifacts found by name.
Compiled == Cardinality(DOMAIN artifacts)
Unit == order[Compiled + 1]
Linkable == /\ \A d \in Dependencies(Unit) : d[2] \in DOMAIN artifacts
            /\ Unit[2] \notin DOMAIN artifacts

BuildUnit ==
  /\ outcome = "build" /\ Compiled < Len(order) /\ Linkable
  /\ linked' = linked \cup {<<Unit, d, artifacts[d[2]]>> : d \in Dependencies(Unit)}
  /\ artifacts' = [name \in DOMAIN artifacts \cup {Unit[2]} |->
                     IF name = Unit[2] THEN Unit ELSE artifacts[name]]
  /\ UNCHANGED <<program, root, planVars, outcome>>

FinishBuild ==
  /\ outcome = "build" /\ Compiled = Len(order)
  /\ outcome' = "built"
  /\ UNCHANGED <<program, root, planVars, buildVars>>

Next == RefuseConflict \/ SkipComplete \/ RefuseCycle \/ RefuseMissing \/ Enter
        \/ Leave \/ BuildUnit \/ FinishBuild

Spec == Init /\ [][Next]_vars /\ WF_vars(Next)

-----------------------------------------------------------------------------
\* The source apps the selected one leads to through dependencies, itself included.
AllApps == DOMAIN program.apps \cup {root} \cup UNION {program.members[d] : d \in DOMAIN program.members}

Lead(S) == S \cup UNION {Dependencies(app) : app \in S \cap DOMAIN program.apps}

NeededFrom[S \in SUBSET AllApps] == IF Lead(S) = S THEN S ELSE NeededFrom[Lead(S)]

Needed == NeededFrom[{root}]

\* A plan holds the selected app and all it needs, each once and after its own
\* dependencies, and no two of one name, though the visit learns of the names
\* one at a time and completes apps it may meet again by another way.
PlanIsTopological ==
  outcome \in {"build", "built"} =>
    /\ IsInjective(order) /\ Range(order) = Needed
    /\ \A i \in DOMAIN order : \A d \in Dependencies(order[i]) :
         \E j \in 1..(i - 1) : order[j] = d
    /\ \A i, j \in DOMAIN order : order[i][2] = order[j][2] => i = j

IsCycle(apps) ==
  \A i \in DOMAIN apps :
    apps[IF i = Len(apps) THEN 1 ELSE i + 1] \in Dependencies(apps[i])

\* A refusal names what is wrong: a cycle, entered anywhere, of which each app
\* depends on the next; two sources of one name, both needed; an app that is
\* not declared.
RefusalJustified ==
  outcome = "refused" =>
    CASE "missing" \in DOMAIN reported -> reported.missing \notin DOMAIN program.apps
      [] "cycle" \in DOMAIN reported -> reported.cycle # <<>> /\ IsCycle(reported.cycle)
      [] "conflict" \in DOMAIN reported ->
           /\ reported.conflict \subseteq Needed
           /\ \E a, b \in reported.conflict : a[1] # b[1] /\ a[2] = b[2]

\* Every plan is built in its order: no unit lacks an artifact, and the artifact found by a
\* dependency's name was compiled from the source the reference named.
LinkedFromSource ==
  /\ PlanIsTopological
  /\ \A link \in linked : link[3] = link[2]
  /\ outcome = "build" /\ Compiled < Len(order) => Linkable
=============================================================================
