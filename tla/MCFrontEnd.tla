------------------------------ MODULE MCFrontEnd ------------------------------
(***************************************************************************)
(* The parts of the compiler that lead from paths to the declarations of a   *)
(* build unit and to what its states and names are in a script, each checked *)
(* on its own inputs in one run: the initial state chooses the part under    *)
(* study, the variables of the others stay as they are.                      *)
(***************************************************************************)
EXTENDS AppGraph, DeclarationNames, Scopes, TLC

CONSTANTS
  a, b, c, aPath, aLink, bPath, cPath, gone, core, unknown, Inline, Missing,
  X, A, B, k, NoAlias,  \* an actor or a state; two apps; an alias
  S, T,                 \* names of declarations
  x, y                  \* names in a body

\* The variables of the apps, the declarations and the bodies are those of their
\* modules.
VARIABLES
  study,
  disk, text, sources, edges, frames, loaded,                     \* loading
  modules, candidates, exports, closing, question, lookups, answer,  \* names of modules
  access, verdict                                                 \* states
loaderVars == <<disk, text, sources, edges, frames, loaded>>
nameVars == <<modules, candidates, exports, closing, question, lookups, answer>>
stateVars == <<access, verdict>>
frontEndVars ==
  <<study, loaderVars, nameVars, vars, namingVars, stateVars, bodyVars>>

-----------------------------------------------------------------------------
(* Loading: three files, one of them reached by two paths, one path to       *)
(* nothing, the bundled module and one of its prefix that is not bundled.    *)

Disks == {(aPath :> a) @@ (aLink :> a) @@ (bPath :> b) @@ (cPath :> c) @@ (gone :> Missing)}

Text(imports) == [lexes |-> TRUE, imports |-> imports]
Lists(P, n) == {Text(l) : l \in SeqOf(P, n)}

Texts ==
  {(a :> ta) @@ (b :> tb) @@ (c :> tc) @@ (core :> Text(<<>>)) @@ (Inline :> ti) :
     ta \in Lists({aLink, bPath, cPath, core}, 2),
     tb \in Lists({aPath, bPath, cPath, core, gone}, 2),
     tc \in Lists({aPath, bPath}, 1) \cup {[lexes |-> FALSE, imports |-> <<>>]},
     ti \in {Text(<<core, core>>), Text(<<core, unknown>>), Text(<<bPath>>)}}

Loader == INSTANCE ModuleLoader WITH
  File <- {a, b, c}, StdPath <- {core, unknown}, KnownStd <- {core},
  FilePath <- {aPath, aLink, bPath, cPath, gone}, outcome <- loaded

-----------------------------------------------------------------------------
(* Names: three modules; modules 1 and 2 import up to two modules each, with *)
(* or without an alias, the third up to one.                                 *)

ActorX == [name |-> X, kind |-> "actor"]
StateX == [name |-> X, kind |-> "state"]
App(name, actors) == [name |-> name, kind |-> "app", actors |-> actors]

Import(m, alias) == [target |-> m, alias |-> alias]
Imports(targets, aliases) == {Import(m, al) : m \in targets, al \in aliases}

Decls1 == {<<>>, <<ActorX>>, <<ActorX, App(A, <<<<X>>, <<k, X>>>>)>>, <<App(B, <<<<A, X>>>>)>>}
Decls2 == {<<>>, <<StateX>>, <<ActorX, App(A, <<<<X>>>>)>>, <<App(A, <<<<X>>, <<k, X>>>>)>>}
Decls3 == {<<ActorX>>, <<StateX>>, <<ActorX, App(A, <<<<k>>, <<X>>>>)>>}

Modules ==
  {[decls |-> <<d1, d2, d3>>, imports |-> <<i1, i2, i3>>] :
     d1 \in Decls1, d2 \in Decls2, d3 \in Decls3,
     i1 \in {<<Import(2, al), Import(3, be)>> : al, be \in {NoAlias, k, X}} \cup {<<Import(2, NoAlias)>>},
     i2 \in {<<>>} \cup {<<i>> : i \in Imports({1, 3}, {NoAlias, k})}
            \cup {<<Import(1, NoAlias), Import(3, k)>>, <<Import(1, k), Import(3, NoAlias)>>},
     i3 \in {<<>>} \cup {<<i>> : i \in Imports({1, 2}, {NoAlias, k})}}

Paths == {<<X>>, <<A>>, <<A, X>>, <<B, X>>, <<k, X>>, <<k, A, X>>, <<k, k, X>>, <<k, B, X>>, <<A, X, X>>}

Questions ==
  {[module |-> m, path |-> p, kinds |-> {"actor", "state"}] : m \in {1, 2}, p \in Paths}

Names == INSTANCE Namespaces WITH Programs <- Modules, MaxDepth <- 3, program <- modules,
  phase <- closing

-----------------------------------------------------------------------------
(* Apps: four apps in three sources, two of them of one name; each has one   *)
(* actor.  The first two sources share a function each, which may refer to   *)
(* apps too.  Declarations 1 to 4 are the actors, 5 and 6 the functions.     *)

AppList == <<<<1, 1>>, <<2, 2>>, <<2, 3>>, <<3, 2>>>>
AtMost(n) == {P \in SUBSET Range(AppList) : Cardinality(P) <= n}

\* What the functions refer to, and whether the first refers to the second.
Functions56 ==
  {[first |-> f, second |-> g, use |-> u] :
     f \in {{}, {<<2, 3>>}}, g \in {{}, {<<3, 2>>}}, u \in {{}, {6}}}
  \ {[first |-> f, second |-> {}, use |-> {6}] : f \in {{}, {<<2, 3>>}}}

AppPrograms ==
  {[apps    |-> [app \in Range(AppList) |-> {SelectInSeq(AppList, LAMBDA other : other = app)}],
    shared  |-> <<{5}, {6}, {}>>,
    uses    |-> <<{}, {}, useC, {}, fs.use, {}>>,
    members |-> <<m1, m2, m3, m4, fs.first, fs.second>>] :
     m1 \in AtMost(2), m2 \in AtMost(1) \cup {{<<1, 1>>, <<2, 3>>}, {<<2, 3>>, <<3, 2>>}},
     m3 \in AtMost(1), m4 \in AtMost(1), useC \in {{}, {2}}, fs \in Functions56}

AppRoots == {<<1, 1>>, <<1, 4>>}

-----------------------------------------------------------------------------
(* Declarations: three selected ones in three files and two that are only    *)
(* linked, by two artifacts, under any names the naming of another unit could *)
(* give them.                                                               *)

Declared(base, file, actor, isRoot, refs, inner) ==
  [base |-> base, file |-> file, actor |-> actor, root |-> isRoot, refs |-> refs, locals |-> inner]

\* Declaration 1 is a type, 2 refers to it or not, 3 is an actor or a function.
DeclLists ==
  {<<Declared(S, 1, FALSE, r1, {}, {}), Declared(b2, 2, FALSE, ~r1, refs, {}), Declared(b3, 3, actor, TRUE, {}, inner)>> :
     b2, b3 \in {S, T}, r1 \in BOOLEAN, refs \in {{}, {1}}, actor \in BOOLEAN, inner \in {{}, {S}}}

NamePool == {Authored(S), Authored(T), [Authored(S) EXCEPT !.generated = 1],
             [Authored(S) EXCEPT !.linked = <<1>>]}
Namings(O) == {f \in [O -> NamePool] : IsInjective(f)}

Namings1 == UNION {Namings(O) : O \in {{2}, {5}, {1, 2}}}
Namings2 == {f \in UNION {Namings(O) : O \in {{1, 4}, {1, 2, 4, 5}}} : f[4] = Authored(S)}

\* What every declaration refers to, declarations 4 and 5 being only linked.
Source(decls, refs4) == <<{}, decls[2].refs, {}, refs4, {}>>
Describes(naming, source) == \A o \in DOMAIN naming : source[o] \subseteq DOMAIN naming

ArtifactOf(source, naming) ==
  LET O == SetToSortSeq(DOMAIN naming, <)
  IN  [i \in DOMAIN O |->
         [name |-> naming[O[i]], origin |-> O[i], refs |-> {naming[r] : r \in source[O[i]]}]]

UnitOf(decls, refs4, f, g) ==
  [decls    |-> decls,
   linked   |-> <<ArtifactOf(Source(decls, refs4), f), ArtifactOf(Source(decls, refs4), g)>>,
   exported |-> <<{f[o] : o \in DOMAIN f \cap {2, 4}}, {g[4]}>>]

NamingUnits ==
  {UnitOf(q[1], q[2], q[3], q[4]) :
     q \in {p \in DeclLists \X {{1}, {2, 5}} \X Namings1 \X Namings2 :
              \A naming \in {p[3], p[4]} : Describes(naming, Source(p[1], p[2]))}}

NoUnit == [decls |-> <<>>, linked |-> <<>>, exported |-> <<>>]

-----------------------------------------------------------------------------
(* States: the reads and writes of MCStates.                                 *)

StateCases == INSTANCE MCStates

Access == INSTANCE StateAccess WITH
  Decl <- StateCases!MCDecl, Width <- StateCases!MCWidth, Accesses <- StateCases!MCAccesses,
  Active <- StateCases!MCActive

-----------------------------------------------------------------------------
(* Names in bodies: the functions, helpers and entries of MCScopes.          *)

BodyCases == INSTANCE MCScopes
BodyTasks == BodyCases!MCTasks
BodyReserved == BodyCases!MCReserved

\* They are all of the kind the proofs about Scopes are about.
ASSUME BodiesAssumption == TasksWellFormed

-----------------------------------------------------------------------------
\* The variables of a part that is not under study.
OffLoader ==
  /\ disk = None /\ text = None /\ sources = None /\ edges = None
  /\ frames = None /\ loaded = None
OffNames ==
  /\ modules = None /\ candidates = None /\ exports = None /\ question = None
  /\ closing = None /\ lookups = None /\ answer = None
OffApps ==
  /\ program = None /\ root = None /\ appSources = None /\ complete = None
  /\ stack = None /\ order = None /\ outcome = None /\ reported = None
  /\ artifacts = None /\ linked = {}
OffUnits ==
  /\ unit = NoUnit /\ names = <<>> /\ origins = <<>> /\ models = <<>>
  /\ states = <<>> /\ phase = "none"
OffStates == access = None /\ verdict = None
OffBodies ==
  /\ task = None /\ stage = "none" /\ pos = None /\ scopes = None /\ locals = None
  /\ selectors = None /\ sites = None /\ spelled = None /\ visible = None /\ emitted = None

FrontEndInit ==
  \/ /\ study = "loader" /\ Loader!Init
     /\ OffNames /\ OffApps /\ OffUnits /\ OffStates /\ OffBodies
  \/ /\ study = "names" /\ Names!Init
     /\ OffLoader /\ OffApps /\ OffUnits /\ OffStates /\ OffBodies
  \/ /\ study = "apps" /\ Init
     /\ OffLoader /\ OffNames /\ OffUnits /\ OffStates /\ OffBodies
  \/ /\ study = "units" /\ NamingInit
     /\ OffLoader /\ OffNames /\ OffApps /\ OffStates /\ OffBodies
  \/ /\ study = "states" /\ Access!Init
     /\ OffLoader /\ OffNames /\ OffApps /\ OffUnits /\ OffBodies
  \/ /\ study = "bodies" /\ BodyInit
     /\ OffLoader /\ OffNames /\ OffApps /\ OffUnits /\ OffStates

LoaderNext ==
  /\ study = "loader" /\ Loader!Next
  /\ UNCHANGED <<study, nameVars, vars, namingVars, stateVars, bodyVars>>

FrontEndNext ==
  \/ LoaderNext
  \/ /\ study = "names" /\ Names!Next
     /\ UNCHANGED <<study, loaderVars, vars, namingVars, stateVars, bodyVars>>
  \/ /\ study = "apps" /\ Next
     /\ UNCHANGED <<study, loaderVars, nameVars, namingVars, stateVars, bodyVars>>
  \/ /\ study = "units" /\ NamingNext
     /\ UNCHANGED <<study, loaderVars, nameVars, vars, stateVars, bodyVars>>
  \/ /\ study = "states" /\ Access!Next
     /\ UNCHANGED <<study, loaderVars, nameVars, vars, namingVars, bodyVars>>
  \/ /\ study = "bodies" /\ BodyNext
     /\ UNCHANGED <<study, loaderVars, nameVars, vars, namingVars, stateVars>>

\* The loader's recursion goes on until it returns: it waits for nothing.
FrontEndSpec ==
  FrontEndInit /\ [][FrontEndNext]_frontEndVars /\ WF_frontEndVars(LoaderNext)

-----------------------------------------------------------------------------
(* The properties of the parts; those of apps, declarations and bodies are  *)
(* their modules', and true of what the variables hold while another part  *)
(* is under study.                                                          *)

GraphDiscovered ==
  /\ [](study = "loader" => Loader!GraphIsImports)
  /\ <>(study = "loader" => loaded # "loading")

NamesMeanSources == study = "names" => Names!NamesMeanSources

\* What a body reads of a state and what it writes to one is what its source says,
\* wherever the field is laid out. (codegen/sil/state_boundary.rs, access.rs)
AccessesMeanSource == study = "states" => Access!ReadsMeanSource /\ Access!WritesMeanSource
=============================================================================
