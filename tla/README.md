# Verification of Argent

Argent compiles *apps* - sets of actors with typed state and entries - to
Silverscript contracts for Kaspa covenants. Every actor of an app becomes one
contract; the coins of an app live under a covenant id; an entry says which
other coins of the covenant a transition consumes, which it creates, which
covenants it observes and which it spawns. The generated scripts run one per
input and see a transaction only through introspection opcodes. Nothing but
those scripts keeps a covenant on the app's rules, so the central question is
whether the *combination* of scripts that happen to run in one transaction
permits exactly what the app declares.

Paths below are relative to the repository root.

## 1. Inventory

| component | code | state and operations | what makes it correct |
|---|---|---|---|
| Source front end | `src/compiler/syntax/**`, `loader/mod.rs` | lexer and parser; the loader walks the import graph file by file | parsing is a pure function; loading visits every file once, cycles included, and records an edge for each import |
| App graph | `src/compiler/app_graph.rs` | depth-first planner over app dependencies: visit states Active / Complete, apps by name, compile order | dependencies precede dependants; cycles and two sources of one app name are refused |
| Resolution and linking | `src/compiler/resolve/**`, `model/link.rs`, `codegen/sil/names.rs` | export tables closed by rounds, lookups of paths and app members, the names given to declarations, linked types and locals | every name has one meaning, from the source to the script |
| Entry model | `src/compiler/model/{build,entry,inputs,outputs}.rs` | per entry: normalized clauses, locations (FromStart / Range / FromEnd), input group policy, optional-delegate guard, output plan | clause locations partition a group; policies give the leader/delegate guarantees |
| Validation | `src/compiler/model/validate.rs`, `consts.rs`, `terminal` checks in `syntax/body/routes.rs` | accepts or rejects declarations; `become` coverage over terminal paths | what code generation assumes has been checked |
| State layout and witnesses | `src/compiler/model/{layout,types,witnesses,actor*,source_values}.rs` | physical layouts, expansion digests, hidden parameters | fixed encoded widths; a witness for every value a script needs |
| Route planner | `src/routing/{graph,plan,commitment}.rs`, `model/routes.rs` | minimal cut of the actor route graph, template cohorts and families, commitment forest | every template an entry needs can be proved from what the actor's state commits to |
| Code generation | `src/compiler/codegen/**` | lowers an entry to its script: input prelude, observe and spawn preludes, output prelude, body, `become` routes | the script enforces the entry's declaration |
| Artifact | `crates/argent-artifact/src/**` | schema, structural verification, template frames, cardinalities, spawn plans | an artifact that verifies describes contracts whose identities are disjoint |
| Runtime builder | `crates/argent-runtime/src/**` | binds a `TxContext` to inputs and outputs, resolves arguments, genesis ids, observations and hidden witnesses, builds and executes the transaction | what it builds is what the scripts accept; dependent values are resolved in order |
| Genesis packages | `crates/argent-genesis/src/**`, `src/cli/genesis.rs` | export of a genesis group from a context, composition, three layers of a proof, verification against an id from elsewhere | a package claims the id the group gets, and one that verifies tells the group it names |
| CLI, inspection | `src/{main,lib,inspect,builder,codec}.rs`, `src/cli/mod.rs` | argument parsing, printing | I/O only |
| VS Code extension, examples, tests | `vscode/**`, `examples/**`, `tests/**` | - | not part of the program's logic |

Components interact through values, not through shared mutable state: the
compiler's passes hand immutable plans to one another, the artifact is the file
between compiler and runtime, and the runtime hands a transaction to consensus.
The concurrency is on chain: a spender chooses which inputs, entries and
outputs meet in one transaction, each script decides alone from what it can
see, and committed transactions follow one another over the same coins. A
consensus rule (KIP-20) outside the repository says which outputs an input
authorizes and which covenant they carry.

What is hard, in that setting:

* several scripts written apart must together exclude a transaction none of
  them sees completely (leaders, delegates, independent entries in one group);
* index arithmetic over groups whose size the spender chooses (ranges, suffixes
  after ranges, the leader's own slot);
* authentication that is skipped where an invariant of the whole history makes
  it unnecessary (a singleton app's reads by covenant domain);
* identities recovered from bytes (template frames), where two compiled
  contracts may overlap;
* values that exist only after other values (genesis covenant ids, deferred
  output states, route witnesses), resolved by ordered passes;
* graph algorithms whose results are trusted by later passes (app order, route
  cuts, commitment forests);
* parts that were written apart and must agree without a common check: the
  compiler's plan of an output and the artifact's plan of its target, the
  parameters a script takes and the arguments the runtime gives, a state's forms
  in source, storage and script, a name's meaning in source and script.

The full list, with the line each hazard bites at, is in `PROJECT.json`.

## 2. Modules

| module | models | code |
|---|---|---|
| `EntryPlan` | what the compiler fixes about an entry: clauses, cardinalities, locations, group policy, guard | `model/{entry,inputs,outputs,build,validate}.rs` |
| `CovenantTx` | any transaction over the covenants of an app, and the generated script of each input | `codegen/sil/body.rs`, `argent-runtime/src/lib.rs`; consensus as external |
| `CovenantApp` | the abstract promise: each covenant makes one coordinated move or a batch of independent moves | `docs/security-invariants/leader-delegate-input-groups.md` is its informal counterpart |
| `TemplateFrames` | extraction of the actors' template frames and the comparison of every pair | `argent-artifact/src/template_frames.rs` |
| `RouteGraph`, `RouteNeeds` | what reachability and needs mean, and the traversal that computes them | `routing/graph.rs` |
| `CutForest`, `CutJourney` | commitment forests, cuts and transitions; a transition carried out | `routing/commitment.rs` |
| `RoutePlan` | the planner: components, families, cohorts, forest, cuts; the compiler's routes and generated fields | `routing/{plan,commitment,graph}.rs`, `model/{routes,layout}.rs` |
| `RouteOutputs` | what generated scripts do with a route plan: fields, tables, templates of an output | `model/{layout,outputs,witnesses}.rs`, `codegen/sil/{body,state_boundary}.rs` |
| `TemplatePlan` | the artifact's template plan: drafted from the same route plan, and checked when read | `codegen/{artifact,abi}.rs`, `argent-artifact/src/lib.rs` |
| `Genesis`, `GenesisTx` | what founds a covenant, the checks a script makes of the covenants its entry spawns, and any history of such transactions | `codegen/sil/body.rs`, `argent-runtime/src/lib.rs`; consensus as external |
| `GenesisBuilder` | how the runtime builder declares genesis groups, derives their ids, resolves outputs and finds spawn witnesses | `argent-runtime/src/{resolve,context}.rs` |
| `GenesisProof` | exported genesis groups, proof packages and their verification | `argent-genesis/src/**`, `src/cli/genesis.rs` |
| `EntryScript` | the template proofs, hidden parameters and checks of an entry's script | `model/{inputs,outputs,witnesses}.rs`, `codegen/sil/**` |
| `EntryArguments` | an entry's declaration, a spend of it, and the hidden arguments the runtime gives | `argent-runtime/src/{resolve,lib}.rs`, and the script's checks |
| `EntryRoutes` | the body of an entry: control flow, locals that select actors, `become` | `syntax/body/routes.rs`, `model/{entry,validate,actor_value_policy}.rs`, `codegen/sil/body.rs` |
| `EntryMetadata` | the artifact's description of its entries, and the verification of it | `codegen/artifact.rs`, `argent-artifact/src/{lib,verify_spawns}.rs` |
| `StateAccess` | source, storage and physical forms of a state; reads and writes of them | `model/layout.rs`, `codegen/sil/{names,state_boundary}.rs`, `argent-runtime/src/lib.rs` |
| `ModuleLoader` | discovery of sources | `loader/mod.rs` |
| `Namespaces` | exported names, and lookups of paths | `resolve/{namespaces,mod}.rs` |
| `AppGraph` | the order of apps, and the build loop that links them | `app_graph.rs`, the build in `mod.rs` |
| `DeclarationNames` | names of declarations in a unit, and of linked types | `resolve/mod.rs`, `model/link.rs` |
| `Scopes` | names inside functions, helpers and entries, from binder to script | `resolve/bindings.rs`, `model/validate.rs`, `codegen/sil/names.rs` |
| `CovenantTxProofs`, `TemplateFramesProofs`, `RouteNeedsProofs`, `GenesisTxProofs`, `GenesisBuilderProofs`, `RoutePlanProofs`, `FrontEndProofs`, `ScopesProofs` | theorems | - |

Paths of the table are below `src/src/compiler/` or `src/crates/`.

### How the runs are put together

One run asks one kind of question of several modules that serve one purpose. Its
MC module holds the variables of all of them and a variable `study`, chosen in the
initial state; a step is a step of the module under study and leaves the others'
variables alone, and a property of a module is stated of its study, or is vacuous of
what its variables hold while another part is under study. This is a sum
of state machines, not a product: what a module does is not affected by the
others, and the number of states is the sum of theirs.

| MC module | studies |
|---|---|
| `MCCovenantTx` | `CovenantTx` (which refines `CovenantApp`) over six apps |
| `MCRouting` | `RouteNeeds`; `CutJourney` |
| `MCTemplatePlan`, `MCRoutePlan` | `RoutePlan`, whose result `RouteOutputs` and `TemplatePlan` continue: a composition in sequence |
| `MCTemplateFrames`, `MCEntryRoutes`, `MCEntries` | `TemplateFrames`; `EntryRoutes`; `EntryMetadata` |
| `MCBuilding`, `MCEntries` | `GenesisTx`; `GenesisBuilder` with `GenesisProof`; `EntryArguments` with `EntryScript` |
| `MCFrontEnd`, `MCStates`, `MCScopes` | `ModuleLoader`; `Namespaces`; `AppGraph`; `DeclarationNames`; `StateAccess`; `Scopes` |
| `MCNamespaces` | `Namespaces`, for the lookup that does not end |

### `EntryPlan`

An app is a set of actors and a set of entries; an entry is its actor, its kind,
and its `consumes` and `emits` sections; a section is a sequence of clauses,
each with the actors it permits and its cardinality. `Location` is
`InteractionLocation`, computed by `plan_interaction_locations`: clauses before
the range count from the start, clauses after it from the end. `Positions` is
where code generation makes the script look. `GroupPolicy` is
`CurrentInputGroupPolicy`, `LeaderFor` is `compute_leader_for`,
`RequiresOptionalDelegateGuard` is the flag of `EntryInputPlan::new`.
`ValidApp` collects the declarations the validator lets through (a delegate
consumes a leader first, emits nothing, has no range; at most one range per
section; one actor per consume and per ranged output).

### `CovenantTx`

State: the app (chosen in `Init`, so that one run covers several), the ledger
(live coins of each script in each covenant), and the transaction under
validation with the index of the input whose script runs next. Actions:

| action | code |
|---|---|
| `Propose` | a spender's choice; external. Only consensus constrains it: live coins, one authorizing input per continuation output |
| `RunBatchable`, `RunLeaderFixed`, `RunLeaderRanged`, `RunDelegate`, `RunAlien` | one iteration of the loop of `execute_transaction_with_covenants`: the script of one input succeeds. The four policies are the arms of `current_input_prelude` |
| `Reject` | the same loop returns the script's error |
| `Commit`, `Abandon` | the accepted transaction is mined, or is not |

`EntrySucceeds` is the script `lower_entry` emits: input prelude, output prelude,
then the routes of the body. Abstractions, and why they lose nothing the
properties speak of:

* A contract's identity is its actor. Scripts authenticate one another by
  template hash and state length; that two actors of an app never share a
  script is `TemplateFrames!FramesDisjoint`.
* State values, entry bodies and amounts are left out: the properties are about
  which coins take part. A body can only make a script fail more often.
* Genesis outputs are left out: by KIP-20 they are in neither the authorized
  outputs of an input nor the outputs of a covenant.
* An input without a covenant (a wallet coin) always succeeds and authorizes no
  continuation.
* `Init` is an honest genesis: a covenant starts with coins of its own app's
  actors, in any number up to the bound.
* Two entries with equal data are one entry, which is Property 7 of the
  document: the leader names an actor, not one of its entries.

`LeaderInputCountAccepted`, beside the scripts, is the check of the runtime
builder on the same transaction (`validate_leader_actor_input_counts`).

### `CovenantApp`

The abstract app has no inputs, no positions, no authorizers. In a step each
covenant moves its coins by one *coordinated* move (a leader entry that
consumes others) or by a batch of independent ones, and a move spends and
creates exactly what its entry declares. `CovenantTx!ImplementsApp` states that
the generated scripts implement it: after forgetting transactions, every commit
is such a step and every other action is a stutter.

### `TemplateFrames`

The verifier is sequential: `ExtractFrame` (or `MissingContract`,
`InvalidStateSpan`) per actor in name order, then `ComparePair` or `Ambiguous`
per pair of the two nested loops, then `Verify`. `StateEnd` is the checked sum:
a sum above `MaxUsize` is larger than any bytecode. A slice out of bounds is the
phase "panicked". What a frame is *for* is stated without frames, over whole
byte strings: `IsScriptOf(R, c)` says that R agrees with the compiled contract
c outside c's state, and `ShareAScript` that some R does so for two contracts.

### `RouteGraph`, `RouteNeeds`

`RouteGraph` states the meaning of needs with no algorithm: reachability is the
intersection of the sets closed under emits. `RouteNeeds` is the loop of
`needs`: `StartSource` is the head of the outer loop, `PopExpanded`,
`PopResolved` and `PopUnresolved` are the three ways through the inner one, and
`Publish` its end. Names become numbers in name order, so `dst < src` is the
code's comparison of names. The stack is a set popped in any order, which covers
the order of the code's vector: repetitions of an entry on it only lead to
`PopExpanded`.

### `CutForest`, `CutJourney`

A forest is its set of node paths with the subset that are branches; a cut is a
set of paths, as in the code. `IsValidCut` keeps the code's comparison of
neighbors, in the derived order `Before`; `CollectsPack` is a recursive function
over the forest. `Transition` yields the sets of branches that the code collects
before it sorts them; `OpensBefore` and `PacksBefore` are the sort orders.
`CutJourney` consumes a plan the way a script will: `open` and `pack`, with their
own guards, in that order. Nothing in the planner executes a plan, so the module
is also the statement of what the plan promises.

### `RoutePlan`

One behavior is one call of `infer_direct_routes`: `AcceptSelectors` /
`RejectSelectors` (`validate_selector_requirements`), `StartComponent` and
`Grow` (the traversal of `components`), `ClassifyComponent` /
`RejectComponent` (the loop body of `route_plan`), `CheckConstraints`
(`validate_families`, `validate_cohorts`, then the forest and the needs),
`PlanActor` / `PlanCohort` (phases 3 and 4 of `commitment_plan`) and
`PlanTransitions`. The forest, the paths and the needs are computed once, as in
the code, and kept in `plan`; the needs are `RouteGraph!NeedsOf`, which
`RouteNeeds` is shown to compute. `RouteFields` is what
`generated_fields_for_actor` makes of a cut. An app is given by the static
targets of its entries, a state per actor and its actor-enum selectors;
selectors whose variants own another state are rejected before planning
(`routes.rs` line 114) and are not among the inputs.

### `Genesis`, `GenesisTx`

`Founds` is the consensus rule: the outputs that one input authorizes under one
covenant id, in index order, with their scripts, hash with the input's outpoint
to that id. `SpawnPrelude` is the script of `spawn_prelude`: for each clause a
lower bound on the first witnessed index and one equation between ids, nothing
else. That the witnessed indexes ascend, name the whole group, are authorized by
this input and differ from clause to clause is left to the equation; the module
states none of it as a check. `SpawnRoutes` is what the entry's body validates of
each spawned output (`validate.rs` line 951 onwards requires a route for each).
In `GenesisTx`, `Propose` is the spender's choice, `RunScript` and `Reject` one
iteration of the script loop - with a witness, or when no witness would do -
`Commit` and `Abandon` the end.

* A hash is the record of its preimage, so equal ids have equal preimages: the
  collision resistance the code's comment assumes. Outpoints are numbered in the
  order coins are made, which stands for their being hashes of transactions.
* A script is P2SH or not, with the redeem bytes at the P2SH offset. The prelude
  reads those bytes and supplies version and length itself, so that a script of
  another shape with the same bytes is a case of its own.
* Amounts are left out: script and consensus read them from the same output.
* `Init` is any sound history (`HistoryOK`); the proofs take it as an assumption
  on the initial coins and preserve it.

### `RouteOutputs`, `TemplatePlan`

A route plan is used twice, by parts that never meet. `RouteOutputs` is the
script's side: the fields the compiler adds to a state (`GeneratedFields`), where
each field of an output comes from (the source's field of the same name, a table
opened or packed), and which tables and templates an entry is given. `TemplatePlan`
is the artifact's side: `Draft` makes receipts, families, roles, tables and Merkle
proofs of the same plan, and `Check` is what `check_consistency` holds a plan read
from a file to. A plan from elsewhere is a drafted one with a part exchanged
(`Variants`). Words of 32 bytes are tokens and a digest is the record of what it
commits to.

### `EntryScript`, `EntryArguments`

`EntryScript` is an entry's script as far as templates go: which inputs are read
with a proof and from which place it is taken (`Authenticated`), which hidden
parameters the entry takes (`Roles`), in which form each output is validated
(`Form`) and which names the prelude declares. `EntryArguments` takes an entry
through its life: `Compile`, `Fund` (a spender's transaction, external) and `Build`,
in which the runtime resolves what the entry observes and spawns and gives the
arguments. The script's acceptance and the builder's arguments are compared with
the clauses' own meaning (`AsDeclared`), stated without positions or proofs.

Left out: entries of delegates, ranges of outputs, ranges in `observes` and
`spawns` (the compiler refuses them), one open name used in two observes, hidden
parameters of families, expansions and spawned indexes. The members of an observed
covenant are of one app.

### `EntryRoutes`

The compiler's side is `Compile`, with its validations as predicates of a body; the
script's side is an interpreter: `Store` (a `let` or an assignment), `Pass`,
`Branch` (either way), `Enter` and `Leave` of a block, `Select` (the template taken
by a local's number), `Check` and `CheckRange` (an output is held against a
template), `Finish`. Which way a branch goes is a nondeterministic
choice, because conditions are arithmetic on values that are not here.

Left out: the states of routes, literal indices into ranges, entries of delegates,
where in the transaction an output is (`CovenantTx` has that), open actors as
targets in foreign groups. An integer given to a local of an enum is `enum[i]`.

### `EntryMetadata`

`Write` is the compiler's `entry_artifacts`: hidden parameters with their
providers, spawns, cardinalities, and a registry of recipes that entries share by
id. `Alter` changes one thing of one entry, the registry with it, as an artifact
from elsewhere may be; `Verify` is the verification of `argent-artifact`, all of
`verify_spawns.rs` included. Names and types of parameters, families, expansions,
observed output fields and the recipe ids of routes are left out; ABI and receipts
are in `TemplatePlan`.

### `StateAccess`

A state has a source value, a storage form in which expanded slots are digests, and
a physical form with the fields the compiler generated before them. `Evaluate` is
what the script computes for a read, `Validate` what it accepts of a write,
`Refuse` what the compiler does not let through. The meaning they are compared
with (`Meaning`) is over source values alone. An opened preimage is a packing of
the declared memory state; memory states are one level deep, as validation
requires. Indices run from -1 to 2 over ranges of up to two declared and three
actual members.

### The front end

`ModuleLoader` is one frame of the loader per source: `LoadRoot`, `Enter`,
`AlreadyLoaded`, `Refuse`, `Return`. `Namespaces` has `Collect` (own names, the
first import of each), `Round` and `Close` of the export tables, and the lookup of
one path as a stack of app members: `Ask`, `Examine`, `Nest`, `Finish`.
`AppGraph` is the visit (`Enter`, `SkipComplete`, `RefuseCycle`, `RefuseConflict`,
`RefuseMissing`) and the build of the planned units, which find the artifacts of
their dependencies by app name alone. `DeclarationNames` names the declarations of
a unit one by one and then opens one linked artifact after the other (`OpenArtifact`,
`LinkName`, `ImportStates`).

`Scopes` follows one body through three parts of the compiler, as tokens in the
order the binder visits them: the bindings (`BindUse`, `BindLocal`, `OpenBlock`,
`CloseBlock`), the entry's checks (`Check`), the names given in the script, one local
after the other (`NameLocal`), and Silverscript's reading of it, with its refusal of a
binding that hides another (`AllNamed`, `EmitUse`, `EmitLocal`, `EmitBlock`; external).
`WellFormed` says which bodies there are: those the parser produces, in a unit whose
declarations differ in name, and in a contract where a constant with the name of a
field, or a function with that of a helper, is one that was renamed
(`validate_function_namespaces` refuses the others).
Left out: open actors and covenants of clauses; a contract field that a handle may
hide without a word; a constant that keeps the name of a contract's field; clashes
of generated names that are made by joining two with `_`.

### `GenesisBuilder`, `GenesisProof`

One behavior of `GenesisBuilder` is one call of `build` on a context, pass by pass:
`DeclareOutput` / `RefuseOutput` (the first loop over outputs of
`bind_context`), `DeriveIds` (the loop over groups, whose order does not matter
because ids do not read one another), `ResolveOutput` / `FailCallback` (the
second loop over outputs), `MakeUnsigned` / `RefuseInput`
(`unsigned_transaction`), `ResolveSpawn` / `RefuseSpawn` / `NextInput`
(`resolve_context_spawns`). What it builds is a transaction of `Genesis`, so the
same operators judge it. Group names keep their textual structure as sequences of
segments, because ids are stored under a name written back and looked up under
the name given. `Existing` bindings are taken to name the covenant of their
authorizing input, and a plain output to carry a script that is no actor's; a
context is free to lie about either, and consensus or the script then refuses.
Actor lookup in the bundle and actor-type handles are left out: they can only
refuse. Observations and hidden arguments are in `EntryArguments`.

`GenesisProof` has no state, as its code has none: export, composition and
verification are operators on a context that has been built. A package may be
anything that `Altered` makes of an exported one, with artifacts of another build
under the same names among it. An app stands for the artifacts of a bundle, and
equal apps for equal artifact ids.

## 3. Properties and runs

Six runs pass; six show a disagreement between the code and what it says of
itself.

### `core`: transactions

Safety, over every state in which all scripts of a transaction have succeeded:

* `LeaderIntegrity` (Property 1), `InputClosure` (Property 2),
  `ContinuationOwnership` (Property 3), `DelegatePositionIntegrity`
  (Property 4), `AuthorizedOutputIntegrity` (Rule 4). `InputClosure` and
  `AuthorizedOutputIntegrity` compare the script's index arithmetic with a
  reference meaning that has none: the section with its range unrolled.
* `BatchIndependence` (Property 6) goes the other way: the policy does not
  reject what it need not.
* `ClosedDomain` spans transactions: no commit ever brings a foreign script into
  a covenant. It is what lets a singleton app skip a template proof.
* `PrecheckSound`: a transaction the script of an actor accepts passes the
  builder's own count of its inputs, so the builder refuses nothing valid.
* `ImplementsApp` is the refinement.

Six apps. Five run over one covenant with up to three inputs, two continuation
outputs and four live coins (`FewCoins`, `SmallTransactions`). Three inputs are the smallest group with a leader, a delegate and an
intruder, and with a range of two or a range and a suffix; two outputs are the
smallest with a parallel continuation or a route after a range. `PairApp` holds
every shape of independent entry that Rule 6 tells apart; `SweepApp` a ranged
consume and an output with two targets; `TailApp` clauses after a range on both
sides; `SelfApp` is a singleton app that leads itself; `PlainApp` consumes an actor
that has no delegate. The sixth, `TrioApp`, runs over two covenants with up to four
inputs interleaved at will, one output and at most one live coin of each script in
each covenant: each covenant can form its own
leader and delegate pair in the same transaction, and the refinement fails when one
covenant's coordination reads another's inputs.

Bounds: `MaxInputs` and `MaxOutputs` bound the proposed transaction, `MaxCoins`
the live coins of one script in one covenant (a commit that would exceed it is
not taken), `MaxCardinality` is `MAX_ENTRY_RANGE_CARDINALITY` shrunk to 3, and
`MaxMoves` of the abstract app equals `MaxInputs` because a batch has a move
per input.

No fairness is assumed and no liveness is claimed: nothing obliges a spender to
propose or the network to mine. A transaction under validation can always
proceed (deadlock is checked).

### `routing`: needs and journeys

* `NeedsCorrect` and `Terminates`: three actors give every shape of emit cycle
  through, before and after the actor being resolved; two consume edges give one
  that coincides with an emit and one that does not.
* `JourneyEndsExactly`: a planned transition is carried out to its end, at the
  target cut and nowhere else, no step out of order; a refused one cannot be
  reached by any other sequence of opens and packs, which are all tried. Three
  forests: with nested branches, with the two-level shape the planner builds, and
  with single-child chains and an empty branch; every pair of cuts.

Both assume weak fairness of the whole next-state relation: they are loops of a
sequential program that nothing else can stop, so a step that is possible is
taken. The algorithms end, so deadlock is not checked, here and in the runs below.

### `template_plan`: routes, from the planner to the artifact

* `CohortsShareCuts`, `CutsMeanNeeds` and `TransitionsDerivable`: the components the
  traversal finds are those of the graph, families are well-formed, the members of
  a cohort carry one cut, a cut holds what its actor needs and packs what nothing
  reads, and every output's cut can be derived from its source's.
* `FieldsMatchCut`: the generated fields stand for the cut and nothing else.
* `OutputsCarryContext`: what a script writes in the route fields of an output is
  what the artifact fixes for the target, for outputs whose target holds the tables
  of other components as the source does. The rest is the finding of
  `output_scope`.
* `CheckSeparatesBuilds`: a drafted plan passes its own check, and with one part
  of another build passes only when that means the same.

Every emit graph of four actors with at most three edges, and every graph in which
each actor emits one other (so that cycles of four are there), with at most one
consume edge (of one actor where the emits are three or four), all of one state, three and one, or two and two; with selectors that
are too small, repeat, agree, conflict, name gates or stand in two components, over
graphs of at most two edges; parts of another build over graphs of at most two
emit edges or one consume edge. Four actors are the fewest with a family of three beside a gate or
a foreign actor. `MaxEdges`, `MaxInputs`, `MaxSelectorEdges` and `MaxMixedEdges`
are these bounds.

### `template_frames`: the templates outputs are checked against

* `FramesDisjoint` is the partition of `docs/security-invariants/template-frame-identity.md`,
  which the abstraction "a contract's identity is its actor" of the other modules
  rests on. `FalsePositivesCross` bounds the rule's conservatism: it refuses actors
  that share no script only where the fixed bytes of one lie across the whole state
  of the other. `NeverPanics`: no span makes the verifier slice out of bounds.
  Three actors, the fewest for which comparing neighbors misses a pair, over every
  bytecode of up to two bytes of a two-letter alphabet and every offset and length
  up to the largest `usize`, shrunk to 5 so that sums overflow.
* `OutputsCheckedOnce`: an accepted entry checks every declared output exactly once,
  whichever branches it takes. `EntryRefusalJustified` is the other direction: it is
  refused only when some way through the body breaks its declaration.
  `TargetsAreCurrent`: the template a route checks is that of the actor its
  successor denotes when the `become` runs. The bodies are those of `MCEntryRoutes`,
  one question at a time: nested branches with `become` at their ends, ranges,
  spawns in and out of branches, assignments, copies, shadowing.
* `OwnArtifactVerifies`: the compiler's own metadata passes the verification that
  ends a build. One exception is named in the property, `SharedOpenName`: two
  entries observe under one name and bind one open name at handles their authors
  called differently. The recipe's id (`artifact.rs` line 1154) leaves out the
  entry and the handle, the two recipes differ, and the compiler refuses its own
  artifact ("invalid generated artifact"), although `docs/icc-semantics.md` line 256
  scopes open names to their clause. `VerifiedReadsOneWay`: whoever wrote a verified
  artifact, the reader finds for each spawned output one index and for each spawned
  actor one place for its template, and the members of a group divide among the
  clauses in one way.

### `front_end`: from paths to names and states in a script

* `GraphDiscovered`: the sources and edges found are those of the imports, cycles
  and two paths to one file included, and loading ends (weak fairness of the loader's
  steps, for the reason above).
* `NamesMeanSources`: the closed tables and the answers to lookups are what the
  import graph means, defined without rounds; a reference in an app's actor list is
  read in that app's module.
* `RefusalJustified`, `LinkedFromSource`: a refused plan has the cycle, the conflict
  or the missing app reported, and a unit is linked to the artifact of the source
  app its declarations refer to, not of a namesake.
* `NamesAgree`: names tell declarations apart, and a linked type is one type
  however many artifacts know it, with references renamed along.
* `AccessesMeanSource`: reads and writes of expanded, augmented and ranged states
  mean the source values.
* `UsesKeepMeaning`: a use denotes in the script what it does in the source, after
  all renaming.
* `HidingRefused`: a binding that hides another is refused, and nothing else is -
  hidden constants apart, which are the finding of `hidden_constant`.

Bounds: three files with four paths; three modules with up to two imports; four
apps, two of one name; three selected and two linked declarations; bodies of up to
seven tokens over two names, one of which is also a name of the runtime, in every place
a name can come from.

### `building`: spawns, contexts and entries

* `SpawnsComplete` is the claim of the comment on `spawn_prelude`: matching one
  member authenticates the whole group. `SpawnsDistinct` is its last sentence,
  extended to clauses of different inputs. Two inputs, three outputs, two founding
  groups per input: two clauses of one actor need two groups; a clause of two
  members needs a third output to be incomplete, or interleaved with another.
  Transactions follow one another until they have made three coins (`MaxOutpoints`),
  so that spawned coins are spent by later ones that continue their covenant and
  spawn again.
* `BuiltIsAccepted` joins the builder to consensus and to the scripts: ids, states
  computed from ids, and witnesses are right in the transaction as built; early
  refusals are the scripts' own; the `unreachable!` and the `expect` between passes
  are not reached. Every context of at most four outputs over five pairs of inputs,
  with valid and invalid names, authorizers out of range, deferred states that read
  their own or another's group, and two clauses whose groups interleave - which
  takes three outputs, and a fourth to intrude.
* `PackagesTellGroups`: over the same contexts, an exported group's package claims
  the id the group gets in the built transaction and verifies against it at every
  layer. Whatever is made of it - outputs left out, moved, reordered or renamed,
  another outpoint or claim, another build's artifacts - does not verify against an
  id of that transaction unless its scripts, indexes and outpoint are those of the
  group, nor from source or as a bootstrap unless the actors and states are too.
* `ScriptMeansDeclaration`: for some arguments the script accepts a transaction,
  exactly when its members are those the clauses name. `ArgumentsFit`: the script
  binds every name it uses, and the builder's arguments satisfy it. Entries of one
  or two actors that consume (with a range that may be empty), observe, emit and
  spawn by actor, open name, value or selector. An actor that is alone in its app
  and observes its own kind is left to `observed_own_kind` (`OwnKind`).

### Runs that show a disagreement

Each checks one property that a document, comment or test states, and finds a
counterexample; PROJECT.json quotes both sides.

| run | what it shows |
|---|---|
| `namespace_self_reference` | `app A { actor A::X; }`: the lookup of the member begins itself again, before the refusal that is meant for it |
| `output_scope` | an output to an actor of another state that reads a member of an open family copies a template field that the source does not hold |
| `read_scope` | an entry that reads an actor of another family of its own state slices a table it does not hold |
| `observed_own_kind` | an actor alone in its app that observes its own kind reads any covenant's input without a template proof |
| `hidden_constant` | a local hides a constant of its own file, when another file of the build has a local of that name |
| `assigned_enum` | a local of one actor enum is assigned a variant of another; its number is read in the declared enum's table |

One more is in the models without a run of its own: `docs/route-planner.md` line
151 says that transitions are created only for non-self edges, while the code
(`routes.rs` lines 148-153) plans, and needs, the no-op transition of a
self-output; `PlanTransitions` has it.

### Types

`TypeOK` is stated where a proof leans on it: in `CovenantTx`, `RouteNeeds` and
`RoutePlanProofs`, as a part of their proved invariants `IInv`. Elsewhere the declarations
of the variables say what they hold, and a value of another kind would fail the
evaluation of the properties.

### Mutants

Every property has a mutant beside the definition it mutates - a comment names
it - that a plausible mistake in the code would produce and that breaks it.

## 4. Proofs

`CovenantTxProofs` proves, for every set of valid apps, every set of covenants
and every bound: `TypeOK`, `ClosedDomain`, `LeaderIntegrity`, `InputClosure`,
`ContinuationOwnership`, `DelegatePositionIntegrity`,
`AuthorizedOutputIntegrity`, `BatchIndependence` and `PrecheckSound`: with the
refinement below, every property of the run `core`. The assumptions are `MaxCardinalityAssumption` and
`CovenantTxAssumption`: the apps are valid, there are finitely many covenants,
the alien script is no actor.

The inductive invariant is `IInv`: the types, `ClosedDomain`, and `Progress` -
the transaction spends live coins, and the scripts before the cursor have
succeeded. None of the three is inductive alone: `ClosedDomain` survives a
commit only because every script was checked (`Progress`), and the checks say
what they say only because no input of a covenant is alien (`ClosedDomain`).
From it, a state with all scripts passed gives a *validated* transaction, and
the properties are facts about validated transactions:

1. `SectionCovers`: the locations of a section leave no position of a group of
   admissible size unread. `ReadsMatch` turns a script's reads into the
   reference meaning of the section.
2. `CoordinatorFacts` (Rule 5) and `DelegateFacts`: what the leader's and the
   delegate's checks say of their group.
3. `LeaderOfDelegateCoordinates`: the first input of a delegate's group cannot
   be a delegate (it would not be first), nor an independent entry (a leader
   actor's are fixed to a group of one), so it coordinates.
4. `OnlyDelegatesFollow`: beside a coordinated leader an ordinary entry of a
   delegate-capable actor would have to open a continuation, which is the
   leader's, or be guarded, which fails away from position 0; or lead, and the
   leader is first.

`BatchIndependence` needs the other direction too, that a script's reads find
nothing wrong with a section that is matched (`MatchReads`). `PrecheckSound`
compares the bound the builder reads off an artifact with the number of inputs
the script of that entry accepts: the bound is a recursive function over the items
of the section, and `AgreeByInduction` shows that it is the sum the section's
locations come to (`BoundFacts`). The induction is that of a least counterexample
(`LeastNatural`), from the library's well-foundedness of the natural numbers.

The second part of `CovenantTxProofs` proves `ImplementsApp`, that the scripts
implement `CovenantApp`. In a validated transaction some inputs of every covenant are its
*movers* (`Movers`): a coordinated leader alone, or, without one, every input. The
others are what the movers consume, and every continuation is a mover's
(`SomeMove`). The movers, listed in order with what they take and create, are a
batch `CovenantApp` permits (`BatchOfMoves`), and counting its coins by rows gives
what the transaction spends and creates (`BatchTotals`). `Bounded` is added to
`IInv`, for the abstract app caps the length of a batch by the number of inputs of
a transaction.

`TemplateFramesProofs` proves `FramesDisjoint`, `NeverPanics` and
`FalsePositivesCross` from `TemplateFramesAssumption`. `FramesInv` says that the
frames are those of compiled contracts (`FramesExtracted`), that the pairs
before the cursors do not conflict (`PairsCompared`) and that a verdict tells
what was found (`VerdictFound`); the properties alone say nothing before the
verdict. `SharedScriptConflicts` is the argument of the document: two contracts
with a common script have prefixes, and suffixes, of which one is part of the
other. `UncrossedConflictShares` builds the common script of an ambiguous pair.

`RouteNeedsProofs` proves `NeedsCorrect` from `ActorCountAssumption` and
`MaxConsumesAssumption` alone. The invariant `RouteNeeds!IInv` adds to it that
what is stacked or popped is reached (`StackReached`), that the emits of what
was popped are stacked, popped or inside a closure already added
(`ExpandedCovered`), and bounds on the set found so far (`SoFar`). Soundness
needs that reachability is transitive; completeness that the final set of
popped actors, with the closures it brought in, is closed under emits.

`RoutePlanProofs` proves the four properties of `RoutePlan` - `CohortsShareCuts`,
`CutsMeanNeeds`, `FieldsMatchCut` and `TransitionsDerivable` - from
`RoutePlanAssumption` and `ActorCountAssumption`: for every app, any number of actors
and of states, any selectors, and any order in which the app declares its actors. Not
one of the four is inductive, for all of them speak of the finished plan. The invariant
`RoutePlanProofs!IInv` says what each phase has achieved before: the families are made
by components whose selectors agree (`AreFamilies`); components are settled whole, and
the cohorts are the settled ones of two actors or more (`SettledWhole`); what is being
grown lies within one component, and the neighbors of its members are members or queued
(`Growing`); and every published cut is the one its actor is due, or its whole cohort,
whose other members have it too (`Planned`). The argument:

1. A component is the smallest set that no edge of its domain leaves; since edges are
   taken either way, its members have it in common (`SameComponent`), so a set that is
   grown, joined and within a component is one (`ComponentReached`). Two families with a
   common actor are therefore one (`OneFamily`), and the constraints the planner checks
   always hold (`ConstraintsValid`). A family's table lists the prefix of the selectors
   and the other members in the app's order, each once (`TableFacts`).
2. Counting the heads before a head gives every root a path of its own (`PathFacts`,
   `PathsDiffer`), and one path starts with another only where a table's actor starts
   with its family (`ForestFacts`).
3. The actors of a cohort reach one another through its clique, so they need the same
   and all that their cut opens is needed; and whatever an actor creates needs no more
   than it does (`PlanNeeds`). This is what makes a cut one per cohort.
4. `CutHolds` says exactly which nodes a cut has: the actors it opens with the tables
   they are in, the needed actors in no family, and the tables needed and not opened.
   The properties follow: validity, because a table is never open and packed at once;
   the fields, because an actor of a family is in a cohort, and so its own family is
   open (`OwnFamilyOpened`); the transitions, because a node of the target's cut is
   selected by the source, or below a table it has packed, or packs a table it has open
   (`TransitionFound`). `CollectsPack` is recursive over a forest of any depth; the
   planner's has two levels, and there the function exists and has the expected value
   (`PacksChildren`).

From these lemmas `OnlySelectorsReject` follows, which no run states: an app is refused
only for its selectors.

`GenesisTxProofs` proves `SpawnsComplete` and `SpawnsDistinct` from
`GenesisAssumption` and `GenesisTxAssumption`. The properties speak of
transactions whose scripts have only partly run, and say nothing of history; the
invariant `GenesisTx!IInv` adds that the history is sound (`HistoryOK`), that the
transaction spends live coins, each once, that consensus accepts its bindings and
that the witnesses counted have passed. `HistoryOK` is what makes a reconstructed
id a founding: it commits to the outpoint of a live coin, and no live coin carries
such an id, so no output can have it by continuation. A commit keeps that because
the outpoint is spent and new outpoints are above all old ones. From there, the
equation of the script against the equation of consensus gives the same
commitments, so the same length and the same ordered indexes. Two clauses with one
id would have one first index, or two inputs one outpoint.

`GenesisBuilderProofs` proves `BuiltIsAccepted` and `PackagesTellGroups` from
`ContextsAssumption` (and `GenesisAssumption`), whatever the contexts, apps and
altered packages are: an existing binding names a covenant that the coin of its
authorizing input carries, a coin does not carry a covenant it founds itself, and
spawn clauses name actors. The builder takes the first two from its caller without
looking, and they hold of every coin a chain has (`HistoryOK`, above, is why for the
second). TLC evaluates the assumption on the contexts of the run `building`.

The properties speak of a transaction that is built; the invariant
`GenesisBuilderProofs!IInv` says what each pass has done before: while outputs are
declared, the groups list the genesis outputs so far, each in order (`Declaring`,
`Grouped`); then every slot has the id its group derives (`WithIds`); the outputs
built are those of the context with ids and states read (`BuiltSoFar`); and the
witnesses found for the clauses so far are their groups, one after the other
(`Spawning`). That a built transaction is accepted needs a converse: the outputs that
carry an id are the group it was derived from and no others (`GroupIsBound`), because
two slots with one id would have one outpoint and one list of outputs
(`SameIdSameGroup`), and an existing binding cannot name an id that commits to the
coin of its own input. So what a script reconstructs from the witnesses is what the
builder derived (`FoundSucceeds`), and a clause whose group does not fit fails in the
script whatever witnesses it is given (`SpawnRefusalStep`).

`PackagesTellGroups` is proved of any package at all, `Altered` being arbitrary: an
id commits to the outpoint and the ordered scripts (`VerifiedScripts`), a set of
outputs has one ascending list (`OneAscendingList`, by a least counterexample), and a
script of an actor names the actor and the state (`ScriptsTellActors`). The last
needs an app whose artifacts are its own source's (`IsSource`), as the property says.

`FrontEndProofs` proves `LinkedFromSource` and `RefusalJustified` from
`AppGraphAssumption`: programs have finitely many declarations and apps, and what they
refer to is among them. What an app depends on and what is needed are closures,
written as recursive functions on sets; such a function exists, and its value is the
least closed set that holds its argument, by a least counterexample on the number of
elements left out (`ClosureExists`, `ClosureFacts`). In the invariant
`FrontEndProofs!PlanInv` the stack is a path in which each app depends on the next and
every dependency is complete, still to be visited or the next on the path (`Path`);
the complete apps are in order, each after its dependencies (`Ordered`); unless the
visit was refused, a name that was visited has one source, that of a needed app
(`OneSource`); and the units compiled are a prefix of the order, under their own names
(`Linking`). A cycle is then a part of the path; when the path is empty the complete
apps are closed, hence all that is needed (`PlanFacts`); and the names being distinct,
the artifact found by a dependency's name is the one compiled from its source
(`LinkFacts`). That the planner ends is not stated: it is a liveness property.

Its second part proves `NamesAgree` of `DeclarationNames` from `UnitsAssumption`: the
selected declarations are finitely many, closed under reference, the actors of an app
have different names (`app_actor_ids` refuses others), and the artifacts a unit links
are compiled from the sources it is, so that types of one origin refer to the same
declarations everywhere - under names of their own. A generated name exists because a
suffix can only clash with another generated name, and a name for a linked type because
each suffix is a different name (`FirstFree`, from the pigeonhole principle). In
`NamingInv` the names given are one to one (`Naming`); once linking begins they stand
for their declarations, and names added later for no local's (`StandsFor`); the first
types of each artifact have a name that stands for their origin (`Translates`); and what
a state taken from an artifact refers to are the names of what its source refers to
(`StatesMean`). Two artifacts, or an artifact and the sources, then name the same
declarations, hence, names being one to one, the same names (`SameMeaning`,
`KnownAgrees`): the refusals of `import_state_closure` cannot happen to a consistent
build, whatever names the types had.

`ScopesProofs` proves `UsesKeepMeaning` and `HidingRefused` from `TasksWellFormed`:
whatever the bodies, their length, nesting and names, and whatever declarations, fields,
helpers and locals of other files are around them. (The theorems have it as a hypothesis;
TLC evaluates it on the bodies of the run `front_end`.) Both properties speak of the
verdict alone, and what they compare is defined in two ways: the source's meaning by the
tokens before a use, the compiler's by stacks of scopes that are copied, written and
dropped. The invariant `ScopesInv` connects the two at every token:

1. `BindInv` - a scope of the binder, at whatever depth, holds just the bindings of the
   blocks it is in, the latest of each name, over the head's and the fields
   (`ScopeIn`), and the names that select actors are those whose latest binding with a
   type of its own is an actor (`SelectorsIn`). A closed block leaves the scope below as
   it was, because what is bound at a depth stays out of the smaller ones
   (`ScopeStays`, `ScopeBinds`). `BoundInv`: what each use was bound to is one of
   the meanings it has there.
2. `NameInv` - equal names are spelled alike, different ones differently, and none is
   spelled as a declaration, a helper, a field or a name of the runtime is, unless it has
   the name of a constant or a field and keeps it (`SpellingsFit`). That the numbering
   ends is the pigeonhole principle (`FreeNameIs`).
3. `EmitInv` - a scope of the script holds the contract's fields and constants, the
   parameters and the bindings in scope, under their spellings (`ScriptStack`); nothing
   read so far hides another (`HeadClear`, `BodyClear`); and the uses emitted mean what
   they mean in the source.
4. `RefusedInv` - each refusal is for a binding that hides or a use without a meaning.

Two facts carry the proof. Since spellings are one to one, a binding's spelling is in the
script's scope exactly when the source's binding hides one (`LocalRefused`,
`LocalAccepted`); so, in what is accepted, a name has one binding in scope
(`OneBinding`), and reading by spelling finds it (`UseReads`). And a use the binder or the
checks refuse for its kind has no meaning in the source, or is hidden by a local
(`NotSelectable`, `KindRefused`, `EntryRefused`). What is not proved, because it is
false, is `ConstantsNeverHidden`, the finding of `hidden_constant`; this is why
`HidesConstant` is among the reasons of `HidingRefused`.

Model-checked only: `Terminates`, `JourneyEndsExactly` and the eventuality of
`GraphDiscovered` (liveness is out of the prover's reach), and every property of the
modules not named in this section.

## 5. Plan

The modules of the plan are written. What could be proved next of what the runs check,
in this order:

1. The safety part of `GraphDiscovered`: the loader's depth-first visits, whose
   invariant is like that of `PlanInv`. The closure it states is a recursive operator of
   `ModuleLoader`, to be rewritten as the functions of `AppGraph` are.
2. `NamesMeanSources` of `Namespaces`: that the rounds over the export tables reach what
   the import graph means.

`TargetsAreCurrent`, `EntryRefusalJustified` and `OutputsCheckedOnce` follow the
statements of an entry, which are trees: `EntryRoutes` walks them with recursive
operators, and what those compute for every tree is out of the prover's reach.
`OutputsCarryContext`, `CheckSeparatesBuilds`, `ScriptMeansDeclaration`,
`ArgumentsFit`, `AccessesMeanSource` and the properties of `EntryMetadata` compare
finite tables of cases; there the runs say more than a proof would.

### Not modelled

* The lexer, the grammar of the parser and the formatting of types: pure functions
  from text to trees, with no state a property is about.
* The typing of expressions (`model/types.rs`), constant evaluation
  (`model/consts.rs`) and literal indices into ranges: pure and local checks of one
  expression. Their outcome - accepted or not - only narrows what reaches the
  modules here.
* The printing of expressions, statements and the source map
  (`codegen/sil/functions`, parts of `body.rs`): formatting.
* The artifact's JSON schema, ABI comparison and id; the serialized bytes of digests
  (a digest is the record of what it commits to, as collision resistance allows).
* Compute budgets, mass limits, fees, amounts and signing in `argent-runtime`.
* Command line and inspection, the editor extension, the examples.
* Consensus, Silverscript's own compiler and the script engine are external: modelled
  only as far as the code relies on them.
