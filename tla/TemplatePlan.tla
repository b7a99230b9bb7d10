---------------------------- MODULE TemplatePlan ----------------------------
(***************************************************************************)
(* The template plan of an artifact: how the compiler drafts it from the    *)
(* route plan and the compiled templates (codegen/artifact.rs and abi.rs),  *)
(* and how a loaded artifact's plan is checked against its contracts and    *)
(* against itself (check_consistency, crates/argent-artifact).  A plan that *)
(* was put together from two builds is a drafted one with a part changed.   *)
(*                                                                         *)
(* Ids and names are kept as what they are made of; receipts with one id    *)
(* and the same contents are one.  Roles and leaves that no compiler path   *)
(* emits (template roots, nested families) are left out.                    *)
(***************************************************************************)
EXTENDS RouteOutputs

VARIABLES
  template,  \* the plan in hand
  verdict    \* what its check says: "accepted", "refused" or, before it, None

CONSTANTS
  None,
  Variants(_, _)  \* the plans of an app that may be read back in the place of a drafted one

tvars == <<vars, template, verdict>>

Words(a) == <<HashWord(a)>>

-----------------------------------------------------------------------------
(* Drafting.                                                                *)

\* runtime_state_plan_artifact: the generated fields and what they stand for.
RoleOf(field) ==
  IF field[1] = "table" THEN <<"table", FamilyNamed(field[2]).table>> ELSE field

RuntimeStates ==
  {[contract |-> a, source |-> app.state[a],
    roles |-> [n \in DOMAIN GeneratedFields(a) |->
                 [name |-> GeneratedFields(a)[n], role |-> RoleOf(GeneratedFields(a)[n])]]] :
     a \in {b \in Actor : GeneratedFields(b) # <<>>}}

TableId(state, field) == <<state, field>>

FamilyReceipts ==
  {[id |-> FamilyId(f), state |-> f.domain, rep |-> f.rep, actors |-> OrderedMembers(f.members),
    entry |-> OrderedMembers(f.members \ Items(f.table)),
    table |-> TableId(f.domain, TableField(f))] : f \in families}

TableOf(state, role) ==
  [id |-> TableId(state, role.name), state |-> state, field |-> role.name, size |-> Len(role.role[2]),
   entries |-> [n \in DOMAIN role.role[2] |-> [index |-> n, actor |-> role.role[2][n], offset |-> n]]]

\* One table for each id; runtime states that disagree about it are refused.
RouteTables(states) ==
  UNION {{TableOf(s.source, s.roles[n]) : n \in {m \in DOMAIN s.roles : s.roles[m].role[1] = "table"}} :
           s \in states}

NoConflict(tables) == \A t, u \in tables : t.id = u.id => t = u

-----------------------------------------------------------------------------
(* Merkle proofs of the leaves of a table.  An odd node is paired with      *)
(* itself.                                                                  *)

Parent(left, right) == Blake3(<<left, right>>)

NextLayer(layer) ==
  [n \in 1..((Len(layer) + 1) \div 2) |->
     Parent(layer[2 * n - 1], layer[IF 2 * n <= Len(layer) THEN 2 * n ELSE 2 * n - 1])]

Layers(leaves) ==
  LET depth == CHOOSE d \in 0..Len(leaves) :
                 2^d >= Len(leaves) /\ \A e \in 0..(d - 1) : 2^e < Len(leaves)
      layer[d \in 0..depth] == IF d = 0 THEN leaves ELSE NextLayer(layer[d - 1])
  IN  [d \in 1..(depth + 1) |-> layer[d - 1]]

Root(layers) == layers[Len(layers)][1]

\* The siblings on the path from a leaf to the root.
MerkleProof(layers, leaf) ==
  [d \in 1..(Len(layers) - 1) |->
     LET node == (leaf - 1) \div 2^(d - 1)
     IN  IF node % 2 = 0
           THEN [side |-> "right", hash |-> layers[d][IF node + 2 <= Len(layers[d]) THEN node + 2 ELSE node + 1]]
           ELSE [side |-> "left", hash |-> layers[d][node]]]

\* route_template_merkle_proof_root.
ProofRoot(leaf, steps) ==
  LET at[n \in 0..Len(steps)] ==
        IF n = 0 THEN leaf
        ELSE IF steps[n].side = "left" THEN Parent(steps[n].hash, at[n - 1])
             ELSE Parent(at[n - 1], steps[n].hash)
  IN  at[Len(steps)]

\* The receipts' hashes, by actor.
HashIn(receipts, a) == (CHOOSE r \in receipts : r.actor = a).hash

LeafHashes(receipts, table) ==
  [n \in DOMAIN table.entries |-> HashIn(receipts, table.entries[n].actor)]

ProofOf(receipts, table) ==
  LET layers == Layers(LeafHashes(receipts, table))
  IN  [id |-> table.id, table |-> table.id, state |-> table.state, field |-> table.field,
       root |-> Root(layers),
       leaves |-> [n \in DOMAIN table.entries |->
         [index |-> table.entries[n].index, actor |-> table.entries[n].actor,
          hash |-> LeafHashes(receipts, table)[n], steps |-> MerkleProof(layers, n)]]]

-----------------------------------------------------------------------------
(* Actor-type handles: the compiled template with the generated fields      *)
(* fixed in its prefix.                                                     *)

\* fixed_runtime_context_value; a plan without the receipts it names has none.
Known(p, actors) == \A n \in DOMAIN actors : \E r \in p.receipts : r.actor = actors[n]

HashesIn(p, actors) == [n \in DOMAIN actors |-> HashIn(p.receipts, actors[n])]

FixedValue(p, role) ==
  CASE role[1] = "template" -> HashesIn(p, <<role[2]>>)
    [] role[1] = "table"    -> HashesIn(p, role[2])
    [] role[1] = "digest"   ->
         LET family == CHOOSE f \in p.families : f.id = role[2]
             table  == CHOOSE t \in p.tables : t.id = family.table
         IN  <<Blake3(LeafHashes(p.receipts, table))>>

FixedValueKnown(p, role) ==
  CASE role[1] = "template" -> Known(p, <<role[2]>>)
    [] role[1] = "table"    -> Known(p, role[2])
    [] role[1] = "digest"   ->
         \E f \in p.families, t \in p.tables :
           f.id = role[2] /\ t.id = f.table /\ Known(p, [n \in DOMAIN t.entries |-> t.entries[n].actor])

RolesIn(p, a) ==
  IF \E s \in p.states : s.contract = a THEN (CHOOSE s \in p.states : s.contract = a).roles ELSE <<>>

HandleHash(base, context) == IF context = <<>> THEN HashWord(base) ELSE <<"handle", base, context>>

\* actor_type_handle_artifact.
HandleOf(p, a) ==
  LET roles   == RolesIn(p, a)
      context == [n \in DOMAIN roles |-> FixedValue(p, roles[n].role)]
  IN  [state |-> app.state[a], fields |-> [n \in DOMAIN roles |-> roles[n].name],
       base |-> a, context |-> context, hash |-> HandleHash(a, context)]

\* TemplatePlanDraft::new and template_plan_artifact.
Drafted ==
  LET receipts == {[id |-> a, actor |-> a, contract |-> a, hash |-> HashWord(a)] : a \in Actor}
      tables   == RouteTables(RuntimeStates)
      draft    == [receipts |-> receipts, states |-> RuntimeStates, tables |-> tables,
                   families |-> FamilyReceipts, proofs |-> {ProofOf(receipts, t) : t \in tables}]
  IN  [draft EXCEPT !.receipts =
         {[id |-> r.id, actor |-> r.actor, contract |-> r.contract, hash |-> r.hash,
           handle |-> HandleOf(draft, r.actor)] : r \in receipts}]

-----------------------------------------------------------------------------
(* check_consistency, section by section.  Each relies on those before it.  *)

OneForEachId(S) == \A x, y \in S : x.id = y.id => x = y

DistinctItems(s) == Cardinality(Items(s)) = Len(s)

ReceiptsConsistent(p) ==
  /\ OneForEachId(p.receipts)
  /\ \A r \in p.receipts : r.contract \in Actor /\ r.actor = r.contract /\ r.hash = HashWord(r.contract)
  /\ \A a \in Actor : \E r \in p.receipts : r.id = a /\ r.actor = a
  /\ \A r \in p.receipts : r.id \in Actor

FamiliesConsistent(p) ==
  /\ OneForEachId(p.families)
  /\ \A f \in p.families :
       /\ Len(f.actors) >= 2 /\ DistinctItems(f.actors)
       /\ f.rep \in Items(f.actors)
       /\ DistinctItems(f.entry) /\ Items(f.entry) \subseteq Items(f.actors)
       /\ \A a \in Items(f.actors) : a \in Actor /\ app.state[a] = f.state

StatesConsistent(p) ==
  /\ \A s, t \in p.states : s.contract = t.contract => s = t
  /\ \A s \in p.states :
       /\ s.contract \in Actor /\ s.source = app.state[s.contract]
       /\ \A m, n \in DOMAIN s.roles : s.roles[m].name = s.roles[n].name => m = n
       /\ \A n \in DOMAIN s.roles : s.roles[n].name \in FieldsOf(s.contract)

TablesConsistent(p) ==
  /\ OneForEachId(p.tables)
  /\ \A t \in p.tables :
       /\ t.size = Len(t.entries)
       /\ \A n \in DOMAIN t.entries :
            /\ t.entries[n].index = n /\ t.entries[n].offset = n
            /\ \E r \in p.receipts : r.id = t.entries[n].actor

\* Every role has its table or its family, and a field of its size.
RolesBound(p) ==
  /\ \A s \in p.states : \A n \in DOMAIN s.roles :
       LET name == s.roles[n].name
           role == s.roles[n].role
       IN  CASE role[1] = "template" -> FieldSize(name) = 1
             [] role[1] = "digest"   -> (\E f \in p.families : f.id = role[2]) /\ FieldSize(name) = 1
             [] role[1] = "table"    ->
                  /\ FieldSize(name) = Len(role[2])
                  /\ \E t \in p.tables :
                       /\ t.id = TableId(s.source, name)
                       /\ t.state = s.source /\ t.field = name /\ t.size = Len(role[2])
                       /\ [m \in DOMAIN t.entries |-> t.entries[m].actor] = role[2]
  /\ \A t \in p.tables : \E s \in p.states : \E n \in DOMAIN s.roles :
       s.roles[n].role[1] = "table" /\ t.id = TableId(s.source, s.roles[n].name)

\* Mutant of ProofVerified: the steps need only lead to the root.
ProofLeadsToRoot(p, proof, t) ==
  LET layers == Layers(LeafHashes(p.receipts, t))
  IN  /\ proof.id = TableId(t.state, t.field)
      /\ proof.state = t.state /\ proof.field = t.field
      /\ Len(proof.leaves) = Len(t.entries)
      /\ proof.root = Root(layers)
      /\ \A n \in DOMAIN proof.leaves :
           LET leaf == proof.leaves[n]
           IN  /\ leaf.index = t.entries[n].index /\ leaf.actor = t.entries[n].actor
               /\ leaf.hash = LeafHashes(p.receipts, t)[n]
               /\ ProofRoot(leaf.hash, leaf.steps) = proof.root

\* verify_route_template_proof.
ProofVerified(p, proof, t) ==
  LET layers == Layers(LeafHashes(p.receipts, t))
  IN  /\ proof.id = TableId(t.state, t.field)
      /\ proof.state = t.state /\ proof.field = t.field
      /\ Len(proof.leaves) = Len(t.entries)
      /\ proof.root = Root(layers)
      /\ \A n \in DOMAIN proof.leaves :
           LET leaf == proof.leaves[n]
           IN  /\ leaf.index = t.entries[n].index /\ leaf.actor = t.entries[n].actor
               /\ leaf.hash = LeafHashes(p.receipts, t)[n]
               /\ leaf.steps = MerkleProof(layers, n)
               /\ ProofRoot(leaf.hash, leaf.steps) = proof.root

ProofsConsistent(p) ==
  /\ OneForEachId(p.proofs)
  /\ \A proof \in p.proofs : \E t \in p.tables : t.id = proof.table /\ ProofVerified(p, proof, t)
  /\ \A t \in p.tables : \E proof \in p.proofs : proof.id = TableId(t.state, t.field)

\* A family's table holds exactly its actors that are not entered directly.
FamilyTablesConsistent(p) ==
  \A f \in p.families :
    \E t \in p.tables :
      LET listed == {t.entries[n].actor : n \in DOMAIN t.entries}
      IN  /\ t.id = f.table /\ t.state = f.state
          /\ listed = Items(f.actors) \ Items(f.entry)
          /\ Len(t.entries) = Cardinality(listed)

\* verify_actor_type_handle.
HandleVerified(p, r) ==
  LET roles  == RolesIn(p, r.actor)
      fields == GeneratedFields(r.actor)
      handle == r.handle
  IN  /\ handle.state = app.state[r.actor]
      /\ handle.fields = [n \in DOMAIN roles |-> roles[n].name]
      /\ handle.fields = fields
      /\ handle.base = r.contract
      /\ handle.hash = HandleHash(handle.base, handle.context)
      /\ Len(handle.context) = Len(fields)
      /\ \A n \in DOMAIN fields :
           /\ Len(handle.context[n]) = FieldSize(fields[n])
           /\ FixedValueKnown(p, roles[n].role)
           /\ handle.context[n] = FixedValue(p, roles[n].role)

Consistent(p) ==
  /\ ReceiptsConsistent(p) /\ FamiliesConsistent(p) /\ StatesConsistent(p)
  /\ TablesConsistent(p) /\ RolesBound(p) /\ ProofsConsistent(p) /\ FamilyTablesConsistent(p)
  /\ \A r \in p.receipts : HandleVerified(p, r)

-----------------------------------------------------------------------------
(* The life of a plan: drafted with the artifact, perhaps read back from    *)
(* another build, and checked.                                              *)

TInit == Init /\ template = None /\ verdict = None

RoutePlanning == Next /\ UNCHANGED <<template, verdict>>

Draft ==
  /\ phase = "done" /\ template = None
  /\ NoConflict(RouteTables(RuntimeStates))
  /\ template' = Drafted
  /\ UNCHANGED <<vars, verdict>>

\* The plan beside the contracts is not the one drafted with them.
ReadBack ==
  /\ verdict = None /\ template # None /\ template = Drafted
  /\ template' \in Variants(app, template) \ {template}
  /\ UNCHANGED <<vars, verdict>>

Check ==
  /\ verdict = None /\ template # None
  /\ verdict' = IF Consistent(template) THEN "accepted" ELSE "refused"
  /\ UNCHANGED <<vars, template>>

TNext == RoutePlanning \/ Draft \/ ReadBack \/ Check

TSpec == TInit /\ [][TNext]_tvars

-----------------------------------------------------------------------------
(* Properties.                                                              *)

\* What the runtime gives an entry for the digests it opens:
\* route_family_table_bytes_in_artifact.
WitnessTables(p, ids) ==
  [id \in ids |->
     LET family == CHOOSE f \in p.families : f.id = id
     IN  LeafHashes(p.receipts, CHOOSE t \in p.tables : t.id = family.table)]

\* The generated fields of an actor's state, as its handle fixes them.
StateOf(p, a) ==
  LET handle == (CHOOSE r \in p.receipts : r.id = a).handle
  IN  [x \in Items(handle.fields) |->
         handle.context[CHOOSE n \in DOMAIN handle.fields : handle.fields[n] = x]]

\* One output of s, to t: the script accepts the tables it is given, and puts in
\* the output's state what the compiler fixed for t.
OutputCarriesContext(p, s, t) ==
  LET step   == OutputTransition(s, t)
      tables == WitnessTables(p, OpenedTables(s, {t}))
      scope  == Scope(s, StateOf(p, s), tables, {t} \ {s})
  IN  /\ OutputPlanned(t, step)
      /\ TablesAuthenticated(StateOf(p, s), tables)
      /\ \A x \in FieldsOf(t) :
           Computed(scope, x, FieldSource(s, x, step)) = StateOf(p, t)[x]
      /\ s # t => Lookup(scope, TemplateField(t)) = Words(t)

\* t holds the tables of other components open only as s does, if at all.
OpenedAlike(s, t) ==
  \A f \in families \ ComponentFamilies(t) :
    \A b \in Items(f.table) : TemplateField(b) \in FieldsOf(t) => TemplateField(b) \in FieldsOf(s)

\* What s writes and what the compiler drafts for t were planned apart: by the cut
\* transition of the pair, and by t's own cut.  They agree, byte for byte, on the
\* outputs of every app, and the outputs a selector chooses among share one plan.
OutputsCarryContext ==
  phase = "done" /\ template # None /\ template = Drafted =>
    /\ \A st \in OutputPairs :
         OpenedAlike(st[1], st[2]) => OutputCarriesContext(template, st[1], st[2])
    /\ \A n \in DOMAIN app.selectors :
         LET sel == app.selectors[n]
             others == {v \in Items(sel.variants) \ {sel.source} : <<sel.source, v>> \in OutputPairs}
         IN  \A v, w \in others : OutputTransition(sel.source, v) = OutputTransition(sel.source, w)

\* docs/route-planner.md: "Every real route transition is derivable from its source
\* cut" and "A direct consume can also make an actor hold an open foreign family as
\* separate templates": the script of the source has the templates such an output
\* carries.
OpenFamiliesReachOutputs ==
  phase = "done" /\ template # None /\ template = Drafted =>
    \A st \in OutputPairs : OutputCarriesContext(template, st[1], st[2])

\* The parts of a plan that anything is derived from: of the families, those a
\* digest names.  A representative only names its family, and the order in which a
\* family lists its actors is not used.
Meaning(p) ==
  [receipts |-> p.receipts, states |-> p.states, tables |-> p.tables, proofs |-> p.proofs,
   families |->
     {[id |-> f.id, state |-> f.state, table |-> f.table,
       actors |-> Items(f.actors), entry |-> Items(f.entry)] :
        f \in {g \in p.families : \E s \in p.states : \E n \in DOMAIN s.roles :
                 s.roles[n].role[1] = "digest" /\ s.roles[n].role[2] = g.id}}]

\* The plan a build drafts passes its own check, and a plan with one part of
\* another build passes only when it means the same: no receipt, role, table,
\* proof step or fixed context value can be exchanged unnoticed.
CheckSeparatesBuilds ==
  /\ phase = "done" => NoConflict(RouteTables(RuntimeStates))
  /\ verdict = "refused" => template # Drafted
  /\ verdict = "accepted" => Meaning(template) = Meaning(Drafted)

\* docs/route-planner.md: "A direct consume can also make an actor hold an open
\* foreign family as separate templates": what an entry reads is found where the
\* actor holds it.
TemplatesReadWhereHeld ==
  phase = "done" =>
    \A s \in Actor : \A a \in Consumes[s] :
      LET found == TemplateSource(s, {}, a)
      IN  IF found.from = "field" THEN TemplateField(a) \in FieldsOf(s)
          ELSE TableField(FamilyNamed(found.family)) \in FieldsOf(s)
=============================================================================
