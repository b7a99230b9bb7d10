----------------------------- MODULE StateAccess -----------------------------
(***************************************************************************)
(* Authored states, what a contract stores of them, and how its script     *)
(* gets from one to the other.                                             *)
(*                                                                         *)
(* A state has three forms (model/layout.rs): the source value an author   *)
(* writes, its storage, in which an expanded slot is the digest of the     *)
(* packed memory state, and the physical state, in which the fields the    *)
(* compiler generated come before the storage.  codegen/sil lowers every   *)
(* read of a state to names of the physical state, of opened preimages and *)
(* of range caches, and every output to a physical value; the runtime      *)
(* builds the same physical states from source values (argent-runtime).    *)
(*                                                                         *)
(* Decl[s] is [base, fields, slots]: base is the state s expands, s itself *)
(* when it is ordinary; a field is [name, kind, virtual]; slots are the    *)
(* pairs <<field, memory state>> of an expansion.  A target is [owner,     *)
(* source, generated]: an actor, or "open" for any actor of that state.    *)
(* The source value of a slot is <<"memory", value of the memory state>>.  *)
(* Bytes are tokens <<kind, value, position>>, and blake3 is injective.    *)
(***************************************************************************)
EXTENDS Integers, Sequences, FiniteSets, SequencesExt, Functions

CONSTANTS
  Decl,      \* the states
  Width,     \* the packed length of each fixed-width kind
  Accesses,  \* the entries and what they do with a state
  Active     \* the name of the actor that runs the entry

VARIABLES access, verdict

vars == <<access, verdict>>

FieldNames(fields) == {fields[n].name : n \in DOMAIN fields}

-----------------------------------------------------------------------------
(* Declarations.                                                            *)

Expanded(s) == Decl[s].base # s

StorageFields(s) == Decl[Decl[s].base].fields

Slots(s) == {Decl[s].slots[n][1] : n \in DOMAIN Decl[s].slots}

Memory(s, f) == Decl[s].slots[CHOOSE n \in DOMAIN Decl[s].slots : Decl[s].slots[n][1] = f][2]

MemoryFields(s, f) == Decl[Memory(s, f)].fields

\* validate_state_expansions.
DeclAccepted(s) ==
  /\ \A n \in DOMAIN Decl[s].fields : Decl[s].fields[n].virtual => Decl[s].fields[n].kind = "digest"
  /\ Expanded(s) =>
       /\ Decl[s].fields = <<>> /\ Decl[s].slots # <<>> /\ ~Expanded(Decl[s].base)
       /\ Cardinality(Slots(s)) = Len(Decl[s].slots)
       /\ \A x \in Slots(s) :
            /\ \E n \in DOMAIN StorageFields(s) : StorageFields(s)[n].name = x /\ StorageFields(s)[n].virtual
            /\ MemoryFields(s, x) # <<>>
            /\ \A n \in DOMAIN MemoryFields(s, x) : MemoryFields(s, x)[n].kind \in DOMAIN Width

-----------------------------------------------------------------------------
(* Payloads.                                                                *)

Pack(kind, value) == [k \in 1..Width[kind] |-> <<kind, value, k>>]

Packed(fields, value) ==
  FlattenSeq([n \in DOMAIN fields |-> Pack(fields[n].kind, value[fields[n].name])])

Blake3(bytes) == <<"blake3", bytes>>

\* runtime_state_values: what is stored of a source value.
Stored(s, value) ==
  [f \in FieldNames(StorageFields(s)) |->
     IF f \in Slots(s) THEN Blake3(Packed(MemoryFields(s, f), value[f][2])) ELSE value[f]]

\* The digest of a source value: of its storage payload.
PayloadDigest(s, value) == Blake3(Packed(StorageFields(s), Stored(s, value)))

\* Where the n-th field begins in a payload.
Offset(fields, n) == FoldLeft(LAMBDA sum, field : sum + Width[field.kind], 0, SubSeq(fields, 1, n - 1))

Unreadable == <<"unreadable">>

\* authenticated_expansion_prelude: the fields of a preimage, each cut at its offset.
Unpacked(fields, bytes) ==
  [f \in FieldNames(fields) |->
     LET n == CHOOSE m \in DOMAIN fields : fields[m].name = f
         slice == SubSeq(bytes, Offset(fields, n) + 1, Offset(fields, n) + Width[fields[n].kind])
     IN  IF slice # <<>> /\ slice = Pack(fields[n].kind, slice[1][2]) THEN slice[1][2] ELSE Unreadable]

-----------------------------------------------------------------------------
(* Layouts.                                                                 *)

GeneratedField(g) == [id |-> <<"generated", g>>, name |-> g, kind |-> "digest"]

StorageField(s, field) == [id |-> <<"storage", Decl[s].base, field.name>>, name |-> field.name, kind |-> field.kind]

\* Mutant of Layout: the storage comes before the generated fields.
LayoutStorageFirst(t) ==
  [n \in DOMAIN StorageFields(t.source) |-> StorageField(t.source, StorageFields(t.source)[n])]
    \o [n \in DOMAIN t.generated |-> GeneratedField(t.generated[n])]

\* physical_layout.
Layout(t) ==
  [n \in DOMAIN t.generated |-> GeneratedField(t.generated[n])]
    \o [n \in DOMAIN StorageFields(t.source) |-> StorageField(t.source, StorageFields(t.source)[n])]

\* is_sil_compatible_with: the meaning of the fields counts, not their widths.
Compatible(t, u) == Layout(t) = Layout(u)

\* conservative_named_type, and State for the running actor itself.
SilType(t) ==
  CASE t.owner = Active -> <<"State">>
    [] t.owner # Active /\ t.generated # <<>> -> <<"target", t>>
    [] t.owner # Active /\ t.generated = <<>> /\ Expanded(t.source) -> <<"storage", t.source>>
    [] OTHER -> <<"source", t.source>>

\* The Sil type of the source values of s in a contract.
AuthoredType(active, s) ==
  IF s = active.source /\ ~Expanded(s) /\ active.generated = <<>> THEN <<"State">> ELSE <<"source", s>>

\* The fields of a Sil struct, in its order: contract_state_shell, physical_struct
\* and authored_struct.
StructFields(active, type) ==
  CASE type[1] = "State" -> Layout(active)
    [] type[1] = "target" -> Layout(type[2])
    [] OTHER -> [n \in DOMAIN StorageFields(type[2]) |-> StorageField(type[2], StorageFields(type[2])[n])]

\* The value of a generated field is the same in every contract of the app.
Route(g) == <<"route", g>>

\* The physical state of a contract made by the runtime: values in their order.
Physical(t, value) ==
  LET stored == Stored(t.source, value)
      fields == [n \in DOMAIN t.generated |-> <<"digest", Route(t.generated[n])>>]
  IN  fields \o [n \in DOMAIN StorageFields(t.source) |->
                   <<StorageFields(t.source)[n].kind, stored[StorageFields(t.source)[n].name]>>]

\* What a state builtin does with a struct: a value for each field, by position.
Read(fields, physical) ==
  [f \in FieldNames(fields) |->
     LET n == CHOOSE m \in DOMAIN fields : fields[m].name = f
     IN  IF n \in DOMAIN physical /\ fields[n].kind = physical[n][1] THEN physical[n][2] ELSE Unreadable]

Written(fields, struct) == [n \in DOMAIN fields |-> <<fields[n].kind, struct[fields[n].name]>>]

-----------------------------------------------------------------------------
(* Reads of the running contract.  An access is a record [active, self,     *)
(* supplied, other, members, before, after, min, max, expr]: the running    *)
(* actor's target and source value, the memory states its caller supplied   *)
(* the preimages of, the target of the other inputs it reads and their      *)
(* values; before, after, min and max place a range among the inputs of     *)
(* its covenant.                                                            *)

OwnFields(a) == Read(Layout(a.active), Physical(a.active, a.self))

\* state_expansion_preimage_payload: what the runtime gives for a slot.
Preimage(a, f) == Packed(MemoryFields(a.active.source, f), a.supplied[f])

\* Each preimage is required to have the digest that is stored.
PreimagesHold(a) == \A f \in Slots(a.active.source) : Blake3(Preimage(a, f)) = OwnFields(a)[f]

Opening(a, f) == Unpacked(MemoryFields(a.active.source, f), Preimage(a, f))

\* project_field_ast of the active reference: a field, or the opening of a slot.
OwnField(a, f) == IF f \in Slots(a.active.source) THEN <<"memory", Opening(a, f)>> ELSE OwnFields(a)[f]

\* complete_authored_ast of the active reference.
OwnState(a) == [f \in FieldNames(StorageFields(a.active.source)) |-> OwnField(a, f)]

\* authored_payload_digest_ast: of what is stored, opened or not.
OwnDigest(a) == Blake3(Packed(StorageFields(a.active.source), OwnFields(a)))

-----------------------------------------------------------------------------
(* Reads of other inputs.                                                   *)

\* A field of an input read by its template: an expanded one is only a digest.
Available(t, f) == f \notin Slots(t.source)

\* The struct an input is read into, and the source value it holds.
InputFields(a, k) == Read(StructFields(a.active, SilType(a.other)), Physical(a.other, a.members[k]))

InputState(a, k) == Restrict(InputFields(a, k), FieldNames(StorageFields(a.other.source)))

\* authored_state_payload_digest_ast of a value that has no openings left.
ValueDigest(s, value) == Blake3(Packed(StorageFields(s), Stored(s, value)))

\* The covenant's inputs in order: the running one, singletons, a range, singletons.
Group(a) ==
  <<<<"self">>>> \o [n \in 1..a.before |-> <<"before", n>>]
    \o [n \in DOMAIN a.members |-> <<"member", n>>] \o [n \in 1..a.after |-> <<"after", n>>]

\* ranged_current_input: what is left of the group is the range.
Count(a) == Len(Group(a)) - (1 + a.before + a.after)

CountInBounds(a) == a.min <= Count(a) /\ Count(a) <= a.max

\* The inputs that the loop caches, by position in the group.
CachedMember(a, position) == Group(a)[1 + a.before + position + 1][2]

Cache(a) == [n \in 1..Count(a) |-> InputState(a, CachedMember(a, n - 1))]

\* checked_range_index: a literal below the minimum needs no check.
IndexChecked(a, index) == (index[1] = "literal" /\ index[2] < a.min) \/ (0 <= index[2] /\ index[2] < Count(a))

\* Mutant of ItemInput: the range is taken to begin after the running input.
ItemInputFromStart(a, index) == Group(a)[1 + index[2] + 1]

\* The covenant input that an index of the range names.
ItemInput(a, index) == Group(a)[1 + a.before + index[2] + 1]

-----------------------------------------------------------------------------
(* What the compiler refuses, when the script aborts, and what it computes. *)

Whole == {"state", "digest"}

\* The input plan's field uses, the literal indices, and visit_expr's errors.
ReadRefused(a) ==
  LET e == a.expr
  IN  \/ ~DeclAccepted(a.active.source) \/ ~DeclAccepted(a.other.source)
      \/ e[1] \in {"input", "item"} /\ e[2] = "bare"
      \/ e[1] \in {"input", "item"} /\ e[2] \in Whole /\ \E f \in FieldNames(StorageFields(a.other.source)) : ~Available(a.other, f)
      \/ e[1] \in {"input", "item"} /\ e[2] = "field" /\ ~Available(a.other, e[3])
      \/ e[1] = "item" /\ e[4][1] = "literal" /\ ~(0 <= e[4][2] /\ e[4][2] < a.max)

ReadRuns(a) ==
  /\ PreimagesHold(a)
  /\ a.expr[1] \in {"length", "item"} => CountInBounds(a)
  /\ a.expr[1] = "item" => IndexChecked(a, a.expr[4])

OwnValue(a) ==
  LET e == a.expr
  IN  CASE e[2] = "field" -> OwnField(a, e[3])
        [] e[2] = "component" -> Opening(a, e[3])[e[4]]
        [] e[2] = "state" -> OwnState(a)
        [] e[2] = "digest" -> OwnDigest(a)
        [] e[2] = "digest of slot" -> ValueDigest(Memory(a.active.source, e[3]), Opening(a, e[3]))

InputValue(a) ==
  LET e == a.expr
  IN  CASE e[2] = "field" -> InputFields(a, 1)[e[3]]
        [] e[2] = "state" -> InputState(a, 1)
        [] e[2] = "digest" -> Blake3(Packed(StorageFields(a.other.source), InputFields(a, 1)))

ItemValue(a) ==
  LET e == a.expr
      n == e[4][2] + 1
  IN  CASE e[2] = "field" -> Cache(a)[n][e[3]]
        [] e[2] = "state" -> Cache(a)[n]
        [] e[2] = "digest" -> ValueDigest(a.other.source, Cache(a)[n])
        [] e[2] = "input" -> ItemInput(a, e[4])

ReadValue(a) ==
  CASE a.expr[1] = "self" -> OwnValue(a)
    [] a.expr[1] = "input" -> InputValue(a)
    [] a.expr[1] = "item" -> ItemValue(a)
    [] a.expr[1] = "length" -> Count(a)

-----------------------------------------------------------------------------
(* Outputs.  An access is [active, variants, chosen, authored, created,     *)
(* observed, expr]: the targets an output may have and the one it has, the  *)
(* value the entry writes, that of the output in the transaction, and the   *)
(* observed outputs of the written state, each [source, value].             *)

\* canonical_domain_plan.
VariantsRefused(a) ==
  \E n \in DOMAIN a.variants : a.variants[n].source # a.variants[1].source \/ ~Compatible(a.variants[n], a.variants[1])

\* OutputPhysicalTypePlan.
OutputType(a) == IF Compatible(a.variants[1], a.active) THEN <<"State">> ELSE SilType(a.variants[1])

Omitted(a) == FieldNames(StorageFields(a.variants[1].source)) \ DOMAIN a.authored

\* visit_expr of a constructor: the only observed output gives the slots left out.
Constructed(a) ==
  [f \in DOMAIN a.authored \cup Omitted(a) |->
     IF f \in DOMAIN a.authored THEN a.authored[f] ELSE Stored(a.observed[1].source, a.observed[1].value)[f]]

WriteRefused(a) ==
  \/ \E n \in DOMAIN a.variants : ~DeclAccepted(a.variants[n].source)
  \/ VariantsRefused(a)
  \/ \E f \in Omitted(a) :
       \/ Len(a.observed) # 1
       \/ ~\E n \in DOMAIN StorageFields(a.variants[1].source) :
            StorageFields(a.variants[1].source)[n].name = f /\ StorageFields(a.variants[1].source)[n].virtual

\* materialize_authored_ast: digests for slots, planned values for generated
\* fields; the authored struct itself when its type is the output's.
Materialized(a) ==
  LET t == a.variants[1]
      value == Constructed(a)
  IN  IF ~Expanded(t.source) /\ t.generated = <<>> /\ OutputType(a) = AuthoredType(a.active, t.source) THEN value
      ELSE [f \in FieldNames(Layout(t)) |->
              IF f \in Range(t.generated) THEN Route(f)
              ELSE IF f \in Slots(t.source) THEN Blake3(Packed(MemoryFields(t.source, f), value[f][2]))
              ELSE value[f]]

\* validateOutputState of the struct against the output that was made.
Validates(a) ==
  Written(StructFields(a.active, OutputType(a)), Materialized(a)) = Physical(a.chosen, a.created)

-----------------------------------------------------------------------------
Pending == <<"pending">>

Init == access \in Accesses /\ verdict = Pending

Refuse ==
  /\ verdict = Pending
  /\ IF access.expr[1] = "output" THEN WriteRefused(access) ELSE ReadRefused(access)
  /\ verdict' = <<"refused">>
  /\ UNCHANGED access

Evaluate ==
  /\ verdict = Pending /\ access.expr[1] # "output" /\ ~ReadRefused(access)
  /\ verdict' = IF ReadRuns(access) THEN <<"value", ReadValue(access)>> ELSE <<"abort">>
  /\ UNCHANGED access

Validate ==
  /\ verdict = Pending /\ access.expr[1] = "output" /\ ~WriteRefused(access)
  /\ verdict' = IF Validates(access) THEN <<"accepted">> ELSE <<"abort">>
  /\ UNCHANGED access

Next == Refuse \/ Evaluate \/ Validate

Spec == Init /\ [][Next]_vars

-----------------------------------------------------------------------------
(* Properties.                                                              *)

\* What an expression means over the authored states: the contents of the
\* state it names, whatever is stored.
Meaning(a) ==
  LET e == a.expr
      at == IF e[1] = "item" THEN e[4][2] + 1 ELSE 1
      s == IF e[1] = "self" THEN a.active.source ELSE a.other.source
      value == IF e[1] = "self" THEN a.self ELSE a.members[at]
  IN  CASE e[1] = "length" -> Len(a.members)
        [] e[1] # "length" /\ e[2] = "field" -> value[e[3]]
        [] e[1] # "length" /\ e[2] = "component" -> value[e[3]][2][e[4]]
        [] e[1] # "length" /\ e[2] = "state" -> value
        [] e[1] # "length" /\ e[2] = "digest" -> PayloadDigest(s, value)
        [] e[1] # "length" /\ e[2] = "digest of slot" -> PayloadDigest(Memory(s, e[3]), value[e[3]][2])
        [] e[1] # "length" /\ e[2] = "input" -> <<"member", at>>

\* An expression evaluates to what it means, and aborts only when the caller's
\* preimage is not of the state, the range's size is not declared or the index
\* is outside it.  (docs/compiler-design.md, projection and reconstruction)
ReadsMeanSource ==
  LET honest == \A f \in Slots(access.active.source) : access.supplied[f] = access.self[f][2]
      sized == access.expr[1] \notin {"length", "item"} \/ Len(access.members) \in access.min..access.max
      inside == access.expr[1] # "item" \/ access.expr[4][2] \in 0..(Len(access.members) - 1)
  IN  access.expr[1] # "output" =>
        /\ verdict[1] = "value" => honest /\ sized /\ inside /\ verdict[2] = Meaning(access)
        /\ verdict = <<"abort">> => ~honest \/ ~sized \/ ~inside

\* An output is accepted exactly when it was made of the value the entry writes,
\* a slot left out being that of the observed output.
WritesMeanSource ==
  LET made == Stored(access.chosen.source, access.created)
      wrote == access.variants[1].source
      same == \A f \in DOMAIN made :
                made[f] = IF f \notin DOMAIN access.authored THEN Stored(access.observed[1].source, access.observed[1].value)[f]
                          ELSE IF f \in Slots(wrote) THEN PayloadDigest(Memory(wrote, f), access.authored[f][2])
                          ELSE access.authored[f]
  IN  access.expr[1] = "output" =>
        /\ verdict = <<"accepted">> => same
        /\ verdict = <<"abort">> => ~same
=============================================================================
