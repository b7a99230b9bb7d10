---------------------------- MODULE RouteOutputs ----------------------------
(***************************************************************************)
(* What the compiler makes of a route plan in the scripts it generates: the *)
(* generated fields of each actor's state (model/layout.rs), where an       *)
(* output's generated fields come from (model/outputs.rs), which family     *)
(* tables and templates an entry is given (model/witnesses.rs), and what    *)
(* the generated statements compute (codegen/sil/state_boundary.rs and      *)
(* body.rs).  Bytes are sequences of 32-byte words; blake3 is free.         *)
(***************************************************************************)
EXTENDS RoutePlan, SequencesExt

\* A family's id is its state and its representative, which is in one family.
FamilyId(f) == f.rep

FamilyNamed(id) == CHOOSE f \in families : FamilyId(f) = id

HashWord(a) == <<"template", a>>

Blake3(words) == <<"blake3", words>>

TableBytes(f) == [n \in DOMAIN f.table |-> HashWord(f.table[n])]

-----------------------------------------------------------------------------
(* Generated fields.                                                        *)

TemplateField(a) == <<"template", a>>
DigestField(f) == <<"digest", FamilyId(f)>>
TableField(f) == <<"table", FamilyId(f)>>

\* The words a field holds.
FieldSize(field) == IF field[1] = "table" THEN Len(FamilyNamed(field[2]).table) ELSE 1

LeafOrder(S) == LET Precedes(a, b) == Before(ActorPath(a), ActorPath(b)) IN SetToSortSeq(S, Precedes)
BranchOrder(S) == LET Precedes(f, g) == Before(FamilyPath(f), FamilyPath(g)) IN SetToSortSeq(S, Precedes)

\* generated_fields_for_actor: the leaves and the digests of the cut in the order
\* of the forest; then the actor's own component, its table last.
GeneratedFields(a) ==
  LET own       == ComponentFamilies(a)
      component == UNION {f.members : f \in own}
      leaves    == LeafOrder(LeafActors(cuts[a]) \ component)
      branches  == BranchOrder(CutFamilies(cuts[a]) \ own)
      direct(f) == OrderedMembers(f.members \ Items(f.table))
  IN  [n \in DOMAIN leaves |-> TemplateField(leaves[n])]
        \o [n \in DOMAIN branches |-> DigestField(branches[n])]
        \o (IF own = {} THEN <<>>
            ELSE LET f == CHOOSE g \in own : TRUE
                 IN  [n \in DOMAIN direct(f) |-> TemplateField(direct(f)[n])] \o <<TableField(f)>>)

FieldsOf(a) == Items(GeneratedFields(a))

-----------------------------------------------------------------------------
(* Transitions.                                                             *)

\* compiler_route_family_id.
FamilyAt(path) == CHOOSE f \in families : FamilyPath(f) = path

\* output_transition_for_actor: an actor's own successor changes nothing.
OutputTransition(s, t) ==
  IF s = t THEN [open |-> {}, pack |-> {}]
  ELSE LET step == Transition(plan.forest, cuts[s], cuts[t])
       IN  [open |-> {FamilyId(FamilyAt(b)) : b \in step.open},
            pack |-> {FamilyId(FamilyAt(b)) : b \in step.pack}]

\* Mutant of FieldSource: a table is never put together from its templates.
FieldSourceCarriesTables(s, field, transition) ==
  LET f == FamilyNamed(field[2])
  IN  IF field[1] # "digest" \/ field[2] \notin transition.pack THEN [from |-> "carried", parts |-> <<>>]
      ELSE IF f \in ComponentFamilies(s) THEN [from |-> "hashed table", parts |-> <<TableField(f)>>]
           ELSE [from |-> "hashed templates", parts |-> f.table]

\* Where the source finds a generated field of the output's layout.
FieldSource(s, field, transition) ==
  LET f == FamilyNamed(field[2])
      templates == {TemplateField(b) : b \in Items(f.table)}
  IN  CASE field[1] = "template" -> [from |-> "carried", parts |-> <<>>]
        [] field[1] = "table" /\ field \notin FieldsOf(s) /\ templates \subseteq FieldsOf(s) ->
             [from |-> "templates", parts |-> f.table]
        [] field[1] = "digest" /\ field[2] \in transition.pack /\ f \in ComponentFamilies(s) ->
             [from |-> "hashed table", parts |-> <<TableField(f)>>]
        [] field[1] = "digest" /\ field[2] \in transition.pack /\ f \notin ComponentFamilies(s) ->
             [from |-> "hashed templates", parts |-> f.table]
        [] OTHER -> [from |-> "carried", parts |-> <<>>]

\* An output is planned when every family its transition packs has its field.
OutputPlanned(t, transition) ==
  \A id \in transition.pack : DigestField(FamilyNamed(id)) \in FieldsOf(t)

-----------------------------------------------------------------------------
(* Witnesses.  An entry writes the templates of its outputs to others and   *)
(* reads those of its inputs.                                               *)

\* The tables given to an entry that writes `writes': those its outputs open.
OpenedTables(s, writes) == UNION {OutputTransition(s, t).open : t \in writes \ {s}}

\* The table that holds a's template and is open to the entry, or is taken to be
\* the source's own because it is one of its state; else the template's field.
TemplateSource(s, writes, a) ==
  LET tables == {f \in ComponentFamilies(a) :
                   /\ FamilyId(f) \in OpenedTables(s, writes)
                        \/ (f.domain = app.state[s] /\ a \in Items(f.table))
                   /\ a \in Items(f.table)}
  IN  IF tables = {} THEN [from |-> "field", family |-> 0, index |-> 0]
      ELSE LET f == CHOOSE g \in tables : TRUE
           IN  [from |-> "table", family |-> FamilyId(f),
                index |-> CHOOSE n \in DOMAIN f.table : f.table[n] = a]

-----------------------------------------------------------------------------
(* The generated script.                                                    *)

NoBytes == <<"undefined", 0>>

\* What entry_template_prelude defines: the source's fields, the tables given as
\* witnesses, and the templates sliced from a table that either of them names.
Scope(s, fields, tables, writes) ==
  LET named    == [x \in DOMAIN fields \cup {<<"table", id>> : id \in DOMAIN tables} |->
                     IF x \in DOMAIN fields THEN fields[x] ELSE tables[x[2]]]
      sliced   == {a \in writes : TemplateSource(s, writes, a).from = "table"}
      slice(a) == LET src == TemplateSource(s, writes, a)
                      id  == <<"table", src.family>>
                  IN  IF id \in DOMAIN named THEN <<named[id][src.index]>> ELSE <<NoBytes>>
  IN  [x \in DOMAIN named \cup {TemplateField(a) : a \in sliced} |->
         IF x[1] = "template" /\ x[2] \in sliced THEN slice(x[2]) ELSE named[x]]

\* A witness table is accepted when it hashes to the digest the source carries.
TablesAuthenticated(scope, tables) ==
  \A id \in DOMAIN tables :
    <<"digest", id>> \in DOMAIN scope /\ <<Blake3(tables[id])>> = scope[<<"digest", id>>]

Lookup(scope, field) == IF field \in DOMAIN scope THEN scope[field] ELSE <<NoBytes>>

\* plan_generated_fields: the templates concatenated in the order of the table.
Concatenated(scope, actors) ==
  [n \in DOMAIN actors |-> Lookup(scope, TemplateField(actors[n]))[1]]

\* The bytes the script puts in a generated field of the output's state.
Computed(scope, field, source) ==
  CASE source.from = "carried"          -> Lookup(scope, field)
    [] source.from = "templates"        -> Concatenated(scope, source.parts)
    [] source.from = "hashed table"     -> <<Blake3(Lookup(scope, source.parts[1]))>>
    [] source.from = "hashed templates" -> <<Blake3(Concatenated(scope, source.parts))>>
=============================================================================
