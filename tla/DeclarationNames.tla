-------------------------- MODULE DeclarationNames --------------------------
(***************************************************************************)
(* The names of one build unit.  Its own declarations are named one by one: *)
(* actors keep their names, any other gets a generated one if its name is   *)
(* taken or is that of a local of another file, where it would be captured. *)
(* The types of the apps it links come next: a declaration that is already  *)
(* named, under whatever name in the app it comes from, keeps that name,    *)
(* and what it refers to is renamed with it.                                *)
(***************************************************************************)
EXTENDS Naturals, Sequences, SequencesExt, FiniteSets, FiniteSetsExt, Functions

CONSTANTS Units  \* build units under study, see below

\* unit.decls:  the selected declarations, in (path, kind, index) order:
\*              [base, file, actor, root, refs, locals], with the base names of
\*              its locals and the declarations it refers to;
\* unit.linked: the linked artifacts, in app order; each the sequence of its
\*              types [name, origin, refs], refs being names of the artifact;
\* unit.exported: for each artifact the names of its exported actors' states.
\* An origin is a declaration of the whole source graph; those in the domain of
\* unit.decls are selected.

\* The selected declarations are closed under reference, and actors have names of
\* their own (declaration_closure, app_actor_ids).
ValidDecls(decls) ==
  /\ DOMAIN decls \subseteq Nat /\ IsFiniteSet(DOMAIN decls)
  /\ \A d \in DOMAIN decls : /\ decls[d].refs \subseteq DOMAIN decls /\ IsFiniteSet(decls[d].locals)
                            /\ decls[d].root \in BOOLEAN
  /\ \A d, e \in DOMAIN decls :
       decls[d].actor /\ decls[e].actor /\ decls[d].base = decls[e].base => d = e

\* The names of an artifact's types are its own, and what they refer to are among them.
ValidArtifact(types, exported) ==
  /\ types \in Seq(Range(types))
  /\ \A i, j \in DOMAIN types : types[i].name = types[j].name => i = j
  /\ \A t \in Range(types) :
       /\ t.refs \subseteq {o.name : o \in Range(types)}
       /\ t.name = [base |-> t.name.base, generated |-> t.name.generated, linked |-> t.name.linked]
       /\ t.name.linked \in Seq(Nat)
  /\ exported \subseteq {t.name : t \in Range(types)}

RefOrigins(types, t) == {o.origin : o \in {x \in Range(types) : x.name \in t.refs}}

\* The artifacts are compiled from the sources the unit is (build_app_graph).
OfOneSource(u) ==
  \A a \in DOMAIN u.linked : \A t \in Range(u.linked[a]) :
    /\ t.origin \in DOMAIN u.decls => RefOrigins(u.linked[a], t) = u.decls[t.origin].refs
    /\ \A b \in DOMAIN u.linked : \A s \in Range(u.linked[b]) :
         t.origin = s.origin => RefOrigins(u.linked[a], t) = RefOrigins(u.linked[b], s)

ValidUnit(u) ==
  /\ ValidDecls(u.decls)
  /\ u.linked \in Seq(Range(u.linked))
  /\ \A a \in DOMAIN u.linked : ValidArtifact(u.linked[a], u.exported[a])
  /\ OfOneSource(u)

ASSUME UnitsAssumption == \A u \in Units : ValidUnit(u)

VARIABLES
  unit,    \* never changes
  names,   \* the display names given to selected declarations
  origins, \* what a name stands for, once linking begins
  models,  \* models[a][n]: the name here of what artifact a calls n
  states,  \* the linked types: the names each refers to
  phase    \* "name", "link", "done" or "refused"

namingVars == <<unit, names, origins, models, states, phase>>

Authored(base) == [base |-> base, generated |-> 0, linked |-> <<>>]
Generated(base, k) == [Authored(base) EXCEPT !.generated = k]
LinkedName(name, k) == [name EXCEPT !.linked = <<k>> \o @]

Decls == DOMAIN unit.decls
Actors == {d \in Decls : unit.decls[d].actor}
AuthoredNames == {Authored(unit.decls[d].base) : d \in Decls}
Locals(d) == {Authored(base) : base \in unit.decls[d].locals}

\* The locals of the files a declaration is not declared in.
ForeignLocals(d) == UNION {Locals(o) : o \in {x \in Decls : unit.decls[x].file # unit.decls[d].file}}
ReservedNames == UNION {Locals(o) : o \in Decls}

Extended(f, x, v) == [y \in DOMAIN f \cup {x} |-> IF y = x THEN v ELSE f[y]]

NamingInit ==
  /\ unit \in Units
  /\ names = [a \in Actors |-> Authored(unit.decls[a].base)]
  /\ origins = <<>> /\ models = <<>> /\ states = <<>>
  /\ phase = "name"

\* What the root exports comes first, then the order of the sources.
NextDecl == CHOOSE d \in Decls \ DOMAIN names :
  \A e \in Decls \ DOMAIN names :
    d = e \/ (unit.decls[d].root /\ ~unit.decls[e].root)
          \/ (unit.decls[d].root = unit.decls[e].root /\ d < e)

Occupied == Range(names)
\* A plausible bug, for the mutation runs: locals are not looked at.
TakenIgnoringLocals(d) == Authored(unit.decls[d].base) \in Occupied
Taken(d) == Authored(unit.decls[d].base) \in Occupied \cup ForeignLocals(d)
GeneratedName(d) ==
  LET Free(k) == Generated(unit.decls[d].base, k) \notin
                   Occupied \cup AuthoredNames \cup ForeignLocals(d)
  IN  Generated(unit.decls[d].base,
        CHOOSE k \in 1..(Cardinality(Decls) + 1) : Free(k) /\ \A j \in 1..(k - 1) : ~Free(j))

\* selected_declaration_names, one declaration.
NameDeclaration ==
  /\ phase = "name" /\ Decls # DOMAIN names
  /\ LET d == NextDecl
     IN  names' = Extended(names, d,
           IF Taken(d) THEN GeneratedName(d) ELSE Authored(unit.decls[d].base))
  /\ UNCHANGED <<unit, origins, models, states, phase>>

BeginLinking ==
  /\ phase = "name" /\ Decls = DOMAIN names
  /\ origins' = [name \in Range(names) |-> CHOOSE d \in Decls : names[d] = name]
  /\ phase' = "link"
  /\ UNCHANGED <<unit, names, models, states>>

Named(o) == \E name \in DOMAIN origins : origins[name] = o
NameOf(o) == CHOOSE name \in DOMAIN origins : origins[name] = o

\* The first of name, Argent__linked__1__name, ... that nothing else has.
FreshName(name) ==
  LET taken == DOMAIN origins \cup ReservedNames
      Try(k) == IF k = 0 THEN name ELSE LinkedName(name, k)
  IN  Try(CHOOSE k \in 0..Cardinality(taken) :
            Try(k) \notin taken /\ \A j \in 0..(k - 1) : Try(j) \in taken)

\* A plausible bug, for the mutation runs: a type is known by its name.
ModelNameByName(type) ==
  IF type.name \in DOMAIN origins THEN type.name ELSE FreshName(type.name)

ModelName(type) == IF Named(type.origin) THEN NameOf(type.origin) ELSE FreshName(type.name)

\* The artifact being linked: the last in models, or the one after it.
Artifact == Len(models)
Linked == Cardinality(DOMAIN models[Artifact])
Types(a) == unit.linked[a]

OpenArtifact ==
  /\ phase = "link" /\ Len(states) = Artifact /\ Artifact < Len(unit.linked)
  /\ models' = Append(models, <<>>)
  /\ UNCHANGED <<unit, names, origins, states, phase>>

LinkName ==
  /\ phase = "link" /\ Len(states) < Artifact /\ Linked < Len(Types(Artifact))
  /\ LET type == Types(Artifact)[Linked + 1]
          name == ModelName(type)
     IN  /\ models' = [models EXCEPT ![Artifact] = Extended(@, type.name, name)]
         /\ origins' = IF name \in DOMAIN origins THEN origins ELSE Extended(origins, name, type.origin)
  /\ UNCHANGED <<unit, names, states, phase>>

\* import_state_closure: the types the exported actors' states lead to.
TypeIn(types, n) == CHOOSE type \in Range(types) : type.name = n
ImportedFrom(types, exported) ==
  LET step[S \in SUBSET {type.name : type \in Range(types)}] ==
        LET wider == S \cup UNION {TypeIn(types, n).refs : n \in S}
        IN  IF wider = S THEN S ELSE step[wider]
  IN  step[exported]

TypeNamed(a, n) == TypeIn(Types(a), n)
Imported(a) == ImportedFrom(Types(a), unit.exported[a])

\* What the types of artifact a refer to, in the names given here.
Meaning(a, n) == {models[a][r] : r \in TypeNamed(a, n).refs}

Known(name) ==
  IF \E d \in Decls : names[d] = name
    THEN LET d == CHOOSE e \in Decls : names[e] = name
         IN  {{names[r] : r \in unit.decls[d].refs}}
    ELSE {states[b][name] : b \in {c \in DOMAIN states : name \in DOMAIN states[c]}}

\* A type that is known already must refer to the same names.
ImportStates ==
  /\ phase = "link" /\ Len(states) < Artifact /\ Linked = Len(Types(Artifact))
  /\ IF \A n \in Imported(Artifact) :
          Known(models[Artifact][n]) \subseteq {Meaning(Artifact, n)}
       THEN /\ states' = Append(states,
                 [name \in {models[Artifact][n] : n \in Imported(Artifact)} |->
                    Meaning(Artifact, CHOOSE n \in Imported(Artifact) : models[Artifact][n] = name)])
            /\ UNCHANGED phase
       ELSE phase' = "refused" /\ UNCHANGED states
  /\ UNCHANGED <<unit, names, origins, models>>

Finish ==
  /\ phase = "link" /\ Len(states) = Len(unit.linked)
  /\ phase' = "done"
  /\ UNCHANGED <<unit, names, origins, models, states>>

NamingNext == NameDeclaration \/ BeginLinking \/ OpenArtifact \/ LinkName \/ ImportStates \/ Finish

NamingSpec == NamingInit /\ [][NamingNext]_namingVars

-----------------------------------------------------------------------------
\* A name stands for one declaration and a declaration has one name, across
\* files and linked apps; and no declaration but an actor has the name of a
\* local of another file, whose uses it would capture or be captured by.
NamesOneToOne ==
  /\ \A d, e \in DOMAIN names : names[d] = names[e] => d = e
  /\ \A n, m \in DOMAIN origins : origins[n] = origins[m] => n = m
  /\ \A d \in DOMAIN names \ Actors : names[d] \notin ForeignLocals(d)
  /\ \A n \in DOMAIN origins \ Range(names) : n \notin ReservedNames
  /\ \A a \in DOMAIN models : \A n \in DOMAIN models[a] :
       \E t \in Range(Types(a)) : t.name = n /\ origins[models[a][n]] = t.origin

\* Artifacts compiled from the same sources never disagree, whatever names
\* their types got there, and a linked type refers to the types its source
\* refers to: its references are renamed before they are compared.
LinkedAgree ==
  /\ phase # "refused"
  /\ \A a \in DOMAIN states : \A n \in Imported(a) :
       {origins[m] : m \in states[a][models[a][n]]} =
         {TypeNamed(a, r).origin : r \in TypeNamed(a, n).refs}

\* The names that are given to declarations tell them apart, and an app that links
\* an actor of another gives its states the same fields. (resolve/mod.rs, model/link.rs)
NamesAgree == NamesOneToOne /\ LinkedAgree
=============================================================================
