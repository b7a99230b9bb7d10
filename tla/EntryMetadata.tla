---------------------------- MODULE EntryMetadata ----------------------------
(***************************************************************************)
(* What an artifact says of the entries of an app: the hidden parameters of *)
(* each and who provides them, its spawns, the cardinality of its clauses,  *)
(* and a registry of recipes that parameters of all entries share by their  *)
(* ids.  The compiler writes it and everyone who reads it verifies it,      *)
(* since it may have come from elsewhere.                                   *)
(*                                                                         *)
(* A unit of an app is an entry of EntryScript, its name, and what its      *)
(* author called its observes and their handles.  A reference to an actor   *)
(* in a clause is the target.  A subject of a parameter is <<"actor", a>>,  *)
(* <<"selector">>, <<"observed", observe, side, handle, reference>> or      *)
(* <<"spawn", spawn, handle, reference>>.  The names and types of           *)
(* parameters, and the subjects of families and of state expansions, are    *)
(* left out.                                                                *)
(***************************************************************************)
EXTENDS EntryScript, Integers

CONSTANTS
  Apps,      \* sequences of units
  MaxRange   \* MAX_ENTRY_RANGE_CARDINALITY

VARIABLES
  app,
  artifact,  \* [entries, recipes], or none yet
  verdict    \* <<"declared">>, <<"written">>, <<"altered">>, then <<"verified" or "rejected", of what>>

vars == <<app, artifact, verdict>>

-----------------------------------------------------------------------------
(* The compiler's artifact.                                                 *)

ObserveName(u, o) == <<u.observe, o>>
HandleName(u, side, n) == <<u.handle, side, n>>

ObservedSubject(u, side, o, n) ==
  <<"observed", ObserveName(u, o), side, HandleName(u, side, n), u.entry.observes[o][side][n]>>
SpawnSubject(c, k, target) == <<"spawn", c, k, target>>

\* A recipe's id says less than the parameter's subject.
Param(subject, purpose, key) == [subject |-> subject, purpose |-> purpose, recipe |-> <<key, purpose>>]
Pair(subject, form, key) == <<Param(subject, <<"prefix", form>>, key), Param(subject, <<"suffix", form>>, key)>>

OpenParams(u, spec) ==
  LET subject == ObservedSubject(u, spec.side, spec.observe, spec.index)
      key == <<"observed", ObserveName(u, spec.observe), spec.side, spec.target[2]>>
  IN  Pair(subject, SideForm(spec), key)
        \o (IF spec.side = "inputs" THEN <<Param(subject, <<"hash">>, key)>> ELSE <<>>)

\* actor_type_source_witness_subject.
SourceSubject(u, w) ==
  IF w.site[1] = "spawned" THEN SpawnSubject(w.site[2], w.site[3], u.entry.spawns[w.site[2]][w.site[3]])
  ELSE ObservedSubject(u, w.site[1], w.site[2], w.site[3])

\* hidden_params_for_entry, in the order of assign_roles.
HiddenParams(u) ==
  LET e         == u.entry
      templates == SelectSeq(Templates(e), LAMBDA a : a # Self)
      open      == ObservedOf(e, "open")
      spawned   == SpawnOutputs(e)
      sources   == ActorTypeSources(e)
  IN  FlattenSeq([n \in DOMAIN templates |->
                    Pair(<<"actor", templates[n]>>, Form(e, templates[n]), <<"actor", templates[n]>>)])
        \o (IF e.variants = <<>> THEN <<>> ELSE Pair(<<"selector">>, "bytes", <<"selector">>))
        \o FlattenSeq([n \in DOMAIN open |-> OpenParams(u, open[n])])
        \o [n \in DOMAIN spawned |->
              Param(SpawnSubject(spawned[n].spawn, spawned[n].index, spawned[n].target), <<"index">>,
                    <<u.name, "spawn", spawned[n].spawn, spawned[n].index>>)]
        \o FlattenSeq([n \in DOMAIN sources |->
              Pair(SourceSubject(u, sources[n]), sources[n].form, <<u.name, "actor_type", sources[n].value>>)])

CardinalityOf(c) == IF Ranged(c) THEN [range |-> TRUE, min |-> c.min, max |-> c.max] ELSE [range |-> FALSE]
Single == [range |-> FALSE]

TargetActors(e, t) == IF t[1] = "selector" THEN Items(e.variants) ELSE {t}

SpawnOf(e, c) ==
  [name |-> c, covenant |-> c,
   outputs |-> [k \in DOMAIN e.spawns[c] |->
                  [handle |-> k, index |-> k, reference |-> e.spawns[c][k], dynamic |-> FALSE, cardinality |-> Single]]]

ObserveOf(u, o) ==
  LET side(s) == [n \in DOMAIN u.entry.observes[o][s] |->
                    [handle |-> HandleName(u, s, n), dynamic |-> u.entry.observes[o][s][n][1] # "actor",
                     cardinality |-> Single]]
  IN  [name |-> ObserveName(u, o), inputs |-> side("inputs"), outputs |-> side("outputs")]

\* entry_artifact, of a leader's entry.
EntryOf(u) ==
  LET e == u.entry
  IN  [kind     |-> "leader",
       params   |-> HiddenParams(u),
       consumes |-> [i \in DOMAIN e.consumes |-> CardinalityOf(e.consumes[i])],
       emits    |-> [j \in DOMAIN e.emits |-> [actors |-> TargetActors(e, e.emits[j]), cardinality |-> Single]],
       observes |-> [o \in DOMAIN e.observes |-> ObserveOf(u, o)],
       spawns   |-> [c \in DOMAIN e.spawns |-> SpawnOf(e, c)]]

\* template_plan_artifact: the first parameter with an id gives its recipe.
Registry(entries) ==
  FoldLeft(LAMBDA known, p : IF \E r \in Items(known) : r.recipe = p.recipe THEN known ELSE Append(known, p),
           <<>>, FlattenSeq([n \in DOMAIN entries |-> entries[n].params]))

ArtifactOf(entries) == [entries |-> entries, recipes |-> Registry(entries)]

-----------------------------------------------------------------------------
(* Verification.                                                            *)

Bytes == {<<"prefix", "bytes">>, <<"suffix", "bytes">>}
Lengths == {<<"prefix", "length">>, <<"suffix", "length">>}

\* The parameters of en of a subject and a purpose in the sets given.
ParamsOf(en, subjects, purposes) ==
  {n \in DOMAIN en.params : en.params[n].subject \in subjects /\ en.params[n].purpose \in purposes}

Subjects(en) == {en.params[n].subject : n \in DOMAIN en.params}
\* Those of observed and spawned actors that a reference names.
SourcesOf(en, reference) == {s \in Subjects(en) : s[1] \in {"observed", "spawn"} /\ Last(s) = reference}

SpawnSites(en) == UNION {{<<c, k>> : k \in DOMAIN en.spawns[c].outputs} : c \in DOMAIN en.spawns}
OutputAt(en, site) == en.spawns[site[1]].outputs[site[2]]
SubjectAt(en, site) == SpawnSubject(en.spawns[site[1]].name, OutputAt(en, site).handle, OutputAt(en, site).reference)

\* index_spawn_outputs.
SpawnsIndexed(en) ==
  /\ \A c, d \in DOMAIN en.spawns : c # d =>
       en.spawns[c].name # en.spawns[d].name /\ en.spawns[c].covenant # en.spawns[d].covenant
  /\ \A c \in DOMAIN en.spawns :
       /\ en.spawns[c].outputs # <<>>
       /\ IsInjective([k \in DOMAIN en.spawns[c].outputs |-> en.spawns[c].outputs[k].handle])
       /\ \A k \in DOMAIN en.spawns[c].outputs : en.spawns[c].outputs[k].index = k /\ ~en.spawns[c].outputs[k].dynamic

\* verify_spawn_output_index_params.
IndexesVerified(en) ==
  \A site \in SpawnSites(en) : Cardinality(ParamsOf(en, {SubjectAt(en, site)}, {<<"index">>})) = 1

\* The first output that refers to an actor provides its template.
FirstSite(en, reference) ==
  CHOOSE site \in {s \in SpawnSites(en) : OutputAt(en, s).reference = reference} :
    \A s \in SpawnSites(en) :
      OutputAt(en, s).reference = reference => site[1] < s[1] \/ (site[1] = s[1] /\ site[2] <= s[2])

ObservedProvider(en, subject) ==
  /\ subject[1] = "observed" /\ subject[3] = "outputs"
  /\ \E o \in DOMAIN en.observes :
       /\ en.observes[o].name = subject[2]
       /\ \E j \in DOMAIN en.observes[o].outputs :
            en.observes[o].outputs[j].handle = subject[4] /\ en.observes[o].outputs[j].dynamic

\* Mutant of Provider: only a spawned output provides.
ProviderSpawned(en, subject, reference) == subject = SubjectAt(en, FirstSite(en, reference))
\* valid_observed_template_provider, or the first output.
Provider(en, subject, reference) ==
  subject = SubjectAt(en, FirstSite(en, reference)) \/ ObservedProvider(en, subject)

\* Mutant of OneProvider: each half is counted by itself.
EachHalfProvided(en, reference) ==
  \A purpose \in Bytes : Cardinality(ParamsOf(en, SourcesOf(en, reference), {purpose})) = 1
OneProvider(en, reference) ==
  /\ EachHalfProvided(en, reference)
  /\ \E s \in SourcesOf(en, reference) : ParamsOf(en, {s}, Bytes) = ParamsOf(en, SourcesOf(en, reference), Bytes)

\* An actor's own pair, of bytes or of lengths.
ActorPair(en, actor) ==
  \E pair \in {Bytes, Lengths} :
    /\ \A purpose \in pair : Cardinality(ParamsOf(en, {actor}, {purpose})) = 1
    /\ ParamsOf(en, {actor}, (Bytes \cup Lengths) \ pair) = {}

\* verify_spawn_template_params.
TemplateVerified(en, reference) ==
  LET fromSources == ParamsOf(en, SourcesOf(en, reference), Bytes)
      ofActor == ParamsOf(en, {reference}, Bytes \cup Lengths)
  IN  CASE ofActor # {} -> fromSources = {} /\ ActorPair(en, reference)
        [] ofActor = {} /\ reference = <<"actor", Self>> -> fromSources = {}
        [] OTHER -> /\ OneProvider(en, reference)
                    /\ \A n \in fromSources : Provider(en, en.params[n].subject, reference)

\* verify_spawn_param_subjects.
SpawnSubjectsDeclared(en) ==
  \A n \in DOMAIN en.params :
    LET p == en.params[n]
    IN  IF p.subject[1] = "spawn"
        THEN p.subject \in {SubjectAt(en, site) : site \in SpawnSites(en)} /\ p.purpose \in Bytes \cup {<<"index">>}
        ELSE p.purpose # <<"index">>

SpawnsVerified(en) ==
  /\ SpawnsIndexed(en) /\ IndexesVerified(en) /\ SpawnSubjectsDeclared(en)
  /\ \A site \in SpawnSites(en) : TemplateVerified(en, OutputAt(en, site).reference)

\* Each parameter's recipe is registered and says of it what the entry says.
RecipesVerified(a) ==
  /\ \A n \in DOMAIN a.entries : \A p \in Items(a.entries[n].params) :
       \E r \in Items(a.recipes) : r = p
  /\ IsInjective([n \in DOMAIN a.recipes |-> a.recipes[n].recipe])

RangeFits(c) == c.range => 0 <= c.min /\ c.min <= c.max /\ c.max <= MaxRange

\* Mutant of OneRange: a range does not count against the next.
AnyRanges(section) == \A n \in DOMAIN section : RangeFits(section[n])
OneRange(section) ==
  /\ \A n \in DOMAIN section : RangeFits(section[n])
  /\ \A n, m \in DOMAIN section : section[n].range /\ section[m].range => n = m

CardinalitiesOf(members) == [n \in DOMAIN members |-> members[n].cardinality]
NoRanges(section) == \A n \in DOMAIN section : ~section[n].range

\* check_cardinality_consistency.
CardinalitiesVerified(en) ==
  /\ IF en.kind = "delegate" THEN NoRanges(en.consumes) ELSE OneRange(en.consumes)
  /\ OneRange(CardinalitiesOf(en.emits))
  /\ \A o \in Items(en.emits) : o.cardinality.range => Cardinality(o.actors) = 1
  /\ \A o \in Items(en.observes) : NoRanges(CardinalitiesOf(o.inputs)) /\ NoRanges(CardinalitiesOf(o.outputs))
  /\ \A s \in Items(en.spawns) : NoRanges(CardinalitiesOf(s.outputs))

Verified(a) ==
  RecipesVerified(a) /\ \A n \in DOMAIN a.entries : SpawnsVerified(a.entries[n]) /\ CardinalitiesVerified(a.entries[n])

-----------------------------------------------------------------------------
(* An artifact that was not written by this compiler: one thing of one entry *)
(* is another, and its registry agrees.                                     *)

DropAt(s, n) == SubSeq(s, 1, n - 1) \o SubSeq(s, n + 1, Len(s))
Renamed(p, subject, purpose) == [subject |-> subject, purpose |-> purpose, recipe |-> <<subject, purpose>>]

Purposes == Bytes \cup Lengths \cup {<<"index">>, <<"hash">>}

\* The sites a parameter could name, for a reference that a spawn has.
SitesNamed(u) ==
  LET e == u.entry
      references == UNION {Items(s) : s \in Items(e.spawns)}
  IN  {<<"observed", ObserveName(u, o), side, HandleName(u, side, n), r>> :
         o \in DOMAIN e.observes, side \in {"inputs", "outputs"}, n \in {1}, r \in references}
        \cup {SpawnSubject(c, k, r) : c \in 1..2, k \in 1..2, r \in references}
        \cup references

OtherParams(u) ==
  LET p == HiddenParams(u)
  IN  {DropAt(p, n) : n \in DOMAIN p} \cup {Append(p, p[n]) : n \in DOMAIN p}
        \cup {[p EXCEPT ![n] = Renamed(p[n], s, q)] :
                n \in DOMAIN p, s \in SitesNamed(u) \cup {p[m].subject : m \in DOMAIN p}, q \in Purposes}

OtherCardinalities == {Single} \cup [range : {TRUE}, min : -1..1, max : 0..(MaxRange + 1)]

OtherSpawns(spawns) ==
  UNION {{[spawns EXCEPT ![c].outputs = <<>>], [spawns EXCEPT ![c].name = 1], [spawns EXCEPT ![c].covenant = 1]}
           \cup UNION {{[spawns EXCEPT ![c].outputs[k].index = 1], [spawns EXCEPT ![c].outputs[k].handle = 1],
                        [spawns EXCEPT ![c].outputs[k].dynamic = TRUE],
                        [spawns EXCEPT ![c].outputs[k].cardinality = [range |-> TRUE, min |-> 1, max |-> 1]]}
                       : k \in DOMAIN spawns[c].outputs} : c \in DOMAIN spawns}

OtherEntries(u) ==
  LET en == EntryOf(u)
  IN  {[en EXCEPT !.params = p] : p \in OtherParams(u)}
        \cup {[en EXCEPT !.spawns = s] : s \in OtherSpawns(en.spawns)}
        \cup {[en EXCEPT !.consumes[i] = c, !.kind = kind] :
                i \in DOMAIN en.consumes, c \in OtherCardinalities, kind \in {"leader", "delegate"}}
        \cup {[en EXCEPT !.emits[j].cardinality = c] : j \in DOMAIN en.emits, c \in OtherCardinalities}

-----------------------------------------------------------------------------

Init == app \in Apps /\ artifact = None /\ verdict = <<"declared">>

Write ==
  /\ verdict = <<"declared">>
  /\ artifact' = ArtifactOf([n \in DOMAIN app |-> EntryOf(app[n])])
  /\ verdict' = <<"written">>
  /\ UNCHANGED app

Alter ==
  /\ verdict = <<"written">> /\ Len(app) = 1
  /\ artifact' \in {ArtifactOf(<<en>>) : en \in OtherEntries(app[1])}
  /\ verdict' = <<"altered">>
  /\ UNCHANGED app

Verify ==
  /\ verdict \in {<<"written">>, <<"altered">>}
  /\ verdict' = <<IF Verified(artifact) THEN "verified" ELSE "rejected", verdict[1]>>
  /\ UNCHANGED <<app, artifact>>

Next == Write \/ Alter \/ Verify

Spec == Init /\ [][Next]_vars

-----------------------------------------------------------------------------
(* Properties.                                                              *)

\* Two entries observe under one name, and bind one open name at handles that
\* their authors called differently.
SharedOpenName ==
  \E n, m \in DOMAIN app : \E o \in DOMAIN app[n].entry.observes, p \in DOMAIN app[m].entry.observes :
    /\ ObserveName(app[n], o) = ObserveName(app[m], p)
    /\ \E i \in DOMAIN app[n].entry.observes[o].inputs, k \in DOMAIN app[m].entry.observes[p].inputs :
         /\ app[n].entry.observes[o].inputs[i] = app[m].entry.observes[p].inputs[k]
         /\ app[n].entry.observes[o].inputs[i][1] = "open"
         /\ HandleName(app[n], "inputs", i) # HandleName(app[m], "inputs", k)

\* The compiler's own artifacts pass the verification it ends with: what one
\* entry shares by a recipe's id with another, or provides once for several
\* clauses, is what the verifier expects.  The one exception is a name that two
\* entries share for different handles.
\* (codegen/artifact.rs, "invalid generated artifact"; docs/icc-semantics.md, open
\* names are scoped to their clause)
OwnArtifactVerifies == verdict = <<"rejected", "written">> => SharedOpenName

Accepting == verdict[1] = "verified"

\* The places that give one half of the template of a reference.
Givers(en, reference, half) ==
  {n \in DOMAIN en.params :
     /\ en.params[n].purpose[1] = half
     /\ en.params[n].subject = reference
          \/ (en.params[n].subject \in SourcesOf(en, reference) /\ en.params[n].purpose[2] = "bytes")}

\* A reader of a verified artifact finds for each spawned output one index, and
\* for each spawned actor a prefix and a suffix from one place that the entry has,
\* whatever wrote the artifact.  Of its own template the script needs none.
\* (verify_entry_spawns: "exactly one index witness", "one shared prefix/suffix
\* witness pair")
VerifiedSpawnsResolve ==
  Accepting =>
    \A n \in DOMAIN artifact.entries :
      LET en == artifact.entries[n]
          places == {SubjectAt(en, site) : site \in SpawnSites(en)}
                      \cup {s \in Subjects(en) : ObservedProvider(en, s)}
      IN  /\ {p.subject : p \in {q \in Items(en.params) : q.purpose = <<"index">>}} =
               {SubjectAt(en, site) : site \in SpawnSites(en)}
          /\ Cardinality({i \in DOMAIN en.params : en.params[i].purpose = <<"index">>}) = Cardinality(SpawnSites(en))
          /\ \A site \in SpawnSites(en) :
               LET r == OutputAt(en, site).reference
                   prefix == Givers(en, r, "prefix")
                   suffix == Givers(en, r, "suffix")
               IN  \/ r = <<"actor", Self>> /\ prefix = {} /\ suffix = {}
                   \/ \E i \in prefix, j \in suffix :
                        /\ prefix = {i} /\ suffix = {j}
                        /\ en.params[i].subject = en.params[j].subject
                        /\ en.params[i].purpose[2] = en.params[j].purpose[2]
                        /\ en.params[i].subject \in places \cup {r}

\* The sizes a section's clauses may have.
Sizes(section) ==
  {f \in [DOMAIN section -> 0..(MaxRange + 1)] :
     \A n \in DOMAIN section : f[n] \in IF section[n].range THEN section[n].min..section[n].max ELSE {1}}

\* The members of a group divide among the clauses of a verified section in one
\* way at most, so that builder and script agree who is in the range.
\* (docs/entry-clause-ranges.md; check_cardinality_consistency)
RangesUnambiguous ==
  Accepting =>
    \A n \in DOMAIN artifact.entries :
      \A section \in {artifact.entries[n].consumes, CardinalitiesOf(artifact.entries[n].emits)} :
        /\ Sizes(section) # {}
        /\ \A f, g \in Sizes(section) : FoldFunction(+, 0, f) = FoldFunction(+, 0, g) => f = g
=============================================================================
