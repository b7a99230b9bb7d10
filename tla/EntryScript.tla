----------------------------- MODULE EntryScript -----------------------------
(***************************************************************************)
(* From the clauses of an entry to the checks of its generated script.     *)
(* model/inputs.rs decides which inputs are read with a template proof,    *)
(* model/witnesses.rs which hidden parameters the script takes and in      *)
(* which form, model/outputs.rs which proof each output is validated with, *)
(* and codegen/sil writes the reads and validations with the names of      *)
(* those parameters (names.rs).  The four must agree.                      *)
(*                                                                         *)
(* An actor stands for its template.  A prefix and its suffix always go    *)
(* together: <<"bytes", s>> names both of subject s, <<"length", s>> both  *)
(* lengths, <<"hash", s>> the hash.                                        *)
(*                                                                         *)
(* An entry e of actor Self is a record: app, the actors of its app in     *)
(* declared order; consumes, each [actor, min, max]; emits, observes (each *)
(* [inputs, outputs]) and spawns, of targets; variants, what its selector  *)
(* may choose.  A target is <<"actor", a>>, <<"open", x>> (a template      *)
(* bound by an observed input), <<"value", v>> (an actor-type value) or    *)
(* <<"selector", s>>.                                                      *)
(***************************************************************************)
EXTENDS Naturals, Sequences, FiniteSets, SequencesExt, Functions

CONSTANTS Self, Linked  \* Linked: the imported actors, in the order of their names

Items(s) == {s[n] : n \in DOMAIN s}

\* The first elements of s of each key.
FirstOfKey(s, Key(_)) ==
  LET first == {n \in DOMAIN s : \A m \in 1..(n - 1) : Key(s[m]) # Key(s[n])}
      order == SetToSortSeq(first, <)
  IN  [n \in DOMAIN order |-> s[order[n]]]

StaticActors(targets) == {t[2] : t \in {u \in Items(targets) : u[1] = "actor"}}

-----------------------------------------------------------------------------
(* Clauses.                                                                 *)

SelfOnly(e, a) == e.app = <<Self>> /\ a = Self

Ranged(c) == c.min # c.max

Observed(e, side) == UNION {StaticActors(o[side]) : o \in Items(e.observes)}

\* validate_observed_open_bindings, and the targets an output may name.
Accepted(e) ==
  \A o \in Items(e.observes) :
    LET opened == {i \in DOMAIN o.inputs : o.inputs[i][1] = "open"}
        used   == {j \in DOMAIN o.outputs : o.outputs[j][1] = "open"}
    IN  /\ \A i, k \in opened : o.inputs[i] = o.inputs[k] => i = k
        /\ {o.inputs[i] : i \in opened} = {o.outputs[j] : j \in used}

-----------------------------------------------------------------------------
(* Uses and input references.                                               *)

\* actor_template_uses and entry_template_uses.
Reads(e) == {a \in {c.actor : c \in Items(e.consumes)} \cup Observed(e, "inputs") : ~SelfOnly(e, a)}

Writes(e) ==
  (StaticActors(e.emits) \cup Observed(e, "outputs") \cup UNION {StaticActors(s) : s \in Items(e.spawns)}) \ {Self}

\* EntryInputPlan::new: the consumed inputs in order, then the observed ones.
\* A range may be empty, and then it proves nothing.
ConsumedReferences(e) ==
  [i \in DOMAIN e.consumes |->
     LET c == e.consumes[i]
     IN  [site |-> <<"consumed", i>>, target |-> <<"actor", c.actor>>,
          template |-> ~SelfOnly(e, c.actor), guaranteed |-> ~Ranged(c) \/ c.min > 0]]

ObservedReferences(e) ==
  FlattenSeq([o \in DOMAIN e.observes |->
     [i \in DOMAIN e.observes[o].inputs |->
        LET t == e.observes[o].inputs[i]
        IN  [site |-> <<"observed input", o, i>>, target |-> t,
             template |-> ~(t[1] = "actor" /\ SelfOnly(e, t[2])), guaranteed |-> TRUE]]])

References(e) == ConsumedReferences(e) \o ObservedReferences(e)

\* Mutant of Authenticated: an optional range is taken for a proof.
AuthenticatedByRange(e, a) ==
  LET refs == References(e)
  IN  {n \in DOMAIN refs : refs[n].template /\ refs[n].target = <<"actor", a>>}

\* The references that prove a's template; first_authenticated_template is the least.
Authenticated(e, a) ==
  LET refs == References(e)
  IN  {n \in DOMAIN refs : refs[n].guaranteed /\ refs[n].template /\ refs[n].target = <<"actor", a>>}

FirstAuthenticated(e, a) ==
  References(e)[CHOOSE n \in Authenticated(e, a) : \A m \in Authenticated(e, a) : n <= m]

-----------------------------------------------------------------------------
(* Hidden parameters.                                                       *)

OptionalInputs(e) == {c.actor : c \in {d \in Items(e.consumes) : Ranged(d) /\ d.min = 0}}

\* Mutant of Form: an actor read from an optional range only is given lengths.
FormByUse(e, a) == IF a \in Writes(e) /\ a \notin Reads(e) THEN "bytes" ELSE "length"

\* TemplateWitnessForm: lengths do where some input holds the template.
Form(e, a) ==
  IF a \in Writes(e) /\ (a \notin Reads(e) \/ (a # Self /\ a \in OptionalInputs(e) /\ Authenticated(e, a) = {}))
  THEN "bytes" ELSE "length"

\* The actors whose templates are parameters: the app's in its order, then the linked.
Templates(e) == SelectSeq(e.app \o Linked, LAMBDA a : a \in Reads(e) \cup Writes(e))

\* One shared witness for each observed template: an output's is the input's of
\* the same text when there is one.
ObservedSpecs(e, o) ==
  LET ins  == e.observes[o].inputs
      outs == e.observes[o].outputs
      spec(side, n, t) == [observe |-> o, side |-> side, index |-> n, target |-> t]
      ofOutput(j) ==
        LET same == {i \in DOMAIN ins : ins[i] = outs[j]}
        IN  IF same = {} THEN spec("outputs", j, outs[j])
            ELSE spec("inputs", CHOOSE i \in same : \A k \in same : i <= k, outs[j])
      rest == SetToSortSeq({i \in DOMAIN ins : ins[i] \notin Items(outs)}, <)
      Key(s) == <<s.side, s.target>>
  IN  FirstOfKey([j \in DOMAIN outs |-> ofOutput(j)] \o [n \in DOMAIN rest |-> spec("inputs", rest[n], ins[rest[n]])],
                 Key)

ObservedOf(e, kind) ==
  FlattenSeq([o \in DOMAIN e.observes |-> SelectSeq(ObservedSpecs(e, o), LAMBDA s : s.target[1] = kind)])

SpawnOutputs(e) ==
  FlattenSeq([c \in DOMAIN e.spawns |-> [k \in DOMAIN e.spawns[c] |-> [spawn |-> c, index |-> k, target |-> e.spawns[c][k]]]])

SideForm(spec) == IF spec.side = "inputs" THEN "length" ELSE "bytes"

\* One witness for each actor-type value and form, and who provides it.
ActorTypeSources(e) ==
  LET observed == ObservedOf(e, "value")
      spawned  == SelectSeq(SpawnOutputs(e), LAMBDA s : s.target[1] = "value")
      Key(w) == <<w.form, w.value>>
  IN  FirstOfKey([n \in DOMAIN observed |->
                    [form |-> SideForm(observed[n]), value |-> observed[n].target[2],
                     site |-> <<observed[n].side, observed[n].observe, observed[n].index>>]]
                 \o [n \in DOMAIN spawned |->
                    [form |-> "bytes", value |-> spawned[n].target[2],
                     site |-> <<"spawned", spawned[n].spawn, spawned[n].index>>]],
                 Key)

OpenSubject(spec) == <<"observe", spec.observe, spec.target[2]>>

\* assign_roles with role_type and witness_role_name: the hidden parameters in order.
Roles(e) ==
  LET templates == SelectSeq(Templates(e), LAMBDA a : a # Self)
      open      == ObservedOf(e, "open")
      sources   == ActorTypeSources(e)
  IN  [n \in DOMAIN templates |-> <<Form(e, templates[n]), <<"actor", templates[n]>>>>]
        \o (IF e.variants = <<>> THEN <<>> ELSE << <<"bytes", <<"selector">>>> >>)
        \o FlattenSeq([n \in DOMAIN open |->
             << <<SideForm(open[n]), OpenSubject(open[n])>> >>
               \o (IF open[n].side = "inputs" THEN << <<"hash", OpenSubject(open[n])>> >> ELSE <<>>)])
        \o [n \in DOMAIN sources |-> <<sources[n].form, <<"value", sources[n].value>>>>]

-----------------------------------------------------------------------------
(* Output proofs.                                                           *)

None == <<"none">>

\* A check of the script: the member at site is that of template, proved by an
\* input at "from" or by the named parameter.
Check(site, by, from, proof, template) ==
  [site |-> site, by |-> by, from |-> from, proof |-> proof, template |-> template]

ActorHash(a) == <<"hash", <<"actor", a>>>>

\* EntryOutputPlan's proof of a static actor, as plan_output_validation names it.
ActorCheck(e, site, a) ==
  CASE a = Self -> Check(site, "own", None, None, None)
    [] a # Self /\ Authenticated(e, a) # {} ->
         Check(site, "input", FirstAuthenticated(e, a).site, <<"length", <<"actor", a>>>>, ActorHash(a))
    [] OTHER -> Check(site, "bytes", None, <<"bytes", <<"actor", a>>>>, ActorHash(a))

\* What names the template of a target in the script.
TemplateName(t) == IF t[1] = "actor" THEN ActorHash(t[2]) ELSE <<t[1], t[2]>>

\* An observed target's witness subject.
Subject(o, t) == IF t[1] = "open" THEN <<"observe", o, t[2]>> ELSE <<t[1], t[2]>>

\* Mutant of ObservedOutputCheck: an output never takes its proof from an input.
ObservedOutputUnbound(e, o, j) ==
  LET t == e.observes[o].outputs[j]
      site == <<"observed output", o, j>>
  IN  IF t[1] = "actor" THEN ActorCheck(e, site, t[2])
      ELSE Check(site, "bytes", None, <<"bytes", Subject(o, t)>>, TemplateName(t))

ObservedOutputCheck(e, o, j) ==
  LET t == e.observes[o].outputs[j]
      site == <<"observed output", o, j>>
      same == {i \in DOMAIN e.observes[o].inputs : e.observes[o].inputs[i] = t}
  IN  CASE t[1] = "actor" -> ActorCheck(e, site, t[2])
        [] t[1] # "actor" /\ same # {} ->
             Check(site, "input", <<"observed input", o, CHOOSE i \in same : \A k \in same : i <= k>>,
                   <<"length", Subject(o, t)>>, TemplateName(t))
        [] OTHER -> Check(site, "bytes", None, <<"bytes", Subject(o, t)>>, TemplateName(t))

SpawnCheck(e, c, k) ==
  LET t == e.spawns[c][k]
      site == <<"spawned", c, k>>
  IN  IF t[1] = "actor" THEN ActorCheck(e, site, t[2])
      ELSE Check(site, "bytes", None, <<"bytes", <<"value", t[2]>>>>, TemplateName(t))

EmitCheck(e, j) ==
  LET t == e.emits[j]
      site == <<"emitted", j>>
  IN  IF t[1] = "selector" THEN Check(site, "bytes", None, <<"bytes", <<"selector">>>>, <<"selector", "chosen">>)
      ELSE ActorCheck(e, site, t[2])

-----------------------------------------------------------------------------
(* The script.                                                              *)

\* plan_entry_input_references: an input read with the lengths of its witness,
\* which are those of the bytes where bytes were asked for.
ReadCheck(e, ref) ==
  LET t == ref.target
      form == IF t[1] = "actor" THEN Form(e, t[2]) ELSE "length"
  IN  IF ~ref.template THEN Check(ref.site, "domain", None, None, None)
      ELSE Check(ref.site, "length", None, <<form, Subject(ref.site[2], t)>>, TemplateName(t))

Script(e) ==
  {ReadCheck(e, ref) : ref \in Items(References(e))}
    \cup {EmitCheck(e, j) : j \in DOMAIN e.emits}
    \cup UNION {{ObservedOutputCheck(e, o, j) : j \in DOMAIN e.observes[o].outputs} : o \in DOMAIN e.observes}
    \cup UNION {{SpawnCheck(e, c, k) : k \in DOMAIN e.spawns[c]} : c \in DOMAIN e.spawns}

\* observed_input_prelude: the open bindings that an output makes variables of.
MaterializedBindings(e) ==
  UNION {{<<o, c.from[3]>> : c \in {ObservedOutputCheck(e, o, j) :
                                      j \in {n \in DOMAIN e.observes[o].outputs : e.observes[o].outputs[n][1] = "open"}}}
         : o \in DOMAIN e.observes}

\* The names a script declares besides its parameters.  The hash of an actor of
\* the app is in the state or in a table, that of a linked actor a constant, and
\* an actor-type value a field or an argument.
Prelude(e) ==
  {ActorHash(a) : a \in Items(Templates(e))}
    \cup {<<"length", <<"actor", a>>>> : a \in Reads(e) \cap {Self}}
    \cup {TemplateName(e.observes[b[1]].inputs[b[2]]) : b \in MaterializedBindings(e)}
    \cup (IF e.variants = <<>> THEN {} ELSE {<<"selector", "chosen">>})

Used(e) == {c.proof : c \in Script(e)} \cup {c.template : c \in {d \in Script(e) : d.template[1] # "value"}}
=============================================================================
