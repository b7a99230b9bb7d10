---------------------------- MODULE EntryArguments ----------------------------
(***************************************************************************)
(* An entry from its declaration to a spend of it.  The compiler writes    *)
(* the script and the parameters it takes (EntryScript); a transaction is  *)
(* chosen; the runtime resolves what the entry observes and spawns and     *)
(* gives the hidden arguments; the script runs.                            *)
(*                                                                         *)
(* A transaction: consumed (for each consume clause, the members in its    *)
(* range or its one member), emitted, observed (for each clause the        *)
(* covenant's inputs and outputs), spawned, the actor each value holds and *)
(* the variant the selector chose.  A position holds the actor whose       *)
(* template its script is.  The entry is a leader's; delegates and the     *)
(* ranges of outputs are not here.                                         *)
(***************************************************************************)
EXTENDS EntryScript

CONSTANTS Entries,            \* the entries that may be declared
          Transactions(_),    \* the transactions that spend an entry
          Refused             \* what the builder answers when it gives up

VARIABLES entry, tx, args, phase

vars == <<entry, tx, args, phase>>

-----------------------------------------------------------------------------
(* The script run on a transaction with hidden arguments.                   *)

\* The actors at a site; a range has several, one observed twice has one.
Members(t, site) ==
  CASE site[1] = "consumed" -> t.consumed[site[2]]
    [] site[1] = "emitted" -> <<t.emitted[site[2]]>>
    [] site[1] = "observed input" -> <<t.observed[site[2]].inputs[site[3]]>>
    [] site[1] = "observed output" -> <<t.observed[site[2]].outputs[site[3]]>>
    [] site[1] = "spawned" -> <<t.spawned[site[2]][site[3]]>>

\* The input an output takes its template from; in a range, the input at the
\* range's start, whoever is there.
BoundInput(e, t, site) ==
  IF site[1] = "consumed" /\ Ranged(e.consumes[site[2]])
  THEN LET all == FlattenSeq(t.consumed)
       IN  IF site[2] \in DOMAIN all THEN all[site[2]] ELSE Refused
  ELSE Members(t, site)[1]

\* What a name of the script stands for; names of parameters are in given.
Meaning(e, t, given, name) ==
  CASE name \in DOMAIN given -> given[name]
    [] name \notin DOMAIN given /\ name[1] \in {"hash", "length"} /\ name[2][1] = "actor" -> name[2][2]
    [] name[1] = "value" -> t.values[name[2]]
    [] name[1] = "selector" -> e.variants[t.choice]
    [] name[1] = "open" ->
         LET bound == {b \in MaterializedBindings(e) : e.observes[b[1]].inputs[b[2]] = name}
             o == CHOOSE b \in bound : TRUE
         IN  IF bound = {} THEN Refused ELSE given[<<"hash", <<"observe", o[1], name[2]>>>>]
    [] OTHER -> Refused

CheckHolds(e, t, given, c) ==
  LET means(name) == Meaning(e, t, given, name)
      found == Items(Members(t, c.site))
  IN  CASE c.by = "own" -> found = {Self}
        [] c.by = "domain" -> TRUE
        [] c.by \in {"length", "bytes"} -> found \subseteq {means(c.proof)} /\ found \subseteq {means(c.template)}
        [] c.by = "input" ->
             {BoundInput(e, t, c.from), means(c.proof), means(c.template)} = found

CountsHold(e, t) ==
  \A o \in DOMAIN e.observes : \A side \in {"inputs", "outputs"} :
    Len(t.observed[o][side]) = Len(e.observes[o][side])

Accepts(e, t, given) == CountsHold(e, t) /\ \A c \in Script(e) : CheckHolds(e, t, given, c)

-----------------------------------------------------------------------------
(* The builder.                                                             *)

AppOf(e, a) == IF a \in Items(e.app) THEN "app" ELSE "linked"

\* resolve_observation: counts, and one app for all the members.
ObservationResolved(e, t, o) ==
  LET found == Items(t.observed[o].inputs) \cup Items(t.observed[o].outputs)
  IN  /\ \A side \in {"inputs", "outputs"} : Len(t.observed[o][side]) = Len(e.observes[o][side])
      /\ Cardinality({AppOf(e, a) : a \in found}) = 1

\* validate_observed_actor: a named actor is the one found.
ObservationValid(e, t, o) ==
  \A side \in {"inputs", "outputs"} :
    \A n \in DOMAIN e.observes[o][side] :
      LET target == e.observes[o][side][n]
      IN  target[1] = "actor" => t.observed[o][side][n] = target[2]

\* Spawned outputs are of the named actor, or of the one the value holds.
SpawnsResolved(e, t) ==
  \A c \in DOMAIN e.spawns : \A k \in DOMAIN e.spawns[c] :
    LET target == e.spawns[c][k]
    IN  t.spawned[c][k] = IF target[1] = "value" THEN t.values[target[2]] ELSE target[2]

Resolved(e, t) ==
  /\ \A o \in DOMAIN e.observes : ObservationResolved(e, t, o) /\ ObservationValid(e, t, o)
  /\ SpawnsResolved(e, t)

\* Mutant of ArgumentSite: an open binding is looked up among the outputs.
ArgumentSiteByOutput(e, name) ==
  IF name[2][1] = "observe" THEN <<"outputs", name[2][2], 1>>
  ELSE (CHOOSE w \in Items(ActorTypeSources(e)) : w.form = name[1] /\ w.value = name[2][2]).site

\* The observed or spawned actor whose template a parameter takes.
ArgumentSite(e, name) ==
  IF name[2][1] = "observe"
  THEN LET open == CHOOSE s \in Items(ObservedOf(e, "open")) : OpenSubject(s) = name[2]
       IN  <<open.side, open.observe, open.index>>
  ELSE (CHOOSE w \in Items(ActorTypeSources(e)) : w.form = name[1] /\ w.value = name[2][2]).site

\* hidden_template_contract_ref: the actor whose template is given.
Provided(e, t, name) ==
  CASE name[2][1] = "actor" -> name[2][2]
    [] name[2][1] = "selector" -> e.variants[t.choice]
    [] name[2][1] \in {"observe", "value"} ->
         LET site == ArgumentSite(e, name)
         IN  IF site[1] = "spawned" THEN t.spawned[site[2]][site[3]]
             ELSE t.observed[site[2]][site[1]][site[3]]

\* resolve_hidden_args_in_artifact.
HiddenArguments(e, t) == [name \in Items(Roles(e)) |-> Provided(e, t, name)]

-----------------------------------------------------------------------------

Init == entry \in Entries /\ tx = None /\ args = None /\ phase = "declared"

Compile ==
  /\ phase = "declared"
  /\ phase' = IF Accepted(entry) THEN "compiled" ELSE "refused"
  /\ UNCHANGED <<entry, tx, args>>

Fund ==
  /\ phase = "compiled"
  /\ tx' \in Transactions(entry)
  /\ phase' = "funded"
  /\ UNCHANGED <<entry, args>>

Build ==
  /\ phase = "funded"
  /\ args' = IF Resolved(entry, tx) THEN HiddenArguments(entry, tx) ELSE Refused
  /\ phase' = "built"
  /\ UNCHANGED <<entry, tx>>

Next == Compile \/ Fund \/ Build

Spec == Init /\ [][Next]_vars

-----------------------------------------------------------------------------
(* What the declaration means.                                              *)

Meant(e, t, target) ==
  CASE target[1] = "actor" -> target[2]
    [] target[1] = "value" -> t.values[target[2]]
    [] target[1] = "selector" -> e.variants[t.choice]

\* An open name stands for one actor, whichever the first input of that name is.
OpenMeans(e, t, o, target) ==
  t.observed[o].inputs[CHOOSE i \in DOMAIN e.observes[o].inputs : e.observes[o].inputs[i] = target]

AsDeclared(e, t) ==
  /\ CountsHold(e, t)
  /\ \A i \in DOMAIN e.consumes : Items(t.consumed[i]) \subseteq {e.consumes[i].actor}
  /\ \A j \in DOMAIN e.emits : t.emitted[j] = Meant(e, t, e.emits[j])
  /\ \A c \in DOMAIN e.spawns : \A k \in DOMAIN e.spawns[c] : t.spawned[c][k] = Meant(e, t, e.spawns[c][k])
  /\ \A o \in DOMAIN e.observes : \A side \in {"inputs", "outputs"} : \A n \in DOMAIN e.observes[o][side] :
       LET target == e.observes[o][side][n]
       IN  IF target[1] = "open" THEN t.observed[o][side][n] = OpenMeans(e, t, o, target)
           ELSE t.observed[o][side][n] = Meant(e, t, target)

\* Every name the script uses is a parameter of it in that form, or declared by
\* it, and not both: names.rs, witnesses.rs and body.rs agree on them.
NamesBound ==
  phase = "compiled" =>
    LET roles == Roles(entry)
    IN  /\ Used(entry) \ {None} \subseteq Items(roles) \cup Prelude(entry)
        /\ Items(roles) \cap Prelude(entry) = {}
        /\ IsInjective(roles)

\* An actor is a template, and arguments are what a spender likes.
Given(e, t) ==
  LET seen == Items(FlattenSeq(t.consumed)) \cup Items(t.emitted) \cup Items(FlattenSeq(t.spawned))
                \cup UNION {Items(t.observed[o].inputs) \cup Items(t.observed[o].outputs) : o \in DOMAIN t.observed}
  IN  [Items(Roles(e)) -> seen \cup {Self}]

\* A script can be satisfied exactly by a transaction whose members are those
\* the clauses name: a proof taken from an input never proves too little, and
\* none that is missing is asked for.
ScriptMeansDeclaration ==
  phase = "funded" =>
    (AsDeclared(entry, tx) <=> \E given \in Given(entry, tx) : Accepts(entry, tx, given))

\* The builder gives every transaction the clauses allow arguments its script
\* accepts.
BuilderFits ==
  (phase = "built" /\ AsDeclared(entry, tx)) => (args # Refused /\ Accepts(entry, tx, args))

\* Between the compiler's parts and the runtime no name is lost: what the script
\* asks for is what the builder gives.
ArgumentsFit == NamesBound /\ BuilderFits

\* compiler-design.md: "Input template proof occurs before physical input state
\* is trusted."  An observed input of a named actor is that actor's.
ObservedInputsProved ==
  phase = "funded" =>
    \A given \in Given(entry, tx) : Accepts(entry, tx, given) =>
      \A o \in DOMAIN entry.observes : \A n \in DOMAIN entry.observes[o].inputs :
        LET target == entry.observes[o].inputs[n]
        IN  target[1] = "actor" => tx.observed[o].inputs[n] = target[2]
=============================================================================
