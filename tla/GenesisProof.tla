----------------------------- MODULE GenesisProof -----------------------------
(***************************************************************************)
(* What a covenant was founded with, told to somebody who knows its id.    *)
(*                                                                         *)
(* A genesis group is exported from the context it is launched from, and   *)
(* composed to a package that claims the covenant id.  The package, or the *)
(* exported bootstrap itself, is verified later, by others, against an id   *)
(* that comes from the chain: the scripts are rebuilt from what is told,    *)
(* and the id from the scripts.  Nothing is kept between the operations;    *)
(* they are operators on the context of GenesisBuilder.                     *)
(*                                                                         *)
(* An app is [name, actors]: actors gives the contract of each of its actor *)
(* names.  It stands for the artifacts of a bundle, and equality for that   *)
(* of their ids.  A package is [layer, app, outpoint, claim, outputs].  At  *)
(* the layers "argent" and "sil" an output is [index, actor, state]; what   *)
(* the first derives beyond the second, physical states, is a function of   *)
(* the same three (StateAccess).  At layer "consensus" it is an index with  *)
(* its script.                                                             *)
(***************************************************************************)
EXTENDS GenesisBuilder

CONSTANTS
  Apps,          \* the apps a package may carry
  Altered(_, _)  \* what may be made of a package, with claims to ids of the chain

-----------------------------------------------------------------------------
(* ag.rs: from_context, compose.                                            *)

\* Mutant of InGroup: a group is known by its name alone.
NamedGroupOnly(o, auth, path) == IsGenesis(o) /\ ctx.outputs[o].path = path

InGroup(o, auth, path) ==
  IsGenesis(o) /\ ctx.outputs[o].auth = auth /\ ctx.outputs[o].path = path

\* The members of a group, in output order.
Members(auth, path) ==
  LET group == {o \in DOMAIN ctx.outputs : InGroup(o, auth, path)}
  IN  CHOOSE w \in [1..Cardinality(group) -> group] : Ascending(w)

\* Refused: an input that is not there, a group that is empty, a raw script, an
\* actor of another app, a state that is not known yet.
Exportable(app, auth, path) ==
  /\ auth \in DOMAIN ctx.inputs
  /\ Members(auth, path) # <<>>
  /\ \A o \in DOMAIN ctx.outputs : InGroup(o, auth, path) =>
       ctx.outputs[o].owner \in DOMAIN app.actors /\ ~IsDeferred(o)

Export(app, auth, path) ==
  LET members == Members(auth, path)
  IN  [app |-> app.name, outpoint |-> ctx.inputs[auth].coin.outpoint,
       outputs |-> [j \in DOMAIN members |->
                      [index |-> members[j], actor |-> ctx.outputs[members[j]].owner,
                       state |-> Static]]]

\* materialize_outputs, of ag.rs and of sil.rs.
Materializes(app, outputs) == \A j \in DOMAIN outputs : outputs[j].actor \in DOMAIN app.actors

Materialized(app, outputs) ==
  [j \in DOMAIN outputs |->
     <<outputs[j].index,
       [p2sh |-> TRUE, redeem |-> [actor |-> app.actors[outputs[j].actor], state |-> outputs[j].state]]>>]

\* check_output_order, before an id is computed.
InOrder(preimage) ==
  /\ preimage # <<>>
  /\ \A j \in 1..(Len(preimage) - 1) : preimage[j][1] < preimage[j + 1][1]

Composable(app, bootstrap) ==
  /\ bootstrap.app = app.name
  /\ Materializes(app, bootstrap.outputs)
  /\ InOrder(Materialized(app, bootstrap.outputs))

Compose(app, bootstrap) ==
  [layer |-> "argent", app |-> app, outpoint |-> bootstrap.outpoint,
   claim |-> CovenantId(bootstrap.outpoint, Materialized(app, bootstrap.outputs)),
   outputs |-> bootstrap.outputs]

\* The package of the same or a lower layer: the claim is kept, not computed again.
\* There is none at the lowest if the scripts cannot be rebuilt.
Lowered(p, layer) ==
  [p EXCEPT !.layer = layer,
            !.outputs = IF layer = "consensus" THEN Materialized(p.app, @) ELSE @]

Layers(p) ==
  {"argent", "sil"} \cup (IF Materializes(p.app, p.outputs) THEN {"consensus"} ELSE {})

-----------------------------------------------------------------------------
(* package.rs, preimage.rs and the command line's two ways to verify.       *)

Preimage(p) == IF p.layer = "consensus" THEN p.outputs ELSE Materialized(p.app, p.outputs)

IsConsistent(p) ==
  /\ p.layer # "consensus" => Materializes(p.app, p.outputs)
  /\ InOrder(Preimage(p))
  /\ p.claim = CovenantId(p.outpoint, Preimage(p))

Verify(p, expected) == IsConsistent(p) /\ p.claim = expected

VerifyArgent(p, expected) == p.layer = "argent" /\ Verify(p, expected)

\* With --source, the artifacts are those the source compiles to.
VerifyFromSource(app, p, expected) == VerifyArgent(p, expected) /\ p.app = app

VerifyBootstrap(app, bootstrap, expected) ==
  Composable(app, bootstrap) /\ Verify(Compose(app, bootstrap), expected)

-----------------------------------------------------------------------------
(* Properties.                                                             *)

Slots == {SlotOf(o) : o \in {q \in DOMAIN ctx.outputs : IsGenesis(q)}}

\* The covenants founded with it.
Chain == {ids[s] : s \in DOMAIN ids}

\* The group of a slot in the finished transaction, and its outputs as their
\* context authored them.
Group(s) == BindingGroup(Unsigned, s.auth, ids[s])

Authored(s) == {[index |-> o, actor |-> ctx.outputs[o].owner, state |-> Static] : o \in Group(s)}

\* What a package, or a bootstrap, tells of its outputs.
Told(outputs) ==
  {[index |-> outputs[j].index, actor |-> outputs[j].actor, state |-> outputs[j].state] :
     j \in DOMAIN outputs}

\* The actors of the source are those of the context.
IsSource(app) == \A a \in DOMAIN app.actors : a \in Actor /\ app.actors[a] = a

\* Every package, whoever made it of what, that verifies against the id of a
\* group says which scripts were founded, at which outputs and from which coin;
\* held against the source, it also says which actors, and so does a bootstrap.
TellsGroups(app, p) ==
  \A s \in Slots :
    /\ Verify(p, ids[s]) =>
         /\ p.outpoint = ctx.inputs[s.auth].coin.outpoint
         /\ {Preimage(p)[j] : j \in DOMAIN Preimage(p)} = {<<o, built[o].script>> : o \in Group(s)}
    /\ VerifyFromSource(app, p, ids[s]) => Told(p.outputs) = Authored(s)
    /\ p.layer # "consensus" /\ VerifyBootstrap(app, [app |-> p.app.name, outpoint |-> p.outpoint,
                                                      outputs |-> p.outputs], ids[s]) =>
         Told(p.outputs) = Authored(s)

\* genesis-proof-tooling.md: a group is exported from a context whose transaction
\* does not exist yet.  Its package claims the id that the builder, and so
\* consensus, gives the group once it is built, and verifies against it, at every
\* layer; nothing made of it verifies while telling another story.
PackagesTellGroups ==
  pass = "built" =>
    \A app \in {a \in Apps : IsSource(a)} : \A s \in Slots :
      Exportable(app, s.auth, s.path) =>
        LET bootstrap == Export(app, s.auth, s.path)
            package == Compose(app, bootstrap)
        IN  /\ Composable(app, bootstrap)
            /\ \A layer \in Layers(package) : Verify(Lowered(package, layer), ids[s])
            /\ VerifyFromSource(app, package, ids[s])
            /\ \A p \in Altered(package, Chain) : \A layer \in Layers(p) : TellsGroups(app, Lowered(p, layer))
=============================================================================
