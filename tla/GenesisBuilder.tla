--------------------------- MODULE GenesisBuilder ---------------------------
(***************************************************************************)
(* How the runtime builder resolves the covenants a transaction founds.     *)
(*                                                                         *)
(* A context names its genesis outputs by group, before any covenant id is  *)
(* known; an id commits to the scripts of its group, and the state of an    *)
(* output may be computed from the ids of other groups.  The builder goes   *)
(* over the outputs to declare the groups, over the groups to derive their  *)
(* ids, over the outputs again to resolve bindings and states, and over the *)
(* spawn clauses of the inputs to find the witnesses their scripts need.    *)
(*                                                                         *)
(* A context is a record of inputs, as in a transaction, and outputs, each  *)
(* [owner, reads, covenant]: owner is an actor or Alien (a plain script);   *)
(* reads is the [auth, path] whose id its state is computed from, or NoKey; *)
(* covenant is "unbound", "existing" with an `auth`, or "genesis" with an   *)
(* `auth` and a `path`.  A path is the sequence of its segments between     *)
(* "::"; the name of a spawn is the number of its clause, and 0 stands for  *)
(* an empty segment.                                                        *)
(***************************************************************************)
EXTENDS Genesis

CONSTANTS
  Contexts,  \* the contexts to build
  NoKey,     \* the state is static
  Static     \* a state known when the context is made

VARIABLES
  ctx,     \* the context; never changes
  pass,   \* "declare", "derive", "resolve", "spawns", "built", or how it ended
  groups,  \* the outputs of each [auth, name] declared so far, in order
  ids,     \* StateContext: the covenant id of each [auth, path]
  built,   \* the transaction outputs resolved so far
  pos,     \* the output, or input, the loop is at
  found    \* the outputs found for the spawn clauses of inputs 1..pos

builderVars == <<ctx, pass, groups, ids, built, pos, found>>

\* The contexts callers can make for coins of a chain: a covenant that is continued
\* is one its authorizing input carries, and no coin carries one it founds itself.
\* The builder takes both from its caller; a lie is for consensus to refuse.
Listed(s) == Len(s) \in Nat /\ s = [k \in 1..Len(s) |-> s[k]]

ValidInput(input) ==
  /\ input.coin.cov.outpoint # input.coin.outpoint
  /\ input.entry.spawns \in Seq(Seq(Actor))

ValidOutput(inputs, output) ==
  /\ output.owner \in Actor \cup {Alien}
  /\ output.covenant \in {"unbound", "existing", "genesis"}
  /\ output.covenant = "existing" =>
       output.auth \in DOMAIN inputs /\ inputs[output.auth].coin.cov # NoId
  /\ output.covenant = "genesis" => Listed(output.path)

ValidContext(c) ==
  /\ Listed(c.inputs) /\ \A i \in DOMAIN c.inputs : ValidInput(c.inputs[i])
  /\ Listed(c.outputs) /\ \A o \in DOMAIN c.outputs : ValidOutput(c.inputs, c.outputs[o])

ASSUME ContextsAssumption == \A c \in Contexts : ValidContext(c)

NoGroups == [k \in {} |-> <<>>]

IsGenesis(o) == ctx.outputs[o].covenant = "genesis"

IsDeferred(o) == ctx.outputs[o].owner # Alien /\ ctx.outputs[o].reads # NoKey

\* The script of an output with state s.
ScriptOf(o, s) ==
  IF ctx.outputs[o].owner = Alien
    THEN [p2sh |-> FALSE, redeem |-> [actor |-> Alien, state |-> Static]]
    ELSE [p2sh |-> TRUE, redeem |-> [actor |-> ctx.outputs[o].owner, state |-> s]]

\* GenesisGroupName: parse, and path, which writes a name back.
IsPath(path) == Len(path) = 2 /\ path[1] \in {"launch", "spawn"} /\ path[2] # 0

Parse(path) == [kind |-> path[1], name |-> path[2]]

\* Mutant of Path: every name is written as a launch.
LaunchPath(n) == <<"launch", n.name>>

Path(n) == <<n.kind, n.name>>

KeyOf(o) == [auth |-> ctx.outputs[o].auth, name |-> Parse(ctx.outputs[o].path)]

\* Where StateContext keeps the id of a group.
Slot(key) == [auth |-> key.auth, path |-> Path(key.name)]

\* Where output o of a genesis group looks for it: under the path it was given.
SlotOf(o) == [auth |-> ctx.outputs[o].auth, path |-> ctx.outputs[o].path]

-----------------------------------------------------------------------------

BuilderInit ==
  /\ ctx \in Contexts
  /\ pass = "declare"
  /\ groups = NoGroups /\ ids = NoGroups
  /\ built = <<>>
  /\ pos = 1
  /\ found = <<>>

Enter(p) == pass' = p /\ pos' = 1

End(p) == pass' = p /\ UNCHANGED <<ctx, groups, ids, built, pos, found>>

\* Why output o is refused before any id is derived.
RefusesGenesis(o) ==
  ~ /\ ~IsDeferred(o)
    /\ IsPath(ctx.outputs[o].path)
    /\ ctx.outputs[o].auth \in DOMAIN ctx.inputs
    /\ KeyOf(o).name.kind = "spawn" =>
         KeyOf(o).name.name \in DOMAIN ctx.inputs[ctx.outputs[o].auth].entry.spawns

Refuses(o) ==
  \/ IsGenesis(o) /\ RefusesGenesis(o)
  \/ ctx.outputs[o].covenant = "unbound" /\ ctx.outputs[o].owner # Alien

\* The groups once output o is declared.
Declared(o) ==
  IF ~IsGenesis(o) THEN groups
  ELSE [k \in DOMAIN groups \cup {KeyOf(o)} |->
          IF k # KeyOf(o) THEN groups[k]
          ELSE IF k \in DOMAIN groups THEN Append(groups[k], o) ELSE <<o>>]

DeclareOutput ==
  /\ pass = "declare" /\ pos \in DOMAIN ctx.outputs /\ ~Refuses(pos)
  /\ groups' = Declared(pos)
  /\ pos' = pos + 1
  /\ UNCHANGED <<ctx, pass, ids, built, found>>

RefuseOutput ==
  /\ pass = "declare" /\ pos \in DOMAIN ctx.outputs /\ Refuses(pos)
  /\ End("refused_output")

AllDeclared ==
  /\ pass = "declare" /\ pos \notin DOMAIN ctx.outputs
  /\ Enter("derive")
  /\ UNCHANGED <<ctx, groups, ids, built, found>>

\* Phase 2.  A deferred state in a group is the code's unreachable!().
Derived(key) ==
  CovenantId(ctx.inputs[key.auth].coin.outpoint,
             [j \in DOMAIN groups[key] |-> <<groups[key][j], ScriptOf(groups[key][j], Static)>>])

Derivable ==
  \A key \in DOMAIN groups : \A j \in DOMAIN groups[key] : ~IsDeferred(groups[key][j])

DeriveIds ==
  /\ pass = "derive" /\ Derivable
  /\ ids' = [s \in {Slot(key) : key \in DOMAIN groups} |->
               Derived(CHOOSE key \in DOMAIN groups : Slot(key) = s)]
  /\ Enter("resolve")
  /\ UNCHANGED <<ctx, groups, built, found>>

\* Phase 3.  A state callback reads the ids through StateContext; one that finds
\* none is taken to fail.  The binding of a genesis output is expected to exist.
Binding(o) ==
  CASE ctx.outputs[o].covenant = "unbound"  -> [auth |-> 0, id |-> NoId]
    [] ctx.outputs[o].covenant = "existing" ->
         [auth |-> ctx.outputs[o].auth, id |-> ctx.inputs[ctx.outputs[o].auth].coin.cov]
    [] ctx.outputs[o].covenant = "genesis"  ->
         [auth |-> ctx.outputs[o].auth, id |-> ids[SlotOf(o)]]

StateOf(o) == IF IsDeferred(o) THEN ids[ctx.outputs[o].reads] ELSE Static

Unreadable(o) == IsDeferred(o) /\ ctx.outputs[o].reads \notin DOMAIN ids

Resolvable(o) == IsGenesis(o) => SlotOf(o) \in DOMAIN ids

ResolveOutput ==
  /\ pass = "resolve" /\ pos \in DOMAIN ctx.outputs
  /\ Resolvable(pos) /\ ~Unreadable(pos)
  /\ built' = Append(built, [script |-> ScriptOf(pos, StateOf(pos)),
                             auth |-> Binding(pos).auth, id |-> Binding(pos).id])
  /\ pos' = pos + 1
  /\ UNCHANGED <<ctx, pass, groups, ids, found>>

FailCallback ==
  /\ pass = "resolve" /\ pos \in DOMAIN ctx.outputs /\ Unreadable(pos)
  /\ End("refused_output")

Unsigned == [inputs |-> ctx.inputs, outputs |-> built]

\* unsigned_transaction: an actor input carries a covenant, and the script of its
\* declared actor.  The passes between it and the spawns (input counts, arguments,
\* observations) leave the outputs alone and can only refuse the context.
InputMatches(i) ==
  ctx.inputs[i].entry # AlienEntry =>
    /\ ctx.inputs[i].coin.cov # NoId
    /\ ctx.inputs[i].coin.script.p2sh
    /\ ctx.inputs[i].coin.script.redeem.actor = ctx.inputs[i].entry.actor

MakeUnsigned ==
  /\ pass = "resolve" /\ pos \notin DOMAIN ctx.outputs
  /\ \A i \in DOMAIN ctx.inputs : InputMatches(i)
  /\ Enter("spawns")
  /\ found' = <<<<>>>>
  /\ UNCHANGED <<ctx, groups, ids, built>>

RefuseInput ==
  /\ pass = "resolve" /\ pos \notin DOMAIN ctx.outputs
  /\ \E i \in DOMAIN ctx.inputs : ~InputMatches(i)
  /\ End("refused_input")

-----------------------------------------------------------------------------
(* The spawn clauses.                                                      *)

\* The outputs of the group named for clause k of input i, in output order.
NamedGroup(i, k) ==
  LET key == [auth |-> i, name |-> [kind |-> "spawn", name |-> k]]
  IN  IF key \in DOMAIN groups THEN groups[key] ELSE <<>>

IsDeclared(i, k, group) ==
  /\ Len(group) = Len(ctx.inputs[i].entry.spawns[k])
  /\ \A j \in DOMAIN group : ctx.outputs[group[j]].owner = ctx.inputs[i].entry.spawns[k][j]

\* Mutant of GroupFits: the order of the clauses' groups is not looked at.
FitsAnyOrder(i, k) == NamedGroup(i, k) # <<>> /\ IsDeclared(i, k, NamedGroup(i, k))

\* Present, after the previous clause's, and of the declared size and actors.
GroupFits(i, k) ==
  LET group == NamedGroup(i, k)
  IN  /\ group # <<>>
      /\ k > 1 => found[i][k - 1][1] < group[1]
      /\ IsDeclared(i, k, group)

\* The clause of input pos that is resolved next.
clause == Len(found[pos]) + 1

ResolveSpawn ==
  /\ pass = "spawns" /\ pos \in DOMAIN ctx.inputs
  /\ clause \in DOMAIN ctx.inputs[pos].entry.spawns
  /\ GroupFits(pos, clause)
  /\ found' = [found EXCEPT ![pos] = Append(@, NamedGroup(pos, clause))]
  /\ UNCHANGED <<ctx, pass, groups, ids, built, pos>>

RefuseSpawn ==
  /\ pass = "spawns" /\ pos \in DOMAIN ctx.inputs
  /\ clause \in DOMAIN ctx.inputs[pos].entry.spawns
  /\ ~GroupFits(pos, clause)
  /\ End("refused_spawn")

NextInput ==
  /\ pass = "spawns" /\ pos \in DOMAIN ctx.inputs
  /\ clause \notin DOMAIN ctx.inputs[pos].entry.spawns
  /\ found' = Append(found, <<>>)
  /\ pos' = pos + 1
  /\ UNCHANGED <<ctx, pass, groups, ids, built>>

Finish ==
  /\ pass = "spawns" /\ pos \notin DOMAIN ctx.inputs
  /\ End("built")

BuilderNext ==
  \/ DeclareOutput \/ RefuseOutput \/ AllDeclared
  \/ DeriveIds
  \/ ResolveOutput \/ FailCallback \/ MakeUnsigned \/ RefuseInput
  \/ ResolveSpawn \/ RefuseSpawn \/ NextInput \/ Finish

BuilderSpec == BuilderInit /\ [][BuilderNext]_builderVars

-----------------------------------------------------------------------------
(* Properties.                                                             *)

\* An id a deferred state is computed from is the id its group ends up with.
ReadsAreFinal ==
  \A o \in DOMAIN built :
    IsDeferred(o) =>
      /\ \A q \in DOMAIN built :
           IsGenesis(q) /\ SlotOf(q) = ctx.outputs[o].reads =>
             built[q].id = built[o].script.redeem.state
      /\ pass = "built" =>
           Founds(Unsigned, ctx.outputs[o].reads.auth, built[o].script.redeem.state)

\* The expectations a pass has of an earlier one are met, so that no context makes
\* the builder panic: a group's states are all static when its id is derived, and
\* the id of a genesis output is found under the path it was declared with.
NeverPanics ==
  /\ pass = "derive" => Derivable
  /\ pass = "resolve" /\ pos \in DOMAIN ctx.outputs => Resolvable(pos)

\* A spawn is refused early only where its script would fail: with the outputs
\* the context names for the clauses, the spawn checks of the input do not hold.
SpawnRefusalJustified ==
  pass = "refused_spawn" =>
    LET named == [k \in DOMAIN ctx.inputs[pos].entry.spawns |-> NamedGroup(pos, k)]
    IN  ~ /\ named \in Witnesses(Unsigned, ctx.inputs[pos].entry)
          /\ SpawnScriptSucceeds(Unsigned, pos, named)

\* What the builder resolves, consensus and the scripts accept: every derived id
\* is the one consensus derives from the transaction as finally built, also
\* where a state was computed from it, and the witnesses found satisfy the spawn
\* checks of every input.  What it does not resolve it refuses, and rightly.
BuiltIsAccepted ==
  /\ NeverPanics /\ SpawnRefusalJustified /\ ReadsAreFinal
  /\ pass = "built" =>
       /\ BindingsAccepted(Unsigned)
       /\ \A i \in DOMAIN ctx.inputs :
            /\ found[i] \in Witnesses(Unsigned, ctx.inputs[i].entry)
            /\ SpawnScriptSucceeds(Unsigned, i, found[i])
=============================================================================
