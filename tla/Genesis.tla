------------------------------- MODULE Genesis -------------------------------
(***************************************************************************)
(* Covenant genesis: what consensus requires of the outputs that found a    *)
(* covenant, and the checks a generated script makes of the covenants its   *)
(* entry spawns.                                                            *)
(*                                                                         *)
(* A transaction is a record of inputs, each [coin, entry], and outputs,    *)
(* each [script, auth, id]: auth is the authorizing input and id the        *)
(* covenant id, 0 and NoId for an output without a binding.  A coin is      *)
(* [outpoint, cov, script].  A hash is the record of what it commits to, so *)
(* that two preimages have one hash only when they are equal.  Amounts are  *)
(* left out: the preimage reads them from the transaction.                  *)
(***************************************************************************)
EXTENDS Integers, Sequences, FiniteSets

CONSTANTS
  Actor,  \* the actors of the apps at hand
  Alien   \* a script that is no actor

ASSUME GenesisAssumption == Alien \notin Actor

-----------------------------------------------------------------------------
(* Consensus (KIP-20).                                                     *)

\* The covenant id of a group founded by the coin at `outpoint`.
CovenantId(outpoint, members) == [outpoint |-> outpoint, members |-> members]

\* No coin has outpoint 0.
NoId == CovenantId(0, <<>>)

\* What runs for a coin that is no actor's.
AlienEntry == [actor |-> Alien, spawns |-> <<>>]

\* The outputs of covenant `id` that input i authorizes.
BindingGroup(t, i, id) == {o \in DOMAIN t.outputs : t.outputs[o].auth = i /\ t.outputs[o].id = id}

Ascending(s) == \A j, k \in DOMAIN s : j < k => s[j] < s[k]

\* The members of a founding group, as its id commits to them: in ascending
\* order, each with its index and its script.
Commitments(t, w) == [k \in DOMAIN w |-> <<w[k], t.outputs[w[k]].script>>]

Founds(t, i, id) ==
  LET group == BindingGroup(t, i, id)
  IN  \E w \in [1..Cardinality(group) -> group] :
        /\ Ascending(w)
        /\ \A o \in group : \E k \in DOMAIN w : w[k] = o
        /\ id = CovenantId(t.inputs[i].coin.outpoint, Commitments(t, w))

\* A bound output continues the covenant of its authorizing input, or is one of
\* the group that founds its own.
BindingAccepted(t, o) ==
  LET b == t.outputs[o]
  IN  \/ b.auth = 0 /\ b.id = NoId
      \/ /\ b.auth \in DOMAIN t.inputs
         /\ b.id # NoId
         /\ \/ b.id = t.inputs[b.auth].coin.cov
            \/ Founds(t, b.auth, b.id)

BindingsAccepted(t) == \A o \in DOMAIN t.outputs : BindingAccepted(t, o)

-----------------------------------------------------------------------------
(* The generated script.  An entry is [actor, spawns]; spawns is a sequence *)
(* of clauses, a clause the sequence of the actors it declares.  A witness  *)
(* names an output for every declared one.                                  *)

Witnesses(t, e) ==
  {w \in [DOMAIN e.spawns -> UNION {[1..n -> DOMAIN t.outputs] : n \in 1..Len(t.outputs)}] :
     \A k \in DOMAIN e.spawns : DOMAIN w[k] = DOMAIN e.spawns[k]}

\* What the script rebuilds of an output: its index and, from the 35 bytes at the
\* offset of a P2SH script, the script that would have them.
P2SHCommitments(t, s) ==
  [k \in DOMAIN s |-> <<s[k], [p2sh |-> TRUE, redeem |-> t.outputs[s[k]].script.redeem]>>]

\* The reconstructed covenant id of spawn clause k.
SpawnedId(t, i, w, k) == CovenantId(t.inputs[i].coin.outpoint, P2SHCommitments(t, w[k]))

\* Mutants of SpawnPrelude: without the order of the first members, and with the
\* ids of the witnessed outputs compared in place of the reconstructed one.
UnorderedSpawnPrelude(t, i, w) ==
  \A k \in DOMAIN t.inputs[i].entry.spawns : t.outputs[w[k][1]].id = SpawnedId(t, i, w, k)

MemberwiseSpawnPrelude(t, i, w) ==
  \A k \in DOMAIN t.inputs[i].entry.spawns :
    /\ k > 1 => w[k - 1][1] < w[k][1]
    /\ Ascending(w[k])
    /\ \A j \in DOMAIN w[k] : /\ t.outputs[w[k][j]].id = t.outputs[w[k][1]].id
                              /\ t.outputs[w[k][j]].auth = i

\* Clause by clause: the first witnessed index is above the previous clause's,
\* and that output carries the reconstructed id.
SpawnPrelude(t, i, w) ==
  \A k \in DOMAIN t.inputs[i].entry.spawns :
    /\ k > 1 => w[k - 1][1] < w[k][1]
    /\ t.outputs[w[k][1]].id = SpawnedId(t, i, w, k)

\* The body validates every spawned output, at its witnessed index, as the P2SH
\* script of the declared actor.
SpawnRoutes(t, i, w) ==
  \A k \in DOMAIN t.inputs[i].entry.spawns :
    \A j \in DOMAIN w[k] :
      LET script == t.outputs[w[k][j]].script
      IN  script.p2sh /\ script.redeem.actor = t.inputs[i].entry.spawns[k][j]

SpawnScriptSucceeds(t, i, w) == SpawnPrelude(t, i, w) /\ SpawnRoutes(t, i, w)
=============================================================================
