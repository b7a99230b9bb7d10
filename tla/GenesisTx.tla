----------------------------- MODULE GenesisTx ------------------------------
(***************************************************************************)
(* A history of transactions whose inputs may spawn covenants.  A spender   *)
(* proposes any transaction consensus does not refuse; the script of each   *)
(* input runs with a witness of the spender's choice; a transaction all of  *)
(* whose scripts succeed may be committed.  Outpoints are numbered in the   *)
(* order coins are created, which stands for the hash that makes every      *)
(* outpoint new.                                                            *)
(***************************************************************************)
EXTENDS Genesis

CONSTANTS
  Entries,       \* the entries of the actors: [actor, spawns]
  States,        \* the states of an actor
  InitCoins,     \* the live coins at the start
  InitOutpoints, \* the number of outpoints made before
  MaxInputs, MaxOutputs,  \* bounds on a transaction
  MaxGroups,     \* bound on the covenants one input founds
  MaxOutpoints   \* bound on the outpoints of a history

VARIABLES
  coins,    \* the live coins
  made,     \* the number of outpoints made so far
  phase,    \* "idle" or "running"
  tx,       \* the transaction under validation
  witness   \* the witnesses of the inputs whose scripts have succeeded

vars == <<coins, made, phase, tx, witness>>

Script == [p2sh : BOOLEAN, redeem : [actor : Actor, state : States]]

NoTx == [inputs |-> <<>>, outputs |-> <<>>]

\* No two live coins have one outpoint, and none carries a covenant id whose
\* founding outpoint is unspent.
HistoryOK(live, n) ==
  /\ \A c \in live : c.outpoint \in 1..n /\ c.cov.outpoint \in 0..n
  /\ \A c, d \in live : c.outpoint = d.outpoint => c = d
  /\ \A c, d \in live : c.cov.outpoint # d.outpoint

ASSUME GenesisTxAssumption ==
  /\ \A e \in Entries : /\ e.actor \in Actor
                        /\ e.spawns \in Seq(Seq(Actor) \ {<<>>})
  /\ InitOutpoints \in Nat /\ MaxInputs \in Nat /\ MaxOutputs \in Nat
  /\ MaxGroups \in Nat /\ MaxOutpoints \in Nat
  /\ HistoryOK(InitCoins, InitOutpoints)

-----------------------------------------------------------------------------
(* Proposals.                                                              *)

\* A P2SH script of an actor runs one of its entries; any other script is the
\* spender's own and always succeeds.
RunsIn(c) ==
  IF c.script.p2sh
    THEN {e \in Entries : e.actor = c.script.redeem.actor}
    ELSE {AlienEntry}

InputSpace == UNION {[coin : {c}, entry : RunsIn(c)] : c \in coins}

\* A binding as the spender plans it: none, a continuation of the authorizing
\* input, or a place in one of the groups that input founds.
Plans(n) == {[auth |-> 0, group |-> 0]} \cup [auth : 1..n, group : 0..MaxGroups]

\* The k-th member of a set of indexes.
Nth(S, k) == CHOOSE o \in S : Cardinality({x \in S : x < o}) = k - 1

\* The outputs of a plan: a founding group is given the id consensus derives.
Bind(inputs, scripts, plans) ==
  LET Group(p) == {o \in DOMAIN plans : plans[o] = p}
      Members(p) == [k \in 1..Cardinality(Group(p)) |-> <<Nth(Group(p), k), scripts[Nth(Group(p), k)]>>]
      Id(p) == CASE p.auth = 0  -> NoId
                 [] p.auth > 0 /\ p.group = 0 -> inputs[p.auth].coin.cov
                 [] OTHER -> CovenantId(inputs[p.auth].coin.outpoint, Members(p))
  IN  [o \in DOMAIN plans |-> [script |-> scripts[o], auth |-> plans[o].auth, id |-> Id(plans[o])]]

BoundedSeqs(S, n) == UNION {[1..k -> S] : k \in 0..n}

Distinct(inputs) ==
  \A i, j \in DOMAIN inputs : inputs[i].coin = inputs[j].coin => i = j

-----------------------------------------------------------------------------
(* The state machine.                                                      *)

Init ==
  /\ coins = InitCoins
  /\ made = InitOutpoints
  /\ phase = "idle"
  /\ tx = NoTx
  /\ witness = <<>>

Propose ==
  /\ phase = "idle"
  /\ \E inputs \in BoundedSeqs(InputSpace, MaxInputs) \ {<<>>} :
       /\ Distinct(inputs)
       /\ \E n \in 0..MaxOutputs :
            /\ made + n <= MaxOutpoints
            /\ \E scripts \in [1..n -> Script], plans \in [1..n -> Plans(Len(inputs))] :
                 LET t == [inputs |-> inputs, outputs |-> Bind(inputs, scripts, plans)]
                 IN  BindingsAccepted(t) /\ tx' = t
  /\ phase' = "running"
  /\ UNCHANGED <<coins, made, witness>>

next == Len(witness) + 1

\* The script of the next input succeeds on a witness.
RunScript ==
  /\ phase = "running"
  /\ next \in DOMAIN tx.inputs
  /\ \E w \in Witnesses(tx, tx.inputs[next].entry) :
       /\ SpawnScriptSucceeds(tx, next, w)
       /\ witness' = Append(witness, w)
  /\ UNCHANGED <<coins, made, phase, tx>>

Drop == phase' = "idle" /\ tx' = NoTx /\ witness' = <<>>

\* The spender has no witness on which the script succeeds.
Reject ==
  /\ phase = "running"
  /\ next \in DOMAIN tx.inputs
  /\ \A w \in Witnesses(tx, tx.inputs[next].entry) : ~SpawnScriptSucceeds(tx, next, w)
  /\ Drop
  /\ UNCHANGED <<coins, made>>

AllSucceeded == phase = "running" /\ next = Len(tx.inputs) + 1

Spent(t) == {t.inputs[i].coin : i \in DOMAIN t.inputs}

Created(t, n) ==
  {[outpoint |-> n + o, cov |-> t.outputs[o].id, script |-> t.outputs[o].script] :
     o \in DOMAIN t.outputs}

Commit ==
  /\ AllSucceeded
  /\ coins' = (coins \ Spent(tx)) \cup Created(tx, made)
  /\ made' = made + Len(tx.outputs)
  /\ Drop

Abandon ==
  /\ AllSucceeded
  /\ Drop
  /\ UNCHANGED <<coins, made>>

Next == Propose \/ RunScript \/ Reject \/ Commit \/ Abandon

Spec == Init /\ [][Next]_vars

-----------------------------------------------------------------------------
(* Properties.                                                             *)

\* The id an input's script has accepted for its spawn clause k.
Spawned(i, k) == SpawnedId(tx, i, witness[i], k)

\* The documented claim of spawn_prelude: a script that matched one selected
\* member has authenticated the whole covenant.  The declared outputs, in
\* declaration order, are every output of the transaction that carries the
\* spawned id; this input authorizes each, and no live coin carries it already.
SpawnsComplete ==
  \A i \in DOMAIN witness :
    \A k \in DOMAIN witness[i] :
      /\ Ascending(witness[i][k])
      /\ {o \in DOMAIN tx.outputs : tx.outputs[o].id = Spawned(i, k)}
           = {witness[i][k][j] : j \in DOMAIN tx.inputs[i].entry.spawns[k]}
      /\ \A j \in DOMAIN witness[i][k] : tx.outputs[witness[i][k][j]].auth = i
      /\ \A c \in coins : c.cov # Spawned(i, k)

\* Separate spawn clauses, of one input or of several, found separate covenants:
\* no output is counted for two declarations.
SpawnsDistinct ==
  \A i, j \in DOMAIN witness :
    \A k \in DOMAIN witness[i], l \in DOMAIN witness[j] :
      <<i, k>> # <<j, l>> => Spawned(i, k) # Spawned(j, l)

\* The inductive invariant.  Idle means that nothing is under validation; the
\* outputs and the witnesses are sequences; the history is sound and is spent
\* from; and every witness counted has passed its script.
IInv ==
  /\ phase \in {"idle", "running"}
  /\ phase = "idle" => tx = NoTx /\ witness = <<>>
  /\ made \in Nat
  /\ tx.outputs \in Seq({tx.outputs[o] : o \in DOMAIN tx.outputs})
  /\ witness \in Seq(Seq(Seq(Nat)))
  /\ HistoryOK(coins, made)
  /\ Spent(tx) \subseteq coins
  /\ Distinct(tx.inputs)
  /\ \A i \in DOMAIN tx.inputs : tx.inputs[i].entry \in Entries \cup {AlienEntry}
  /\ BindingsAccepted(tx)
  /\ \A i \in DOMAIN witness :
       /\ i \in DOMAIN tx.inputs
       /\ witness[i] \in Witnesses(tx, tx.inputs[i].entry)
       /\ SpawnPrelude(tx, i, witness[i])
=============================================================================
