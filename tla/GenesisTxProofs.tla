--------------------------- MODULE GenesisTxProofs ---------------------------
(***************************************************************************)
(* Proofs about GenesisTx, for every app, every transaction and every       *)
(* history.                                                                 *)
(***************************************************************************)
EXTENDS GenesisTx, WellFoundedInduction, TLAPS

-----------------------------------------------------------------------------
(* Ids.                                                                    *)

\* Where a binding's id was founded: at no coin, at the coin that founded its
\* authorizing input's covenant, or at its authorizing input.
LEMMA BindingOrigins ==
  ASSUME NEW t, NEW o \in DOMAIN t.outputs, BindingAccepted(t, o)
  PROVE  \/ t.outputs[o].id.outpoint = 0
         \/ /\ t.outputs[o].auth \in DOMAIN t.inputs
            /\ t.outputs[o].id = t.inputs[t.outputs[o].auth].coin.cov
         \/ /\ t.outputs[o].auth \in DOMAIN t.inputs
            /\ t.outputs[o].id.outpoint = t.inputs[t.outputs[o].auth].coin.outpoint
            /\ Founds(t, t.outputs[o].auth, t.outputs[o].id)
<1>1. CASE t.outputs[o].id = NoId
  BY <1>1 DEF NoId, CovenantId
<1>2. ASSUME t.outputs[o].auth \in DOMAIN t.inputs, Founds(t, t.outputs[o].auth, t.outputs[o].id)
      PROVE  t.outputs[o].id.outpoint = t.inputs[t.outputs[o].auth].coin.outpoint
  <2> DEFINE i == t.outputs[o].auth
  <2>1. PICK w : t.outputs[o].id = CovenantId(t.inputs[i].coin.outpoint, Commitments(t, w))
    BY <1>2 DEF Founds
  <2> QED  BY <2>1 DEF CovenantId
<1> QED  BY <1>1, <1>2 DEF BindingAccepted

-----------------------------------------------------------------------------
(* The invariant.                                                          *)

\* A witness is a sequence of sequences of output indexes.
LEMMA WitnessType ==
  ASSUME NEW t, NEW e \in Entries \cup {AlienEntry}, NEW w \in Witnesses(t, e),
         t.outputs \in Seq({t.outputs[o] : o \in DOMAIN t.outputs})
  PROVE  w \in Seq(Seq(Nat))
<1>1. e.spawns \in Seq(Seq(Actor))
  <2>1. CASE e \in Entries
    <3>1. e.spawns \in Seq(Seq(Actor) \ {<<>>})
      BY <2>1, GenesisTxAssumption
    <3> QED  BY <3>1
  <2>2. CASE e = AlienEntry
    BY <2>2 DEF AlienEntry
  <2> QED  BY <2>1, <2>2
<1>2. \A k \in DOMAIN e.spawns : DOMAIN w[k] = 1..Len(e.spawns[k]) /\ Len(e.spawns[k]) \in Nat
  BY <1>1 DEF Witnesses
<1>3. DOMAIN t.outputs = 1..Len(t.outputs) /\ Len(t.outputs) \in Nat
  OBVIOUS
<1>4. ASSUME NEW k \in DOMAIN e.spawns
      PROVE  w[k] \in Seq(Nat)
  <2>1. PICK n \in 1..Len(t.outputs) : w[k] \in [1..n -> DOMAIN t.outputs]
    <3>1. w[k] \in UNION {[1..n -> DOMAIN t.outputs] : n \in 1..Len(t.outputs)}
      BY DEF Witnesses
    <3> QED  BY <3>1
  <2>2. n \in Nat /\ w[k] \in [1..n -> Nat]
    <3>1. n \in Nat /\ DOMAIN t.outputs \subseteq Nat
      BY <1>3
    <3> QED  BY <2>1, <3>1
  <2> QED  BY <2>2
<1>5. w \in [1..Len(e.spawns) -> Seq(Nat)] /\ Len(e.spawns) \in Nat
  BY <1>1, <1>4 DEF Witnesses
<1> QED  BY <1>5

LEMMA InitInv == Init => IInv
<1> SUFFICES ASSUME Init PROVE IInv
  OBVIOUS
<1>1. DOMAIN tx.inputs = {} /\ DOMAIN tx.outputs = {} /\ DOMAIN witness = {}
  BY DEF Init, NoTx
<1>2. tx.outputs \in Seq({tx.outputs[o] : o \in DOMAIN tx.outputs}) /\ witness \in Seq(Seq(Seq(Nat)))
  BY DEF Init, NoTx
<1>3. Spent(tx) \subseteq coins /\ Distinct(tx.inputs) /\ BindingsAccepted(tx)
  BY <1>1 DEF Spent, Distinct, BindingsAccepted
<1> QED  BY <1>1, <1>2, <1>3, GenesisTxAssumption DEF IInv, Init, NoTx

LEMMA ProposeInv == IInv /\ Propose => IInv'
<1> SUFFICES ASSUME IInv, Propose PROVE IInv'
  OBVIOUS
<1> USE DEF IInv
<1>1. PICK inputs \in BoundedSeqs(InputSpace, MaxInputs) \ {<<>>} :
        /\ Distinct(inputs)
        /\ \E n \in 0..MaxOutputs :
             \E scripts \in [1..n -> Script], plans \in [1..n -> Plans(Len(inputs))] :
               LET t == [inputs |-> inputs, outputs |-> Bind(inputs, scripts, plans)]
               IN  BindingsAccepted(t) /\ tx' = t
  BY DEF Propose
<1>2. PICK n \in 0..MaxOutputs :
        \E scripts \in [1..n -> Script], plans \in [1..n -> Plans(Len(inputs))] :
          LET t == [inputs |-> inputs, outputs |-> Bind(inputs, scripts, plans)]
          IN  BindingsAccepted(t) /\ tx' = t
  BY <1>1
<1>3. PICK scripts \in [1..n -> Script], plans \in [1..n -> Plans(Len(inputs))] :
        /\ BindingsAccepted(tx')
        /\ tx' = [inputs |-> inputs, outputs |-> Bind(inputs, scripts, plans)]
  BY <1>2
<1>4. ASSUME NEW i \in DOMAIN inputs
      PROVE  inputs[i].coin \in coins /\ inputs[i].entry \in Entries \cup {AlienEntry}
  <2>1. inputs[i] \in InputSpace
    <3>1. PICK len \in 0..MaxInputs : inputs \in [1..len -> InputSpace]
      BY <1>1 DEF BoundedSeqs
    <3> QED  BY <3>1
  <2>2. PICK c \in coins : inputs[i] \in [coin : {c}, entry : RunsIn(c)]
    BY <2>1 DEF InputSpace
  <2> QED  BY <2>2 DEF RunsIn
<1>5. /\ Spent(tx)' \subseteq coins /\ Distinct(tx.inputs)'
      /\ \A i \in DOMAIN tx'.inputs : tx'.inputs[i].entry \in Entries \cup {AlienEntry}
  BY <1>1, <1>3, <1>4 DEF Spent, Distinct
<1>6. tx'.outputs \in Seq({tx'.outputs[o] : o \in DOMAIN tx'.outputs})
  <2>1. DOMAIN tx'.outputs = 1..n /\ n \in Nat
    <3>1. DOMAIN plans = 1..n /\ tx'.outputs = Bind(inputs, scripts, plans)
      BY <1>3
    <3>2. DOMAIN Bind(inputs, scripts, plans) = DOMAIN plans
      BY DEF Bind
    <3>3. n \in Nat
      BY GenesisTxAssumption
    <3> QED  BY <3>1, <3>2, <3>3
  <2>2. tx'.outputs = [o \in 1..n |-> tx'.outputs[o]]
    BY <1>3, <2>1 DEF Bind
  <2> DEFINE out == tx'.outputs
             S == {out[o] : o \in 1..n}
  <2>3. out \in [1..n -> S]
    BY <2>2
  <2>4. out \in Seq(S)
    <3> HIDE DEF out, S
    <3> QED  BY <2>1, <2>3
  <2> QED  BY <2>1, <2>4
<1>7. phase' = "running" /\ coins' = coins /\ made' = made /\ witness' = <<>>
  BY DEF Propose
<1>8. HistoryOK(coins, made)'
  BY <1>7 DEF HistoryOK
<1>9. BindingsAccepted(tx)' 
  BY <1>3 
<1> QED  BY <1>3, <1>5, <1>6, <1>7, <1>8, <1>9

LEMMA RunScriptInv == IInv /\ RunScript => IInv'
<1> SUFFICES ASSUME IInv, RunScript PROVE IInv'
  OBVIOUS
<1> USE DEF IInv
<1>1. PICK w \in Witnesses(tx, tx.inputs[next].entry) :
        SpawnScriptSucceeds(tx, next, w) /\ witness' = Append(witness, w)
  BY DEF RunScript
<1>2. /\ phase = "running" /\ phase' = phase /\ coins' = coins /\ made' = made /\ tx' = tx
      /\ next \in DOMAIN tx.inputs
  BY DEF RunScript
<1>3. w \in Seq(Seq(Nat))
  <2>1. tx.inputs[next].entry \in Entries \cup {AlienEntry}
    BY <1>2
  <2> QED  BY <1>1, <2>1, WitnessType
<1>4. Len(witness) \in Nat /\ DOMAIN witness = 1..Len(witness) /\ next = Len(witness) + 1
  BY DEF next
<1>5. /\ witness' \in Seq(Seq(Seq(Nat)))
      /\ DOMAIN witness' = 1..next
      /\ witness'[next] = w
      /\ \A i \in DOMAIN witness : witness'[i] = witness[i]
  BY <1>1, <1>3, <1>4
<1>6. SpawnPrelude(tx, next, w)
  BY <1>1 DEF SpawnScriptSucceeds
<1>7. ASSUME NEW i \in DOMAIN witness'
      PROVE  /\ i \in DOMAIN tx.inputs
             /\ witness'[i] \in Witnesses(tx, tx.inputs[i].entry)
             /\ SpawnPrelude(tx, i, witness'[i])
  <2>1. CASE i = next
    BY <1>1, <1>2, <1>5, <1>6, <2>1
  <2>2. CASE i # next
    <3>1. i \in DOMAIN witness /\ witness'[i] = witness[i]
      BY <1>4, <1>5, <2>2
    <3> QED  BY <3>1
  <2> QED  BY <2>1, <2>2
<1>8. HistoryOK(coins, made)' /\ Spent(tx)' \subseteq coins' /\ Distinct(tx.inputs)' /\ BindingsAccepted(tx)'
  BY <1>2
<1> QED  BY <1>2, <1>5, <1>7, <1>8

\* Dropping the transaction leaves the history as it is.
LEMMA DropInv ==
  ASSUME IInv, Drop, HistoryOK(coins, made)', made' \in Nat
  PROVE  IInv'
<1>1. DOMAIN tx'.inputs = {} /\ DOMAIN tx'.outputs = {} /\ DOMAIN witness' = {}
  BY DEF Drop, NoTx
<1>2. tx'.outputs \in Seq({tx'.outputs[o] : o \in DOMAIN tx'.outputs}) /\ witness' \in Seq(Seq(Seq(Nat)))
  BY DEF Drop, NoTx
<1>3. Spent(tx)' \subseteq coins' /\ Distinct(tx.inputs)' /\ BindingsAccepted(tx)'
  BY <1>1 DEF Spent, Distinct, BindingsAccepted
<1> QED  BY <1>1, <1>2, <1>3 DEF IInv, Drop

\* Where the id of a created coin was founded: nowhere, or at a coin that is not
\* live once the transaction is committed.
LEMMA CreatedOrigins ==
  ASSUME IInv, NEW o \in DOMAIN tx.outputs
  PROVE  /\ tx.outputs[o].id.outpoint \in 0..made
         /\ \A d \in coins \ Spent(tx) : tx.outputs[o].id.outpoint # d.outpoint
<1> DEFINE i == tx.outputs[o].auth
           p == tx.outputs[o].id.outpoint
<1>1. BindingAccepted(tx, o)
  BY DEF IInv, BindingsAccepted
<1>2. \A c \in coins : c.outpoint \in 1..made /\ c.cov.outpoint \in 0..made
  BY DEF IInv, HistoryOK
<1>3. made \in Nat
  BY DEF IInv
<1>4. CASE p = 0
  BY <1>2, <1>3, <1>4
<1>5. CASE i \in DOMAIN tx.inputs /\ tx.outputs[o].id = tx.inputs[i].coin.cov
  <2>1. tx.inputs[i].coin \in coins
    BY <1>5 DEF IInv, Spent
  <2>2. \A d \in coins : tx.inputs[i].coin.cov.outpoint # d.outpoint
    BY <2>1 DEF IInv, HistoryOK
  <2> QED  BY <1>2, <1>5, <2>1, <2>2
<1>6. CASE i \in DOMAIN tx.inputs /\ p = tx.inputs[i].coin.outpoint
  <2>1. tx.inputs[i].coin \in Spent(tx) /\ tx.inputs[i].coin \in coins
    BY <1>6 DEF IInv, Spent
  <2>2. \A d \in coins : d.outpoint = tx.inputs[i].coin.outpoint => d = tx.inputs[i].coin
    BY <2>1 DEF IInv, HistoryOK
  <2>3. p \in 1..made
    BY <1>2, <1>6, <2>1
  <2>4. ASSUME NEW d \in coins \ Spent(tx)
        PROVE  p # d.outpoint
    BY <1>6, <2>1, <2>2, <2>4
  <2>5. p \in 0..made
    <3> HIDE DEF p
    <3> QED  BY <1>3, <2>3
  <2> QED  BY <2>4, <2>5
<1> QED  BY <1>1, <1>4, <1>5, <1>6, BindingOrigins

LEMMA CommitInv == IInv /\ Commit => IInv'
<1> SUFFICES ASSUME IInv, Commit PROVE IInv'
  OBVIOUS
<1> DEFINE n == Len(tx.outputs)
           kept == coins \ Spent(tx)
           new == Created(tx, made)
<1>1. n \in Nat /\ DOMAIN tx.outputs = 1..n /\ made \in Nat
  BY DEF IInv
<1>2. coins' = kept \cup new /\ made' = made + n /\ Drop
  BY DEF Commit
<1>3. ASSUME NEW c \in new
      PROVE  \E o \in 1..n : /\ c.outpoint = made + o
                             /\ c = [outpoint |-> made + o, cov |-> tx.outputs[o].id,
                                     script |-> tx.outputs[o].script]
                             /\ c.cov.outpoint \in 0..made
                             /\ \A d \in kept : c.cov.outpoint # d.outpoint
  <2>1. PICK o \in DOMAIN tx.outputs :
          c = [outpoint |-> made + o, cov |-> tx.outputs[o].id, script |-> tx.outputs[o].script]
    BY DEF Created
  <2>2. c.outpoint = made + o /\ c.cov = tx.outputs[o].id
    BY <2>1
  <2> QED  BY <1>1, <2>1, <2>2, CreatedOrigins
<1>4. ASSUME NEW c \in kept
      PROVE  /\ c.outpoint \in 1..made /\ c.cov.outpoint \in 0..made
             /\ \A d \in kept : (c.outpoint = d.outpoint => c = d) /\ c.cov.outpoint # d.outpoint
  BY DEF IInv, HistoryOK
<1> HIDE DEF n, kept, new
<1>5. \A c \in new : c.outpoint \in (made + 1)..(made + n) /\ c.cov.outpoint \in 0..made
  BY <1>1, <1>3
<1>6. \A c \in kept \cup new : c.outpoint \in 1..(made + n) /\ c.cov.outpoint \in 0..(made + n)
  BY <1>1, <1>4, <1>5
<1>7. \A c, d \in kept \cup new : c.outpoint = d.outpoint => c = d
  <2> SUFFICES ASSUME NEW c \in kept \cup new, NEW d \in kept \cup new, c.outpoint = d.outpoint
               PROVE  c = d
    OBVIOUS
  <2>1. CASE c \in kept /\ d \in kept
    BY <1>4, <2>1
  <2>2. CASE c \in new /\ d \in new
    <3>1. PICK o \in 1..n : /\ c.outpoint = made + o
                            /\ c = [outpoint |-> made + o, cov |-> tx.outputs[o].id,
                                    script |-> tx.outputs[o].script]
      BY <1>3, <2>2
    <3>2. PICK q \in 1..n : /\ d.outpoint = made + q
                            /\ d = [outpoint |-> made + q, cov |-> tx.outputs[q].id,
                                    script |-> tx.outputs[q].script]
      BY <1>3, <2>2
    <3>3. made + o = made + q
      BY <3>1, <3>2
    <3>4. o = q
      <4>1. o \in 1..n /\ q \in 1..n /\ n \in Nat /\ made \in Nat
        BY <1>1
      <4> QED  BY <3>3, <4>1
    <3> QED  BY <3>1, <3>2, <3>4
  <2> QED  BY <1>1, <1>4, <1>5, <2>1, <2>2
<1>8. \A c, d \in kept \cup new : c.cov.outpoint # d.outpoint
  <2> SUFFICES ASSUME NEW c \in kept \cup new, NEW d \in kept \cup new
               PROVE  c.cov.outpoint # d.outpoint
    OBVIOUS
  <2>1. CASE d \in new
    BY <1>1, <1>4, <1>5, <2>1
  <2>2. CASE d \in kept /\ c \in kept
    BY <1>4, <2>2
  <2>3. CASE d \in kept /\ c \in new
    BY <1>3, <2>3
  <2> QED  BY <2>1, <2>2, <2>3
<1>9. HistoryOK(coins, made)' /\ made' \in Nat
  BY <1>1, <1>2, <1>6, <1>7, <1>8 DEF HistoryOK
<1> QED  BY <1>2, <1>9, DropInv

\* In every reachable state no live coin carries an id founded by an unspent coin,
\* and every witness counted has passed its script.
THEOREM HistoryIsSound == Spec => []IInv
<1>1. Init => IInv
  BY InitInv
<1>2. IInv /\ [Next]_vars => IInv'
  <2> SUFFICES ASSUME IInv, [Next]_vars PROVE IInv'
    OBVIOUS
  <2>1. CASE Propose
    BY <2>1, ProposeInv
  <2>2. CASE RunScript
    BY <2>2, RunScriptInv
  <2>3. CASE Reject \/ Abandon
    <3>1. Drop /\ coins' = coins /\ made' = made
      BY <2>3 DEF Reject, Abandon
    <3>2. HistoryOK(coins, made)' /\ made' \in Nat
      BY <3>1 DEF IInv
    <3> QED  BY <3>1, <3>2, DropInv
  <2>4. CASE Commit
    BY <2>4, CommitInv
  <2>5. CASE UNCHANGED vars
    BY <2>5 DEF vars, IInv, HistoryOK, Spent, Distinct, BindingsAccepted
  <2> QED  BY <2>1, <2>2, <2>3, <2>4, <2>5 DEF Next
<1> QED  BY <1>1, <1>2, PTL DEF Spec

-----------------------------------------------------------------------------
(* The spawns.                                                             *)

\* An output that carries an id founded at the coin of input i was founded by
\* input i: a continuation of it would need a live coin that carries it.
LEMMA FoundedHere ==
  ASSUME IInv, NEW i \in DOMAIN tx.inputs, NEW o \in DOMAIN tx.outputs,
         tx.outputs[o].id.outpoint = tx.inputs[i].coin.outpoint
  PROVE  tx.outputs[o].auth = i /\ Founds(tx, i, tx.outputs[o].id)
<1> DEFINE a == tx.outputs[o].auth
<1>1. BindingAccepted(tx, o)
  BY DEF IInv, BindingsAccepted
<1>2. \A j \in DOMAIN tx.inputs : tx.inputs[j].coin \in coins
  BY DEF IInv, Spent
<1>3. tx.inputs[i].coin.outpoint # 0
  BY <1>2 DEF IInv, HistoryOK
<1>4. ASSUME a \in DOMAIN tx.inputs, tx.outputs[o].id = tx.inputs[a].coin.cov
      PROVE  FALSE
  BY <1>2, <1>4 DEF IInv, HistoryOK
<1>5. a \in DOMAIN tx.inputs /\ Founds(tx, a, tx.outputs[o].id)
      /\ tx.outputs[o].id.outpoint = tx.inputs[a].coin.outpoint
  BY <1>1, <1>3, <1>4, BindingOrigins
<1>6. tx.inputs[a].coin = tx.inputs[i].coin
  BY <1>2, <1>5 DEF IInv, HistoryOK
<1>7. a = i
  BY <1>5, <1>6 DEF IInv, Distinct
<1> QED  BY <1>5, <1>7

\* An id determines the sequence of outputs it was rebuilt from.
LEMMA IdsDetermineWitnesses ==
  ASSUME NEW t, NEW u, NEW p, NEW q, NEW v \in Seq(Nat), NEW w \in Seq(Nat),
         CovenantId(p, P2SHCommitments(t, v)) = CovenantId(q, P2SHCommitments(u, w))
  PROVE  p = q /\ v = w
<1>1. p = q /\ P2SHCommitments(t, v) = P2SHCommitments(u, w)
  BY DEF CovenantId
<1>2. DOMAIN v = DOMAIN w
  BY <1>1 DEF P2SHCommitments
<1>3. ASSUME NEW k \in DOMAIN v
      PROVE  v[k] = w[k]
  <2>1. P2SHCommitments(t, v)[k][1] = v[k] /\ P2SHCommitments(u, w)[k][1] = w[k]
    BY <1>2 DEF P2SHCommitments
  <2> QED  BY <1>1, <2>1
<1> QED  BY <1>1, <1>2, <1>3

\* A founded id that a script rebuilt from w was founded by the outputs of w.
LEMMA FoundersAreWitnessed ==
  ASSUME NEW t, NEW i, NEW id, NEW p, NEW w \in Seq(Nat),
         Founds(t, i, id), id = CovenantId(p, P2SHCommitments(t, w))
  PROVE  /\ Ascending(w)
         /\ BindingGroup(t, i, id) = {w[j] : j \in DOMAIN w}
<1> DEFINE group == BindingGroup(t, i, id)
<1>1. PICK v \in [1..Cardinality(group) -> group] :
        /\ Ascending(v)
        /\ \A o \in group : \E k \in DOMAIN v : v[k] = o
        /\ id = CovenantId(t.inputs[i].coin.outpoint, Commitments(t, v))
  BY DEF Founds
<1>2. Commitments(t, v) = P2SHCommitments(t, w)
  BY <1>1 DEF CovenantId
<1>3. DOMAIN v = DOMAIN w
  BY <1>2 DEF Commitments, P2SHCommitments
<1>4. ASSUME NEW k \in DOMAIN v
      PROVE  v[k] = w[k]
  <2>1. Commitments(t, v)[k][1] = v[k] /\ P2SHCommitments(t, w)[k][1] = w[k]
    BY <1>3 DEF Commitments, P2SHCommitments
  <2> QED  BY <1>2, <2>1
<1>5. Ascending(w)
  BY <1>1, <1>3, <1>4 DEF Ascending
<1>6. \A k \in DOMAIN w : w[k] \in group
  BY <1>1, <1>3, <1>4
<1>7. \A o \in group : \E k \in DOMAIN w : w[k] = o
  BY <1>1, <1>3, <1>4
<1> QED  BY <1>5, <1>6, <1>7

\* The spawned outputs of a clause are all of its covenant, as spawn_prelude's
\* comment claims of a script that matched one selected member.
LEMMA SpawnsCompleteStep == IInv => SpawnsComplete
<1> SUFFICES ASSUME IInv, NEW i \in DOMAIN witness, NEW k \in DOMAIN witness[i]
             PROVE  /\ Ascending(witness[i][k])
                    /\ {o \in DOMAIN tx.outputs : tx.outputs[o].id = Spawned(i, k)}
                         = {witness[i][k][j] : j \in DOMAIN tx.inputs[i].entry.spawns[k]}
                    /\ \A j \in DOMAIN witness[i][k] : tx.outputs[witness[i][k][j]].auth = i
                    /\ \A c \in coins : c.cov # Spawned(i, k)
  BY DEF SpawnsComplete
<1> DEFINE e == tx.inputs[i].entry
           w == witness[i][k]
           id == Spawned(i, k)
           coin == tx.inputs[i].coin
<1>1. /\ i \in DOMAIN tx.inputs
      /\ witness[i] \in Witnesses(tx, e)
      /\ SpawnPrelude(tx, i, witness[i])
      /\ witness[i] \in Seq(Seq(Nat))
  BY DEF IInv
<1>2. e \in Entries \cup {AlienEntry} /\ coin \in coins
  BY <1>1 DEF IInv, Spent
<1>3. k \in DOMAIN e.spawns /\ DOMAIN w = DOMAIN e.spawns[k] /\ w \in Seq(Nat)
  BY <1>1 DEF Witnesses
<1>4. \A j \in DOMAIN w : w[j] \in DOMAIN tx.outputs
  <2>1. w \in UNION {[1..n -> DOMAIN tx.outputs] : n \in 1..Len(tx.outputs)}
    BY <1>1, <1>3 DEF Witnesses
  <2> QED  BY <2>1
<1>5. 1 \in DOMAIN w
  <2>1. w \in UNION {[1..n -> DOMAIN tx.outputs] : n \in 1..Len(tx.outputs)}
    BY <1>1, <1>3 DEF Witnesses
  <2>2. PICK n \in 1..Len(tx.outputs) : w \in [1..n -> DOMAIN tx.outputs]
    BY <2>1
  <2>3. Len(tx.outputs) \in Nat
    <3>1. tx.outputs \in Seq({tx.outputs[o] : o \in DOMAIN tx.outputs})
      BY DEF IInv
    <3> QED  BY <3>1
  <2> QED  BY <2>2, <2>3
<1>6. /\ id = CovenantId(coin.outpoint, P2SHCommitments(tx, w))
      /\ id.outpoint = coin.outpoint
  BY DEF Spawned, SpawnedId, CovenantId
<1>7. tx.outputs[w[1]].id = id
  BY <1>1, <1>3 DEF SpawnPrelude, Spawned
<1>8. Founds(tx, i, id)
  BY <1>1, <1>4, <1>5, <1>6, <1>7, FoundedHere
<1>9. Ascending(w) /\ BindingGroup(tx, i, id) = {w[j] : j \in DOMAIN w}
  BY <1>3, <1>6, <1>8, FoundersAreWitnessed
<1>10. BindingGroup(tx, i, id) = {o \in DOMAIN tx.outputs : tx.outputs[o].id = id}
  BY <1>1, <1>6, FoundedHere DEF BindingGroup
<1>11. \A j \in DOMAIN w : w[j] \in BindingGroup(tx, i, id)
  BY <1>9
<1>12. \A c \in coins : c.cov # id
  BY <1>2, <1>6 DEF IInv, HistoryOK
<1> QED  BY <1>3, <1>9, <1>10, <1>11, <1>12 DEF BindingGroup

\* A script that succeeded spawned exactly the covenants its entry declares.
THEOREM SpawnsAreComplete == Spec => []SpawnsComplete
<1>1. IInv => SpawnsComplete
  BY SpawnsCompleteStep
<1> QED  BY <1>1, HistoryIsSound, PTL

\* A non-empty set of numbers has a least one.
LEMMA LeastNatural ==
  ASSUME NEW T \in SUBSET Nat, T # {}
  PROVE  \E m \in T : \A n \in T : m <= n
<1> DEFINE R == OpToRel(<, Nat)
<1>1. PICK m \in T : \A n \in T : ~ (<<n, m>> \in R)
  <2> HIDE DEF R
  <2>1. IsWellFoundedOn(R, Nat)
    BY NatLessThanWellFounded DEF R
  <2> QED  BY <2>1, WFMin
<1>2. \A n \in T : n < m => <<n, m>> \in R
  BY DEF OpToRel
<1> HIDE DEF R
<1>3. ASSUME NEW n \in T
      PROVE  m <= n
  <2>1. m \in Nat /\ n \in Nat /\ ~(n < m)
    BY <1>1, <1>2
  <2> QED  BY <2>1
<1> QED  BY <1>3

\* The script compares each clause's first output with the previous clause's; so
\* the first outputs of all clauses ascend.
LEMMA FirstOutputsAscend ==
  ASSUME NEW t, NEW i, NEW w \in Seq(Seq(Nat)), SpawnPrelude(t, i, w),
         DOMAIN w = DOMAIN t.inputs[i].entry.spawns,
         \A k \in DOMAIN w : 1 \in DOMAIN w[k],
         NEW k \in DOMAIN w, NEW l \in DOMAIN w, k < l
  PROVE  w[k][1] < w[l][1]
<1> DEFINE first(m) == w[m][1]
           Bad == {m \in DOMAIN w : k < m /\ ~(first(k) < first(m))}
<1>1. DOMAIN w = 1..Len(w) /\ Len(w) \in Nat
  OBVIOUS
<1>2. \A m \in DOMAIN w : first(m) \in Nat
  <2> SUFFICES ASSUME NEW m \in DOMAIN w PROVE w[m][1] \in Nat
    OBVIOUS
  <2>1. w[m] \in Seq(Nat)
    BY <1>1
  <2> QED  BY <2>1
<1>3. \A m \in DOMAIN w : m > 1 => first(m - 1) < first(m)
  BY DEF SpawnPrelude
<1> HIDE DEF first
<1>4. ASSUME Bad # {}
      PROVE  FALSE
  <2>1. Bad \in SUBSET Nat
    BY <1>1
  <2>2. PICK m \in Bad : \A n \in Bad : m <= n
    BY <1>4, <2>1, LeastNatural
  <2>3. m \in 1..Len(w) /\ k \in 1..Len(w) /\ k < m /\ ~(first(k) < first(m))
    BY <1>1, <2>2
  <2> HIDE DEF Bad
  <2>4. m - 1 \in DOMAIN w /\ first(m - 1) < first(m) /\ m - 1 \notin Bad
    <3>1. m \in Nat /\ k \in Nat /\ m > 1
      BY <2>3, <1>1
    <3>2. m - 1 \in 1..Len(w)
      BY <3>1, <2>3, <1>1
    <3>3. m - 1 \notin Bad
      <4>1. ~(m <= m - 1)
        BY <3>1
      <4> QED  BY <2>2, <4>1
    <3>4. m \in DOMAIN w /\ m - 1 \in DOMAIN w
      BY <2>3, <3>2, <1>1
    <3>5. first(m - 1) < first(m)
      BY <1>3, <3>1, <3>4
    <3> QED  BY <3>3, <3>4, <3>5
  <2>5. m - 1 # k
    BY <2>3, <2>4
  <2>6. k < m - 1
    <3>1. k \in Nat /\ m \in Nat /\ k < m
      BY <1>1, <2>3
    <3> QED  BY <2>5, <3>1
  <2>7. first(k) < first(m - 1)
    BY <2>4, <2>6 DEF Bad
  <2>8. first(k) \in Nat /\ first(m - 1) \in Nat /\ first(m) \in Nat
    BY <1>1, <1>2, <2>3, <2>4
  <2> QED  BY <2>3, <2>4, <2>7, <2>8
<1>5. first(k) < first(l)
  BY <1>4
<1> QED  BY <1>5 DEF first

\* Separate clauses have separate ids, whatever the inputs.
LEMMA SpawnsDistinctStep == IInv => SpawnsDistinct
<1> SUFFICES ASSUME IInv, NEW i \in DOMAIN witness, NEW j \in DOMAIN witness,
                    NEW k \in DOMAIN witness[i], NEW l \in DOMAIN witness[j],
                    Spawned(i, k) = Spawned(j, l)
             PROVE  i = j /\ k = l
  BY DEF SpawnsDistinct
<1>1. \A n \in DOMAIN witness : /\ n \in DOMAIN tx.inputs
                                /\ witness[n] \in Witnesses(tx, tx.inputs[n].entry)
                                /\ SpawnPrelude(tx, n, witness[n])
                                /\ witness[n] \in Seq(Seq(Nat))
                                /\ tx.inputs[n].coin \in coins
  <2>1. \A n \in DOMAIN tx.inputs : tx.inputs[n].coin \in coins
    BY DEF IInv, Spent
  <2>2. \A n \in DOMAIN witness : /\ n \in DOMAIN tx.inputs
                                  /\ witness[n] \in Witnesses(tx, tx.inputs[n].entry)
                                  /\ SpawnPrelude(tx, n, witness[n])
    BY DEF IInv
  <2>3. \A n \in DOMAIN witness : witness[n] \in Seq(Seq(Nat))
    BY DEF IInv
  <2> QED  BY <2>1, <2>2, <2>3
<1>2. witness[i][k] \in Seq(Nat) /\ witness[j][l] \in Seq(Nat)
  BY <1>1
<1>3. /\ tx.inputs[i].coin.outpoint = tx.inputs[j].coin.outpoint
      /\ witness[i][k] = witness[j][l]
  BY <1>2, IdsDetermineWitnesses DEF Spawned, SpawnedId
<1>4. i = j
  <2>1. \A c, d \in coins : c.outpoint = d.outpoint => c = d
    BY DEF IInv, HistoryOK
  <2>2. tx.inputs[i].coin = tx.inputs[j].coin
    BY <1>1, <1>3, <2>1
  <2> QED  BY <1>1, <2>2 DEF IInv, Distinct
<1>5. DOMAIN witness[i] = DOMAIN tx.inputs[i].entry.spawns
  BY <1>1 DEF Witnesses
<1>6. \A m \in DOMAIN witness[i] : 1 \in DOMAIN witness[i][m]
  <2> SUFFICES ASSUME NEW m \in DOMAIN witness[i]
               PROVE  1 \in DOMAIN witness[i][m]
    OBVIOUS
  <2>1. witness[i][m] \in UNION {[1..n -> DOMAIN tx.outputs] : n \in 1..Len(tx.outputs)}
    BY <1>1, <1>5 DEF Witnesses
  <2>2. PICK n \in 1..Len(tx.outputs) : witness[i][m] \in [1..n -> DOMAIN tx.outputs]
    BY <2>1
  <2>3. Len(tx.outputs) \in Nat
    <3>1. tx.outputs \in Seq({tx.outputs[o] : o \in DOMAIN tx.outputs})
      BY DEF IInv
    <3> QED  BY <3>1
  <2> QED  BY <2>2, <2>3
<1>7. /\ k < l => witness[i][k][1] < witness[i][l][1]
      /\ l < k => witness[i][l][1] < witness[i][k][1]
  BY <1>1, <1>4, <1>5, <1>6, FirstOutputsAscend
<1>8. witness[i][k][1] \in Nat /\ witness[i][l][1] = witness[i][k][1]
  BY <1>2, <1>3, <1>4, <1>6
<1>9. k \in Nat /\ l \in Nat
  BY <1>1, <1>4
<1> QED  BY <1>4, <1>7, <1>8, <1>9

\* No spawned covenant stands for two declarations.
THEOREM SpawnsAreDistinct == Spec => []SpawnsDistinct
<1>1. IInv => SpawnsDistinct
  BY SpawnsDistinctStep
<1> QED  BY <1>1, HistoryIsSound, PTL
=============================================================================
