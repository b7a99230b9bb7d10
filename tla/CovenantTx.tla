----------------------------- MODULE CovenantTx -----------------------------
(***************************************************************************)
(* Transactions that spend the coins of an app's covenants, and the         *)
(* generated Silverscript that runs for each of their inputs.               *)
(*                                                                         *)
(* A spender who knows nothing but the rules of consensus proposes any      *)
(* transaction: any inputs in any order, any entry of the contract each     *)
(* input carries, any outputs, authorized by any input.  The scripts then   *)
(* run one input at a time; a transaction all of whose scripts succeed may  *)
(* be committed, any other is dropped.                                      *)
(*                                                                         *)
(* Consensus (KIP-20), which is outside the repository, gives each          *)
(* continuation output one authorizing input whose covenant id it carries.  *)
(* A contract's identity is abstracted to its actor: a template proof that  *)
(* expects actor a succeeds exactly on the scripts of a.  State values,     *)
(* entry bodies, coin amounts and genesis outputs (which belong to no       *)
(* continuation group) are left out.                                        *)
(***************************************************************************)
EXTENDS EntryPlan

CONSTANTS
  Apps,        \* the compiled apps under study
  Actor,       \* every actor of every app
  Alien,       \* a script that is no actor of any app
  Cov,         \* the covenant ids created by an honest genesis
  NoCov,       \* the covenant id of an input that carries none
  MaxInputs,   \* bound on a transaction's inputs
  MaxOutputs,  \* bound on a transaction's continuation outputs
  MaxCoins     \* bound on the live coins of one script in one covenant

ASSUME CovenantTxAssumption ==
  /\ \A a \in Apps : ValidApp(a) /\ a.actors \subseteq Actor
  /\ Alien \notin Actor
  /\ NoCov \notin Cov
  /\ IsFiniteSet(Cov)
  /\ MaxInputs \in Nat /\ MaxOutputs \in Nat /\ MaxCoins \in Nat

VARIABLES
  app,      \* the app whose covenants are spent; never changes
  ledger,   \* the number of live coins of each script in each covenant
  phase,    \* "idle", or "running" while a transaction is being validated
  tx,       \* the transaction under validation
  next      \* the input whose script runs next

vars == <<app, ledger, phase, tx, next>>

Script == Actor \cup {Alien}

\* What an input that is not an app actor runs: a script that always succeeds.
AlienEntry == [actor |-> Alien, kind |-> "alien",
               consumes |-> <<>>, emits |-> <<>>]

NoTx == [inputs |-> <<>>, outputs |-> <<>>]

-----------------------------------------------------------------------------
(* The introspection opcodes, over a transaction t.                        *)

\* I(c): the inputs that carry covenant c.
CovInputs(t, c) == {i \in DOMAIN t.inputs : t.inputs[i].cov = c}

\* A(i): the continuation outputs input i authorizes.
AuthOutputs(t, i) == {o \in DOMAIN t.outputs : t.outputs[o].auth = i}

\* O(c): the continuation outputs that carry covenant c.
CovOutputs(t, c) ==
  {o \in DOMAIN t.outputs : t.inputs[t.outputs[o].auth].cov = c}

\* The 0-based position of index i in an ordered set S of indexes, and the
\* OpXIdx(.., k) reads: i is member k of S. A read past the end fails.
Position(S, i) == Cardinality({j \in S : j < i})

MemberAt(S, k, i) == i \in S /\ Position(S, i) = k

-----------------------------------------------------------------------------
(* The generated prelude of an entry.                                      *)

\* The checks made by the group policy of the entry that input i invokes.
GroupPolicyCheck(a, t, i) ==
  LET e     == t.inputs[i].entry
      group == CovInputs(t, t.inputs[i].cov)
      count == Cardinality(group)
  IN  CASE GroupPolicy(a, e) = "Batchable" -> TRUE
        [] GroupPolicy(a, e) = "LeaderRanged" -> MemberAt(group, 0, i)
        [] GroupPolicy(a, e) = "LeaderFixed" ->
             /\ count = GroupCount(e)
             /\ GroupCount(e) > 1 => MemberAt(group, 0, i)
        [] GroupPolicy(a, e) = "Delegate" ->
             /\ count >= GroupCount(e)
             /\ ~MemberAt(group, 0, i)

\* The read that clause j of `consumes` makes of group member m.
ReadsConsumed(a, t, e, j, m) ==
  CovenantDomainRead(a, e, e.consumes[j])
    \/ t.inputs[m].script \in e.consumes[j].targets

\* Mutant of ConsumesCheck: indexes the transaction's inputs, not the covenant's.
TransactionWideConsumesCheck(a, t, i) ==
  LET e     == t.inputs[i].entry
      count == Cardinality(CovInputs(t, t.inputs[i].cov))
  IN  /\ RangeCountInBounds(e.consumes, SlotOffset(e), count)
      /\ \A j \in DOMAIN e.consumes :
           \A p \in Positions(e.consumes, j, SlotOffset(e), count) :
             \E m \in DOMAIN t.inputs :
               MemberAt(DOMAIN t.inputs, p, m) /\ ReadsConsumed(a, t, e, j, m)

\* Every consumed position is read, and authenticated where it must be.
ConsumesCheck(a, t, i) ==
  LET e     == t.inputs[i].entry
      group == CovInputs(t, t.inputs[i].cov)
      count == Cardinality(group)
  IN  /\ RangeCountInBounds(e.consumes, SlotOffset(e), count)
      /\ \A j \in DOMAIN e.consumes :
           \A p \in Positions(e.consumes, j, SlotOffset(e), count) :
             \E m \in group : MemberAt(group, p, m) /\ ReadsConsumed(a, t, e, j, m)

OptionalDelegateCheck(a, t, i) ==
  RequiresOptionalDelegateGuard(a, t.inputs[i].entry)
    => MemberAt(CovInputs(t, t.inputs[i].cov), 0, i)

CurrentInputPrelude(a, t, i) ==
  /\ GroupPolicyCheck(a, t, i)
  /\ GroupPolicy(a, t.inputs[i].entry) # "Batchable" => ConsumesCheck(a, t, i)
  /\ OptionalDelegateCheck(a, t, i)

\* Mutants of CurrentOutputPrelude: without the coordination check, and with a
\* lower bound in place of the exact count.
UncoordinatedOutputPrelude(t, i) ==
  LET e     == t.inputs[i].entry
      count == Cardinality(AuthOutputs(t, i))
  IN  /\ ~HasRange(e.emits) => count = Len(e.emits)
      /\ RangeCountInBounds(e.emits, 0, count)

LooseOutputPrelude(t, i) ==
  LET e     == t.inputs[i].entry
      count == Cardinality(AuthOutputs(t, i))
  IN  /\ ~HasRange(e.emits) => count >= Len(e.emits)
      /\ RangeCountInBounds(e.emits, 0, count)
      /\ CoordinatesCurrentOutputs(e) =>
           Cardinality(CovOutputs(t, t.inputs[i].cov)) = count

\* The count and coordination checks over the outputs input i authorizes.
CurrentOutputPrelude(t, i) ==
  LET e     == t.inputs[i].entry
      count == Cardinality(AuthOutputs(t, i))
  IN  /\ ~HasRange(e.emits) => count = Len(e.emits)
      /\ RangeCountInBounds(e.emits, 0, count)
      /\ CoordinatesCurrentOutputs(e) =>
           Cardinality(CovOutputs(t, t.inputs[i].cov)) = count

\* Mutant of RoutesCheck: the outputs of a range are never validated.
SingletonRoutesCheck(t, i) ==
  LET e    == t.inputs[i].entry
      auth == AuthOutputs(t, i)
  IN  \A j \in DOMAIN e.emits \ RangeIndexes(e.emits) :
        \A p \in Positions(e.emits, j, 0, Cardinality(auth)) :
          \E o \in auth : /\ MemberAt(auth, p, o)
                          /\ t.outputs[o].script \in e.emits[j].targets

\* The `become` routes of a terminal path validate every output once, against
\* an actor its clause permits.
RoutesCheck(t, i) ==
  LET e    == t.inputs[i].entry
      auth == AuthOutputs(t, i)
  IN  \A j \in DOMAIN e.emits :
        \A p \in Positions(e.emits, j, 0, Cardinality(auth)) :
          \E o \in auth : /\ MemberAt(auth, p, o)
                          /\ t.outputs[o].script \in e.emits[j].targets

EntrySucceeds(a, t, i) ==
  /\ CurrentInputPrelude(a, t, i)
  /\ CurrentOutputPrelude(t, i)
  /\ RoutesCheck(t, i)

ScriptSucceeds(a, t, i) ==
  t.inputs[i].script # Alien => EntrySucceeds(a, t, i)

-----------------------------------------------------------------------------
(* The runtime builder's own check of the inputs, before any script runs.   *)

\* A bound on the inputs of the covenant group: the sum of a field of the
\* `consumes` clauses, and the input itself.
InputBound(e, field) ==
  LET total[k \in 0..Len(e.consumes)] ==
        IF k = 0 THEN 1 ELSE total[k - 1] + e.consumes[k][field]
  IN  total[Len(e.consumes)]

\* Mutant of LeaderInputCountAccepted: a range is counted like a singleton.
LeaderClauseCountAccepted(a, t, i) ==
  LET e     == t.inputs[i].entry
      found == Cardinality(CovInputs(t, t.inputs[i].cov))
  IN  e.kind = "leader" /\ IsLeaderActor(a, e.actor) => found = GroupCount(e)

LeaderInputCountAccepted(a, t, i) ==
  LET e     == t.inputs[i].entry
      found == Cardinality(CovInputs(t, t.inputs[i].cov))
  IN  e.kind = "leader" /\ IsLeaderActor(a, e.actor) =>
        InputBound(e, "min") <= found /\ found <= InputBound(e, "max")

-----------------------------------------------------------------------------
(* Consensus.                                                              *)

\* The inputs a spender may use: an actor contract with one of its entries, an
\* alien script, with or without a covenant.
InputSpace(a) ==
  {[cov |-> c, script |-> e.actor, entry |-> e] : c \in Cov, e \in a.entries}
    \cup {[cov |-> c, script |-> Alien, entry |-> AlienEntry] : c \in Cov \cup {NoCov}}

OutputSpace(inputs) ==
  [script : Script, auth : {i \in DOMAIN inputs : inputs[i].cov \in Cov}]

Spent(t, c, s) == Cardinality({i \in CovInputs(t, c) : t.inputs[i].script = s})

Created(t, c, s) == Cardinality({o \in CovOutputs(t, c) : t.outputs[o].script = s})

\* Every input spends a live coin.
Spendable(l, t) == \A c \in Cov, s \in Script : Spent(t, c, s) <= l[c][s]

Apply(l, t) ==
  [c \in Cov |-> [s \in Script |-> l[c][s] - Spent(t, c, s) + Created(t, c, s)]]

WithinBounds(l) == \A c \in Cov, s \in Script : l[c][s] <= MaxCoins

-----------------------------------------------------------------------------
(* The state machine.                                                      *)

\* Honest genesis: a covenant starts with coins of the app's own actors.
InitialLedgers(a) ==
  {l \in [Cov -> [Script -> 0..MaxCoins]] :
     \A c \in Cov, s \in Script : s \notin a.actors => l[c][s] = 0}

Init ==
  /\ app \in Apps
  /\ ledger \in InitialLedgers(app)
  /\ phase = "idle"
  /\ tx = NoTx
  /\ next = 1

BoundedSeqs(S, n) == UNION {[1..k -> S] : k \in 0..n}

\* A spender proposes a transaction that consensus does not refuse outright.
Propose ==
  /\ phase = "idle"
  /\ \E inputs \in BoundedSeqs(InputSpace(app), MaxInputs) \ {<<>>} :
       /\ Spendable(ledger, [inputs |-> inputs, outputs |-> <<>>])
       /\ \E outputs \in BoundedSeqs(OutputSpace(inputs), MaxOutputs) :
            tx' = [inputs |-> inputs, outputs |-> outputs]
  /\ phase' = "running"
  /\ next' = 1
  /\ UNCHANGED <<app, ledger>>

\* Mutant of RunScript: the loop over the inputs skips one.
RunScriptSkipping(policy) ==
  /\ phase = "running"
  /\ next \in DOMAIN tx.inputs
  /\ tx.inputs[next].script # Alien
  /\ GroupPolicy(app, tx.inputs[next].entry) = policy
  /\ EntrySucceeds(app, tx, next)
  /\ next' = next + 2
  /\ UNCHANGED <<app, ledger, phase, tx>>

RunScript(policy) ==
  /\ phase = "running"
  /\ next \in DOMAIN tx.inputs
  /\ tx.inputs[next].script # Alien
  /\ GroupPolicy(app, tx.inputs[next].entry) = policy
  /\ EntrySucceeds(app, tx, next)
  /\ next' = next + 1
  /\ UNCHANGED <<app, ledger, phase, tx>>

RunBatchable    == RunScript("Batchable")
RunLeaderFixed  == RunScript("LeaderFixed")
RunLeaderRanged == RunScript("LeaderRanged")
RunDelegate     == RunScript("Delegate")

RunAlien ==
  /\ phase = "running"
  /\ next \in DOMAIN tx.inputs
  /\ tx.inputs[next].script = Alien
  /\ next' = next + 1
  /\ UNCHANGED <<app, ledger, phase, tx>>

\* A script of the transaction fails.
Reject ==
  /\ phase = "running"
  /\ next \in DOMAIN tx.inputs
  /\ ~ScriptSucceeds(app, tx, next)
  /\ phase' = "idle" /\ tx' = NoTx /\ next' = 1
  /\ UNCHANGED <<app, ledger>>

\* Every script has succeeded.
AllSucceeded == phase = "running" /\ next = Len(tx.inputs) + 1

Commit ==
  /\ AllSucceeded
  /\ WithinBounds(Apply(ledger, tx))
  /\ ledger' = Apply(ledger, tx)
  /\ phase' = "idle" /\ tx' = NoTx /\ next' = 1
  /\ UNCHANGED app

\* An accepted transaction loses to another one, or is never mined.
Abandon ==
  /\ AllSucceeded
  /\ phase' = "idle" /\ tx' = NoTx /\ next' = 1
  /\ UNCHANGED <<app, ledger>>

Next ==
  \/ Propose
  \/ RunBatchable \/ RunLeaderFixed \/ RunLeaderRanged \/ RunDelegate
  \/ RunAlien
  \/ Reject
  \/ Commit
  \/ Abandon

Spec == Init /\ [][Next]_vars

-----------------------------------------------------------------------------
(* Reference meaning of a section: the sequence of clauses its items obey,  *)
(* once its range has taken n items.                                        *)

Expansion(section, n) ==
  IF ~HasRange(section) THEN section
  ELSE LET k == RangeIndex(section)
       IN  SubSeq(section, 1, k - 1) \o [x \in 1..n |-> section[k]]
             \o SubSeq(section, k + 1, Len(section))

RangeLengths(section) ==
  IF HasRange(section)
    THEN section[RangeIndex(section)].min .. section[RangeIndex(section)].max
    ELSE {0}

\* The ordered members carry, one for one, what the section declares.
Matches(section, members, scripts) ==
  \E n \in RangeLengths(section) :
    LET items == Expansion(section, n)
    IN  /\ Cardinality(members) = Len(items)
        /\ \A m \in members : scripts[m] \in items[Position(members, m) + 1].targets

InputScripts(t)  == [i \in DOMAIN t.inputs |-> t.inputs[i].script]
OutputScripts(t) == [o \in DOMAIN t.outputs |-> t.outputs[o].script]

\* Input l runs a coordinated leader entry.
Coordinates(t, l) == CoordinatesCurrentOutputs(t.inputs[l].entry)

Group(t, i) == CovInputs(t, t.inputs[i].cov)

-----------------------------------------------------------------------------
(* Properties.                                                             *)

TypeOK ==
  /\ app \in Apps
  /\ ledger \in [Cov -> [Script -> Nat]]
  /\ phase \in {"idle", "running"}
  /\ tx.inputs \in Seq(InputSpace(app))
  /\ tx.outputs \in Seq(OutputSpace(tx.inputs))
  /\ next \in 1..(Len(tx.inputs) + 1)

\* Property 1 of leader-delegate-input-groups.md.  A delegate approves a
\* transition only when the first input of its covenant group is the declared
\* leader actor, running an ordinary entry that consumes others: never an
\* entry of the leader that ignores the group, and never another delegate.
LeaderIntegrity ==
  AllSucceeded =>
    \A d \in DOMAIN tx.inputs :
      tx.inputs[d].entry.kind = "delegate" =>
        \E l \in Group(tx, d) :
          /\ MemberAt(Group(tx, d), 0, l)
          /\ tx.inputs[d].entry.consumes[1].targets = {tx.inputs[l].script}
          /\ Coordinates(tx, l)

\* Property 2.  The other inputs of a coordinated group are exactly the items
\* the leader's `consumes` declares, each of the declared actor, in order:
\* none missing, none extra, none skipped by the FromStart / Range / FromEnd
\* index arithmetic.
InputClosure ==
  AllSucceeded =>
    \A l \in DOMAIN tx.inputs :
      Coordinates(tx, l) =>
        /\ MemberAt(Group(tx, l), 0, l)
        /\ Matches(tx.inputs[l].entry.consumes, Group(tx, l) \ {l}, InputScripts(tx))

\* Property 3.  A coordinated leader authorizes every continuation of its
\* covenant: no consumed input opens a parallel one.
ContinuationOwnership ==
  AllSucceeded =>
    \A l \in DOMAIN tx.inputs :
      Coordinates(tx, l) =>
        AuthOutputs(tx, l) = CovOutputs(tx, tx.inputs[l].cov)

\* Property 4.  At a consumed position whose actor declares a delegate for the
\* leader, a delegate for that leader ran: an ordinary entry of the same
\* contract, which the leader cannot tell apart, did not take its place.
DelegatePositionIntegrity ==
  AllSucceeded =>
    \A l \in DOMAIN tx.inputs :
      Coordinates(tx, l) =>
        \A d \in Group(tx, l) \ {l} :
          (\E e \in LeaderFor(app, tx.inputs[l].script) : e.actor = tx.inputs[d].script)
            => tx.inputs[d].entry \in LeaderFor(app, tx.inputs[l].script)

\* Rule 4.  The continuations an ordinary entry authorizes are exactly the
\* items its `emits` declares, in order; a delegate authorizes none.
AuthorizedOutputIntegrity ==
  AllSucceeded =>
    \A i \in DOMAIN tx.inputs :
      tx.inputs[i].script # Alien =>
        Matches(tx.inputs[i].entry.emits, AuthOutputs(tx, i), OutputScripts(tx))

\* Property 6.  An independent entry that always continues, on an actor that
\* leads nobody, is accepted on the strength of the outputs it authorizes alone,
\* wherever it stands and whoever else spends in the transaction: the policy
\* adds no cost to a batch, and the delegate guard of Rule 6 reaches only
\* entries that may emit nothing.
IndependentContinuation(a, e) ==
  /\ e.kind = "leader" /\ e.consumes = <<>>
  /\ ~IsLeaderActor(a, e.actor)
  /\ \E j \in DOMAIN e.emits : e.emits[j].min > 0

BatchIndependence ==
  \A i \in DOMAIN tx.inputs :
    IndependentContinuation(app, tx.inputs[i].entry) =>
      (EntrySucceeds(app, tx, i) <=>
         Matches(tx.inputs[i].entry.emits, AuthOutputs(tx, i), OutputScripts(tx)))

\* The runtime builder refuses a context by the number of inputs a leader entry
\* would share its covenant with, before any script runs.  It never refuses what
\* the script of that input accepts.
PrecheckSound ==
  \A i \in DOMAIN tx.inputs :
    tx.inputs[i].script # Alien /\ EntrySucceeds(app, tx, i) =>
      LeaderInputCountAccepted(app, tx, i)

\* An honestly created covenant only ever holds coins of its own app's actors.
\* This is what lets a singleton app read a consumed input without a proof
\* (InputAuthentication::CovenantDomain).
ClosedDomain ==
  \A c \in Cov, s \in Script : s \notin app.actors => ledger[c][s] = 0

\* The inductive invariant: the proposed transaction spends live coins, and the
\* scripts before "next" have succeeded on it.
Progress ==
  /\ Spendable(ledger, tx)
  /\ phase = "running" => \A i \in 1..(next - 1) : ScriptSucceeds(app, tx, i)

IInv == TypeOK /\ ClosedDomain /\ Progress

-----------------------------------------------------------------------------
(* Refinement: forgetting transactions and scripts, every committed         *)
(* transaction is a step of CovenantApp.                                    *)

Coins == [c \in Cov |-> [a \in Actor |-> ledger[c][a]]]

App == INSTANCE CovenantApp WITH coins <- Coins, MaxMoves <- MaxInputs

\* The generated scripts implement the app: whatever transaction is committed,
\* each covenant makes one coordinated move or a batch of independent ones, and
\* no coin appears or disappears outside a declared move.
ImplementsApp == App!Spec
=============================================================================
