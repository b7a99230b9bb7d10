---------------------------- MODULE MCCovenantTx ----------------------------
(***************************************************************************)
(* Small apps for CovenantTx, one per shape of interaction.                 *)
(***************************************************************************)
EXTENDS CovenantTx

LOCAL INSTANCE FiniteSetsExt

CONSTANTS
  L, D, X,  \* actors: a leader, a delegate-capable actor, another one
  c1, c2    \* covenants

MCActor == {L, D, X}

Entry(actor, kind, consumes, emits) ==
  [actor |-> actor, kind |-> kind, consumes |-> consumes, emits |-> emits]

Leader(actor, consumes, emits)   == Entry(actor, "leader", consumes, emits)
Delegate(actor, consumes)        == Entry(actor, "delegate", consumes, <<>>)

\* A leader and a delegate-capable actor: next to its delegate, D has an entry
\* that always continues, one that emits nothing and one that may emit nothing.
PairApp ==
  [actors  |-> {L, D},
   entries |-> {Leader(L, <<One({D})>>, <<One({L})>>),
                Leader(L, <<>>, <<One({L})>>),
                Delegate(D, <<One({L})>>),
                Leader(D, <<>>, <<One({D})>>),
                Leader(D, <<>>, <<>>),
                Leader(D, <<>>, <<Ranged({D}, 0, 1)>>)}]

\* A leader with a ranged consume, and an output with two permitted actors.
SweepApp ==
  [actors  |-> {L, D},
   entries |-> {Leader(L, <<Ranged({D}, 0, 2)>>, <<One({L, D})>>),
                Delegate(D, <<One({L})>>),
                Leader(D, <<>>, <<Ranged({D}, 1, 2)>>)}]

\* A consume after a range (FromEnd), and an output after a range.
TailApp ==
  [actors  |-> {L, D, X},
   entries |-> {Leader(L, <<Ranged({D}, 0, 1), One({X})>>, <<Ranged({L}, 0, 1), One({X})>>),
                Delegate(D, <<One({L})>>),
                Leader(X, <<>>, <<>>),
                Leader(X, <<>>, <<One({X})>>)}]

\* A singleton app that leads itself: consumed inputs are read by domain.
SelfApp ==
  [actors  |-> {L},
   entries |-> {Leader(L, <<One({L})>>, <<One({L})>>),
                Leader(L, <<One({L}), Ranged({L}, 1, 1)>>, <<>>),
                Leader(L, <<>>, <<One({L}), One({L})>>),
                Delegate(L, <<One({L})>>)}]

\* A coordinated leader over an actor that declares no delegate.
PlainApp ==
  [actors  |-> {L, X},
   entries |-> {Leader(L, <<One({X})>>, <<One({L}), One({X})>>),
                Leader(X, <<>>, <<>>),
                Leader(X, <<>>, <<One({X})>>),
                Leader(X, <<One({X})>>, <<One({X})>>)}]

\* A leader whose move shows in the ledger, its delegate, and an actor that can
\* take the delegate's place in a group of two: enough for transactions that span
\* two covenants.
TrioApp ==
  [actors  |-> {L, D, X},
   entries |-> {Leader(L, <<One({D})>>, <<>>),
                Delegate(D, <<One({L})>>),
                Leader(D, <<>>, <<One({D})>>),
                Leader(X, <<>>, <<>>)}]

MCApps == {PairApp, SweepApp, TailApp, SelfApp, PlainApp, TrioApp}
MCCov == {c1, c2}

\* The second covenant is there for TrioApp, whose coins are few.
FewCoins ==
  IF app = TrioApp THEN \A c \in Cov, s \in Script : ledger[c][s] <= 1
  ELSE /\ MapThenSumSet(LAMBDA s : ledger[c1][s], Script) <= 4
       /\ \A s \in Script : ledger[c2][s] = 0

SmallTransactions == IF app = TrioApp THEN Len(tx.outputs) <= 1 ELSE Len(tx.inputs) <= 3

MCInit == Init /\ FewCoins

MCNext ==
  \/ Propose /\ SmallTransactions'
  \/ RunBatchable \/ RunLeaderFixed \/ RunLeaderRanged \/ RunDelegate \/ RunAlien
  \/ Reject \/ Abandon
  \/ Commit /\ FewCoins'

MCSpec == MCInit /\ [][MCNext]_vars
=============================================================================
