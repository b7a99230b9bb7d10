----------------------------- MODULE MCBuilding -----------------------------
(***************************************************************************)
(* Three parts in one run: the transactions of a chain whose inputs spawn  *)
(* genesis groups, the runtime builder of such a transaction, and the      *)
(* hidden arguments of an entry.  The initial state chooses which; the     *)
(* variables of the others stay as they are.                               *)
(***************************************************************************)
EXTENDS GenesisTx, GenesisProof

CONSTANTS A, B,          \* of a chain
          MaxDeclared,   \* of a context
          S, L, Refused, \* of an entry
          OwnKind  \* whether an actor alone in its app observes its own kind

VARIABLES
  study,                   \* "chain", "context" or "entry"
  entry, spend, args, step \* of an entry

arguments == <<entry, spend, args, step>>

-----------------------------------------------------------------------------
(* Chains. *)

MCActor == {A, B}

Plain(a) == [p2sh |-> TRUE, redeem |-> [actor |-> a, state |-> "s"]]

\* Two clauses that only their order tells apart, a clause of two members, one
\* of one, and an actor that spawns nothing.
MCEntries ==
  {[actor |-> A, spawns |-> <<<<B>>, <<B>>>>],
   [actor |-> A, spawns |-> <<<<B, A>>>>],
   [actor |-> A, spawns |-> <<<<A>>>>],
   [actor |-> B, spawns |-> <<>>]}

\* The covenant that coin 1, long spent, founded.
Old == CovenantId(1, <<<<1, Plain(A)>>>>)

MCCoins ==
  {[outpoint |-> 2, cov |-> Old, script |-> Plain(A)],
   [outpoint |-> 3, cov |-> NoId, script |-> Plain(A)]}

OneCoin == {[outpoint |-> 2, cov |-> Old, script |-> Plain(A)]}

-----------------------------------------------------------------------------
(* Contexts of the builder: two inputs and a few outputs. *)

Founded == CovenantId(1, <<>>)

Coin(n, a, c) == [outpoint |-> n, cov |-> c,
                  script |-> [p2sh |-> a # Alien, redeem |-> [actor |-> a, state |-> Static]]]

Spawner(spawns) == [coin |-> Coin(2, A, Founded), entry |-> [actor |-> A, spawns |-> spawns]]

Wallet == [coin |-> Coin(3, Alien, NoId), entry |-> [actor |-> Alien, spawns |-> <<>>]]

\* Two clauses that may interleave, beside a wallet; one clause, beside a wallet or
\* an input that spawns too; none; and a coin that is not the declared actor's.
ContextInputs ==
  {<<Spawner(<<<<B, A>>, <<B>>>>), Wallet>>,
   <<Spawner(<<<<B>>>>), Wallet>>,
   <<Spawner(<<<<B>>>>), [coin |-> Coin(3, B, Founded),
                           entry |-> [actor |-> B, spawns |-> <<<<A, B>>>>]]>>,
   <<Spawner(<<>>), Wallet>>,
   <<[coin |-> Coin(2, B, Founded), entry |-> [actor |-> A, spawns |-> <<>>]], Wallet>>}

Slot1(path) == [auth |-> 1, path |-> path]

Slot2(path) == [auth |-> 2, path |-> path]

GoodSlots == {Slot1(<<"launch", 1>>), Slot1(<<"spawn", 1>>), Slot1(<<"spawn", 2>>),
              Slot2(<<"spawn", 1>>)}

\* An unknown namespace, one segment, an empty name, an authorizer out of range.
BadSlots == {Slot1(<<"other", 1>>), Slot1(<<"spawn">>), Slot1(<<"launch", 0>>),
             [auth |-> 3, path |-> <<"launch", 1>>]}

Unbound == {[owner |-> a, reads |-> NoKey, covenant |-> "unbound"] : a \in {A, Alien}}

Existing ==
  {[owner |-> a, reads |-> r, covenant |-> "existing", auth |-> 1] :
     a \in {A}, r \in {NoKey, Slot1(<<"spawn", 1>>), Slot1(<<"launch", 1>>)}}

Founding(a, reads, slots) ==
  {[owner |-> a, reads |-> reads, covenant |-> "genesis", auth |-> s.auth, path |-> s.path] :
     s \in slots}

ContextOutputs ==
  Unbound \cup Existing \cup Founding(A, NoKey, GoodSlots \cup BadSlots)
    \cup Founding(B, NoKey, GoodSlots)
    \cup Founding(Alien, NoKey, {Slot1(<<"launch", 1>>), Slot1(<<"spawn", 1>>)})
    \cup Founding(A, Slot1(<<"launch", 1>>), {Slot1(<<"spawn", 1>>)})

-----------------------------------------------------------------------------
(* Apps a package may carry, and what may be made of one.                   *)

\* The app of both actors, one of A alone, and a build in which the names of the
\* two actors are exchanged.
ProofApps ==
  {[name |-> "app", actors |-> [a \in {A, B} |-> a]],
   [name |-> "alone", actors |-> [a \in {A} |-> a]],
   [name |-> "app", actors |-> [a \in {A, B} |-> IF a = A THEN B ELSE A]]}

Renamed(outputs) == [j \in DOMAIN outputs |-> [outputs[j] EXCEPT !.actor = IF @ = A THEN B ELSE A]]

\* Without an output, in another order, elsewhere, of other actors or states.
Retold(outputs) ==
  {SubSeq(outputs, 2, Len(outputs)), SubSeq(outputs, 1, Len(outputs) - 1),
   [j \in DOMAIN outputs |-> outputs[Len(outputs) + 1 - j]],
   [outputs EXCEPT ![1].index = @ + 1],
   [outputs EXCEPT ![1].actor = IF @ = A THEN B ELSE A],
   [outputs EXCEPT ![1].state = NoKey],
   Renamed(outputs)}

AlteredPackages(p, claims) ==
  {[p EXCEPT !.claim = c] : c \in claims}
    \cup {[p EXCEPT !.outputs = o] : o \in Retold(p.outputs)}
    \cup {[p EXCEPT !.outputs = o, !.outpoint = 1, !.claim = c] : o \in Retold(p.outputs), c \in claims}
    \cup {[p EXCEPT !.app = a, !.outputs = o] : a \in ProofApps, o \in {p.outputs, Renamed(p.outputs)}}

-----------------------------------------------------------------------------

BuilderContexts ==
  [inputs : ContextInputs, outputs : UNION {[1..n -> ContextOutputs] : n \in 0..MaxDeclared}]

-----------------------------------------------------------------------------
(* Entries. *)

M == INSTANCE MCEntries WITH Self <- S, Linked <- <<L>>

SpendsOf(e) == M!MCTransactions(e)

E == INSTANCE EntryArguments WITH
       Self <- S, Linked <- <<L>>, phase <- step, tx <- spend, Transactions <- SpendsOf,
       Entries <- IF OwnKind THEN M!MCOwnKind ELSE M!MCEntries

NoChain == coins = {} /\ made = 0 /\ phase = "none" /\ tx = NoTx /\ witness = <<>>
NoContext ==
  /\ ctx = E!None /\ pass = "none" /\ groups = NoGroups /\ ids = NoGroups
  /\ built = <<>> /\ pos = 1 /\ found = <<>>
NoEntry == entry = E!None /\ spend = E!None /\ args = E!None /\ step = "none"

BuildingInit ==
  \/ study = "chain" /\ Init /\ NoContext /\ NoEntry
  \/ study = "context" /\ BuilderInit /\ NoChain /\ NoEntry
  \/ study = "entry" /\ E!Init /\ NoChain /\ NoContext

BuildingNext ==
  \/ study = "chain" /\ Next /\ UNCHANGED <<study, builderVars, arguments>>
  \/ study = "context" /\ BuilderNext /\ UNCHANGED <<study, vars, arguments>>
  \/ study = "entry" /\ E!Next /\ UNCHANGED <<study, vars, builderVars>>

BuildingSpec == BuildingInit /\ [][BuildingNext]_<<study, vars, builderVars, arguments>>

-----------------------------------------------------------------------------
(* The properties of an entry; those of a chain and of a context are true   *)
(* of what their variables hold while another part is under study.          *)

ScriptMeansDeclaration == study = "entry" => E!ScriptMeansDeclaration
ArgumentsFit == study = "entry" => E!ArgumentsFit
ObservedInputsProved == study = "entry" => E!ObservedInputsProved
=============================================================================
