------------------------------ MODULE MCEntries ------------------------------
(***************************************************************************)
(* Entries of an app of one or two actors that may observe a linked one,   *)
(* the transactions that may spend them, and the apps they make.           *)
(***************************************************************************)
EXTENDS EntryScript

CONSTANTS S, A, L

Two == <<S, A>>
One == <<S>>

Fixed(a) == <<"actor", a>>
Open(x) == <<"open", x>>
Value == <<"value", "v">>
Selector == <<"selector", "s">>

Consume(a, min, max) == [actor |-> a, min |-> min, max |-> max]

UpTo(set, n) == UNION {[1..k -> set] : k \in 0..n}

Entry(app, consumes, emits, observes, spawns) ==
  [app |-> app, consumes |-> consumes, emits |-> emits, observes |-> observes, spawns |-> spawns,
   variants |-> IF Selector \in Items(emits) THEN app ELSE <<>>]

Consumes(app) ==
  {c \in UpTo({Consume(a, 1, 1) : a \in Items(app)} \cup {Consume(a, m, 2) : a \in Items(app), m \in {0, 1}}, 2) :
     Cardinality({n \in DOMAIN c : Ranged(c[n])}) <= 1}

\* One member each, and no range, in the entries that observe.
FewConsumes == {<<>>, <<Consume(A, 1, 1)>>, <<Consume(A, 0, 1)>>}

Emits(app) == UpTo({Fixed(a) : a \in Items(app)} \cup {Selector}, 1)

Current ==
  UNION {{Entry(app, c, m, <<>>, <<>>) : c \in Consumes(app), m \in Emits(app)} : app \in {One, Two}}

Spawning ==
  {Entry(Two, c, m, <<>>, s) : c \in FewConsumes, m \in {<<>>, <<Fixed(A)>>, <<Selector>>},
                               s \in {<<<<Fixed(A)>>>>, <<<<Value>>>>, <<<<Value, Fixed(A)>>>>, <<<<Value>>, <<Value>>>>}}

Targets(x) == {Fixed(A), Fixed(L), Open(x), Value}

Observe(ins, outs) == [inputs |-> ins, outputs |-> outs]

Observing ==
  {Entry(Two, <<>>, <<>>, <<Observe(i, o)>>, <<>>) :
     i \in UpTo(Targets("x") \cup {Fixed(S)}, 2), o \in UpTo(Targets("x") \cup {Fixed(S)}, 1)}
    \cup {Entry(Two, <<>>, <<>>, <<Observe(i, o)>>, <<>>) : i \in UpTo(Targets("x"), 1), o \in UpTo(Targets("x"), 2)}
    \cup {Entry(Two, c, m, <<Observe(i, o)>>, <<>>) :
            c \in FewConsumes, m \in UpTo({Fixed(A)}, 1), i \in UpTo(Targets("x"), 1), o \in UpTo(Targets("x"), 1)}
    \cup {Entry(One, <<>>, <<>>, <<Observe(i, o)>>, <<>>) :
            i \in UpTo({Fixed(L), Open("x"), Value}, 1), o \in UpTo({Fixed(L), Open("x"), Value, Fixed(S)}, 1)}

ObservingTwice ==
  {Entry(Two, <<>>, <<>>, <<Observe(i, o), Observe(j, p)>>, s) :
     i \in [{1} -> Targets("x") \ {Fixed(A)}], o \in UpTo(Targets("x") \ {Fixed(A)}, 1),
     j \in [{1} -> Targets("y") \ {Fixed(A)}], p \in UpTo(Targets("y") \ {Fixed(A)}, 1),
     s \in {<<>>, <<<<Value>>>>}}

\* No clause at all leaves nothing to check.
MCEntries ==
  {e \in Current \cup Spawning \cup Observing \cup ObservingTwice :
     \A o \in Items(e.observes) : o.inputs # <<>> \/ o.outputs # <<>>}

\* An actor alone in its app that observes its own kind.
MCOwnKind == {Entry(One, <<>>, <<>>, <<Observe(<<Fixed(S)>>, o)>>, <<>>) : o \in UpTo({Fixed(S), Fixed(L)}, 1)}

\* The members of a consumed group are of the app; others are anyone.
Anyone == {S, A, L}

\* A choice for each element of a sequence of sets.
Picks(sets) == {f \in [DOMAIN sets -> UNION Items(sets)] : \A n \in DOMAIN sets : f[n] \in sets[n]}

Groups(e) ==
  Picks([i \in DOMAIN e.consumes |->
             UNION {[1..k -> Items(e.app)] : k \in e.consumes[i].min..e.consumes[i].max}])

\* The members of a covenant are of one app; now and then there is one too many.
Sides(e, o) ==
  LET side(s, app) == [DOMAIN e.observes[o][s] -> app]
  IN  UNION {{Observe(i, p) : i \in side("inputs", app), p \in side("outputs", app)} : app \in {Items(e.app), Anyone \ Items(e.app)}}
        \cup {Observe(e.observes[o].inputs \o <<L>>, <<>>) : n \in {k \in {1} : e.observes[o].inputs = <<>>}}

MCTransactions(e) ==
  {[consumed |-> c, emitted |-> m, observed |-> o, spawned |-> s, values |-> [v \in {"v"} |-> a], choice |-> n] :
     c \in Groups(e), m \in [DOMAIN e.emits -> Anyone],
     o \in Picks([k \in DOMAIN e.observes |-> Sides(e, k)]),
     s \in Picks([k \in DOMAIN e.spawns |-> [DOMAIN e.spawns[k] -> Anyone]]),
     a \in IF Value \in UNION {Items(k.inputs) \cup Items(k.outputs) : k \in Items(e.observes)} \cup UNION {Items(k) : k \in Items(e.spawns)}
           THEN {A, L} ELSE {L},
     n \in IF e.variants = <<>> THEN {1} ELSE DOMAIN e.variants}

-----------------------------------------------------------------------------
(* Apps of one or two entries, whose authors may use the same words.        *)

Unit(e, name, observe, handle) == [entry |-> e, name |-> name, observe |-> observe, handle |-> handle]

SpawningOwn ==
  {Entry(app, <<>>, <<>>, <<>>, <<s>>) : app \in {One, Two}, s \in {<<Fixed(S)>>, <<Fixed(S), Fixed(S)>>, <<Fixed(S), Value>>}}

SingleEntries == {e \in MCEntries \cup SpawningOwn : Accepted(e)}

\* What two entries may share: an actor in both forms, a selector, an open name,
\* an actor-type value, a spawn.
SharingEntries ==
  {e \in SingleEntries :
     /\ e.app = Two
     /\ \/ /\ e.observes = <<>> /\ Len(e.consumes) <= 1 /\ Len(e.spawns) <= 1
           /\ \A c \in Items(e.consumes) : c = Consume(A, 0, 1)
        \/ /\ Len(e.observes) = 1 /\ e.consumes = <<>> /\ e.emits = <<>>
           /\ e.observes[1].inputs \in {<<Fixed(L)>>, <<Open("x")>>, <<Value>>} /\ Len(e.observes[1].outputs) <= 1}

MCMetadataApps ==
  {<<Unit(e, "first", "watch", "asset")>> : e \in SingleEntries}
    \cup {<<Unit(e, "first", "watch", "asset"), Unit(f, "second", o, h)>> :
            e, f \in SharingEntries, o \in {"watch", "other"}, h \in {"asset", "left"}}
=============================================================================
