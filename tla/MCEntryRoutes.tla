--------------------------- MODULE MCEntryRoutes ---------------------------
(***************************************************************************)
(* Entries of an actor A: one question about the body at a time, what the    *)
(* others ask being right.                                                  *)
(***************************************************************************)
EXTENDS Integers, Sequences, FiniteSets, SequencesExt

\* C has a state of its own.
MCStateOf == [a \in {"A", "B", "C"} |-> IF a = "C" THEN "T" ELSE "S"]
MCVariants == [AB |-> <<"A", "B">>, BA |-> <<"B", "A">>, BC |-> <<"B", "C">>]
MCIndices == -1..2

One(targets) == [targets |-> targets, range |-> FALSE, sizes |-> {1}]
Many(sizes) == [targets |-> {"B"}, range |-> TRUE, sizes |-> sizes]

To(o, target) == [output |-> o, target |-> target, many |-> FALSE]
All(o, target) == [output |-> o, target |-> target, many |-> TRUE]
Actor(a) == <<"actor", a>>
Local(h) == <<"local", h>>
Self == <<"self">>
Let(h, enum, value) == <<"let", h, enum, value>>
Set(h, value) == <<"set", h, value>>
Use(path) == <<"use", path>>
Free(path) == <<"unrestricted", path>>
Become(routes) == <<"become", routes>>
Foreign(g, routes) == <<"foreign", g, routes>>
Block(statements) == <<"block", statements>>
If(then, else) == <<"if", then, else>>
Absent == <<"absent">>
Other == <<"other">>

Entry(params, outputs, groups, statements) ==
  [actor |-> "A", params |-> params, outputs |-> outputs, groups |-> groups, body |-> Block(statements)]

Nothing == <<>>
O == [o |-> One({"A", "B"})]
Uses == [o |-> Use(<<"o">>), p |-> Use(<<"p">>)]

\* Selectors: h, with or without what is done to it, then a route through it.
P == <<[name |-> "p", enum |-> "AB"]>>
Values == {<<"variant", "AB", "A">>, <<"variant", "AB", "B">>, <<"index", "AB">>, Local("p")}
Starts ==
  {Let("h", "AB", v) : v \in Values}
    \cup {Let("h", "BA", <<"variant", "BA", "B">>), Let("h", "AB", <<"variant", "BA", "B">>),
          Let("h", "BC", <<"variant", "BC", "B">>), Let("h", "AB", <<"expression">>)}
\* Also from the enum of the same two actors the other way round.
SetTo(h) == {Set(h, v) : v \in Values} \cup {Set(h, <<"variant", "BA", "B">>), Set(h, <<"handle">>)}
Change ==
  {<<Other>>, <<Let("g", "AB", Local("h"))>>, <<Let("h", "AB", <<"variant", "AB", "B">>)>>}
    \cup {<<s>> : s \in SetTo("h") \cup SetTo("p")}
    \cup {<<Let("g", "AB", Local("h")), s>> : s \in SetTo("h") \cup SetTo("g")}
    \cup {<<s, Let("g", "AB", Local("h"))>> : s \in SetTo("h")}
    \cup {<<If(Block(<<s>>), else)>> : s \in SetTo("h"), else \in {Absent, Block(<<Set("h", Local("p"))>>)}}
Two(t, u) == Become(<<To("o", t), To("p", u)>>)
Ends ==
  {<<Two(t, u)>> : t \in {Local("h"), Local("g"), <<"index", "AB">>}, u \in {Local("h"), Local("p"), Self}}
    \cup {<<If(Block(<<Two(Local("h"), u)>>), Block(<<Two(u, Local("h"))>>))>> : u \in {Local("g"), <<"variant", "AB", "B">>}}

Selecting ==
  {Entry(P, [o |-> O.o, p |-> One({"A", "B"})], Nothing, <<Uses.o, Uses.p, s>> \o c \o b) :
     s \in Starts, c \in Change, b \in Ends}

\* Control flow: become or not, on the ways of nested branches, and what follows.
Good == Become(<<To("o", Self)>>)
Leaf == {Good, Other, Block(<<Good>>), Block(<<Other>>), Block(<<Other, Good>>), Block(<<Good, Other>>), Absent}
Branches == {If(s, t) : s \in Leaf \ {Absent}, t \in Leaf}
Nests == {If(Block(<<s>>), t) : s \in Branches, t \in {Block(<<Good>>), Absent}} \cup {If(Block(<<Good>>), s) : s \in Branches}
Flowing ==
  {Entry(<<>>, outputs, Nothing, <<Uses.o>> \o <<s>> \o rest) :
     outputs \in {O, Nothing}, s \in (Leaf \ {Absent}) \cup Branches \cup Nests, rest \in {<<>>, <<Other>>, <<Good>>}}
    \cup {Entry(<<>>, Nothing, Nothing, <<If(Block(<<Become(<<>>)>>), s)>>) : s \in {Absent, Block(<<Become(<<>>)>>), Block(<<Other>>)}}

\* Outputs: which, of how many, to whom, on one way or on each of two.
OutputSets ==
  {[o |-> One({"B"})], [o |-> One({"A"}), p |-> One({"A", "B"})], [o |-> Many(0..2)], [o |-> Many(1..1), p |-> One({"A"})]}
Routes ==
  {To(o, t) : o \in {"o", "p"}, t \in {Self, Actor("B")}} \cup {To("q", Self), All("o", Actor("B")), All("o", Local("h")), All("o", Actor("A"))}
Lists == {<<>>} \cup {<<r>> : r \in Routes} \cup {<<r, s>> : r, s \in Routes}
Emitting ==
  {Entry(<<>>, outputs, Nothing, <<Uses.o, Uses.p, Let("h", "AB", <<"variant", "AB", "B">>), Become(l)>>) : outputs \in OutputSets, l \in Lists}
    \cup {Entry(<<>>, outputs, Nothing, <<Uses.o, Uses.p, If(Block(<<Become(<<r>>)>>), Block(<<Become(l)>>))>>) :
            outputs \in OutputSets, r \in Routes, l \in Lists}

\* Groups: a spawn s of x and y, an observed covenant w with an output x.
Groups ==
  [s |-> [spawn |-> TRUE, outputs |-> [x |-> Actor("B"), y |-> Actor("A")]],
   w |-> [spawn |-> FALSE, outputs |-> [x |-> Actor("B")]]]
Spawned == Foreign("s", <<To("y", Actor("A")), To("x", <<"variant", "AB", "B">>)>>)
Observed == Foreign("w", <<To("x", Actor("B"))>>)
Wrong ==
  {Foreign("s", <<To("x", Actor("B"))>>), Foreign("s", <<To("x", Actor("B")), To("y", Actor("B"))>>),
   Foreign("s", <<To("x", Actor("B")), To("y", Self)>>), Foreign("w", <<To("x", Actor("B")), To("x", Actor("B"))>>),
   Foreign("w", <<To("z", Actor("B"))>>), Foreign("w", <<All("x", Actor("B"))>>), Foreign("v", <<To("x", Actor("B"))>>)}
Some == {Spawned, Observed, Other} \cup Wrong
Placed(s) ==
  {<<s>>, <<Block(<<s>>)>>, <<If(Block(<<s>>), Absent)>>, <<If(Block(<<s>>), Block(<<s>>))>>, <<If(Block(<<Other>>), If(Block(<<s>>), Absent))>>}
Foreigners ==
  {Entry(<<>>, O, Groups, <<Uses.o, Use(<<"s", "x">>), Free(<<"s", "y">>)>> \o p \o q \o <<Good>>) :
     p \in UNION {Placed(s) : s \in Some}, q \in UNION {Placed(s) : s \in {Spawned, Observed, Other}}}

\* Values looked at, or declared free, on some way or nowhere.
Mentions == {Use(<<"o">>), Free(<<"o">>), Use(<<"s", "x">>), Free(<<"s", "x">>), Free(<<"w", "x">>), Other}
Looking ==
  {Entry(<<>>, outputs, [Groups EXCEPT !.s.outputs = [x |-> Actor("B")]],
         <<Foreign("s", <<To("x", Actor("B"))>>), m, If(Block(<<n>>), Absent), Become(routes)>>) :
     outputs \in {O, [o |-> Many({0})]}, m, n \in Mentions, routes \in {<<To("o", Self)>>, <<All("o", Actor("B"))>>}}
    \cup {Entry(<<>>, Nothing, Nothing, <<m>>) : m \in Mentions}

MCEntries == Selecting \cup Flowing \cup Emitting \cup Foreigners \cup Looking
=============================================================================
