------------------------------ MODULE MCStates ------------------------------
(***************************************************************************)
(* States with and without expansions, badly declared ones among them, and *)
(* the reads and writes an entry may make of them.                         *)
(***************************************************************************)
EXTENDS Integers, Sequences, FiniteSets

MCWidth == [int |-> 2, flag |-> 1, digest |-> 3]

MCActive == "A"

Field(name, kind) == [name |-> name, kind |-> kind, virtual |-> FALSE]
Virtual(name, kind) == [name |-> name, kind |-> kind, virtual |-> TRUE]

Ordinary(s, fields) == [base |-> s, fields |-> fields, slots |-> <<>>]
Expansion(s, fields, slots) == [base |-> s, fields |-> fields, slots |-> slots]

\* P and Q have the same fields, P and B are ordinary; E expands B and so do the
\* states after it, none of which is accepted.
MCDecl ==
  [P |-> Ordinary("P", <<Field("n", "int")>>),
   Q |-> Ordinary("Q", <<Field("n", "int")>>),
   M |-> Ordinary("M", <<Field("n", "int"), Field("on", "flag")>>),
   B |-> Ordinary("B", <<Field("n", "int"), Virtual("slot", "digest"), Virtual("more", "digest")>>),
   E |-> Expansion("B", <<>>, <<<<"slot", "M">>>>),
   F |-> Expansion("B", <<>>, <<<<"more", "P">>, <<"slot", "M">>>>),
   V |-> Ordinary("V", <<Virtual("n", "int")>>),
   Deep |-> Expansion("E", <<>>, <<<<"slot", "M">>>>),
   Fields |-> Expansion("B", <<Field("n", "int")>>, <<<<"slot", "M">>>>),
   Bare |-> Expansion("B", <<>>, <<>>),
   Twice |-> Expansion("B", <<>>, <<<<"slot", "M">>, <<"slot", "P">>>>),
   Plain |-> Expansion("B", <<>>, <<<<"n", "M">>>>),
   Nested |-> Expansion("B", <<>>, <<<<"slot", "E">>>>),
   Loose |-> Expansion("B", <<>>, <<<<"slot", "L">>>>),
   L |-> Ordinary("L", <<Field("text", "string")>>)]

Accepted == {"P", "Q", "M", "B", "E", "F"}

Words == {<<"word", "x">>, <<"word", "y">>}

Memory(values) == {<<"memory", v>> : v \in values}

Value(s) ==
  CASE s \in {"P", "Q"} -> [n : {0, 1}]
    [] s = "M" -> [on : {0, 1}, n : {0, 1}]
    [] s = "B" -> [n : {0, 1}, slot : Words, more : {<<"word", "x">>}]
    [] s = "E" -> [n : {0}, slot : Memory([on : {0, 1}, n : {0, 1}]), more : {<<"word", "x">>}]
    [] OTHER -> [n : {0}, slot : Memory([on : {0, 1}, n : {0, 1}]), more : Memory([n : {0, 1}])]

One(s) == CHOOSE v \in Value(s) : TRUE

Target(owner, s, generated) == [owner |-> owner, source |-> s, generated |-> generated]

Own(s, generated) == Target(MCActive, s, generated)

Routes == {<<>>, <<"r">>}

Read(active, self, supplied, other, members, place, expr) ==
  [active |-> active, self |-> self, supplied |-> supplied, other |-> other, members |-> members,
   before |-> place[1], after |-> place[2], min |-> place[3], max |-> place[4], expr |-> expr]

Single == <<0, 0, 1, 1>>

SlotsOf(s) == CASE s = "E" -> {"slot"} [] s = "F" -> {"slot", "more"} [] OTHER -> {}

Memories(s, v) == [slot : Value("M"), more : IF s = "F" THEN Value("P") ELSE {One("P")}]

Names(s) == CASE s \in {"P", "Q"} -> {"n"} [] s = "M" -> {"on", "n"} [] OTHER -> {"n", "slot", "more"}

OwnExprs(s) ==
  {<<"self", "field", f>> : f \in Names(s)} \cup {<<"self", "state">>, <<"self", "digest">>}
    \cup {<<"self", "digest of slot", f>> : f \in SlotsOf(s)}
    \cup (IF s \in {"E", "F"} THEN {<<"self", "component", "slot", "on">>, <<"self", "component", "slot", "n">>} ELSE {})

OwnReads ==
  UNION {{Read(Own(s, g), v, m, Target("X", "P", <<>>), <<One("P")>>, Single, x) :
            g \in Routes, v \in Value(s), m \in Memories(s, 1), x \in OwnExprs(s)} : s \in Accepted}

InputExprs(s) ==
  {<<"input", "field", f>> : f \in Names(s)} \cup {<<"input", "state">>, <<"input", "digest">>, <<"input", "bare">>}

\* The running actor is of Q or B, with routes or without; the input's actor too.
InputReads ==
  UNION {{Read(Own(s, g), One(s), [slot |-> One("M"), more |-> One("P")], Target(o, t, h), <<v>>, Single, x) :
            s \in {"Q", "B", "P"}, g \in Routes, o \in {"X"}, h \in Routes, v \in Value(t), x \in InputExprs(t)} : t \in Accepted}
    \cup UNION {{Read(Own(t, g), One(t), One("F"), Own(t, g), <<v>>, Single, x) :
                   g \in Routes, v \in Value(t), x \in InputExprs(t)} : t \in {"P", "B"}}

Index == {<<k, n>> : k \in {"literal", "variable"}, n \in -1..2}

ItemExprs(s) ==
  {<<"item", w, f, i>> : w \in {"field"}, f \in Names(s), i \in Index}
    \cup {<<"item", w, "n", i>> : w \in {"state", "digest", "input", "bare"}, i \in Index} \cup {<<"length">>}

Places == {<<b, c, l, h>> : b \in 0..1, c \in 0..1, l \in 0..1, h \in {2}}

Members(s) == UNION {[1..k -> Value(s)] : k \in 0..3}

RangeReads ==
  {Read(Own("Q", <<>>), One("Q"), One("F"), Target("X", "P", <<"r">>), m, p, x) :
     m \in Members("P"), p \in Places, x \in ItemExprs("P")}
    \cup {Read(Own("Q", <<>>), One("Q"), One("F"), Target("X", s, <<>>), <<v>>, <<1, 0, 0, 2>>, x) :
            s \in {"E"}, v \in Value("E"), x \in {y \in ItemExprs("E") : y[1] # "item" \/ y[2] # "bare"}}

Bad == DOMAIN MCDecl \ (Accepted \cup {"L"})

BadReads ==
  {Read(Own(s, <<>>), One("F"), One("F"), Target("X", "P", <<>>), <<One("P")>>, Single, <<"self", "digest">>) : s \in Bad}

\* An expanded field names one word and one digest: the values of a kind compare.
Write(active, variants, chosen, authored, created, observed) ==
  [active |-> active, variants |-> variants, chosen |-> chosen, authored |-> authored, created |-> created,
   observed |-> observed, expr |-> <<"output">>]

Writes ==
  UNION {UNION {{Write(Own(s, g), <<t>>, t, v, w, <<>>) : v \in Value(u), w \in Value(u),
                   t \in {Target("X", u, h) : h \in Routes} \cup (IF s = u THEN {Own(s, g)} ELSE {})} :
                g \in Routes, u \in Accepted} : s \in {"P", "Q", "B", "E"}}

\* One of two actors of one state, with the same routes or not.
SelectorWrites ==
  {Write(Own("P", g), <<t, u>>, c, v, w, <<>>) :
     g \in Routes, t \in {Target("X", "P", h) : h \in Routes}, u \in {Target("Y", s, h) : s \in {"P", "Q"}, h \in Routes},
     c \in {Target("X", "P", <<>>), Target("Y", "P", <<"r">>)}, v \in Value("P"), w \in Value("P")}

\* An output of state B whose actor may be of a state that expands B, a slot left out.
OpenB == Target("open", "B", <<>>)

Given == {[n |-> n, more |-> x] : n \in {0, 1}, x \in {<<"word", "x">>}} \cup {[more |-> <<"word", "x">>, slot |-> <<"word", "x">>]}

OpenWrites ==
  {Write(Own(s, <<>>), <<OpenB>>, Target("open", u, <<>>), v, w, o) :
     s \in {"B"}, u \in {"B", "E"}, v \in Given,
     w \in Value("B") \cup Value("E"),
     o \in {<<>>} \cup {<<[source |-> "E", value |-> x]>> : x \in Value("E")} \cup {<<[source |-> "B", value |-> x]>> : x \in Value("B")}
           \cup {<<[source |-> "B", value |-> One("B")], [source |-> "B", value |-> One("B")]>>}}

BadWrites == {Write(Own("P", <<>>), <<Target("X", s, <<>>)>>, Target("X", s, <<>>), One("F"), One("F"), <<>>) : s \in Bad}

MCAccesses ==
  OwnReads \cup InputReads \cup RangeReads \cup BadReads \cup Writes
    \cup {a \in SelectorWrites : a.chosen \in {a.variants[1], a.variants[2]}}
    \cup {a \in OpenWrites : a.created \in Value(a.chosen.source)} \cup BadWrites
=============================================================================
