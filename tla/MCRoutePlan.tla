---------------------------- MODULE MCRoutePlan -----------------------------
EXTENDS RoutePlan

CONSTANTS MaxEdges,  \* bound on the emit edges of a graph
          MaxSelectorEdges,  \* and of a graph with selectors
          MaxInputs  \* bound on the consume edges of either

Edges == {e \in Actor \X Actor : e[1] # e[2]}

RECURSIVE Subsets(_, _)
Subsets(S, n) ==
  IF n = 0 THEN {{}}
  ELSE LET smaller == Subsets(S, n - 1)
       IN  smaller \cup {T \cup {x} : T \in smaller, x \in S}

Relation(edges) == [a \in Actor |-> {b \in Actor : <<a, b>> \in edges}]

\* Four actors of one state; three and one; two and two.
States == {<<1, 1, 1, 1>>, <<1, 1, 1, 2>>, <<1, 2, 1, 2>>}

Selector(a, variants) == [source |-> a, variants |-> variants]

\* Selectors that are too small or repeat an actor; in either order; two that
\* agree, two that conflict, two families of two, three variants.
Selectors ==
  {<<Selector(1, <<1>>)>>, <<Selector(1, <<3, 3>>)>>, <<Selector(1, <<3, 1>>)>>,
   <<Selector(1, <<1, 3>>), Selector(3, <<1, 3>>)>>,
   <<Selector(1, <<1, 3>>), Selector(3, <<3, 1>>)>>,
   <<Selector(2, <<4, 2>>), Selector(1, <<3, 1>>)>>,
   <<Selector(2, <<2, 1, 3>>)>>}

SelectsOneState(state, selectors) ==
  \A n \in DOMAIN selectors : \A v \in DOMAIN selectors[n].variants :
    state[selectors[n].variants[v]] = state[selectors[n].source]

Declared == {d \in States \X (Selectors \cup {<<>>}) : SelectsOneState(d[1], d[2])}

\* Every actor creates one other: all cycles, whatever the bound on the edges.
Successors == {{<<a, next[a]>> : a \in Actor} : next \in {f \in [Actor -> Actor] : \A a \in Actor : f[a] # a}}

\* With selectors, every actor may also create its own successor.
SelfEdges(declared) == IF declared[2] = <<>> THEN {} ELSE {<<a, a>> : a \in Actor}

\* In a graph of more edges than a selector may have, actor 4 alone consumes.
MCApps ==
  {[outputs |-> Relation(q[1] \cup SelfEdges(q[3])), inputs |-> Relation(q[2]),
    state |-> q[3][1], selectors |-> q[3][2]] :
     q \in {p \in (Subsets(Edges, MaxEdges) \cup Successors) \X Subsets(Actor \X Actor, MaxInputs) \X Declared :
              /\ p[3][2] = <<>> \/ Cardinality(p[1]) <= MaxSelectorEdges
              /\ Cardinality(p[1]) <= MaxSelectorEdges \/ \A e \in p[2] : e[1] = 4}}

MCOrder == <<3, 1, 4, 2>>
=============================================================================
