-------------------------- MODULE RoutePlanProofs ---------------------------
(***************************************************************************)
(* Proofs about RoutePlan, for every number of actors, every app and every  *)
(* order in which the app declares its actors.                              *)
(***************************************************************************)
EXTENDS RoutePlan, FiniteSetTheorems, SequenceTheorems, WellFoundedInduction, TLAPS

-----------------------------------------------------------------------------
(* Sets of numbers and sequences without repetition.                       *)

\* A non-empty set of naturals has a least element.
LEMMA LeastFact ==
  ASSUME NEW T \in SUBSET Nat, T # {}
  PROVE  Least(T) \in T /\ \A n \in T : Least(T) <= n
<1> DEFINE R == OpToRel(<, Nat)
<1>1. PICK m \in T : \A n \in T : ~ (<<n, m>> \in R)
  <2> HIDE DEF R
  <2>1. IsWellFoundedOn(R, Nat)
    BY NatLessThanWellFounded DEF R
  <2> QED  BY <2>1, WFMin
<1>2. \A n \in T : n < m => <<n, m>> \in R
  BY DEF OpToRel
<1> HIDE DEF R
<1>3. ASSUME NEW n \in T
      PROVE  m <= n
  <2>1. m \in Nat /\ n \in Nat /\ ~(n < m)
    BY <1>1, <1>2
  <2> QED  BY <2>1
<1> QED  BY <1>3 DEF Least

\* No item of s comes twice.
Distinct(s) == \A m, n \in DOMAIN s : s[m] = s[n] => m = n

\* The number of items of a sequence tells whether one comes twice.
LEMMA DistinctCount ==
  ASSUME NEW S, NEW s \in Seq(S)
  PROVE  /\ IsFiniteSet(Items(s))
         /\ Distinct(s) <=> Cardinality(Items(s)) = Len(s)
<1>1. Len(s) \in Nat /\ DOMAIN s = 1..Len(s) /\ s \in [1..Len(s) -> S]
  BY LenProperties
<1>2. s \in [1..Len(s) -> Items(s)]
  BY <1>1 DEF Items
<1>3. s \in Surjection(1..Len(s), Items(s))
  BY <1>1, <1>2 DEF Surjection, Items
<1>4. IsFiniteSet(1..Len(s)) /\ Cardinality(1..Len(s)) = Len(s)
  <2> DEFINE low == 1
             n == Len(s)
  <2>1. low \in Int /\ n \in Int /\ (IF low > n THEN 0 ELSE n - low + 1) = n
    BY <1>1
  <2> HIDE DEF low, n
  <2>2. IsFiniteSet(low..n) /\ Cardinality(low..n) = n
    BY <2>1, FS_Interval
  <2> QED  BY <2>2 DEF low, n
<1>5. IsFiniteSet(Items(s)) /\ (Cardinality(Items(s)) = Len(s) <=> s \in Injection(1..Len(s), Items(s)))
  BY <1>3, <1>4, FS_Surjection
<1>6. s \in Injection(1..Len(s), Items(s)) <=> Distinct(s)
  BY <1>1, <1>2 DEF Injection, IsInjective, Distinct
<1> QED  BY <1>5, <1>6

-----------------------------------------------------------------------------
(* The order of the actors.                                                *)

\* How many of S come before p.
Position(S, p) == Cardinality({q \in S : q < p})

\* The position of a member of a finite set lies below the size of the set.
LEMMA PositionBounds ==
  ASSUME NEW S \in SUBSET Nat, IsFiniteSet(S), NEW p \in S
  PROVE  Position(S, p) \in 0..(Cardinality(S) - 1)
<1> DEFINE below == {q \in S : q < p}
<1>1. IsFiniteSet(below) /\ Cardinality(below) <= Cardinality(S)
      /\ (Cardinality(S) = Cardinality(below) => S = below)
  BY FS_Subset
<1>2. p \notin below
  OBVIOUS
<1>3. Cardinality(below) # Cardinality(S)
  BY <1>1, <1>2
<1>4. Cardinality(S) \in Nat /\ Cardinality(below) \in Nat
  BY <1>1, FS_CardinalityType
<1> QED  BY <1>1, <1>3, <1>4 DEF Position

\* Members at different places have different positions.
LEMMA PositionUnique ==
  ASSUME NEW S \in SUBSET Nat, IsFiniteSet(S), NEW p \in S, NEW q \in S,
         Position(S, p) = Position(S, q)
  PROVE  p = q
<1>1. ASSUME NEW a \in S, NEW b \in S, a < b, Position(S, a) = Position(S, b)
      PROVE  FALSE
  <2> DEFINE A == {k \in S : k < a}
             B == {k \in S : k < b}
  <2>0. a \in Nat /\ b \in Nat /\ \A k \in S : k \in Nat
    OBVIOUS
  <2>1. /\ \A k \in S : k < a => k < b
        /\ a < b /\ ~(a < a)
    BY <1>1, <2>0
  <2>2. A \subseteq B /\ a \in B /\ a \notin A
    BY <2>1
  <2>3. IsFiniteSet(B)
    BY FS_Subset
  <2>4. Cardinality(A) = Cardinality(B)
    BY <1>1 DEF Position
  <2>5. A = B
    BY <2>2, <2>3, <2>4, FS_Subset
  <2> QED  BY <2>2, <2>5
<1> QED  BY <1>1

\* Counting through a finite set of places finds each once.
LEMMA NthFacts ==
  ASSUME NEW S \in SUBSET Nat, IsFiniteSet(S)
  PROVE  /\ Cardinality(S) \in Nat
         /\ \A k \in 1..Cardinality(S) : Nth(S, k) \in S
         /\ \A j, k \in 1..Cardinality(S) : Nth(S, j) = Nth(S, k) => j = k
         /\ \A p \in S : \E k \in 1..Cardinality(S) : Nth(S, k) = p
<1> DEFINE n == Cardinality(S)
           ranks == 0..(n - 1)
           at == [p \in S |-> Position(S, p)]
<1>1. n \in Nat
  BY FS_CardinalityType
<1>2. \A p \in S : Position(S, p) \in ranks
  BY PositionBounds
<1>3. \A p, q \in S : Position(S, p) = Position(S, q) => p = q
  BY PositionUnique
<1>4. at \in Injection(S, ranks)
  BY <1>2, <1>3 DEF Injection, IsInjective
<1>5. IsFiniteSet(ranks) /\ Cardinality(ranks) = n
  <2> HIDE DEF n
  <2>1. 0 \in Int /\ n - 1 \in Int /\ (0 > n - 1 => n = 0)
    BY <1>1
  <2> QED  BY <1>1, <2>1, FS_Interval
<1>6. at \in Surjection(S, ranks)
  <2> HIDE DEF at, ranks
  <2> QED  BY <1>4, <1>5, FS_Injection DEF n
<1>7. \A r \in ranks : \E p \in S : Position(S, p) = r
  BY <1>6 DEF Surjection
<1>8. ASSUME NEW k \in 1..n
      PROVE  Nth(S, k) \in S /\ Position(S, Nth(S, k)) = k - 1
  <2>1. k - 1 \in ranks
    BY <1>1
  <2>2. \E p \in S : Position(S, p) = k - 1
    BY <1>7, <2>1
  <2> QED  BY <2>2 DEF Nth, Position
<1>9. ASSUME NEW j \in 1..n, NEW k \in 1..n, Nth(S, j) = Nth(S, k)
      PROVE  j = k
  <2>1. j - 1 = k - 1
    BY <1>8, <1>9
  <2> HIDE DEF n
  <2> QED  BY <1>1, <2>1
<1>10. ASSUME NEW p \in S
       PROVE  \E k \in 1..n : Nth(S, k) = p
  <2>1. PICK r \in ranks : r = Position(S, p)
    BY <1>2
  <2>2. r + 1 \in 1..n /\ (r + 1) - 1 = r
    <3> HIDE DEF n
    <3> QED  BY <1>1
  <2>3. Nth(S, r + 1) \in S /\ Position(S, Nth(S, r + 1)) = r
    BY <1>8, <2>2
  <2>4. Nth(S, r + 1) = p
    BY <1>3, <2>1, <2>3
  <2> QED  BY <2>2, <2>4
<1> QED  BY <1>1, <1>8, <1>9, <1>10

\* Every actor has one place in the compiler's order.
LEMMA CompilerOrderFacts ==
  /\ ActorCount \in Nat
  /\ DOMAIN CompilerOrder = 1..ActorCount
  /\ \A n \in 1..ActorCount : CompilerOrder[n] \in Actor
  /\ Distinct(CompilerOrder) /\ Items(CompilerOrder) = Actor
<1>1. /\ CompilerOrder \in Seq(Actor) /\ Len(CompilerOrder) = ActorCount /\ ActorCount \in Nat
      /\ DOMAIN CompilerOrder = 1..ActorCount
      /\ \A n \in 1..ActorCount : CompilerOrder[n] \in Actor
  BY RoutePlanAssumption, ActorCountAssumption, LenProperties
<1>2. Items(CompilerOrder) = Actor
  BY <1>1, RoutePlanAssumption DEF Items
<1>3. Cardinality(Actor) = ActorCount
  <2> DEFINE low == 1
             n == ActorCount
  <2>1. low \in Int /\ n \in Int /\ (IF low > n THEN 0 ELSE n - low + 1) = n
    BY <1>1
  <2> HIDE DEF low, n
  <2>2. Cardinality(low..n) = n
    BY <2>1, FS_Interval
  <2> QED  BY <2>2 DEF low, n, Actor
<1> QED  BY <1>1, <1>2, <1>3, DistinctCount

\* The actors of a set, in the compiler's order, are all of them and each once.
LEMMA OrderedMembersFacts ==
  ASSUME NEW S \in SUBSET Actor
  PROVE  /\ OrderedMembers(S) \in Seq(S)
         /\ Items(OrderedMembers(S)) = S
         /\ Distinct(OrderedMembers(S))
<1> DEFINE places == PlacesOf(S)
           n == Cardinality(places)
           s == OrderedMembers(S)
<1>1. places \in SUBSET Nat /\ places \subseteq 1..ActorCount
  BY CompilerOrderFacts DEF PlacesOf
<1>2. IsFiniteSet(places)
  <2>1. \A p \in places : p <= ActorCount
    BY <1>1, CompilerOrderFacts
  <2> HIDE DEF places
  <2> QED  BY <1>1, <2>1, CompilerOrderFacts, FS_BoundedSetOfNaturals
<1>3. /\ n \in Nat
      /\ \A k \in 1..n : Nth(places, k) \in places
      /\ \A j, k \in 1..n : Nth(places, j) = Nth(places, k) => j = k
      /\ \A p \in places : \E k \in 1..n : Nth(places, k) = p
  <2> HIDE DEF places
  <2> QED  BY <1>1, <1>2, NthFacts
<1>4. s = [k \in 1..n |-> CompilerOrder[Nth(places, k)]]
  BY DEF OrderedMembers
<1>5. \A p \in places : CompilerOrder[p] \in S
  BY DEF PlacesOf
<1>6. \A p, q \in places : CompilerOrder[p] = CompilerOrder[q] => p = q
  BY <1>1, CompilerOrderFacts DEF Distinct
<1>7. \A a \in S : \E p \in places : CompilerOrder[p] = a
  BY CompilerOrderFacts DEF PlacesOf, Items
<1> HIDE DEF places, n, s
<1>8. DOMAIN s = 1..n /\ \A k \in 1..n : s[k] = CompilerOrder[Nth(places, k)] /\ s[k] \in S
  BY <1>3, <1>4, <1>5
<1>9. s \in Seq(S)
  <2>1. s \in [1..n -> S]
    BY <1>4, <1>8
  <2> QED  BY <1>3, <2>1, SeqDef
<1>10. Items(s) = S
  <2>1. ASSUME NEW a \in S PROVE \E k \in DOMAIN s : s[k] = a
    BY <1>3, <1>7, <1>8
  <2> QED  BY <1>8, <2>1 DEF Items
<1>11. Distinct(s)
  BY <1>3, <1>6, <1>8 DEF Distinct
<1> QED  BY <1>9, <1>10, <1>11 DEF s

-----------------------------------------------------------------------------
(* Components.                                                             *)

\* What is known of the app under study.
LEMMA AppFacts ==
  ASSUME app \in RouteApps
  PROVE  /\ ActorCount \in Nat /\ Actor \subseteq Nat /\ IsFiniteSet(Actor)
         /\ \A a \in Actor : app.outputs[a] \subseteq Actor /\ app.inputs[a] \subseteq Actor
         /\ \A a \in Actor : Emits[a] = app.outputs[a] \ {a} /\ Emits[a] \subseteq Actor
         /\ Consumes \in Relation2 /\ \A a \in Actor : Consumes[a] \subseteq Actor
         /\ \A a \in Actor : app.state[a] \in Nat
         /\ app.selectors \in Seq([source : Actor, variants : Seq(Actor)])
<1>1. ValidRouteApp(app) /\ ActorCount \in Nat
  BY RoutePlanAssumption, ActorCountAssumption
<1>2. Actor \subseteq Nat /\ IsFiniteSet(Actor)
  <2>1. \A a \in Actor : a \in Nat /\ a <= ActorCount
    BY <1>1 DEF Actor
  <2> QED  BY <1>1, <2>1, FS_BoundedSetOfNaturals
<1>3. \A a \in Actor : app.outputs[a] \subseteq Actor /\ app.inputs[a] \subseteq Actor
  BY <1>1 DEF ValidRouteApp, Relation2
<1>4. \A a \in Actor : Emits[a] = app.outputs[a] \ {a} /\ Emits[a] \subseteq Actor
  BY <1>3 DEF Emits
<1>5. /\ \A a \in Actor : Consumes[a] \subseteq Actor
      /\ Consumes \in Relation2
  <2>1. \A a \in Actor : Consumes[a] = IF ActorCount = 1 THEN app.inputs[a] \ {a} ELSE app.inputs[a]
    BY DEF Consumes
  <2>2. \A a \in Actor : Consumes[a] \subseteq Actor
    BY <1>3, <2>1
  <2>3. Consumes = [a \in Actor |-> Consumes[a]]
    BY DEF Consumes
  <2> QED  BY <2>2, <2>3 DEF Relation2
<1>6. \A a \in Actor : app.state[a] \in Nat
  BY <1>1 DEF ValidRouteApp, Domain
<1> QED  BY <1>1, <1>2, <1>3, <1>4, <1>5, <1>6 DEF ValidRouteApp

\* Neighbors are two different actors of one domain, either way.
LEMMA NeighborFacts ==
  ASSUME NEW a \in Actor
  PROVE  /\ Neighbors(a) \subseteq DomainActors(app.state[a])
         /\ \A b \in Actor : b \in Neighbors(a) <=> a \in Neighbors(b)
         /\ \A b \in Neighbors(a) : b \in Actor /\ app.state[b] = app.state[a]
BY DEF Neighbors, DomainActors

\* S holds the neighbors of its members.
Joined(S) == \A x \in S : Neighbors(x) \subseteq S

\* The component of an actor: the smallest joined set that holds the actor.
LEMMA ComponentFacts ==
  ASSUME NEW a \in Actor
  PROVE  /\ a \in ComponentOf(a)
         /\ ComponentOf(a) \subseteq DomainActors(app.state[a])
         /\ Joined(ComponentOf(a))
         /\ \A S \in SUBSET Actor : a \in S /\ Joined(S) => ComponentOf(a) \subseteq S
<1> DEFINE D == DomainActors(app.state[a])
           Closed(S) == \A x \in S, y \in D : y \in Emits[x] \/ x \in Emits[y] => y \in S
           C == ComponentOf(a)
<1>1. C = {b \in Actor : \A S \in SUBSET Actor : a \in S /\ Closed(S) => b \in S}
  BY DEF ComponentOf
<1>2. D \subseteq Actor /\ a \in D /\ Closed(D)
  BY DEF DomainActors
<1> HIDE DEF C
<1>3. a \in C /\ C \subseteq D
  BY <1>1, <1>2
<1>4. Closed(C)
  <2> SUFFICES ASSUME NEW x \in C, NEW y \in D, y \in Emits[x] \/ x \in Emits[y]
               PROVE  y \in C
    OBVIOUS
  <2>1. ASSUME NEW S \in SUBSET Actor, a \in S, Closed(S)
        PROVE  y \in S
    <3>1. x \in S
      BY <1>1, <2>1
    <3> QED  BY <2>1, <3>1
  <2> QED  BY <1>1, <1>2, <2>1
<1>5. \A x \in D : Neighbors(x) = {y \in D \ {x} : y \in Emits[x] \/ x \in Emits[y]}
  BY DEF Neighbors, DomainActors
<1>6. Joined(C)
  BY <1>3, <1>4, <1>5 DEF Joined
<1>7. ASSUME NEW S \in SUBSET Actor, a \in S, Joined(S)
      PROVE  C \subseteq S
  <2> DEFINE T == S \cap D
  <2>1. a \in T /\ T \in SUBSET Actor
    BY <1>2, <1>7
  <2>2. ASSUME NEW x \in T, NEW y \in D, y \in Emits[x] \/ x \in Emits[y]
        PROVE  y \in T
    <3>1. y = x \/ y \in Neighbors(x)
      BY <1>5, <2>2
    <3> QED  BY <1>7, <3>1 DEF Joined
  <2>3. Closed(T)
    BY <2>2
  <2> HIDE DEF T, Closed
  <2>4. C \subseteq T
    BY <1>1, <2>1, <2>3
  <2> QED  BY <2>4 DEF T
<1> QED  BY <1>3, <1>6, <1>7 DEF C

\* The members of a component have it in common.
LEMMA SameComponent ==
  ASSUME NEW a \in Actor, NEW b \in ComponentOf(a)
  PROVE  /\ b \in Actor /\ app.state[b] = app.state[a]
         /\ ComponentOf(b) = ComponentOf(a)
<1>1. /\ a \in ComponentOf(a) /\ ComponentOf(a) \subseteq DomainActors(app.state[a])
      /\ Joined(ComponentOf(a))
      /\ \A S \in SUBSET Actor : a \in S /\ Joined(S) => ComponentOf(a) \subseteq S
  BY ComponentFacts
<1>2. ComponentOf(a) \in SUBSET Actor /\ b \in Actor /\ app.state[b] = app.state[a]
  BY <1>1 DEF DomainActors
<1>3. ASSUME NEW x \in Actor, NEW y \in Actor, y \in ComponentOf(x)
      PROVE  ComponentOf(y) \subseteq ComponentOf(x)
  <2>1. ComponentOf(x) \in SUBSET Actor /\ Joined(ComponentOf(x))
    BY ComponentFacts DEF DomainActors
  <2> QED  BY <1>3, <2>1, ComponentFacts
<1> DEFINE T == {x \in Actor : a \in ComponentOf(x)}
<1>4. a \in T
  BY <1>1
<1>5. ASSUME NEW x \in T, NEW y \in Neighbors(x)
      PROVE  y \in T
  <2>1. x \in Actor /\ y \in Actor /\ x \in Neighbors(y)
    BY NeighborFacts
  <2>2. x \in ComponentOf(y)
    BY <2>1, ComponentFacts DEF Joined
  <2>3. ComponentOf(x) \subseteq ComponentOf(y)
    BY <1>3, <2>1, <2>2
  <2> QED  BY <2>1, <2>3
<1>6. Joined(T)
  BY <1>5 DEF Joined
<1>7. a \in ComponentOf(b)
  <2> HIDE DEF T
  <2>1. T \in SUBSET Actor
    BY DEF T
  <2>2. b \in T
    BY <1>1, <1>4, <1>6, <2>1
  <2> QED  BY <2>2 DEF T
<1>8. ComponentOf(b) \subseteq ComponentOf(a) /\ ComponentOf(a) \subseteq ComponentOf(b)
  BY <1>2, <1>3, <1>7
<1> QED  BY <1>2, <1>8

\* A joined set within a component, and not empty, is the component of each of its
\* members.
LEMMA ComponentReached ==
  ASSUME NEW a \in Actor, NEW S \in SUBSET ComponentOf(a), S # {}, Joined(S)
  PROVE  \A x \in S : x \in Actor /\ app.state[x] = app.state[a] /\ ComponentOf(x) = S
<1> SUFFICES ASSUME NEW x \in S
             PROVE  x \in Actor /\ app.state[x] = app.state[a] /\ ComponentOf(x) = S
  OBVIOUS
<1>1. x \in Actor /\ app.state[x] = app.state[a] /\ ComponentOf(x) = ComponentOf(a)
  BY SameComponent
<1>2. S \in SUBSET Actor
  BY ComponentFacts DEF DomainActors
<1>3. ComponentOf(x) \subseteq S
  BY <1>1, <1>2, ComponentFacts
<1> QED  BY <1>1, <1>3

-----------------------------------------------------------------------------
(* Families.                                                               *)

\* One sequence after another has the items of both, and each once if they share
\* none.
LEMMA ConcatItems ==
  ASSUME NEW S, NEW s \in Seq(S), NEW t \in Seq(S)
  PROVE  /\ s \o t \in Seq(S) /\ Len(s \o t) = Len(s) + Len(t)
         /\ Items(s \o t) = Items(s) \cup Items(t)
         /\ Distinct(s) /\ Distinct(t) /\ Items(s) \cap Items(t) = {} => Distinct(s \o t)
<1> DEFINE st == s \o t
           m == Len(s)
           n == Len(t)
<1>1. m \in Nat /\ n \in Nat /\ DOMAIN s = 1..m /\ DOMAIN t = 1..n
  BY LenProperties
<1>2. /\ st \in Seq(S) /\ Len(st) = m + n
      /\ \A i \in 1..(m + n) : st[i] = IF i <= m THEN s[i] ELSE t[i - m]
  BY ConcatProperties
<1> HIDE DEF st, m, n
<1>3. DOMAIN st = 1..(m + n)
  BY <1>2, LenProperties
<1>4. \A i \in 1..m : i \in DOMAIN st /\ st[i] = s[i]
  BY <1>1, <1>2, <1>3
<1>5. \A i \in 1..n : i + m \in DOMAIN st /\ st[i + m] = t[i]
  <2> SUFFICES ASSUME NEW i \in 1..n PROVE i + m \in DOMAIN st /\ st[i + m] = t[i]
    OBVIOUS
  <2>1. i + m \in 1..(m + n) /\ ~(i + m <= m) /\ (i + m) - m = i
    BY <1>1
  <2> QED  BY <1>2, <1>3, <2>1
<1>6. \A i \in DOMAIN st : i \in 1..m \/ (i - m \in 1..n /\ (i - m) + m = i)
  BY <1>1, <1>3
<1>7. Items(st) = Items(s) \cup Items(t)
  <2>1. ASSUME NEW i \in DOMAIN st PROVE st[i] \in Items(s) \cup Items(t)
    <3>1. CASE i \in 1..m
      BY <1>1, <1>4, <3>1 DEF Items
    <3>2. CASE i - m \in 1..n /\ (i - m) + m = i
      <4>1. PICK j \in 1..n : j + m = i
        BY <3>2
      <4> QED  BY <1>1, <1>5, <4>1 DEF Items
    <3> QED  BY <1>6, <3>1, <3>2
  <2>2. Items(s) \subseteq Items(st) /\ Items(t) \subseteq Items(st)
    BY <1>1, <1>4, <1>5 DEF Items
  <2> QED  BY <2>1, <2>2 DEF Items
<1>8. ASSUME Distinct(s), Distinct(t), Items(s) \cap Items(t) = {}
      PROVE  Distinct(st)
  <2>1. ASSUME NEW i \in DOMAIN st, NEW j \in DOMAIN st, st[i] = st[j]
        PROVE  i = j
    <3>1. CASE i \in 1..m /\ j \in 1..m
      BY <1>1, <1>4, <1>8, <2>1, <3>1 DEF Distinct
    <3>2. CASE i \notin 1..m /\ j \notin 1..m
      <4>1. PICK k \in 1..n, l \in 1..n : i = k + m /\ j = l + m
        BY <1>6, <3>2
      <4> QED  BY <1>1, <1>5, <1>8, <2>1, <4>1 DEF Distinct
    <3>3. ASSUME NEW k \in 1..m, NEW l \in 1..n PROVE st[k] # st[l + m]
      <4>1. s[k] \in Items(s) /\ t[l] \in Items(t)
        BY <1>1 DEF Items
      <4> QED  BY <1>4, <1>5, <1>8, <4>1
    <3> QED  BY <1>6, <2>1, <3>1, <3>2, <3>3
  <2> QED  BY <2>1 DEF Distinct
<1> QED  BY <1>2, <1>7, <1>8 DEF st, m, n

\* No selector is refused.
SelectorsAccepted == \A n \in DOMAIN app.selectors : ValidSelector(app.selectors[n])

\* The selectors of a component that agree name different members, and one order.
LEMMA PrefixFacts ==
  ASSUME app \in RouteApps, SelectorsAccepted, NEW C, SelectorsAgree(C), SelectorsOf(C) # {}
  PROVE  /\ Prefix(C) \in Seq(Actor) /\ Distinct(Prefix(C)) /\ Len(Prefix(C)) >= 2
         /\ Items(Prefix(C)) \subseteq C
         /\ UNION {Items(app.selectors[n].variants) : n \in SelectorsOf(C)} = Items(Prefix(C))
<1> DEFINE N == SelectorsOf(C)
<1>1. app.selectors \in Seq([source : Actor, variants : Seq(Actor)])
  BY AppFacts
<1>2. \A n \in DOMAIN app.selectors : n \in Nat /\ app.selectors[n].variants \in Seq(Actor)
  <2> DEFINE s == app.selectors
             R == [source : Actor, variants : Seq(Actor)]
  <2>1. \A r \in R : r.variants \in Seq(Actor)
    OBVIOUS
  <2>2. s \in Seq(R)
    BY <1>1
  <2> HIDE DEF s, R
  <2>3. DOMAIN s = 1..Len(s) /\ Len(s) \in Nat /\ \A n \in 1..Len(s) : s[n] \in R
    BY <2>2, LenProperties, ElementOfSeq
  <2>4. \A n \in DOMAIN s : n \in Nat /\ s[n].variants \in Seq(Actor)
    BY <2>1, <2>3
  <2> QED  BY <2>4 DEF s
<1>3. N \in SUBSET Nat /\ N \subseteq DOMAIN app.selectors
  BY <1>2 DEF SelectorsOf
<1>4. PICK k \in N : k = Least(N)
  BY <1>3, LeastFact
<1>5. Prefix(C) = app.selectors[k].variants
  BY <1>4 DEF Prefix
<1>6. ValidSelector(app.selectors[k])
  BY <1>3 DEF SelectorsAccepted
<1>7. \A n \in N : app.selectors[n].variants = Prefix(C) /\ Items(app.selectors[n].variants) \subseteq C
  BY DEF SelectorsAgree
<1>8. UNION {Items(app.selectors[n].variants) : n \in N} = Items(Prefix(C))
  BY <1>4, <1>5, <1>7
<1>9. Prefix(C) \in Seq(Actor)
  BY <1>2, <1>3, <1>5
<1> QED  BY <1>4, <1>5, <1>6, <1>7, <1>8, <1>9, DistinctCount DEF ValidSelector

\* A family's table holds two members or more, each once, and the members it does
\* not hold are the gates that no selector names.
LEMMA TableFacts ==
  ASSUME app \in RouteApps, SelectorsAccepted, NEW C \in SUBSET Actor, SelectorsAgree(C),
         NEW gates \in SUBSET C, MakesFamily(C, gates)
  PROVE  /\ Table(C, gates) \in Seq(Actor) /\ Distinct(Table(C, gates))
         /\ Len(Table(C, gates)) >= 2
         /\ Items(Table(C, gates)) \subseteq C
         /\ C \ Items(Table(C, gates)) =
              gates \ UNION {Items(app.selectors[n].variants) : n \in SelectorsOf(C)}
<1>1. CASE SelectorsOf(C) = {}
  <2>1. /\ Table(C, gates) = OrderedMembers(C \ gates)
        /\ Len(Table(C, gates)) >= 2
    BY <1>1 DEF Table, MakesFamily
  <2>2. /\ Table(C, gates) \in Seq(C \ gates)
        /\ Items(Table(C, gates)) = C \ gates /\ Distinct(Table(C, gates))
    BY <2>1, OrderedMembersFacts
  <2>3. Table(C, gates) \in Seq(Actor)
    BY <2>2
  <2>4. UNION {Items(app.selectors[n].variants) : n \in SelectorsOf(C)} = {}
    BY <1>1
  <2> QED  BY <2>1, <2>2, <2>3, <2>4
<1>2. CASE SelectorsOf(C) # {}
  <2> DEFINE p == Prefix(C)
             rest == C \ (gates \cup Items(p))
             r == OrderedMembers(rest)
  <2>1. Table(C, gates) = p \o r
    BY <1>2 DEF Table
  <2>2. /\ p \in Seq(Actor) /\ Distinct(p) /\ Len(p) >= 2 /\ Items(p) \subseteq C
        /\ UNION {Items(app.selectors[n].variants) : n \in SelectorsOf(C)} = Items(p)
    BY <1>2, PrefixFacts
  <2>3. r \in Seq(rest) /\ Items(r) = rest /\ Distinct(r)
    BY OrderedMembersFacts
  <2>4. r \in Seq(Actor)
    <3>1. \A s \in Seq(rest) : s \in Seq(Actor)
      OBVIOUS
    <3> QED  BY <2>3, <3>1
  <2>5. Items(p) \cap Items(r) = {}
    BY <2>3
  <2> HIDE DEF p, r
  <2>6. /\ p \o r \in Seq(Actor) /\ Len(p \o r) = Len(p) + Len(r)
        /\ Items(p \o r) = Items(p) \cup Items(r) /\ Distinct(p \o r)
    BY <2>2, <2>3, <2>4, <2>5, ConcatItems
  <2>7. Len(p) \in Nat /\ Len(r) \in Nat
    BY <2>2, <2>4, LenProperties
  <2>8. Len(p \o r) >= 2
    BY <2>2, <2>6, <2>7
  <2> QED  BY <2>1, <2>2, <2>3, <2>6, <2>8
<1> QED  BY <1>1, <1>2

\* The family that the component of x makes.
FamilyAt(x) == Family(ComponentOf(x), app.state[x])

\* Every family is made by a component whose selectors agree.
AreFamilies ==
  \A f \in families :
    /\ SelectorsAccepted
    /\ \E x \in Actor :
         /\ f = FamilyAt(x) /\ SelectorsAgree(ComponentOf(x))
         /\ MakesFamily(ComponentOf(x), GatesOf(ComponentOf(x), app.state[x]))

\* What a family is made of.
LEMMA FamilyFacts ==
  ASSUME app \in RouteApps, AreFamilies, NEW f \in families
  PROVE  /\ f.members \in SUBSET Actor
         /\ \A a \in f.members : f.members = ComponentOf(a) /\ f = FamilyAt(a)
         /\ f.table \in Seq(Actor) /\ Distinct(f.table) /\ Len(f.table) >= 2
         /\ Items(f.table) \subseteq f.members
         /\ f.members \ Items(f.table) =
              f.gates \ UNION {Items(app.selectors[n].variants) : n \in SelectorsOf(f.members)}
<1>1. PICK x \in Actor : /\ f = FamilyAt(x) /\ SelectorsAgree(ComponentOf(x)) /\ SelectorsAccepted
                         /\ MakesFamily(ComponentOf(x), GatesOf(ComponentOf(x), app.state[x]))
  BY DEF AreFamilies
<1> DEFINE C == ComponentOf(x)
           gates == GatesOf(C, app.state[x])
<1>2. f.members = C /\ f.gates = gates /\ f.table = Table(C, gates)
  BY <1>1 DEF FamilyAt, Family
<1>3. C \in SUBSET Actor
  BY ComponentFacts DEF DomainActors
<1>4. gates \in SUBSET C
  BY DEF GatesOf
<1>5. \A a \in C : C = ComponentOf(a) /\ FamilyAt(a) = FamilyAt(x)
  BY SameComponent DEF FamilyAt
<1> HIDE DEF C, gates
<1>6. SelectorsAgree(C) /\ MakesFamily(C, gates)
  BY <1>1 DEF C, gates
<1> QED  BY <1>1, <1>2, <1>3, <1>4, <1>5, <1>6, TableFacts

-----------------------------------------------------------------------------
(* The inductive invariant.                                                *)

\* The actors whose components have been classified.
Settled == IF phase = "grow" THEN classified \ (members \cup queued) ELSE classified

CohortsFor(S) == {c \in {ComponentOf(a) : a \in S} : Cardinality(c) > 1}

TypeOK ==
  /\ app \in RouteApps
  /\ phase \in {"selectors", "components", "grow", "cuts", "done", "rejected"}
  /\ phase \notin {"selectors", "rejected"} => SelectorsAccepted
  /\ classified \subseteq Actor
  /\ DOMAIN cuts \subseteq Actor
  /\ phase \in {"selectors", "components", "grow"} => DOMAIN cuts = {}

\* Components are settled whole, and the cohorts are the settled ones of two actors
\* or more.
SettledWhole ==
  phase # "rejected" =>
    /\ \A x \in Settled : ComponentOf(x) \subseteq Settled
    /\ cohorts = CohortsFor(Settled)

\* What is being grown lies within one component, and its members' neighbors are
\* members or queued.
Growing ==
  phase = "grow" =>
    /\ members \cup queued # {} /\ members \cup queued \subseteq classified
    /\ \E root \in Actor : members \cup queued \subseteq ComponentOf(root)
    /\ \A x \in members : Neighbors(x) \subseteq members \cup queued

\* A published cut is the one its actor, or its whole cohort, was planned.
PublishedCut(a) ==
  /\ CohortsWith(a) = {} => cuts[a] = CutOutsideCohort(a)
  /\ \A c \in CohortsWith(a) : c \subseteq DOMAIN cuts /\ cuts[a] = CutOfCohort(c)

Planned ==
  phase \in {"cuts", "done"} =>
    /\ classified = Actor
    /\ plan = CommitmentPlan
    /\ \A a \in DOMAIN cuts : PublishedCut(a)
    /\ phase = "done" => DOMAIN cuts = Actor

IInv == TypeOK /\ AreFamilies /\ SettledWhole /\ Growing /\ Planned

\* What an action that keeps the app keeps.
LEMMA AppFrame ==
  ASSUME app' = app
  PROVE  /\ \A x : Neighbors(x)' = Neighbors(x)
         /\ \A x : ComponentOf(x)' = ComponentOf(x)
         /\ \A x : FamilyAt(x)' = FamilyAt(x)
         /\ \A x : SelectorsAgree(ComponentOf(x))' = SelectorsAgree(ComponentOf(x))
         /\ \A x : MakesFamily(ComponentOf(x), GatesOf(ComponentOf(x), app.state[x]))'
                     = MakesFamily(ComponentOf(x), GatesOf(ComponentOf(x), app.state[x]))
         /\ SelectorsAccepted' = SelectorsAccepted
         /\ \A S : CohortsFor(S)' = CohortsFor(S)
<1>1. Emits' = Emits /\ \A d : DomainActors(d)' = DomainActors(d)
  BY DEF Emits, DomainActors
<1>2. \A x : Neighbors(x)' = Neighbors(x)
  BY <1>1 DEF Neighbors
<1>3. \A x : ComponentOf(x)' = ComponentOf(x)
  BY <1>1 DEF ComponentOf
<1>4. \A C : SelectorsOf(C)' = SelectorsOf(C)
  BY DEF SelectorsOf
<1>5. \A C : Prefix(C)' = Prefix(C)
  BY <1>4 DEF Prefix
<1>6. \A C : SelectorsAgree(C)' = SelectorsAgree(C)
  BY <1>4, <1>5 DEF SelectorsAgree
<1>7. \A C, d : GatesOf(C, d)' = GatesOf(C, d)
  BY <1>1 DEF GatesOf
<1>8. \A C, g : Table(C, g)' = Table(C, g)
  BY <1>4, <1>5 DEF Table
<1>9. \A C, g : MakesFamily(C, g)' = MakesFamily(C, g)
  BY <1>4, <1>8 DEF MakesFamily
<1>10. \A C, d : Family(C, d)' = Family(C, d)
  BY <1>7, <1>8 DEF Family
<1>11. \A x : FamilyAt(x)' = FamilyAt(x)
  BY <1>3, <1>10 DEF FamilyAt
<1>12. \A S : CohortsFor(S)' = CohortsFor(S)
  BY <1>3 DEF CohortsFor
<1>13. SelectorsAccepted' = SelectorsAccepted
  BY DEF SelectorsAccepted
<1>14. \A x : SelectorsAgree(ComponentOf(x))' = SelectorsAgree(ComponentOf(x))
  BY <1>3, <1>6
<1>15. \A x : MakesFamily(ComponentOf(x), GatesOf(ComponentOf(x), app.state[x]))'
                = MakesFamily(ComponentOf(x), GatesOf(ComponentOf(x), app.state[x]))
  BY <1>3, <1>7, <1>9
<1> QED  BY <1>2, <1>3, <1>11, <1>12, <1>13, <1>14, <1>15

\* What an action that keeps the app, the cohorts and the families keeps.
LEMMA PlanFrame ==
  ASSUME app' = app, cohorts' = cohorts, families' = families
  PROVE  /\ CommitmentPlan' = CommitmentPlan
         /\ \A x : CohortsWith(x)' = CohortsWith(x)
         /\ plan' = plan =>
              /\ \A x : CutOutsideCohort(x)' = CutOutsideCohort(x)
              /\ \A c : CutOfCohort(c)' = CutOfCohort(c)
<1>1. Emits' = Emits /\ Consumes' = Consumes
  BY DEF Emits, Consumes
<1>2. \A x : CohortsWith(x)' = CohortsWith(x)
  BY DEF CohortsWith
<1>3. NeedsEmits' = NeedsEmits
  BY <1>1, <1>2 DEF NeedsEmits
<1>4. \A x : FamiliesWith(x)' = FamiliesWith(x) /\ FamilyOf(x)' = FamilyOf(x)
  BY DEF FamiliesWith, FamilyOf
<1>5. \A x : InFamily(x)' = InFamily(x)
  BY <1>4 DEF InFamily
<1>6. Heads' = Heads
  BY <1>4, <1>5 DEF Heads
<1>7. ActorPaths' = ActorPaths /\ FamilyPaths' = FamilyPaths
  <2>1. RootPaths' = RootPaths
    BY <1>6 DEF RootPaths
  <2>2. FamilyPaths' = FamilyPaths
    BY <2>1 DEF FamilyPaths
  <2> QED  BY <1>4, <1>5, <2>1, <2>2 DEF ActorPaths
<1>8. \A p, q : ForestOf(p, q)' = ForestOf(p, q)
  BY DEF ForestOf
<1>9. CommitmentPlan' = CommitmentPlan
  BY <1>1, <1>3, <1>7, <1>8 DEF CommitmentPlan
<1>10. ASSUME plan' = plan
       PROVE  /\ \A x : CutOutsideCohort(x)' = CutOutsideCohort(x)
              /\ \A c : CutOfCohort(c)' = CutOfCohort(c)
  <2>1. (\A x : ActorPath(x)' = ActorPath(x)) /\ (\A f : FamilyPath(f)' = FamilyPath(f))
    BY <1>10 DEF ActorPath, FamilyPath
  <2>2. \A N : CutForNeeds(N)' = CutForNeeds(N)
    BY <1>4, <1>5, <2>1 DEF CutForNeeds
  <2>3. \A cut, S : Exposed(cut, S)' = Exposed(cut, S)
    BY <1>4, <1>5, <2>1 DEF Exposed
  <2>4. \A x : CutOutsideCohort(x)' = CutOutsideCohort(x)
    BY <1>1, <1>10, <2>2, <2>3 DEF CutOutsideCohort
  <2>5. \A c : CutOfCohort(c)' = CutOfCohort(c)
    BY <1>1, <1>10, <2>2, <2>3 DEF CutOfCohort
  <2> QED  BY <2>4, <2>5
<1> QED  BY <1>2, <1>9, <1>10

-----------------------------------------------------------------------------
(* The steps.                                                              *)

LEMMA InitIInv == Init => IInv
<1> SUFFICES ASSUME Init PROVE IInv
  OBVIOUS
<1>1. TypeOK /\ AreFamilies
  BY DEF Init, TypeOK, AreFamilies
<1>2. SettledWhole
  BY DEF Init, SettledWhole, Settled, CohortsFor
<1>3. Growing /\ Planned
  BY DEF Init, Growing, Planned
<1> QED  BY <1>1, <1>2, <1>3 DEF IInv

\* The families stay families when none is added and the app is kept.
LEMMA FamiliesKept ==
  ASSUME AreFamilies, app' = app, families' = families
  PROVE  AreFamilies'
BY AppFrame DEF AreFamilies

\* What has been settled stays settled when nothing more is.
LEMMA SettledKept ==
  ASSUME SettledWhole, phase # "rejected", app' = app, Settled' = Settled, cohorts' = cohorts
  PROVE  SettledWhole'
BY AppFrame DEF SettledWhole

LEMMA RejectKeeps == ASSUME IInv, Reject PROVE IInv'
<1>1. TypeOK'
  BY DEF IInv, TypeOK, Reject
<1>2. AreFamilies'
  BY FamiliesKept DEF IInv, Reject
<1> QED  BY <1>1, <1>2 DEF Reject, IInv, SettledWhole, Growing, Planned

LEMMA AcceptKeeps == ASSUME IInv, AcceptSelectors PROVE IInv'
<1>1. TypeOK'
  <2>1. SelectorsAccepted'
    BY AppFrame DEF AcceptSelectors, SelectorsAccepted
  <2> QED  BY <2>1 DEF IInv, TypeOK, AcceptSelectors
<1>2. AreFamilies'
  BY FamiliesKept DEF IInv, AcceptSelectors
<1>3. SettledWhole'
  <2>1. Settled' = Settled
    BY DEF AcceptSelectors, Settled
  <2> QED  BY <2>1, SettledKept DEF IInv, AcceptSelectors
<1> QED  BY <1>1, <1>2, <1>3 DEF AcceptSelectors, IInv, Growing, Planned

LEMMA StartKeeps == ASSUME IInv, StartComponent PROVE IInv'
<1> DEFINE rest == Actor \ classified
           states == {app.state[b] : b \in rest}
           d == Least(states)
           a == Least(DomainActors(d) \ classified)
<1>0. /\ app \in RouteApps /\ classified \subseteq Actor /\ phase = "components"
      /\ classified' = classified \cup {a} /\ queued' = {a} /\ members' = {} /\ phase' = "grow"
      /\ UNCHANGED <<app, cohorts, families, plan, cuts>>
  BY DEF IInv, TypeOK, StartComponent
<1>1. a \in Actor /\ a \notin classified
  <2>1. Actor \subseteq Nat /\ \A b \in Actor : app.state[b] \in Nat
    BY <1>0, AppFacts
  <2>2. rest # {}
    BY <1>0 DEF StartComponent
  <2>3. states \in SUBSET Nat /\ states # {}
    BY <2>1, <2>2
  <2>4. d \in states
    <3> HIDE DEF states
    <3> QED  BY <2>3, LeastFact
  <2> DEFINE open == DomainActors(d) \ classified
  <2>5. open # {} /\ open \in SUBSET Nat /\ open \subseteq rest
    <3> HIDE DEF d
    <3> QED  BY <2>1, <2>4 DEF DomainActors
  <2>6. Least(open) \in open
    <3> HIDE DEF open
    <3> QED  BY <2>5, LeastFact
  <2> QED  BY <2>5, <2>6
<1> HIDE DEF a
<1>2. TypeOK'
  BY <1>0, <1>1, AppFrame DEF IInv, TypeOK
<1>3. AreFamilies'
  BY <1>0, FamiliesKept DEF IInv
<1>4. SettledWhole'
  <2>1. Settled' = Settled
    BY <1>0, <1>1 DEF Settled
  <2> QED  BY <1>0, <2>1, SettledKept DEF IInv
<1>5. Growing'
  <2>1. a \in ComponentOf(a)
    BY <1>1, ComponentFacts
  <2>2. \E root \in Actor : {a} \subseteq ComponentOf(root)'
    BY <1>0, <1>1, <2>1, AppFrame
  <2> QED  BY <1>0, <2>2 DEF Growing
<1> QED  BY <1>0, <1>2, <1>3, <1>4, <1>5 DEF IInv, Planned

LEMMA GrowKeeps == ASSUME IInv, NEW a \in Actor, Grow(a) PROVE IInv'
<1>0. /\ app \in RouteApps /\ classified \subseteq Actor /\ phase = "grow" /\ a \in queued
      /\ members' = members \cup {a}
      /\ queued' = (queued \ {a}) \cup (Neighbors(a) \ classified)
      /\ classified' = classified \cup Neighbors(a)
      /\ UNCHANGED <<app, phase, cohorts, families, plan, cuts>>
  BY DEF IInv, TypeOK, Grow
<1>1. TypeOK'
  <2>1. Neighbors(a) \subseteq Actor
    BY DEF Neighbors, DomainActors
  <2> QED  BY <1>0, <2>1, AppFrame DEF IInv, TypeOK
<1>2. AreFamilies'
  BY <1>0, FamiliesKept DEF IInv
<1>3. Settled = classified \ (members \cup queued)
      /\ \A x \in Settled : ComponentOf(x) \subseteq Settled
  BY <1>0 DEF IInv, SettledWhole, Settled
<1>4. SettledWhole'
  <2>1. Settled' = Settled
    BY <1>0, <1>3 DEF Settled
  <2> QED  BY <1>0, <2>1, SettledKept DEF IInv
<1>5. /\ members \cup queued \subseteq classified
      /\ \A x \in members : Neighbors(x) \subseteq members \cup queued
  BY <1>0 DEF IInv, Growing
<1>6. PICK root \in Actor : members \cup queued \subseteq ComponentOf(root)
  BY <1>0 DEF IInv, Growing
<1>7. members' \cup queued' = members \cup queued \cup (Neighbors(a) \ classified)
  BY <1>0
<1>8. Neighbors(a) \subseteq members' \cup queued'
  <2> SUFFICES ASSUME NEW y \in Neighbors(a), y \in Settled PROVE FALSE
    BY <1>3, <1>7
  <2>1. y \in Actor /\ a \in Neighbors(y)
    BY NeighborFacts
  <2>2. a \in ComponentOf(y)
    BY <2>1, ComponentFacts DEF Joined
  <2> QED  BY <1>0, <1>3, <2>2
<1>9. Growing'
  <2>1. members' \cup queued' # {} /\ members' \cup queued' \subseteq classified'
    BY <1>0, <1>5
  <2>2. members' \cup queued' \subseteq ComponentOf(root)'
    <3>1. Neighbors(a) \subseteq ComponentOf(root)
      BY <1>0, <1>6, ComponentFacts DEF Joined
    <3> QED  BY <1>0, <1>6, <1>7, <3>1, AppFrame
  <2>3. \A x \in members' : Neighbors(x) \subseteq members' \cup queued'
    BY <1>0, <1>5, <1>7, <1>8
  <2>4. \A x \in members' : Neighbors(x)' \subseteq members' \cup queued'
    BY <1>0, <2>3, AppFrame
  <2> QED  BY <2>1, <2>2, <2>4 DEF Growing
<1> QED  BY <1>0, <1>1, <1>2, <1>4, <1>9 DEF IInv, Planned

\* A grown component is the component of each of its members.
LEMMA GrownComponent ==
  ASSUME IInv, ComponentFound
  PROVE  /\ members # {} /\ members \in SUBSET Actor
         /\ \A x \in members : ComponentOf(x) = members
         /\ \A x, y \in members : app.state[x] = app.state[y]
         /\ classified = Settled \cup members
<1>1. /\ phase = "grow" /\ queued = {} /\ app \in RouteApps
      /\ members # {} /\ members \subseteq classified
      /\ \A x \in members : Neighbors(x) \subseteq members
  BY DEF ComponentFound, IInv, TypeOK, Growing
<1>2. PICK root \in Actor : members \subseteq ComponentOf(root)
  BY <1>1 DEF IInv, Growing
<1>3. \A x \in members : x \in Actor /\ app.state[x] = app.state[root] /\ ComponentOf(x) = members
  BY <1>1, <1>2, ComponentReached DEF Joined
<1> QED  BY <1>1, <1>3 DEF Settled

LEMMA ClassifyKeeps == ASSUME IInv, ClassifyComponent PROVE IInv'
<1>0. /\ app \in RouteApps /\ phase = "grow" /\ queued = {} /\ phase' = "components"
      /\ ComponentFound /\ SelectorsAgree(members) /\ SelectorsAccepted
      /\ cohorts' = IF Cardinality(members) > 1 THEN cohorts \cup {members} ELSE cohorts
      /\ UNCHANGED <<app, classified, members, queued, plan, cuts>>
  BY DEF IInv, TypeOK, ClassifyComponent, ComponentFound
<1>1. /\ members # {} /\ members \in SUBSET Actor
      /\ \A x \in members : ComponentOf(x) = members
      /\ classified = Settled \cup members
  BY <1>0, GrownComponent
<1> DEFINE r == Least(members)
           d == app.state[r]
<1>2. r \in members
  BY <1>0, <1>1, AppFacts, LeastFact
<1>3. families' = IF MakesFamily(members, GatesOf(members, d))
                    THEN families \cup {Family(members, d)} ELSE families
  BY DEF ClassifyComponent
<1> HIDE DEF r
<1>4. TypeOK'
  BY <1>0, AppFrame DEF IInv, TypeOK
<1>5. AreFamilies'
  <2> SUFFICES ASSUME NEW f \in families'
               PROVE  /\ SelectorsAccepted
                      /\ \E x \in Actor :
                           /\ f = FamilyAt(x) /\ SelectorsAgree(ComponentOf(x))
                           /\ MakesFamily(ComponentOf(x), GatesOf(ComponentOf(x), app.state[x]))
    BY <1>0, AppFrame DEF AreFamilies
  <2>1. CASE f \in families
    BY <2>1 DEF IInv, AreFamilies
  <2>2. CASE f \notin families
    <3>1. f = Family(members, d) /\ MakesFamily(members, GatesOf(members, d))
      BY <1>3, <2>2
    <3>2. ComponentOf(r) = members /\ r \in Actor /\ f = FamilyAt(r)
      BY <1>1, <1>2, <3>1 DEF FamilyAt
    <3> QED  BY <1>0, <3>1, <3>2
  <2> QED  BY <2>1, <2>2
<1>6. SettledWhole'
  <2>1. /\ Settled' = Settled \cup members
        /\ \A x \in Settled : ComponentOf(x) \subseteq Settled
        /\ cohorts = CohortsFor(Settled)
    BY <1>0, <1>1 DEF IInv, SettledWhole, Settled
  <2>2. \A x \in Settled' : ComponentOf(x) \subseteq Settled'
    BY <1>1, <2>1
  <2>3. cohorts' = CohortsFor(Settled')
    <3>1. {ComponentOf(a) : a \in Settled \cup members} = {ComponentOf(a) : a \in Settled} \cup {members}
      BY <1>1
    <3>2. CohortsFor(Settled \cup members)
            = CohortsFor(Settled) \cup {c \in {members} : Cardinality(c) > 1}
      BY <3>1 DEF CohortsFor
    <3> QED  BY <1>0, <2>1, <3>2
  <2>4. \A x \in Settled' : ComponentOf(x)' \subseteq Settled'
    BY <1>0, <2>2, AppFrame
  <2>5. cohorts' = CohortsFor(Settled)'
    BY <1>0, <2>3, AppFrame DEF CohortsFor
  <2> QED  BY <2>4, <2>5 DEF SettledWhole
<1> QED  BY <1>0, <1>4, <1>5, <1>6 DEF IInv, Growing, Planned

LEMMA CheckKeeps == ASSUME IInv, CheckConstraints PROVE IInv'
<1>0. /\ phase = "components" /\ classified = Actor /\ app \in RouteApps
      /\ phase' \in {"cuts", "rejected"} /\ (phase' = "cuts" => plan' = CommitmentPlan)
      /\ UNCHANGED <<app, classified, members, queued, cohorts, families, cuts>>
  BY DEF IInv, TypeOK, CheckConstraints
<1>1. TypeOK'
  BY <1>0, AppFrame DEF IInv, TypeOK
<1>2. AreFamilies'
  BY <1>0, FamiliesKept DEF IInv
<1>3. SettledWhole'
  <2>1. Settled' = Settled
    BY <1>0 DEF Settled
  <2> QED  BY <1>0, <2>1, SettledKept DEF IInv
<1>4. Planned'
  <2>1. DOMAIN cuts' = {}
    BY <1>0 DEF IInv, TypeOK
  <2> QED  BY <1>0, <2>1, PlanFrame DEF Planned
<1> QED  BY <1>0, <1>1, <1>2, <1>3, <1>4 DEF IInv, Growing

\* When everything is classified, the cohorts are the components of two actors or
\* more, and an actor is in none but its own.
LEMMA CohortsAreComponents ==
  ASSUME IInv, phase # "rejected", phase # "grow", classified = Actor
  PROVE  /\ cohorts = CohortsFor(Actor)
         /\ \A a \in Actor : \A c \in CohortsWith(a) : c = ComponentOf(a) /\ c \subseteq Actor
<1>1. cohorts = CohortsFor(Actor)
  BY DEF IInv, SettledWhole, Settled
<1>2. ASSUME NEW a \in Actor, NEW c \in CohortsWith(a)
      PROVE  c = ComponentOf(a) /\ c \subseteq Actor
  <2>1. PICK x \in Actor : c = ComponentOf(x) /\ a \in c
    BY <1>1, <1>2 DEF CohortsWith, CohortsFor
  <2> QED  BY <2>1, SameComponent
<1> QED  BY <1>1, <1>2

\* Publishing a cut for some actors keeps the invariant if it is the cut of each of
\* them, and they are whole cohorts.
LEMMA PublishKeeps ==
  ASSUME IInv, phase = "cuts", NEW S \in SUBSET Actor, NEW cut, Publish(S, cut),
         UNCHANGED <<app, phase, classified, members, queued, cohorts, families, plan>>,
         \A a \in S : /\ CohortsWith(a) = {} => cut = CutOutsideCohort(a)
                      /\ \A c \in CohortsWith(a) : c \subseteq S /\ cut = CutOfCohort(c)
  PROVE  IInv'
<1>1. /\ DOMAIN cuts' = DOMAIN cuts \cup S
      /\ \A a \in DOMAIN cuts' : cuts'[a] = IF a \in S THEN cut ELSE cuts[a]
  BY DEF Publish
<1>2. TypeOK'
  BY <1>1, AppFrame DEF IInv, TypeOK
<1>3. AreFamilies'
  BY FamiliesKept DEF IInv
<1>4. SettledWhole'
  <2>1. Settled' = Settled
    BY DEF Settled
  <2> QED  BY <2>1, SettledKept DEF IInv
<1>5. /\ CommitmentPlan' = CommitmentPlan
      /\ \A x : CohortsWith(x)' = CohortsWith(x)
      /\ \A x : CutOutsideCohort(x)' = CutOutsideCohort(x)
      /\ \A c : CutOfCohort(c)' = CutOfCohort(c)
  BY PlanFrame
<1>6. ASSUME NEW a \in DOMAIN cuts'
      PROVE  /\ CohortsWith(a) = {} => cuts'[a] = CutOutsideCohort(a)
             /\ \A c \in CohortsWith(a) : c \subseteq DOMAIN cuts' /\ cuts'[a] = CutOfCohort(c)
  <2>1. CASE a \in S
    BY <1>1, <2>1
  <2>2. CASE a \notin S
    BY <1>1, <2>2 DEF IInv, Planned, PublishedCut
  <2> QED  BY <2>1, <2>2
<1>7. \A a \in DOMAIN cuts' : PublishedCut(a)'
  BY <1>5, <1>6 DEF PublishedCut
<1>8. Planned'
  BY <1>5, <1>7 DEF IInv, Planned
<1> QED  BY <1>2, <1>3, <1>4, <1>8 DEF IInv, Growing

\* The actor planned next.
LEMMA NextUnplanned ==
  ASSUME IInv, Unplanned # {}
  PROVE  Least(Unplanned) \in Actor
<1>1. Unplanned \in SUBSET Nat /\ Unplanned \subseteq Actor
  BY AppFacts DEF Unplanned, IInv, TypeOK
<1> QED  BY <1>1, LeastFact

LEMMA PlanActorKeeps == ASSUME IInv, PlanActor PROVE IInv'
<1> DEFINE a == Least(Unplanned)
<1>1. a \in Actor
  BY NextUnplanned DEF PlanActor
<1>2. phase = "cuts" /\ CohortsWith(a) = {} /\ Publish({a}, CutOutsideCohort(a))
      /\ UNCHANGED <<app, phase, classified, members, queued, cohorts, families, plan>>
  BY DEF PlanActor
<1> HIDE DEF a
<1> QED  BY <1>1, <1>2, PublishKeeps

LEMMA PlanCohortKeeps == ASSUME IInv, PlanCohort PROVE IInv'
<1> DEFINE a == Least(Unplanned)
<1>1. a \in Actor
  BY NextUnplanned DEF PlanCohort
<1>2. PICK c \in CohortsWith(a) : Publish(c, CutOfCohort(c))
  BY DEF PlanCohort
<1>3. phase = "cuts" /\ classified = Actor
      /\ UNCHANGED <<app, phase, classified, members, queued, cohorts, families, plan>>
  BY DEF PlanCohort, IInv, Planned
<1> HIDE DEF a
<1>4. /\ c = ComponentOf(a) /\ c \in SUBSET Actor
      /\ \A x \in Actor : \A k \in CohortsWith(x) : k = ComponentOf(x)
  BY <1>1, <1>3, CohortsAreComponents
<1>5. \A x \in c : c \in CohortsWith(x) /\ \A k \in CohortsWith(x) : k = c
  <2>1. \A x \in c : ComponentOf(x) = c
    BY <1>1, <1>4, SameComponent
  <2>2. \A x \in c : c \in CohortsWith(x)
    BY <1>2 DEF CohortsWith
  <2> QED  BY <1>4, <2>1, <2>2
<1> QED  BY <1>2, <1>3, <1>4, <1>5, PublishKeeps

LEMMA TransitionsKeep == ASSUME IInv, PlanTransitions PROVE IInv'
<1>0. /\ phase = "cuts" /\ phase' \in {"done", "rejected"} /\ Unplanned = {}
      /\ UNCHANGED <<app, classified, members, queued, cohorts, families, plan, cuts>>
  BY DEF PlanTransitions
<1>1. TypeOK'
  BY <1>0, AppFrame DEF IInv, TypeOK
<1>2. AreFamilies'
  BY <1>0, FamiliesKept DEF IInv
<1>3. SettledWhole'
  <2>1. Settled' = Settled
    BY <1>0 DEF Settled
  <2> QED  BY <1>0, <2>1, SettledKept DEF IInv
<1>4. Planned'
  <2>1. DOMAIN cuts = Actor
    BY <1>0 DEF IInv, TypeOK, Unplanned
  <2>2. \A a \in DOMAIN cuts : PublishedCut(a)' = PublishedCut(a)
    BY <1>0, PlanFrame DEF PublishedCut
  <2>3. CommitmentPlan' = CommitmentPlan
    BY <1>0, PlanFrame
  <2> QED  BY <1>0, <2>1, <2>2, <2>3 DEF IInv, Planned
<1> QED  BY <1>0, <1>1, <1>2, <1>3, <1>4 DEF IInv, Growing

LEMMA StutterKeeps == ASSUME IInv, UNCHANGED vars PROVE IInv'
<1>0. UNCHANGED <<app, phase, classified, members, queued, cohorts, families, plan, cuts>>
  BY DEF vars
<1>1. TypeOK'
  BY <1>0, AppFrame DEF IInv, TypeOK
<1>2. AreFamilies'
  BY <1>0, FamiliesKept DEF IInv
<1>3. SettledWhole'
  <2>1. Settled' = Settled
    BY <1>0 DEF Settled
  <2> QED  BY <1>0, <2>1, AppFrame DEF IInv, SettledWhole
<1>4. Growing'
  <2>1. \A x : ComponentOf(x)' = ComponentOf(x) /\ Neighbors(x)' = Neighbors(x)
    BY <1>0, AppFrame
  <2> QED  BY <1>0, <2>1 DEF IInv, Growing
<1>5. Planned'
  <2>1. \A a \in DOMAIN cuts : PublishedCut(a)' = PublishedCut(a)
    BY <1>0, PlanFrame DEF PublishedCut
  <2>2. CommitmentPlan' = CommitmentPlan
    BY <1>0, PlanFrame
  <2> QED  BY <1>0, <2>1, <2>2 DEF IInv, Planned
<1> QED  BY <1>1, <1>2, <1>3, <1>4, <1>5 DEF IInv

\* The components settled so far are whole, what is being grown lies in one, and
\* every published cut is the one its actor or its cohort is due.
THEOREM InvariantHolds == Spec => []IInv
<1>1. IInv /\ [Next]_vars => IInv'
  <2> SUFFICES ASSUME IInv, [Next]_vars PROVE IInv'
    OBVIOUS
  <2>1. ASSUME RejectSelectors \/ RejectComponent PROVE IInv'
    BY <2>1, RejectKeeps DEF RejectSelectors, RejectComponent
  <2>2. ASSUME NEW a \in Actor, Grow(a) PROVE IInv'
    BY <2>2, GrowKeeps
  <2> QED  BY <2>1, <2>2, AcceptKeeps, StartKeeps, ClassifyKeeps, CheckKeeps, PlanActorKeeps,
              PlanCohortKeeps, TransitionsKeep, StutterKeeps DEF Next
<1> QED  BY <1>1, InitIInv, PTL DEF Spec

-----------------------------------------------------------------------------
(* Cohorts and families.                                                   *)

\* An actor is in one family at most, whether in its table or not.
LEMMA OneFamily ==
  ASSUME app \in RouteApps, AreFamilies
  PROVE  /\ \A f, g \in families : \A a \in f.members \cap g.members : f = g
         /\ \A a \in Actor : InFamily(a) =>
              /\ FamilyOf(a) \in families /\ a \in Items(FamilyOf(a).table)
              /\ a \in FamilyOf(a).members
         /\ \A f \in families : \A a \in Items(f.table) :
              a \in Actor /\ InFamily(a) /\ FamilyOf(a) = f
<1>1. \A f, g \in families : \A a \in f.members \cap g.members : f = g
  BY FamilyFacts
<1>2. \A f \in families : Items(f.table) \subseteq f.members /\ f.members \subseteq Actor
  BY FamilyFacts
<1>3. \A a \in Actor : InFamily(a) => FamilyOf(a) \in families /\ a \in Items(FamilyOf(a).table)
  BY DEF InFamily, FamiliesWith, FamilyOf
<1>4. ASSUME NEW f \in families, NEW a \in Items(f.table)
      PROVE  a \in Actor /\ InFamily(a) /\ FamilyOf(a) = f
  <2>1. a \in Actor /\ InFamily(a)
    BY <1>2 DEF InFamily, FamiliesWith
  <2> QED  BY <1>1, <1>2, <1>3, <2>1
<1> QED  BY <1>1, <1>2, <1>3, <1>4

LEMMA AtMostOne ==
  ASSUME NEW S, NEW x, S \subseteq {x}
  PROVE  Cardinality(S) <= 1
<1>1. CASE S = {}
  BY <1>1, FS_EmptySet
<1>2. CASE S = {x}
  BY <1>2, FS_Singleton
<1> QED  BY <1>1, <1>2

LEMMA ConstraintsValid ==
  ASSUME IInv, phase = "components", classified = Actor
  PROVE  ValidConstraints
<1>1. app \in RouteApps /\ AreFamilies
  BY DEF IInv, TypeOK
<1>2. ASSUME NEW f \in families
      PROVE  f.table # <<>> /\ Cardinality(Items(f.table)) = Len(f.table)
  <2>1. f.table \in Seq(Actor) /\ Distinct(f.table) /\ Len(f.table) >= 2
    BY <1>1, FamilyFacts
  <2>2. f.table # <<>>
    BY <2>1
  <2> QED  BY <2>1, <2>2, DistinctCount
<1>3. ASSUME NEW a \in Actor
      PROVE  Cardinality(FamiliesWith(a)) <= 1 /\ Cardinality(CohortsWith(a)) <= 1
  <2>1. FamiliesWith(a) \subseteq {FamilyOf(a)}
    BY <1>1, OneFamily DEF FamiliesWith
  <2>2. CohortsWith(a) \subseteq {ComponentOf(a)}
    BY CohortsAreComponents
  <2> QED  BY <2>1, <2>2, AtMostOne
<1> QED  BY <1>2, <1>3 DEF ValidConstraints

\* The cohorts are the weak components of two actors or more, whose members carry
\* one cut that opens all of them; the families satisfy the planner's constraints.
THEOREM CohortsShare == Spec => []CohortsShareCuts
<1>1. ASSUME IInv PROVE CohortsShareCuts
  <2>0. app \in RouteApps /\ AreFamilies
    BY <1>1 DEF IInv, TypeOK
  <2>1. ComponentsFound
    <3> SUFFICES ASSUME Done PROVE cohorts = CohortsFor(Actor)
      BY DEF ComponentsFound, CohortsFor
    <3> QED  BY <1>1, CohortsAreComponents DEF Done, IInv, Planned
  <2>2. FamiliesWellFormed
    <3>1. ASSUME NEW f \in families
          PROVE  /\ Cardinality(Items(f.table)) >= 2
                 /\ f.members \ Items(f.table) =
                      f.gates \ UNION {Items(app.selectors[n].variants) : n \in SelectorsOf(f.members)}
      <4>1. f.table \in Seq(Actor) /\ Distinct(f.table) /\ Len(f.table) >= 2
        BY <2>0, FamilyFacts
      <4>2. Cardinality(Items(f.table)) = Len(f.table)
        BY <4>1, DistinctCount
      <4> QED  BY <2>0, <4>1, <4>2, FamilyFacts
    <3> QED  BY <1>1, <3>1, ConstraintsValid DEF FamiliesWellFormed
  <2>3. ASSUME Done, NEW c \in cohorts, NEW a \in c, NEW b \in c
        PROVE  cuts[a] = cuts[b] /\ ActorPath(b) \in cuts[a]
    <3>1. \A x \in c : x \in Actor
      <4>1. \A x \in Actor : ComponentOf(x) \subseteq Actor
        BY DEF ComponentOf
      <4> QED  BY <1>1, <2>3, <4>1, CohortsAreComponents DEF Done, IInv, Planned, CohortsFor
    <3>2. \A x \in c : c \in CohortsWith(x) /\ PublishedCut(x)
      BY <1>1, <2>3, <3>1 DEF CohortsWith, Done, IInv, Planned
    <3>3. \A x \in c : cuts[x] = CutOfCohort(c)
      BY <3>2 DEF PublishedCut
    <3> QED  BY <3>3 DEF CutOfCohort, Exposed
  <2> QED  BY <2>1, <2>2, <2>3 DEF CohortsShareCuts
<1> QED  BY <1>1, InvariantHolds, PTL

-----------------------------------------------------------------------------
(* The forest.                                                             *)

\* The sequences of one number and of two.
LEMMA ShortPaths ==
  ASSUME NEW r \in Nat, NEW i \in Nat
  PROVE  /\ <<r>> \in Seq(Nat) /\ Len(<<r>>) = 1 /\ <<r>>[1] = r
         /\ <<r, i>> \in Seq(Nat) /\ Len(<<r, i>>) = 2 /\ <<r, i>>[1] = r /\ <<r, i>>[2] = i
         /\ <<r>> \o <<i>> = <<r, i>>
         /\ SubSeq(<<r, i>>, 1, 1) = <<r>> /\ SubSeq(<<r>>, 1, 1) = <<r>>
<1> DEFINE s == <<r>>
           t == <<i>>
           p == <<r, i>>
<1>1. /\ s \in Seq(Nat) /\ Len(s) = 1 /\ s[1] = r
      /\ t \in Seq(Nat) /\ Len(t) = 1 /\ t[1] = i
      /\ p \in Seq(Nat) /\ Len(p) = 2 /\ p[1] = r /\ p[2] = i
  OBVIOUS
<1> HIDE DEF s, t, p
<1>2. s \o t = p
  <2>1. /\ s \o t \in Seq(Nat) /\ Len(s \o t) = Len(s) + Len(t)
        /\ \A k \in 1..Len(s) + Len(t) : (s \o t)[k] = IF k <= Len(s) THEN s[k] ELSE t[k - Len(s)]
    BY <1>1, ConcatProperties
  <2>2. Len(s \o t) = Len(p) /\ (s \o t)[1] = p[1] /\ (s \o t)[2] = p[2]
    BY <1>1, <2>1
  <2>3. \A k \in 1..Len(s \o t) : (s \o t)[k] = p[k]
    <3>1. \A k \in 1..Len(s \o t) : k = 1 \/ k = 2
      BY <1>1, <2>2
    <3> QED  BY <2>2, <3>1
  <2> QED  BY <1>1, <2>1, <2>2, <2>3, SeqEqual
<1>3. ASSUME NEW q \in Seq(Nat), Len(q) >= 1, q[1] = r
      PROVE  SubSeq(q, 1, 1) = s
  <2> DEFINE low == 1
             u == SubSeq(q, low, low)
  <2>1. low \in Int /\ low <= low /\ low - low + 1 = low /\ \A k \in low..low : k = low /\ low + k - 1 = low
    OBVIOUS
  <2>2. q[low] \in Nat /\ q[low] = r /\ s[low] = r /\ Len(s) = low
    BY <1>1, <1>3, ElementOfSeq
  <2> HIDE DEF low
  <2>3. /\ u \in Seq(Nat)
        /\ Len(u) = low
        /\ \A k \in low..low : u[k] = q[low + k - 1]
    <3>1. \A k \in low..low : q[k] \in Nat
      BY <2>1, <2>2
    <3>2. /\ SubSeq(q, low, low) \in Seq(Nat)
          /\ Len(SubSeq(q, low, low)) = IF low <= low THEN low - low + 1 ELSE 0
          /\ \A k \in 1..low - low + 1 : SubSeq(q, low, low)[k] = q[low + k - 1]
      BY <2>1, <3>1, SubSeqProperties
    <3> QED  BY <2>1, <3>2 DEF low
  <2>4. \A k \in 1..Len(u) : u[k] = s[k]
    BY <2>1, <2>2, <2>3 DEF low
  <2> HIDE DEF u
  <2>5. u = s
    BY <1>1, <2>2, <2>3, <2>4, SeqEqual
  <2> QED  BY <2>5 DEF u, low
<1>4. SubSeq(p, 1, 1) = s /\ SubSeq(s, 1, 1) = s
  BY <1>1, <1>3
<1> QED  BY <1>1, <1>2, <1>4 DEF s, t, p

\* Which short paths start with which.
LEMMA StartFacts ==
  ASSUME NEW r \in Nat, NEW i \in Nat, NEW q \in Nat, NEW j \in Nat
  PROVE  /\ StartsWith(<<r, i>>, <<q>>) <=> q = r
         /\ StartsWith(<<r>>, <<q>>) <=> q = r
         /\ ~StartsWith(<<r>>, <<q, j>>)
<1> DEFINE s == <<r>>
           t == <<q>>
           p == <<r, i>>
           u == <<q, j>>
<1>1. /\ Len(s) = 1 /\ Len(t) = 1 /\ Len(p) = 2 /\ Len(u) = 2 /\ (s = t <=> r = q)
      /\ SubSeq(p, 1, 1) = s /\ SubSeq(s, 1, 1) = s
  BY ShortPaths
<1> HIDE DEF s, t, p, u
<1>2. /\ StartsWith(p, t) <=> q = r
      /\ StartsWith(s, t) <=> q = r
      /\ ~StartsWith(s, u)
  BY <1>1 DEF StartsWith
<1> QED  BY <1>2 DEF s, t, p, u

\* The only branch on the way from a root to its child is the root.
LEMMA OpenFacts ==
  ASSUME NEW r \in Nat, NEW i \in Nat
  PROVE  OpenPaths(<<r>>, <<r, i>>) = {<<r>>}
<1>1. Len(<<r>>) = 1 /\ Len(<<r, i>>) = 2 /\ SubSeq(<<r, i>>, 1, 1) = <<r>>
  BY ShortPaths
<1>2. \A k : k \in 1..(2-1) <=> k = 1
  OBVIOUS
<1> QED  BY <1>1, <1>2 DEF OpenPaths

\* The first actor of the table of f, in the order of the names, and the place of a
\* head among the heads.
HeadOf(f) == Least(Items(f.table))

Rank(h) == Position(Heads, h)

\* Every head has a rank of its own, which is the whole path of a family or of an
\* actor in none; the path of an actor in a family's table adds its index there.
LEMMA PathFacts ==
  ASSUME app \in RouteApps, AreFamilies, plan = CommitmentPlan
  PROVE  /\ \A h \in Heads : Rank(h) \in Nat
         /\ \A g, h \in Heads : Rank(g) = Rank(h) => g = h
         /\ \A f \in families : /\ HeadOf(f) \in Heads /\ HeadOf(f) \in Items(f.table)
                                /\ FamilyPath(f) = <<Rank(HeadOf(f))>>
         /\ \A a \in Actor : ~InFamily(a) => a \in Heads /\ ActorPath(a) = <<Rank(a)>>
         /\ \A f \in families : \A a \in Items(f.table) :
              /\ ChildIndex(f, a) \in Nat /\ f.table[ChildIndex(f, a) + 1] = a
              /\ ActorPath(a) = <<Rank(HeadOf(f)), ChildIndex(f, a)>>
<1>1. Heads \in SUBSET Nat /\ IsFiniteSet(Heads) /\ Heads \subseteq Actor /\ Actor \subseteq Nat
  <2>1. Heads \subseteq Actor
    BY DEF Heads
  <2> QED  BY <2>1, AppFacts, FS_Subset
<1>2. ASSUME NEW h \in Heads PROVE Rank(h) \in Nat
  <2>1. Rank(h) \in 0..(Cardinality(Heads) - 1) /\ Cardinality(Heads) \in Nat
    BY <1>1, PositionBounds, FS_CardinalityType DEF Rank
  <2> QED  BY <2>1
<1>3. \A g, h \in Heads : Rank(g) = Rank(h) => g = h
  BY <1>1, PositionUnique DEF Rank
<1>4. /\ ActorPaths = [a \in Actor |-> ActorPath(a)] /\ FamilyPaths = [f \in families |-> FamilyPath(f)]
  <2>1. plan.actor = ActorPaths /\ plan.family = FamilyPaths
    BY DEF CommitmentPlan
  <2> QED  BY <2>1 DEF ActorPath, FamilyPath, ActorPaths, FamilyPaths
<1>5. \A h \in Heads : RootPaths[h] = <<Rank(h)>>
  BY DEF RootPaths, Rank, Position
<1>6. ASSUME NEW f \in families
      PROVE  /\ HeadOf(f) \in Heads /\ HeadOf(f) \in Items(f.table)
             /\ FamilyPath(f) = <<Rank(HeadOf(f))>>
  <2>1. /\ \A a \in Items(f.table) : a \in Actor /\ InFamily(a) /\ FamilyOf(a) = f
        /\ f.table \in Seq(Actor) /\ Len(f.table) >= 2
    BY OneFamily, FamilyFacts
  <2>2. Items(f.table) \in SUBSET Nat /\ Items(f.table) # {}
    <3>1. 1 \in DOMAIN f.table
      BY <2>1, LenProperties
    <3> QED  BY <1>1, <2>1, <3>1 DEF Items
  <2>3. HeadOf(f) \in Items(f.table)
    BY <2>2, LeastFact DEF HeadOf
  <2>4. HeadOf(f) \in Heads
    BY <2>1, <2>3 DEF Heads, HeadOf
  <2>5. FamilyPaths[f] = RootPaths[HeadOf(f)]
    BY DEF FamilyPaths, HeadOf
  <2> QED  BY <1>4, <1>5, <2>3, <2>4, <2>5
<1>7. ASSUME NEW a \in Actor, ~InFamily(a)
      PROVE  a \in Heads /\ ActorPath(a) = <<Rank(a)>>
  <2>1. a \in Heads
    BY <1>7 DEF Heads
  <2>2. ActorPaths[a] = RootPaths[a]
    BY <1>7 DEF ActorPaths
  <2> QED  BY <1>4, <1>5, <2>1, <2>2
<1>8. ASSUME NEW f \in families, NEW a \in Items(f.table)
      PROVE  /\ ChildIndex(f, a) \in Nat /\ f.table[ChildIndex(f, a) + 1] = a
             /\ ActorPath(a) = <<Rank(HeadOf(f)), ChildIndex(f, a)>>
  <2>1. a \in Actor /\ InFamily(a) /\ FamilyOf(a) = f
    BY OneFamily
  <2>2. PICK n \in DOMAIN f.table : n = CHOOSE k \in DOMAIN f.table : f.table[k] = a
    BY DEF Items
  <2>3. f.table[n] = a
    BY <2>2 DEF Items
  <2>4. n \in Nat \ {0}
    <3>1. DOMAIN f.table = 1..Len(f.table) /\ Len(f.table) \in Nat
      BY FamilyFacts, LenProperties
    <3> QED  BY <3>1
  <2>5. ChildIndex(f, a) = n - 1
    BY <2>2 DEF ChildIndex
  <2>6. ChildIndex(f, a) \in Nat /\ ChildIndex(f, a) + 1 = n
    BY <2>4, <2>5
  <2>7. ActorPath(a) = FamilyPath(f) \o <<ChildIndex(f, a)>>
    BY <1>4, <2>1 DEF ActorPaths
  <2>8. <<Rank(HeadOf(f))>> \o <<ChildIndex(f, a)>> = <<Rank(HeadOf(f)), ChildIndex(f, a)>>
    BY <1>2, <1>6, <2>6, ShortPaths
  <2> QED  BY <1>6, <2>3, <2>6, <2>7, <2>8
<1> QED  BY <1>2, <1>3, <1>6, <1>7, <1>8

\* Every actor and every family has a path of its own.
LEMMA PathsDiffer ==
  ASSUME app \in RouteApps, AreFamilies, plan = CommitmentPlan
  PROVE  /\ \A a, b \in Actor : ActorPath(a) = ActorPath(b) => a = b
         /\ \A f, g \in families : FamilyPath(f) = FamilyPath(g) => f = g
         /\ \A a \in Actor, f \in families : ActorPath(a) # FamilyPath(f)
<1>1. /\ \A h \in Heads : Rank(h) \in Nat
      /\ \A g, h \in Heads : Rank(g) = Rank(h) => g = h
      /\ \A f \in families : /\ HeadOf(f) \in Heads /\ HeadOf(f) \in Items(f.table)
                             /\ FamilyPath(f) = <<Rank(HeadOf(f))>>
      /\ \A a \in Actor : ~InFamily(a) => a \in Heads /\ ActorPath(a) = <<Rank(a)>>
      /\ \A f \in families : \A a \in Items(f.table) :
           /\ ChildIndex(f, a) \in Nat /\ f.table[ChildIndex(f, a) + 1] = a
           /\ ActorPath(a) = <<Rank(HeadOf(f)), ChildIndex(f, a)>>
  BY PathFacts
<1>2. /\ \A a \in Actor : InFamily(a) => FamilyOf(a) \in families /\ a \in Items(FamilyOf(a).table)
      /\ \A f \in families : \A a \in Items(f.table) :
           a \in Actor /\ InFamily(a) /\ FamilyOf(a) = f
  BY OneFamily
<1>3. \A r, q \in Nat : <<r>> = <<q>> => r = q
  OBVIOUS
<1>4. \A r, i, q, j \in Nat : /\ <<r, i>> = <<q, j>> => r = q /\ i = j
                              /\ <<r, i>> # <<q>>
  BY ShortPaths
<1>5. ASSUME NEW f \in families, NEW g \in families, Rank(HeadOf(f)) = Rank(HeadOf(g))
      PROVE  f = g
  <2>1. HeadOf(f) = HeadOf(g)
    BY <1>1, <1>5
  <2> QED  BY <1>1, <1>2, <2>1
<1>6. ASSUME NEW a \in Actor, NEW f \in families
      PROVE  ActorPath(a) # FamilyPath(f)
  <2>1. CASE InFamily(a)
    <3>1. FamilyOf(a) \in families /\ a \in Items(FamilyOf(a).table)
      BY <1>2, <2>1
    <3> QED  BY <1>1, <1>4, <3>1
  <2>2. CASE ~InFamily(a)
    <3>1. a # HeadOf(f)
      BY <1>1, <1>2, <2>2
    <3> QED  BY <1>1, <1>3, <2>2, <3>1
  <2> QED  BY <2>1, <2>2
<1>7. ASSUME NEW a \in Actor, NEW b \in Actor, ActorPath(a) = ActorPath(b)
      PROVE  a = b
  <2>1. CASE ~InFamily(a) /\ ~InFamily(b)
    BY <1>1, <1>3, <1>7, <2>1
  <2>2. CASE InFamily(a) /\ InFamily(b)
    <3> DEFINE f == FamilyOf(a)
               g == FamilyOf(b)
    <3>1. f \in families /\ a \in Items(f.table) /\ g \in families /\ b \in Items(g.table)
      BY <1>2, <2>2
    <3> HIDE DEF f, g
    <3>2. Rank(HeadOf(f)) = Rank(HeadOf(g)) /\ ChildIndex(f, a) = ChildIndex(g, b)
      BY <1>1, <1>4, <1>7, <3>1
    <3>3. f = g
      BY <1>5, <3>1, <3>2
    <3> QED  BY <1>1, <3>1, <3>2, <3>3
  <2>3. ASSUME NEW x \in Actor, NEW y \in Actor, InFamily(x), ~InFamily(y)
        PROVE  ActorPath(x) # ActorPath(y)
    <3>1. FamilyOf(x) \in families /\ x \in Items(FamilyOf(x).table)
      BY <1>2, <2>3
    <3> QED  BY <1>1, <1>4, <2>3, <3>1
  <2> QED  BY <1>7, <2>1, <2>2, <2>3
<1> QED  BY <1>1, <1>3, <1>5, <1>6, <1>7

\* The nodes are the paths; below a family's is what its table holds; and a path
\* starts with another only if it is the path of a table actor and that of its family.
LEMMA ForestFacts ==
  ASSUME app \in RouteApps, AreFamilies, plan = CommitmentPlan
  PROVE  /\ plan.forest.branches = {FamilyPath(f) : f \in families}
         /\ plan.forest.nodes = {ActorPath(a) : a \in Actor} \cup {FamilyPath(f) : f \in families}
         /\ \A p \in plan.forest.nodes : p \in Seq(Nat)
         /\ \A f \in families : \A a \in Items(f.table) : StartsWith(ActorPath(a), FamilyPath(f))
         /\ \A p, q \in plan.forest.nodes :
              StartsWith(p, q) =>
                \/ p = q
                \/ \E f \in families : \E a \in Items(f.table) : q = FamilyPath(f) /\ p = ActorPath(a)
<1>1. /\ \A h \in Heads : Rank(h) \in Nat
      /\ \A g, h \in Heads : Rank(g) = Rank(h) => g = h
      /\ \A f \in families : /\ HeadOf(f) \in Heads /\ HeadOf(f) \in Items(f.table)
                             /\ FamilyPath(f) = <<Rank(HeadOf(f))>>
      /\ \A a \in Actor : ~InFamily(a) => a \in Heads /\ ActorPath(a) = <<Rank(a)>>
      /\ \A f \in families : \A a \in Items(f.table) :
           /\ ChildIndex(f, a) \in Nat
           /\ ActorPath(a) = <<Rank(HeadOf(f)), ChildIndex(f, a)>>
  BY PathFacts
<1>2. /\ \A a \in Actor : InFamily(a) => FamilyOf(a) \in families /\ a \in Items(FamilyOf(a).table)
      /\ \A f \in families : \A a \in Items(f.table) :
           a \in Actor /\ InFamily(a) /\ FamilyOf(a) = f
  BY OneFamily
<1>3. plan.forest = ForestOf(ActorPaths, FamilyPaths) /\ plan.actor = ActorPaths
      /\ plan.family = FamilyPaths
  BY DEF CommitmentPlan
<1>4. /\ plan.forest.branches = {FamilyPath(f) : f \in families}
      /\ plan.forest.nodes = {ActorPath(a) : a \in Actor} \cup {FamilyPath(f) : f \in families}
  BY <1>3 DEF ForestOf, ActorPath, FamilyPath
<1>5. \A r, i, q, j \in Nat : /\ StartsWith(<<r, i>>, <<q>>) <=> q = r
                              /\ StartsWith(<<r>>, <<q>>) <=> q = r
                              /\ ~StartsWith(<<r>>, <<q, j>>)
                              /\ StartsWith(<<r, i>>, <<q, j>>) => r = q /\ i = j
  <2>1. \A r, i, q, j \in Nat : StartsWith(<<r, i>>, <<q, j>>) => r = q /\ i = j
    <3> SUFFICES ASSUME NEW r \in Nat, NEW i \in Nat, NEW q \in Nat, NEW j \in Nat,
                        StartsWith(<<r, i>>, <<q, j>>)
                 PROVE  r = q /\ i = j
      OBVIOUS
    <3>1. SubSeq(<<r, i>>, 1, Len(<<r, i>>)) = <<r, i>>
      BY ShortPaths, SubSeqFull
    <3>2. <<r, i>> = <<q, j>>
      BY <3>1, ShortPaths DEF StartsWith
    <3> QED  BY <3>2
  <2> QED  BY <2>1, StartFacts
<1>6. ASSUME NEW p \in plan.forest.nodes
      PROVE  \/ \E h \in Heads : p = <<Rank(h)>>
             \/ \E f \in families : \E a \in Items(f.table) :
                  p = ActorPath(a) /\ p = <<Rank(HeadOf(f)), ChildIndex(f, a)>>
  <2>1. CASE \E f \in families : p = FamilyPath(f)
    BY <1>1, <2>1
  <2>2. ASSUME NEW a \in Actor, p = ActorPath(a)
        PROVE  \/ \E h \in Heads : p = <<Rank(h)>>
               \/ \E f \in families : \E x \in Items(f.table) :
                    p = ActorPath(x) /\ p = <<Rank(HeadOf(f)), ChildIndex(f, x)>>
    <3>1. CASE InFamily(a)
      BY <1>1, <1>2, <2>2, <3>1
    <3>2. CASE ~InFamily(a)
      BY <1>1, <2>2, <3>2
    <3> QED  BY <3>1, <3>2
  <2> QED  BY <1>4, <2>1, <2>2
<1>7. ASSUME NEW p \in plan.forest.nodes PROVE p \in Seq(Nat)
  <2>1. ASSUME NEW h \in Heads, p = <<Rank(h)>> PROVE p \in Seq(Nat)
    <3>1. Rank(h) \in Nat
      BY <1>1
    <3>2. <<Rank(h)>> \in Seq(Nat)
      BY <3>1, ShortPaths
    <3> QED  BY <2>1, <3>2
  <2>2. ASSUME NEW f \in families, NEW a \in Items(f.table),
               p = <<Rank(HeadOf(f)), ChildIndex(f, a)>>
        PROVE  p \in Seq(Nat)
    <3>1. Rank(HeadOf(f)) \in Nat /\ ChildIndex(f, a) \in Nat
      BY <1>1
    <3>2. <<Rank(HeadOf(f)), ChildIndex(f, a)>> \in Seq(Nat)
      BY <3>1, ShortPaths
    <3> QED  BY <2>2, <3>2
  <2> QED  BY <1>6, <2>1, <2>2
<1>8. ASSUME NEW p \in plan.forest.nodes, NEW q \in plan.forest.nodes, StartsWith(p, q), p # q
      PROVE  \E f \in families : \E a \in Items(f.table) : q = FamilyPath(f) /\ p = ActorPath(a)
  <2>1. ASSUME NEW h \in Heads, q = <<Rank(h)>>,
               NEW f \in families, NEW a \in Items(f.table),
               p = ActorPath(a), p = <<Rank(HeadOf(f)), ChildIndex(f, a)>>
        PROVE  q = FamilyPath(f)
    <3>1. /\ Rank(h) \in Nat /\ Rank(HeadOf(f)) \in Nat /\ ChildIndex(f, a) \in Nat
          /\ FamilyPath(f) = <<Rank(HeadOf(f))>>
      BY <1>1
    <3>2. StartsWith(<<Rank(HeadOf(f)), ChildIndex(f, a)>>, <<Rank(h)>>)
      BY <1>8, <2>1
    <3>3. Rank(h) = Rank(HeadOf(f))
      BY <1>5, <3>1, <3>2
    <3> QED  BY <2>1, <3>1, <3>3
  <2>2. ASSUME NEW h \in Heads, NEW g \in Heads, p = <<Rank(h)>>, q = <<Rank(g)>>
        PROVE  FALSE
    <3>1. Rank(h) \in Nat /\ Rank(g) \in Nat
      BY <1>1
    <3>2. StartsWith(<<Rank(h)>>, <<Rank(g)>>)
      BY <1>8, <2>2
    <3>3. Rank(g) = Rank(h)
      BY <1>5, <3>1, <3>2
    <3> QED  BY <1>8, <2>2, <3>3
  <2>3. ASSUME NEW g \in families, NEW b \in Items(g.table),
               q = <<Rank(HeadOf(g)), ChildIndex(g, b)>>
        PROVE  FALSE
    <3>0. Rank(HeadOf(g)) \in Nat /\ ChildIndex(g, b) \in Nat
      BY <1>1
    <3>1. ASSUME NEW h \in Heads, p = <<Rank(h)>>
          PROVE  FALSE
      <4>1. StartsWith(<<Rank(h)>>, <<Rank(HeadOf(g)), ChildIndex(g, b)>>)
        BY <1>8, <2>3, <3>1
      <4> QED  BY <1>1, <1>5, <3>0, <4>1
    <3>2. ASSUME NEW f \in families, NEW a \in Items(f.table),
                 p = <<Rank(HeadOf(f)), ChildIndex(f, a)>>
          PROVE  FALSE
      <4>1. StartsWith(<<Rank(HeadOf(f)), ChildIndex(f, a)>>, <<Rank(HeadOf(g)), ChildIndex(g, b)>>)
        BY <1>8, <2>3, <3>2
      <4>2. Rank(HeadOf(f)) \in Nat /\ ChildIndex(f, a) \in Nat
        BY <1>1
      <4>3. Rank(HeadOf(f)) = Rank(HeadOf(g)) /\ ChildIndex(f, a) = ChildIndex(g, b)
        BY <1>5, <3>0, <4>1, <4>2
      <4> QED  BY <1>8, <2>3, <3>2, <4>3
    <3> QED  BY <1>6, <3>1, <3>2
  <2>4. PICK h \in Heads : q = <<Rank(h)>>
    BY <1>6, <2>3
  <2>5. PICK f \in families : \E a \in Items(f.table) :
          p = ActorPath(a) /\ p = <<Rank(HeadOf(f)), ChildIndex(f, a)>>
    BY <1>6, <2>2, <2>4
  <2> QED  BY <2>1, <2>4, <2>5
<1>9. \A f \in families : \A a \in Items(f.table) : StartsWith(ActorPath(a), FamilyPath(f))
  BY <1>1, <1>5
<1> QED  BY <1>4, <1>7, <1>8, <1>9

-----------------------------------------------------------------------------
(* What an actor needs.                                                    *)

\* What src emits is reached, what a reached actor emits is reached, and what is
\* reached stays within any closed set that holds src's emits.
LEMMA ReachFacts ==
  ASSUME NEW E \in Relation2, NEW s \in Actor
  PROVE  /\ Reach(E, s) \subseteq Actor
         /\ E[s] \subseteq Reach(E, s)
         /\ EmitClosed(E, Reach(E, s))
         /\ \A S \in SUBSET Actor :
              E[s] \subseteq S /\ EmitClosed(E, S) => Reach(E, s) \subseteq S
<1>1. \A d \in Actor : E[d] \subseteq Actor
  BY DEF Relation2
<1>2. Reach(E, s) \subseteq Actor /\ E[s] \subseteq Reach(E, s)
  BY <1>1 DEF Reach
<1>3. EmitClosed(E, Reach(E, s))
  <2> SUFFICES ASSUME NEW d \in Reach(E, s), NEW x \in E[d]
               PROVE  x \in Reach(E, s)
    BY DEF EmitClosed
  <2>1. x \in Actor
    BY <1>1, <1>2
  <2>2. ASSUME NEW S \in SUBSET Actor, E[s] \subseteq S, EmitClosed(E, S)
        PROVE  x \in S
    BY <2>2 DEF Reach, EmitClosed
  <2> QED  BY <2>1, <2>2 DEF Reach
<1> QED  BY <1>2, <1>3 DEF Reach

\* A reached actor's own reach is part of the reach.
LEMMA ReachTransitive ==
  ASSUME NEW E \in Relation2, NEW s \in Actor, NEW d \in Reach(E, s)
  PROVE  d \in Actor /\ Reach(E, d) \subseteq Reach(E, s)
<1>1. d \in Actor /\ Reach(E, s) \in SUBSET Actor /\ E[d] \subseteq Reach(E, s)
  BY ReachFacts DEF EmitClosed
<1> QED  BY <1>1, ReachFacts

\* The needs of a reached actor are needs.
LEMMA NeedsTransitive ==
  ASSUME NEW E \in Relation2, NEW C \in Relation2, NEW s \in Actor, NEW d \in Reach(E, s)
  PROVE  NeedsOf(E, C, d) \subseteq NeedsOf(E, C, s)
BY ReachTransitive DEF NeedsOf

\* The needs of an actor are actors.
LEMMA NeedsType ==
  ASSUME NEW E \in Relation2, NEW C \in Relation2, NEW s \in Actor
  PROVE  NeedsOf(E, C, s) \subseteq Actor
BY ReachFacts DEF NeedsOf, Relation2

\* The actors that the cut of a opens: its cohort, and what they read directly.
OpenedFor(a) == (UNION CohortsWith(a)) \cup ReadBy(a)

\* An actor needs what its cohort needs, and what the actors it creates need; all
\* that its cut opens is needed.
LEMMA PlanNeeds ==
  ASSUME IInv, phase \in {"cuts", "done"}, NEW a \in Actor
  PROVE  /\ plan.needs[a] \subseteq Actor
         /\ OpenedFor(a) \subseteq plan.needs[a]
         /\ \A c \in CohortsWith(a) : \A m \in c : m \in Actor /\ plan.needs[m] = plan.needs[a]
         /\ \A t \in Emits[a] : plan.needs[t] \subseteq plan.needs[a]
<1> DEFINE E == NeedsEmits
           C == Consumes
<1>1. /\ app \in RouteApps /\ AreFamilies /\ classified = Actor /\ plan = CommitmentPlan
  BY DEF IInv, TypeOK, Planned
<1>2. /\ C \in Relation2 /\ \A x \in Actor : Emits[x] \subseteq Actor /\ C[x] \subseteq Actor
  BY <1>1, AppFacts
<1>3. \A x \in Actor : \A c \in CohortsWith(x) : c = ComponentOf(x) /\ c \subseteq Actor /\ x \in c
  <2>1. \A x \in Actor : \A c \in CohortsWith(x) : c = ComponentOf(x) /\ c \subseteq Actor
    BY <1>1, CohortsAreComponents
  <2> QED  BY <2>1 DEF CohortsWith
<1>4. /\ E \in Relation2
      /\ \A x \in Actor : Emits[x] \subseteq E[x]
      /\ \A x \in Actor : \A c \in CohortsWith(x) : c \ {x} \subseteq E[x]
  <2>1. \A x \in Actor : E[x] = Emits[x] \cup ((UNION CohortsWith(x)) \ {x})
    BY DEF NeedsEmits
  <2>2. \A x \in Actor : E[x] \subseteq Actor
    BY <1>2, <1>3, <2>1
  <2>3. E = [x \in Actor |-> E[x]]
    BY DEF NeedsEmits
  <2>4. E \in Relation2
    <3> HIDE DEF E
    <3> QED  BY <2>2, <2>3 DEF Relation2
  <2> HIDE DEF E
  <2> QED  BY <2>1, <2>4
<1>5. \A x \in Actor : plan.needs[x] = NeedsOf(E, C, x)
  BY <1>1 DEF CommitmentPlan
<1> HIDE DEF E, C
<1>6. ASSUME NEW x \in Actor, NEW c \in CohortsWith(x), NEW m \in c
      PROVE  m \in Actor /\ m \in Reach(E, x) /\ c \in CohortsWith(m)
  <2>1. m \in Actor /\ x \in c /\ c \in CohortsWith(m)
    BY <1>3 DEF CohortsWith
  <2>2. \A y \in c : y # x => y \in Reach(E, x)
    <3>1. E[x] \subseteq Reach(E, x)
      BY <1>4, ReachFacts
    <3> QED  BY <1>4, <3>1
  <2>3. x \in Reach(E, x)
    <3>1. PICK y \in c : y # x
      <4>1. Cardinality(c) > 1
        BY <1>1, CohortsAreComponents DEF CohortsWith, CohortsFor
      <4>2. c # {x}
        <5>1. Cardinality({x}) = 1
          BY FS_Singleton
        <5> QED  BY <4>1, <5>1
      <4> QED  BY <2>1, <4>2
    <3>2. y \in Actor /\ c \in CohortsWith(y)
      BY <1>3 DEF CohortsWith
    <3>3. x \in E[y] /\ E[y] \subseteq Reach(E, y)
      BY <1>4, <2>1, <3>1, <3>2, ReachFacts
    <3>4. Reach(E, y) \subseteq Reach(E, x)
      BY <1>4, <2>2, <3>1, ReachTransitive
    <3> QED  BY <3>3, <3>4
  <2> QED  BY <2>1, <2>2, <2>3
<1>7. ASSUME NEW x \in Actor, NEW y \in Reach(E, x)
      PROVE  y \in Actor /\ y \in plan.needs[x] /\ C[y] \subseteq plan.needs[x]
             /\ plan.needs[y] \subseteq plan.needs[x]
  <2>1. y \in Actor /\ NeedsOf(E, C, y) \subseteq NeedsOf(E, C, x)
    BY <1>2, <1>4, ReachTransitive, NeedsTransitive
  <2> QED  BY <1>5, <2>1 DEF NeedsOf
<1>8. plan.needs[a] \subseteq Actor /\ C[a] \subseteq plan.needs[a]
  BY <1>2, <1>4, <1>5, NeedsType DEF NeedsOf
<1>9. OpenedFor(a) \subseteq plan.needs[a]
  <2>1. \A c \in CohortsWith(a) : \A m \in c : m \in plan.needs[a] /\ C[m] \subseteq plan.needs[a]
    BY <1>6, <1>7
  <2> QED  BY <1>8, <2>1 DEF OpenedFor, ReadBy, C
<1>10. ASSUME NEW c \in CohortsWith(a), NEW m \in c
       PROVE  m \in Actor /\ plan.needs[m] = plan.needs[a]
  <2>1. m \in Actor /\ m \in Reach(E, a) /\ c \in CohortsWith(m) /\ a \in c
    BY <1>3, <1>6
  <2>2. a \in Reach(E, m)
    BY <1>6, <2>1
  <2> QED  BY <1>7, <2>1, <2>2
<1>11. \A t \in Emits[a] : plan.needs[t] \subseteq plan.needs[a]
  <2>1. Emits[a] \subseteq Reach(E, a)
    BY <1>4, ReachFacts
  <2> QED  BY <1>7, <2>1
<1> QED  BY <1>8, <1>9, <1>10, <1>11

-----------------------------------------------------------------------------
(* The cuts.                                                               *)

\* A published cut exposes what it opens in the cut that packs all of the needs.
LEMMA CutPlanned ==
  ASSUME IInv, phase \in {"cuts", "done"}, NEW a \in DOMAIN cuts
  PROVE  a \in Actor /\ cuts[a] = Exposed(CutForNeeds(plan.needs[a]), OpenedFor(a))
<1>1. a \in Actor /\ PublishedCut(a) /\ classified = Actor /\ app \in RouteApps
  BY DEF IInv, TypeOK, Planned
<1>2. CASE CohortsWith(a) = {}
  <2>1. OpenedFor(a) = Consumes[a]
    BY <1>2 DEF OpenedFor, ReadBy
  <2> QED  BY <1>1, <1>2, <2>1 DEF PublishedCut, CutOutsideCohort
<1>3. ASSUME NEW c \in CohortsWith(a)
      PROVE  cuts[a] = Exposed(CutForNeeds(plan.needs[a]), OpenedFor(a))
  <2>1. a \in c /\ \A k \in CohortsWith(a) : k = c
    BY <1>1, CohortsAreComponents DEF CohortsWith
  <2>2. OpenedFor(a) = c \cup UNION {Consumes[m] : m \in c}
    BY <2>1 DEF OpenedFor, ReadBy
  <2>3. Least(c) \in c
    <3>1. c \in SUBSET Nat /\ c # {}
      BY <1>1, <2>1, AppFacts, CohortsAreComponents
    <3> QED  BY <3>1, LeastFact
  <2>4. plan.needs[Least(c)] = plan.needs[a]
    BY <1>1, <2>3, PlanNeeds
  <2>5. cuts[a] = CutOfCohort(c)
    BY <1>1 DEF PublishedCut
  <2> QED  BY <2>2, <2>4, <2>5 DEF CutOfCohort
<1> QED  BY <1>1, <1>2, <1>3

\* What a cut holds: the actors it opens and their tables, the needed actors in no
\* family, and the tables that are needed and not opened.
LEMMA CutHolds ==
  ASSUME IInv, phase \in {"cuts", "done"}, NEW a \in DOMAIN cuts
  PROVE  /\ \A b \in Actor :
              ActorPath(b) \in cuts[a] <=>
                \/ b \in OpenedFor(a)
                \/ ~InFamily(b) /\ b \in plan.needs[a]
                \/ InFamily(b) /\ Items(FamilyOf(b).table) \cap OpenedFor(a) # {}
         /\ \A f \in families :
              FamilyPath(f) \in cuts[a] <=>
                /\ Items(f.table) \cap plan.needs[a] # {}
                /\ Items(f.table) \cap OpenedFor(a) = {}
         /\ \A p \in cuts[a] : (\E b \in Actor : p = ActorPath(b)) \/ (\E f \in families : p = FamilyPath(f))
<1> DEFINE N == plan.needs[a]
           E == OpenedFor(a)
           packed == CutForNeeds(N)
           opened == {FamilyOf(x) : x \in {y \in E : InFamily(y)}}
           tables == UNION {Items(f.table) : f \in opened}
<1>1. app \in RouteApps /\ AreFamilies /\ plan = CommitmentPlan /\ a \in Actor
  BY DEF IInv, TypeOK, Planned
<1>2. N \subseteq Actor /\ E \subseteq N
  BY <1>1, PlanNeeds
<1>3. cuts[a] = (packed \ {FamilyPath(f) : f \in opened}) \cup {ActorPath(b) : b \in E \cup tables}
  BY CutPlanned DEF Exposed
<1>4. /\ \A x \in Actor : InFamily(x) => FamilyOf(x) \in families /\ x \in Items(FamilyOf(x).table)
      /\ \A f \in families : \A x \in Items(f.table) : x \in Actor /\ InFamily(x) /\ FamilyOf(x) = f
  BY <1>1, OneFamily
<1>5. /\ \A x, y \in Actor : ActorPath(x) = ActorPath(y) => x = y
      /\ \A f, g \in families : FamilyPath(f) = FamilyPath(g) => f = g
      /\ \A x \in Actor, f \in families : ActorPath(x) # FamilyPath(f)
  BY <1>1, PathsDiffer
<1>6. packed = {IF InFamily(x) THEN FamilyPath(FamilyOf(x)) ELSE ActorPath(x) : x \in N}
  BY DEF CutForNeeds
<1> HIDE DEF N, E, packed
<1>7. /\ opened \subseteq families
      /\ \A f \in families : f \in opened <=> Items(f.table) \cap E # {}
  BY <1>2, <1>4
<1>8. tables \subseteq Actor /\ \A b \in Actor : b \in tables <=> InFamily(b) /\ FamilyOf(b) \in opened
  BY <1>4, <1>7
<1> HIDE DEF opened, tables
<1>9. \A b \in Actor : ActorPath(b) \in packed <=> ~InFamily(b) /\ b \in N
  BY <1>2, <1>4, <1>5, <1>6
<1>10. \A f \in families : FamilyPath(f) \in packed <=> Items(f.table) \cap N # {}
  BY <1>2, <1>4, <1>5, <1>6
<1>11. ASSUME NEW b \in Actor
       PROVE  ActorPath(b) \in cuts[a] <=>
                \/ b \in E
                \/ ~InFamily(b) /\ b \in N
                \/ InFamily(b) /\ Items(FamilyOf(b).table) \cap E # {}
  <2>1. ActorPath(b) \in cuts[a] <=> ActorPath(b) \in packed \/ b \in E \cup tables
    BY <1>2, <1>3, <1>5, <1>7, <1>8
  <2> QED  BY <1>4, <1>7, <1>8, <1>9, <2>1
<1>12. ASSUME NEW f \in families
       PROVE  FamilyPath(f) \in cuts[a] <=> Items(f.table) \cap N # {} /\ Items(f.table) \cap E = {}
  <2>1. FamilyPath(f) \in cuts[a] <=> FamilyPath(f) \in packed /\ f \notin opened
    BY <1>2, <1>3, <1>5, <1>7, <1>8
  <2> QED  BY <1>7, <1>10, <2>1
<1>13. ASSUME NEW p \in cuts[a]
       PROVE  (\E b \in Actor : p = ActorPath(b)) \/ (\E f \in families : p = FamilyPath(f))
  <2>1. CASE p \in packed
    BY <1>2, <1>4, <1>6, <2>1
  <2>2. CASE p \notin packed
    BY <1>2, <1>3, <1>8, <2>2
  <2> QED  BY <2>1, <2>2
<1> QED  BY <1>11, <1>12, <1>13 DEF N, E

\* A cut that holds no family and one of its table's actors is valid.
LEMMA CutsAreValid ==
  ASSUME IInv, phase \in {"cuts", "done"}, NEW a \in DOMAIN cuts
  PROVE  IsValidCut(plan.forest, cuts[a])
<1> DEFINE cut == cuts[a]
           nodes == plan.forest.nodes
<1>1. app \in RouteApps /\ AreFamilies /\ plan = CommitmentPlan
  BY DEF IInv, TypeOK, Planned
<1>2. /\ nodes = {ActorPath(b) : b \in Actor} \cup {FamilyPath(f) : f \in families}
      /\ \A p \in nodes : p \in Seq(Nat)
      /\ \A p, q \in nodes :
           StartsWith(p, q) =>
             \/ p = q
             \/ \E f \in families : \E b \in Items(f.table) : q = FamilyPath(f) /\ p = ActorPath(b)
  BY <1>1, ForestFacts
<1>3. cut \subseteq nodes
  BY <1>2, CutHolds
<1>4. ASSUME NEW p \in cut, NEW q \in cut, Before(q, p), StartsWith(p, q)
      PROVE  FALSE
  <2>1. p # q
    <3> SUFFICES ASSUME p = q PROVE FALSE
      OBVIOUS
    <3>1. p \in Seq(Nat)
      BY <1>2, <1>3
    <3>2. PICK n \in DOMAIN q \cap DOMAIN p : q[n] < p[n]
      BY <1>4 DEF Before
    <3>3. p[n] \in Nat
      BY <3>1, <3>2, LenProperties, ElementOfSeq
    <3> QED  BY <3>2, <3>3
  <2>2. PICK f \in families : \E b \in Items(f.table) : q = FamilyPath(f) /\ p = ActorPath(b)
    BY <1>2, <1>3, <1>4, <2>1
  <2>3. PICK b \in Items(f.table) : q = FamilyPath(f) /\ p = ActorPath(b)
    BY <2>2
  <2>4. b \in Actor /\ InFamily(b) /\ FamilyOf(b) = f
    BY <1>1, OneFamily
  <2>5. Items(f.table) \cap OpenedFor(a) = {}
    BY <2>3, CutHolds
  <2>6. b \in OpenedFor(a)
    BY <2>3, <2>4, <2>5, CutHolds
  <2> QED  BY <2>5, <2>6
<1> QED  BY <1>3, <1>4 DEF IsValidCut

\* Every planned cut is one of the forest, selects what its actor needs and no more,
\* opens what an entry reads, and packs a foreign table that nothing reads.
THEOREM CutsMean == Spec => []CutsMeanNeeds
<1>1. ASSUME IInv PROVE CutsMeanNeeds
  <2> SUFFICES ASSUME Done, NEW a \in Actor
               PROVE  /\ IsValidCut(plan.forest, cuts[a])
                      /\ CutSelectsNeeds(a)
                      /\ \A b \in ReadBy(a) : ActorPath(b) \in cuts[a]
                      /\ ForeignTablesStayPacked(a)
    BY DEF CutsMeanNeeds
  <2>0. /\ phase \in {"cuts", "done"} /\ a \in DOMAIN cuts
        /\ app \in RouteApps /\ AreFamilies /\ plan = CommitmentPlan
    BY <1>1 DEF Done, IInv, TypeOK, Planned
  <2>1. IsValidCut(plan.forest, cuts[a])
    BY <1>1, <2>0, CutsAreValid
  <2>2. /\ \A b \in Actor :
              ActorPath(b) \in cuts[a] <=>
                \/ b \in OpenedFor(a)
                \/ ~InFamily(b) /\ b \in plan.needs[a]
                \/ InFamily(b) /\ Items(FamilyOf(b).table) \cap OpenedFor(a) # {}
        /\ \A f \in families :
              FamilyPath(f) \in cuts[a] <=>
                /\ Items(f.table) \cap plan.needs[a] # {}
                /\ Items(f.table) \cap OpenedFor(a) = {}
    BY <1>1, <2>0, CutHolds
  <2>3. OpenedFor(a) \subseteq plan.needs[a] /\ plan.needs[a] \subseteq Actor
    BY <1>1, <2>0, PlanNeeds
  <2>4. /\ \A b \in Actor : InFamily(b) => FamilyOf(b) \in families /\ b \in Items(FamilyOf(b).table)
        /\ \A f \in families : \A b \in Items(f.table) : b \in Actor /\ InFamily(b) /\ FamilyOf(b) = f
    BY <2>0, OneFamily
  <2>5. ASSUME NEW b \in Actor
        PROVE  /\ b \in plan.needs[a] => Selects(cuts[a], b)
               /\ Selects(cuts[a], b) =>
                    \E x \in plan.needs[a] : x = b \/ (InFamily(x) /\ b \in Items(FamilyOf(x).table))
    <3>1. CASE InFamily(b)
      <4>1. FamilyOf(b) \in families /\ b \in Items(FamilyOf(b).table)
        BY <2>4, <3>1
      <4>2. Selects(cuts[a], b) <=> Items(FamilyOf(b).table) \cap plan.needs[a] # {}
        BY <2>2, <2>3, <3>1, <4>1 DEF Selects
      <4> QED  BY <2>4, <4>1, <4>2
    <3>2. CASE ~InFamily(b)
      BY <2>2, <2>3, <3>2 DEF Selects
    <3> QED  BY <3>1, <3>2
  <2>6. ASSUME NEW b \in ReadBy(a) PROVE ActorPath(b) \in cuts[a]
    BY <2>2, <2>3 DEF OpenedFor
  <2>7. ASSUME NEW f \in families, NEW b \in Items(f.table),
               Items(f.table) \cap ({a} \cup (UNION CohortsWith(a)) \cup ReadBy(a)) = {}
        PROVE  ActorPath(b) \notin cuts[a]
    <3>1. Items(f.table) \cap OpenedFor(a) = {}
      BY <2>7 DEF OpenedFor
    <3> QED  BY <2>2, <2>4, <3>1
  <2> QED  BY <2>1, <2>5, <2>6, <2>7 DEF CutSelectsNeeds, ForeignTablesStayPacked
<1> QED  BY <1>1, InvariantHolds, PTL

\* A cut opens the whole component of its actor when that makes a family.
LEMMA OwnFamilyOpened ==
  ASSUME IInv, phase \in {"cuts", "done"}, NEW a \in Actor, NEW f \in families, a \in f.members
  PROVE  f.members \subseteq OpenedFor(a)
<1>1. app \in RouteApps /\ AreFamilies /\ classified = Actor
  BY DEF IInv, TypeOK, Planned
<1>2. /\ f.members \in SUBSET Actor /\ f.members = ComponentOf(a)
      /\ f.table \in Seq(Actor) /\ Distinct(f.table) /\ Len(f.table) >= 2
      /\ Items(f.table) \subseteq f.members
  BY <1>1, FamilyFacts
<1>3. Cardinality(f.members) > 1
  <2>1. Cardinality(Items(f.table)) = Len(f.table)
    BY <1>2, DistinctCount
  <2>2. IsFiniteSet(f.members)
    BY <1>1, <1>2, AppFacts, FS_Subset
  <2>3. Cardinality(Items(f.table)) <= Cardinality(f.members)
    BY <1>2, <2>2, FS_Subset
  <2>4. Cardinality(f.members) \in Nat /\ Len(f.table) \in Nat
    BY <1>2, <2>2, FS_CardinalityType, LenProperties
  <2> QED  BY <1>2, <2>1, <2>3, <2>4
<1>4. f.members \in CohortsFor(Actor)
  BY <1>2, <1>3 DEF CohortsFor
<1>5. f.members \in CohortsWith(a)
  BY <1>1, <1>4, CohortsAreComponents DEF CohortsWith
<1> QED  BY <1>5 DEF OpenedFor

\* The route fields generated for an actor stand for its cut and for nothing else.
THEOREM FieldsMatch == Spec => []FieldsMatchCut
<1>1. ASSUME IInv PROVE FieldsMatchCut
  <2> SUFFICES ASSUME Done, NEW a \in Actor
               PROVE  LET fields == RouteFields(a)
                      IN  cuts[a] = {ActorPath(b) : b \in fields.templates}
                                      \cup {FamilyPath(f) : f \in fields.digests}
                                      \cup {ActorPath(b) : b \in UNION {Items(f.table) : f \in fields.tables}}
    BY DEF FieldsMatchCut
  <2> DEFINE own == ComponentFamilies(a)
             component == UNION {f.members : f \in own}
             tables == UNION {Items(f.table) : f \in own}
             outside == UNION {f.members \ Items(f.table) : f \in own}
             leaves == LeafActors(cuts[a])
  <2>0. /\ phase \in {"cuts", "done"} /\ a \in DOMAIN cuts
        /\ app \in RouteApps /\ AreFamilies /\ plan = CommitmentPlan
    BY <1>1 DEF Done, IInv, TypeOK, Planned
  <2>1. /\ RouteFields(a).templates = (leaves \ component) \cup outside
        /\ RouteFields(a).digests = CutFamilies(cuts[a]) \ own
        /\ RouteFields(a).tables = own
    BY DEF RouteFields
  <2>2. \A f \in own : /\ f \in families /\ f.members \subseteq OpenedFor(a) /\ f.members \subseteq Actor
                       /\ Items(f.table) \subseteq f.members /\ Items(f.table) # {}
    <3> SUFFICES ASSUME NEW f \in own
                 PROVE  /\ f \in families /\ f.members \subseteq OpenedFor(a) /\ f.members \subseteq Actor
                        /\ Items(f.table) \subseteq f.members /\ Items(f.table) # {}
      OBVIOUS
    <3>1. f \in families /\ a \in f.members
      BY DEF ComponentFamilies
    <3>2. /\ f.table \in Seq(Actor) /\ Len(f.table) >= 2 /\ f.members \in SUBSET Actor
          /\ Items(f.table) \subseteq f.members
      BY <2>0, <3>1, FamilyFacts
    <3>3. 1 \in DOMAIN f.table
      BY <3>2, LenProperties
    <3> QED  BY <1>1, <2>0, <3>1, <3>2, <3>3, OwnFamilyOpened DEF Items
  <2>3. component \subseteq leaves
    BY <1>1, <2>0, <2>2, CutHolds DEF LeafActors
  <2>4. \A f \in own : FamilyPath(f) \notin cuts[a]
    BY <1>1, <2>0, <2>2, CutHolds
  <2>5. /\ outside \subseteq component /\ tables \subseteq component
        /\ \A b \in component : b \in outside \/ b \in tables
    BY <2>2
  <2> HIDE DEF own, component, tables, outside
  <2>6. ((leaves \ component) \cup outside) \cup tables = leaves
    BY <2>3, <2>5
  <2>7. CutFamilies(cuts[a]) \ own = CutFamilies(cuts[a])
    BY <2>4 DEF CutFamilies
  <2>8. cuts[a] = {ActorPath(b) : b \in leaves} \cup {FamilyPath(f) : f \in CutFamilies(cuts[a])}
    BY <1>1, <2>0, CutHolds DEF LeafActors, CutFamilies
  <2> HIDE DEF leaves
  <2>9. {ActorPath(b) : b \in leaves}
          = {ActorPath(b) : b \in (leaves \ component) \cup outside} \cup {ActorPath(b) : b \in tables}
    BY <2>6
  <2>10. tables = UNION {Items(f.table) : f \in own}
    BY DEF tables
  <2> QED  BY <2>1, <2>7, <2>8, <2>9, <2>10
<1> QED  BY <1>1, InvariantHolds, PTL

-----------------------------------------------------------------------------
(* The transitions.                                                        *)

\* Where no child is a branch, a branch whose children are all selected is packed.
LEMMA PacksChildren ==
  ASSUME NEW forest, NEW source, NEW t \in forest.nodes,
         t \in forest.branches, Children(forest, t) # {}, Children(forest, t) \subseteq source,
         \A p \in forest.branches : Children(forest, p) \cap forest.branches = {}
  PROVE  CollectsPack(forest, source, t)
<1> DEFINE nodes == forest.nodes
           Step(f, p) == \/ p \in source
                         \/ /\ p \in forest.branches /\ Children(forest, p) # {}
                            /\ \A c \in Children(forest, p) : f[c]
           Collect == CHOOSE f : f = [p \in nodes |-> Step(f, p)]
           Given(p) == \/ p \in source
                       \/ /\ p \in forest.branches /\ Children(forest, p) # {}
                          /\ Children(forest, p) \subseteq source
           g == [p \in nodes |-> Given(p)]
<1>1. CollectsPack(forest, source, t) = Collect[t]
  BY DEF CollectsPack
<1>2. g = [p \in nodes |-> Step(g, p)]
  <2>1. \A p \in nodes : Children(forest, p) \subseteq nodes
    BY DEF Children
  <2>2. ASSUME NEW p \in nodes, p \notin forest.branches PROVE g[p] <=> p \in source
    <3>1. g[p] = Given(p)
      <4> HIDE DEF Given
      <4> QED  OBVIOUS
    <3>2. Given(p) <=> p \in source
      BY <2>2
    <3> HIDE DEF g, Given
    <3> QED  BY <3>1, <3>2
  <2>3. ASSUME NEW p \in nodes PROVE g[p] = Step(g, p)
    <3>1. CASE p \in forest.branches
      <4>1. \A c \in Children(forest, p) : g[c] <=> c \in source
        BY <2>1, <2>2, <3>1
      <4>2. (\A c \in Children(forest, p) : g[c]) <=> Children(forest, p) \subseteq source
        BY <4>1
      <4> QED  BY <4>2
    <3>2. CASE p \notin forest.branches
      BY <3>2
    <3> QED  BY <3>1, <3>2
  <2>4. g = [p \in nodes |-> g[p]]
    OBVIOUS
  <2> HIDE DEF g, Step
  <2> QED  BY <2>3, <2>4
<1>3. Collect = [p \in nodes |-> Step(Collect, p)]
  <2> HIDE DEF g, Step
  <2> QED  BY <1>2
<1> HIDE DEF Collect
<1>4. \A c \in nodes : c \in source => Collect[c]
  BY <1>3
<1>5. Children(forest, t) \subseteq nodes
  BY DEF Children
<1>6. \A c \in Children(forest, t) : Collect[c]
  BY <1>4, <1>5
<1>7. Collect[t] = Step(Collect, t)
  <2> HIDE DEF Step
  <2> QED  BY <1>3
<1>8. Collect[t]
  BY <1>6, <1>7
<1> QED  BY <1>1, <1>8

\* The children of a family's node are the actors of its table, and no branch is a
\* child.
LEMMA FamilyChildren ==
  ASSUME app \in RouteApps, AreFamilies, plan = CommitmentPlan, NEW f \in families
  PROVE  /\ Children(plan.forest, FamilyPath(f)) = {ActorPath(b) : b \in Items(f.table)}
         /\ Len(FamilyPath(f)) = 1
         /\ \A b \in Items(f.table) : OpenPaths(FamilyPath(f), ActorPath(b)) = {FamilyPath(f)}
<1> DEFINE r == Rank(HeadOf(f))
           p == FamilyPath(f)
<1>1. /\ r \in Nat /\ p = <<r>>
      /\ \A b \in Items(f.table) :
           ChildIndex(f, b) \in Nat /\ ActorPath(b) = <<r, ChildIndex(f, b)>>
  BY PathFacts
<1> HIDE DEF r
<1>2. Len(<<r>>) = 1
  BY <1>1, ShortPaths
<1>3. ASSUME NEW b \in Items(f.table)
      PROVE  Len(ActorPath(b)) = 2 /\ OpenPaths(p, ActorPath(b)) = {p}
  <2>1. Len(<<r, ChildIndex(f, b)>>) = 2
        /\ OpenPaths(<<r>>, <<r, ChildIndex(f, b)>>) = {<<r>>}
    BY <1>1, ShortPaths, OpenFacts
  <2> QED  BY <1>1, <2>1
<1>4. Len(p) = 1
  BY <1>1, <1>2
<1> HIDE DEF p
<1>5. /\ plan.forest.nodes = {ActorPath(a) : a \in Actor} \cup {FamilyPath(g) : g \in families}
      /\ \A b \in Items(f.table) : StartsWith(ActorPath(b), FamilyPath(f))
      /\ \A c, q \in plan.forest.nodes :
           StartsWith(c, q) =>
             \/ c = q
             \/ \E g \in families : \E b \in Items(g.table) : q = FamilyPath(g) /\ c = ActorPath(b)
  BY ForestFacts
<1>6. ASSUME NEW c \in Children(plan.forest, p)
      PROVE  c \in {ActorPath(b) : b \in Items(f.table)}
  <2>1. c \in plan.forest.nodes /\ StartsWith(c, p) /\ Len(c) = Len(p) + 1
    BY DEF Children
  <2>2. c # p
    BY <1>4, <2>1
  <2>3. PICK g \in families : \E b \in Items(g.table) : p = FamilyPath(g) /\ c = ActorPath(b)
    BY <1>5, <2>1, <2>2 DEF p
  <2>4. g = f
    BY <2>3, PathsDiffer DEF p
  <2> QED  BY <2>3, <2>4
<1>7. ASSUME NEW b \in Items(f.table)
      PROVE  ActorPath(b) \in Children(plan.forest, p)
  <2>1. ActorPath(b) \in plan.forest.nodes
    BY <1>5, OneFamily
  <2> QED  BY <1>3, <1>4, <1>5, <2>1 DEF Children, p
<1> QED  BY <1>3, <1>4, <1>6, <1>7 DEF p

\* Every output's target cut can be derived from its source's.
LEMMA TransitionFound ==
  ASSUME IInv, phase \in {"cuts", "done"}, NEW s \in DOMAIN cuts, NEW t \in DOMAIN cuts,
         t \in app.outputs[s]
  PROVE  HasTransition(plan.forest, cuts[s], cuts[t])
<1> DEFINE source == cuts[s]
<1>1. /\ app \in RouteApps /\ AreFamilies /\ plan = CommitmentPlan /\ s \in Actor /\ t \in Actor
  BY DEF IInv, TypeOK, Planned
<1>2. /\ \A a \in {s, t} : \A b \in Actor :
           ActorPath(b) \in cuts[a] <=>
             \/ b \in OpenedFor(a)
             \/ ~InFamily(b) /\ b \in plan.needs[a]
             \/ InFamily(b) /\ Items(FamilyOf(b).table) \cap OpenedFor(a) # {}
      /\ \A a \in {s, t} : \A f \in families :
           FamilyPath(f) \in cuts[a] <=>
             /\ Items(f.table) \cap plan.needs[a] # {}
             /\ Items(f.table) \cap OpenedFor(a) = {}
      /\ \A a \in {s, t} : \A p \in cuts[a] :
           (\E b \in Actor : p = ActorPath(b)) \/ (\E f \in families : p = FamilyPath(f))
  BY CutHolds
<1>3. /\ \A b \in Actor : InFamily(b) => FamilyOf(b) \in families /\ b \in Items(FamilyOf(b).table)
      /\ \A f \in families : \A b \in Items(f.table) : b \in Actor /\ InFamily(b) /\ FamilyOf(b) = f
  BY <1>1, OneFamily
<1>4. OpenedFor(t) \subseteq plan.needs[t]
  BY <1>1, PlanNeeds
<1>5. CASE t = s
  BY <1>5 DEF HasTransition, DerivablePath
<1>6. CASE t # s
  <2>1. plan.needs[t] \subseteq plan.needs[s]
    <3>1. t \in Emits[s]
      BY <1>1, <1>6, AppFacts
    <3> QED  BY <1>1, <3>1, PlanNeeds
  <2>2. /\ plan.forest.branches = {FamilyPath(f) : f \in families}
        /\ plan.forest.nodes = {ActorPath(a) : a \in Actor} \cup {FamilyPath(f) : f \in families}
        /\ \A f \in families : \A b \in Items(f.table) : StartsWith(ActorPath(b), FamilyPath(f))
        /\ \A p, q \in plan.forest.nodes :
             StartsWith(p, q) =>
               \/ p = q
               \/ \E f \in families : \E b \in Items(f.table) : q = FamilyPath(f) /\ p = ActorPath(b)
    BY <1>1, ForestFacts
  <2>3. \A f \in families :
          /\ Children(plan.forest, FamilyPath(f)) = {ActorPath(b) : b \in Items(f.table)}
          /\ \A b \in Items(f.table) : OpenPaths(FamilyPath(f), ActorPath(b)) = {FamilyPath(f)}
    BY <1>1, FamilyChildren
  <2>4. \A a \in Actor, f \in families : ActorPath(a) # FamilyPath(f)
    BY <1>1, PathsDiffer
  <2>5. ASSUME NEW b \in Actor, ActorPath(b) \in cuts[t]
        PROVE  DerivablePath(plan.forest, source, ActorPath(b))
    <3>1. CASE ~InFamily(b)
      <4>1. ActorPath(b) \in source
        BY <1>2, <1>4, <2>1, <2>5, <3>1
      <4> QED  BY <4>1 DEF DerivablePath
    <3>2. CASE InFamily(b)
      <4> DEFINE f == FamilyOf(b)
      <4>1. f \in families /\ b \in Items(f.table) /\ Items(f.table) \cap plan.needs[s] # {}
        BY <1>2, <1>3, <1>4, <2>1, <2>5, <3>2
      <4>2. ActorPath(b) \in source \/ FamilyPath(f) \in source
        BY <1>2, <3>2, <4>1
      <4> HIDE DEF f
      <4>3. CASE FamilyPath(f) \in source
        <5>1. /\ StartsWith(ActorPath(b), FamilyPath(f))
              /\ OpenPaths(FamilyPath(f), ActorPath(b)) = {FamilyPath(f)}
              /\ FamilyPath(f) \in plan.forest.branches
          BY <2>2, <2>3, <4>1
        <5>2. OpensTo(plan.forest, source, ActorPath(b))
          BY <4>3, <5>1 DEF OpensTo
        <5> QED  BY <5>2 DEF DerivablePath
      <4> QED  BY <4>2, <4>3 DEF DerivablePath
    <3> QED  BY <3>1, <3>2
  <2>6. ASSUME NEW f \in families, FamilyPath(f) \in cuts[t], FamilyPath(f) \notin source
        PROVE  DerivablePath(plan.forest, source, FamilyPath(f))
    <3> DEFINE p == FamilyPath(f)
    <3>1. Items(f.table) \cap plan.needs[s] # {} /\ Items(f.table) \cap OpenedFor(s) # {}
      BY <1>2, <2>1, <2>6
    <3>2. \A b \in Items(f.table) : ActorPath(b) \in source
      BY <1>2, <1>3, <3>1
    <3>3. p \in plan.forest.nodes /\ p \in plan.forest.branches
      BY <2>2
    <3>4. Children(plan.forest, p) # {} /\ Children(plan.forest, p) \subseteq source
      BY <2>3, <3>1, <3>2
    <3>5. \A q \in plan.forest.branches : Children(plan.forest, q) \cap plan.forest.branches = {}
      BY <1>3, <2>2, <2>3, <2>4
    <3>6. ~Above(source, p)
      <4> SUFFICES ASSUME NEW q \in source, StartsWith(p, q) PROVE FALSE
        BY DEF Above
      <4>1. q \in plan.forest.nodes
        BY <1>2, <2>2
      <4> QED  BY <1>3, <2>2, <2>4, <2>6, <3>3, <4>1
    <3>7. CollectsPack(plan.forest, source, p)
      <4> HIDE DEF p, source
      <4> QED  BY <3>3, <3>4, <3>5, PacksChildren
    <3> QED  BY <3>6, <3>7 DEF DerivablePath
  <2>7. \A p \in cuts[t] : DerivablePath(plan.forest, source, p)
    <3>1. \A p \in source : DerivablePath(plan.forest, source, p)
      BY DEF DerivablePath
    <3> QED  BY <1>2, <2>5, <2>6, <3>1
  <2> QED  BY <2>7 DEF HasTransition
<1> QED  BY <1>5, <1>6

\* No app whose selectors are accepted fails to be planned for want of a transition.
THEOREM TransitionsFound == Spec => []TransitionsDerivable
<1>1. ASSUME IInv PROVE TransitionsDerivable
  <2> SUFFICES ASSUME phase = "cuts", Unplanned = {}, NEW st \in OutputPairs
               PROVE  HasTransition(plan.forest, cuts[st[1]], cuts[st[2]])
    BY DEF TransitionsDerivable
  <2>1. DOMAIN cuts = Actor
    BY <1>1 DEF IInv, TypeOK, Unplanned
  <2>2. st[1] \in Actor /\ st[2] \in Actor /\ st[2] \in app.outputs[st[1]]
    BY DEF OutputPairs
  <2> QED  BY <1>1, <2>1, <2>2, TransitionFound
<1> QED  BY <1>1, InvariantHolds, PTL

-----------------------------------------------------------------------------
(* Rejections.                                                             *)

\* Planning fails only because of the selectors: one is refused by itself, or those
\* of a component leave it or disagree.
RejectedForSelectors ==
  phase = "rejected" =>
    ~SelectorsAccepted \/ \E a \in Actor : ~SelectorsAgree(ComponentOf(a))

\* The check of the families and cohorts and the search for transitions never reject
\* an app: the planner is complete for the apps whose selectors are in order.
THEOREM OnlySelectorsReject == Spec => []RejectedForSelectors
<1>1. Init => RejectedForSelectors
  BY DEF Init, RejectedForSelectors
<1>2. IInv /\ RejectedForSelectors /\ [Next]_vars => RejectedForSelectors'
  <2> SUFFICES ASSUME IInv, RejectedForSelectors, [Next]_vars, phase' = "rejected"
               PROVE  (~SelectorsAccepted \/ \E a \in Actor : ~SelectorsAgree(ComponentOf(a)))'
    BY DEF RejectedForSelectors
  <2>0. app' = app
    BY DEF Next, vars, RejectSelectors, AcceptSelectors, StartComponent, Grow, RejectComponent,
           ClassifyComponent, CheckConstraints, PlanActor, PlanCohort, PlanTransitions, Reject
  <2> SUFFICES ~SelectorsAccepted \/ \E a \in Actor : ~SelectorsAgree(ComponentOf(a))
    BY <2>0, AppFrame
  <2>1. CASE RejectSelectors
    BY <2>1 DEF RejectSelectors, SelectorsAccepted
  <2>2. CASE RejectComponent
    <3>1. /\ members # {} /\ members \in SUBSET Actor /\ \A x \in members : ComponentOf(x) = members
          /\ ~SelectorsAgree(members)
      BY <2>2, GrownComponent DEF RejectComponent
    <3> QED  BY <3>1
  <2>3. CASE CheckConstraints
    <3>1. ValidConstraints
      BY <2>3, ConstraintsValid DEF CheckConstraints
    <3> QED  BY <2>3, <3>1 DEF CheckConstraints
  <2>4. CASE PlanTransitions
    <3>1. phase = "cuts" /\ DOMAIN cuts = Actor
      BY <2>4 DEF PlanTransitions, IInv, TypeOK, Unplanned
    <3>2. \A st \in OutputPairs : HasTransition(plan.forest, cuts[st[1]], cuts[st[2]])
      <4> SUFFICES ASSUME NEW st \in OutputPairs
                   PROVE  HasTransition(plan.forest, cuts[st[1]], cuts[st[2]])
        OBVIOUS
      <4>1. st[1] \in Actor /\ st[2] \in Actor /\ st[2] \in app.outputs[st[1]]
        BY DEF OutputPairs
      <4> QED  BY <3>1, <4>1, TransitionFound
    <3> QED  BY <2>4, <3>2 DEF PlanTransitions
  <2>5. CASE phase = "rejected"
    BY <2>5 DEF RejectedForSelectors
  <2> QED  BY <2>1, <2>2, <2>3, <2>4, <2>5
           DEF Next, vars, AcceptSelectors, StartComponent, Grow, ClassifyComponent, PlanActor, PlanCohort
<1> QED  BY <1>1, <1>2, InvariantHolds, PTL DEF Spec
=============================================================================
