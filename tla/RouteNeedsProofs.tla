-------------------------- MODULE RouteNeedsProofs --------------------------
(***************************************************************************)
(* Proofs about RouteNeeds, for every number of actors and every graph.     *)
(***************************************************************************)
EXTENDS RouteNeeds, TLAPS

\* What src emits is reached, what a reached actor emits is reached, and what is
\* reached stays within any closed set that holds src's emits.
LEMMA ReachFacts ==
  ASSUME NEW E \in Relation2, NEW s \in Actor
  PROVE  /\ Reach(E, s) \subseteq Actor
         /\ E[s] \subseteq Reach(E, s)
         /\ EmitClosed(E, Reach(E, s))
         /\ \A S \in SUBSET Actor :
              E[s] \subseteq S /\ EmitClosed(E, S) => Reach(E, s) \subseteq S
<1>1. \A d \in Actor : E[d] \subseteq Actor
  BY DEF Relation2
<1>2. Reach(E, s) \subseteq Actor /\ E[s] \subseteq Reach(E, s)
  BY <1>1 DEF Reach
<1>3. EmitClosed(E, Reach(E, s))
  <2> SUFFICES ASSUME NEW d \in Reach(E, s), NEW x \in E[d]
               PROVE  x \in Reach(E, s)
    BY DEF EmitClosed
  <2>1. x \in Actor
    BY <1>1, <1>2
  <2>2. ASSUME NEW S \in SUBSET Actor, E[s] \subseteq S, EmitClosed(E, S)
        PROVE  x \in S
    BY <2>2 DEF Reach, EmitClosed
  <2> QED  BY <2>1, <2>2 DEF Reach
<1> QED  BY <1>2, <1>3 DEF Reach

\* A reached actor's own reach is part of the reach.
LEMMA ReachTransitive ==
  ASSUME NEW E \in Relation2, NEW s \in Actor, NEW d \in Reach(E, s)
  PROVE  d \in Actor /\ Reach(E, d) \subseteq Reach(E, s)
<1>1. d \in Actor /\ Reach(E, s) \in SUBSET Actor /\ E[d] \subseteq Reach(E, s)
  BY ReachFacts DEF EmitClosed
<1> QED  BY <1>1, ReachFacts

\* The needs of a reached actor are needs.
LEMMA NeedsTransitive ==
  ASSUME NEW E \in Relation2, NEW C \in Relation2, NEW s \in Actor, NEW d \in Reach(E, s)
  PROVE  NeedsOf(E, C, d) \subseteq NeedsOf(E, C, s)
BY ReachTransitive DEF NeedsOf

\* The needs of an actor are actors.
LEMMA NeedsType ==
  ASSUME NEW E \in Relation2, NEW C \in Relation2, NEW s \in Actor
  PROVE  NeedsOf(E, C, s) \subseteq Actor
BY ReachFacts DEF NeedsOf, Relation2

-----------------------------------------------------------------------------
\* When the stack is empty, the invariant says that the needs have been found:
\* the popped actors, with the reach of the earlier ones among them, are closed.
LEMMA EmptyStack ==
  ASSUME IInv, phase = "pop", stack = {}
  PROVE  srcReachable = NeedsOf(emits, consumes, src)
<1> DEFINE Covered == expanded \cup UNION {Reach(emits, d) : d \in {x \in expanded : x < src}}
<1>1. /\ emits \in Relation2 /\ consumes \in Relation2 /\ src \in Actor
      /\ src \in Nat /\ expanded \subseteq Actor /\ DOMAIN reachable = 1..(src - 1)
      /\ Actor \subseteq Nat /\ \A d \in Actor : d >= 1
  BY ActorCountAssumption DEF IInv, TypeOK, Actor
<1>2. \A d \in expanded : d < src => reachable[d] = NeedsOf(emits, consumes, d)
                                       /\ reachable[d] \subseteq srcReachable
  BY <1>1 DEF IInv, NeedsCorrect, ExpandedCovered
<1>3. /\ emits[src] \subseteq expanded
      /\ \A d \in expanded : ~(d < src) => emits[d] \subseteq expanded
                                            /\ consumes[d] \subseteq srcReachable
  BY DEF IInv, ExpandedCovered
<1>4. Covered \in SUBSET Actor
  <2>1. \A d \in expanded : Reach(emits, d) \subseteq Actor
    BY DEF Reach
  <2> QED  BY <1>1, <2>1
<1>5. EmitClosed(emits, Covered)
  <2> SUFFICES ASSUME NEW d \in Covered
               PROVE  emits[d] \subseteq Covered
    BY DEF EmitClosed
  <2>1. CASE d \in expanded /\ ~(d < src)
    BY <2>1, <1>3
  <2>2. CASE d \in expanded /\ d < src
    BY <2>2, <1>1, ReachFacts
  <2>3. CASE \E x \in expanded : x < src /\ d \in Reach(emits, x)
    BY <2>3, <1>1, ReachFacts DEF EmitClosed
  <2> QED  BY <2>1, <2>2, <2>3
<1>6. Reach(emits, src) \subseteq Covered
  BY <1>1, <1>3, <1>4, <1>5, ReachFacts
<1>7. \A d \in Covered : d \in srcReachable /\ consumes[d] \subseteq srcReachable
  <2> SUFFICES ASSUME NEW d \in Covered
               PROVE  d \in srcReachable /\ consumes[d] \subseteq srcReachable
    OBVIOUS
  <2>0. expanded \subseteq srcReachable
    BY DEF IInv, SoFar
  <2>1. CASE d \in expanded /\ ~(d < src)
    BY <2>0, <2>1, <1>3
  <2>2. CASE d \in expanded /\ d < src
    BY <2>0, <2>2, <1>2 DEF NeedsOf
  <2>3. CASE \E x \in expanded : x < src /\ d \in Reach(emits, x)
    BY <2>3, <1>2 DEF NeedsOf
  <2> QED  BY <2>1, <2>2, <2>3
<1>8. NeedsOf(emits, consumes, src) \subseteq srcReachable
  BY <1>6, <1>7 DEF NeedsOf, IInv, SoFar
<1> QED  BY <1>8 DEF IInv, SoFar

LEMMA InitIInv == Init => IInv
<1> SUFFICES ASSUME Init PROVE IInv
  OBVIOUS
<1>1. TypeOK
  BY ActorCountAssumption DEF Init, TypeOK
<1> QED  BY <1>1 DEF Init, IInv, NeedsCorrect, StackReached, ExpandedCovered, SoFar

LEMMA StepIInv == IInv /\ [Next]_vars => IInv'
<1> SUFFICES ASSUME IInv, [Next]_vars PROVE IInv'
  OBVIOUS
<1> USE ActorCountAssumption
<1>0. /\ TypeOK
      /\ emits \in Relation2 /\ consumes \in Relation2
      /\ \A d \in Actor : emits[d] \subseteq Actor /\ consumes[d] \subseteq Actor
      /\ src \in Nat /\ Actor \subseteq Nat
      /\ DOMAIN reachable = 1..(src - 1)
  BY DEF IInv, TypeOK, Relation2, Actor
<1>1. CASE StartSource
  <2>1. TypeOK'
    BY <1>0, <1>1 DEF StartSource, TypeOK, graph
  <2>2. NeedsCorrect'
    BY <1>1 DEF StartSource, IInv, NeedsCorrect, graph
  <2>3. StackReached' /\ ExpandedCovered'
    BY <1>0, <1>1, ReachFacts DEF StartSource, StackReached, ExpandedCovered, graph
  <2>4. SoFar'
    BY <1>1 DEF StartSource, SoFar, NeedsOf, graph
  <2> QED  BY <2>1, <2>2, <2>3, <2>4 DEF IInv
<1>2. ASSUME NEW dst \in Actor, PopExpanded(dst) PROVE IInv'
  <2>1. TypeOK'
    BY <1>0, <1>2 DEF PopExpanded, TypeOK, graph
  <2>2. NeedsCorrect' /\ StackReached' /\ ExpandedCovered'
    BY <1>2 DEF PopExpanded, IInv, NeedsCorrect, StackReached, ExpandedCovered, graph
  <2>3. SoFar'
    BY <1>2 DEF PopExpanded, IInv, SoFar, graph
  <2> QED  BY <2>1, <2>2, <2>3 DEF IInv
<1>3. ASSUME NEW dst \in Actor, PopResolved(dst) PROVE IInv'
  <2>0. /\ phase = "pop" /\ src \in Actor /\ dst \in DOMAIN reachable
        /\ dst \in Reach(emits, src)
    BY <1>0, <1>3 DEF PopResolved, IInv, TypeOK, StackReached, Actor
  <2>1. TypeOK'
    <3>1. reachable[dst] \subseteq Actor
      BY <1>0, <2>0 DEF TypeOK
    <3> QED  BY <1>0, <1>3, <3>1 DEF PopResolved, TypeOK, graph
  <2>2. NeedsCorrect' /\ StackReached'
    BY <1>3 DEF PopResolved, IInv, NeedsCorrect, StackReached, graph
  <2>3. ExpandedCovered'
    BY <1>3 DEF PopResolved, IInv, ExpandedCovered, graph
  <2>4. SoFar'
    <3>1. reachable[dst] \subseteq NeedsOf(emits, consumes, src)
      BY <1>0, <2>0, NeedsTransitive DEF IInv, NeedsCorrect
    <3>2. dst \in NeedsOf(emits, consumes, src)
      BY <2>0 DEF NeedsOf
    <3> QED  BY <1>3, <2>0, <3>1, <3>2 DEF PopResolved, IInv, SoFar, graph
  <2> QED  BY <2>1, <2>2, <2>3, <2>4 DEF IInv
<1>4. ASSUME NEW dst \in Actor, PopUnresolved(dst) PROVE IInv'
  <2>0. /\ phase = "pop" /\ src \in Actor
        /\ dst \in Reach(emits, src) /\ emits[dst] \subseteq Reach(emits, src)
    BY <1>0, <1>4, ReachFacts DEF PopUnresolved, IInv, TypeOK, StackReached, EmitClosed
  <2>1. TypeOK'
    BY <1>0, <1>4 DEF PopUnresolved, TypeOK, graph
  <2>2. NeedsCorrect' /\ StackReached'
    BY <1>4, <2>0 DEF PopUnresolved, IInv, NeedsCorrect, StackReached, graph
  <2>3. ExpandedCovered'
    <3>1. /\ stack' = (stack \ {dst}) \cup emits[dst] /\ expanded' = expanded \cup {dst}
          /\ srcReachable' = srcReachable \cup {dst} \cup consumes[dst]
          /\ phase' = phase /\ src' = src /\ emits' = emits /\ consumes' = consumes
          /\ reachable' = reachable /\ ~(dst < src)
      BY <1>0, <1>4 DEF PopUnresolved, graph
    <3>2. stack \cup expanded \subseteq stack' \cup expanded'
      BY <3>1
    <3>3. emits[src] \subseteq stack' \cup expanded'
      BY <2>0, <3>2 DEF IInv, ExpandedCovered
    <3>4. ASSUME NEW d \in expanded
          PROVE  IF d < src THEN reachable[d] \subseteq srcReachable'
                 ELSE /\ emits[d] \subseteq stack' \cup expanded'
                      /\ consumes[d] \subseteq srcReachable'
      BY <2>0, <3>1, <3>2 DEF IInv, ExpandedCovered
    <3>5. /\ emits[dst] \subseteq stack' \cup expanded'
          /\ consumes[dst] \subseteq srcReachable'
      BY <3>1
    <3> QED  BY <3>1, <3>3, <3>4, <3>5 DEF ExpandedCovered
  <2>4. SoFar'
    <3>1. {dst} \cup consumes[dst] \subseteq NeedsOf(emits, consumes, src)
      BY <2>0 DEF NeedsOf
    <3> QED  BY <1>4, <2>0, <3>1 DEF PopUnresolved, IInv, SoFar, graph
  <2> QED  BY <2>1, <2>2, <2>3, <2>4 DEF IInv
<1>5. CASE Publish
  <2>0. /\ phase = "pop" /\ src \in Actor /\ srcReachable \subseteq Actor
        /\ srcReachable = NeedsOf(emits, consumes, src)
    BY <1>5, EmptyStack DEF Publish, IInv, TypeOK
  <2>1. TypeOK'
    <3>1. src' \in 1..(ActorCount + 1) /\ src' - 1 = src
      BY <1>0, <1>5, <2>0 DEF Publish, Actor
    <3>2. reachable' \in [1..src -> SUBSET Actor]
      <4>1. \A a \in 1..src : a # src => a \in 1..(src - 1)
        BY <1>0
      <4> QED  BY <1>0, <1>5, <2>0, <4>1 DEF Publish, TypeOK
    <3> QED  BY <1>0, <1>5, <3>1, <3>2 DEF Publish, TypeOK, graph
  <2>2. NeedsCorrect'
    <3>1. \A a \in 1..src : a # src => a \in 1..(src - 1)
      BY <1>0
    <3> QED  BY <1>0, <1>5, <2>0, <3>1 DEF Publish, IInv, NeedsCorrect, graph
  <2>3. StackReached' /\ ExpandedCovered' /\ SoFar'
    BY <1>5 DEF Publish, StackReached, ExpandedCovered, SoFar
  <2> QED  BY <2>1, <2>2, <2>3 DEF IInv
<1>6. CASE UNCHANGED vars
  BY <1>6 DEF vars, IInv, TypeOK, NeedsCorrect, StackReached, ExpandedCovered, SoFar
<1> QED  BY <1>1, <1>2, <1>3, <1>4, <1>5, <1>6 DEF Next

\* Every published set is exactly the needs of its actor, for every graph and
\* every order in which the stack is popped.
THEOREM NeedsAreCorrect == Spec => []NeedsCorrect
<1>1. Spec => []IInv
  BY InitIInv, StepIInv, PTL DEF Spec
<1>2. IInv => NeedsCorrect
  BY DEF IInv
<1> QED  BY <1>1, <1>2, PTL
=============================================================================
