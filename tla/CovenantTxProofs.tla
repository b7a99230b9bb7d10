-------------------------- MODULE CovenantTxProofs --------------------------
(***************************************************************************)
(* Proofs about CovenantTx, for every set of apps the compiler accepts and  *)
(* every bound: its invariants, and that it implements CovenantApp.         *)
(***************************************************************************)
EXTENDS CovenantTx, FiniteSetTheorems, SequenceTheorems, WellFoundedInduction, TLAPS

-----------------------------------------------------------------------------
(* Sections: the clauses of a section cover a group.                       *)

\* A valid section is a sequence whose single range, if any, is one of its
\* clauses.
LEMMA SectionFacts ==
  ASSUME NEW actors, NEW section, ValidSection(section, actors)
  PROVE  /\ Len(section) \in Nat /\ DOMAIN section = 1..Len(section)
         /\ HasRange(section) => RangeIndex(section) \in RangeIndexes(section)
         /\ RangeIndexes(section) \subseteq 1..Len(section)
         /\ SingletonCount(section) \in Nat
<1>1. /\ Len(section) \in Nat /\ DOMAIN section = 1..Len(section)
  BY DEF ValidSection
<1>2. HasRange(section) => RangeIndex(section) \in RangeIndexes(section)
  BY DEF HasRange, RangeIndex
<1>3. RangeIndexes(section) \subseteq 1..Len(section)
  BY <1>1 DEF RangeIndexes
<1>4. SingletonCount(section) \in Nat
  <2>1. HasRange(section) => Len(section) >= 1
    BY <1>1, <1>3 DEF HasRange
  <2> QED  BY <1>1, <2>1 DEF SingletonCount
<1> QED  BY <1>1, <1>2, <1>3, <1>4

\* The clauses of a valid section name actors of the app, and their bounds are
\* those the cardinality resolver accepts.
LEMMA ClauseFacts ==
  ASSUME NEW actors, NEW section, ValidSection(section, actors), NEW j \in DOMAIN section
  PROVE  /\ section[j].targets \subseteq actors
         /\ section[j].range \in BOOLEAN
         /\ section[j].min \in Nat /\ section[j].max \in Nat
<1> DEFINE Clause == [targets : SUBSET actors, range : BOOLEAN, min : Nat, max : Nat]
<1>1. section \in Seq(Clause)
  BY DEF ValidSection
<1> HIDE DEF Clause
<1>2. section[j] \in Clause
  BY <1>1
<1> QED  BY <1>2 DEF Clause

\* Rule 3 of leader-delegate-input-groups.md: the FromStart, Range and FromEnd
\* locations of a section leave no position of its group unread.
LEMMA SectionCovers ==
  ASSUME NEW actors, NEW section, ValidSection(section, actors),
         NEW offset \in Nat, NEW count \in Nat,
         ~HasRange(section) => count = offset + Len(section),
         RangeCountInBounds(section, offset, count),
         NEW p \in offset..(count - 1)
  PROVE  \E j \in DOMAIN section : p \in Positions(section, j, offset, count)
<1>1. /\ Len(section) \in Nat /\ DOMAIN section = 1..Len(section)
      /\ HasRange(section) => RangeIndex(section) \in 1..Len(section)
      /\ SingletonCount(section) \in Nat
  BY SectionFacts
<1>2. CASE ~HasRange(section)
  <2>1. p - offset + 1 \in DOMAIN section
    BY <1>1, <1>2
  <2>2. Location(section, p - offset + 1) = [kind |-> "FromStart", index |-> p - offset]
    BY <1>1, <1>2, <2>1 DEF Location
  <2>3. p \in Positions(section, p - offset + 1, offset, count)
    BY <2>2 DEF Positions
  <2> QED  BY <2>1, <2>3
<1>3. CASE HasRange(section)
  <2> DEFINE k == RangeIndex(section)
             n == RangeCount(section, offset, count)
  <2>1. /\ k \in 1..Len(section)
        /\ SingletonCount(section) = Len(section) - 1
        /\ n = count - (offset + Len(section) - 1)
    BY <1>1, <1>3 DEF SingletonCount, RangeCount
  <2> HIDE DEF k, n
  <2>2. CASE p < offset + k - 1
    <3>1. p - offset + 1 \in DOMAIN section /\ p - offset + 1 < k
      BY <1>1, <2>1, <2>2
    <3>2. Location(section, p - offset + 1) = [kind |-> "FromStart", index |-> p - offset]
      BY <3>1 DEF Location, k
    <3>3. p \in Positions(section, p - offset + 1, offset, count)
      BY <3>2 DEF Positions
    <3> QED  BY <3>1, <3>3
  <2>3. CASE p \in (offset + k - 1)..(offset + k - 1 + n - 1)
    <3>1. Location(section, k) = [kind |-> "Range", index |-> k - 1]
      BY <1>3, <2>1 DEF Location, k
    <3>2. p \in Positions(section, k, offset, count)
      BY <2>1, <2>3, <3>1 DEF Positions, n
    <3> QED  BY <1>1, <2>1, <3>2
  <2>4. CASE p >= offset + k - 1 + n
    <3> DEFINE j == Len(section) + 1 - (count - p)
    <3>1. j \in DOMAIN section /\ j > k /\ j \in Int
      BY <1>1, <2>1, <2>4
    <3>2. Location(section, j) = [kind |-> "FromEnd", index |-> Len(section) - j + 1]
      BY <1>3, <2>1, <3>1 DEF Location, k
    <3>3. count - (Len(section) - j + 1) = p
      BY <1>1
    <3> HIDE DEF j
    <3>4. Positions(section, j, offset, count) = {count - (Len(section) - j + 1)}
      BY <3>2 DEF Positions
    <3> QED  BY <3>1, <3>3, <3>4
  <2>5. RangeCount(section, offset, count) \in Int
    BY <2>1, <1>1 DEF n
  <2> QED  BY <1>1, <2>1, <2>2, <2>3, <2>4, <2>5 DEF n
<1> QED  BY <1>2, <1>3

\* The expansion of a section, item by item.
LEMMA ExpansionFacts ==
  ASSUME NEW actors, NEW section, ValidSection(section, actors), NEW n \in Nat,
         ~HasRange(section) => n = 0
  PROVE  /\ Len(Expansion(section, n)) = SingletonCount(section) + n
         /\ \A p \in 1..(SingletonCount(section) + n) :
              Expansion(section, n)[p] =
                IF ~HasRange(section) \/ p < RangeIndex(section) THEN section[p]
                ELSE IF p < RangeIndex(section) + n THEN section[RangeIndex(section)]
                ELSE section[p - n + 1]
<1>1. /\ Len(section) \in Nat /\ DOMAIN section = 1..Len(section)
      /\ HasRange(section) => RangeIndex(section) \in 1..Len(section)
  BY SectionFacts
<1>2. CASE ~HasRange(section)
  BY <1>1, <1>2 DEF Expansion, SingletonCount
<1>3. CASE HasRange(section)
  <2> DEFINE k == RangeIndex(section)
             clause == [x \in 1..n |-> section[k]]
             before == SubSeq(section, 1, k - 1)
             after == SubSeq(section, k + 1, Len(section))
  <2>1. PICK S : section \in Seq(S)
    BY DEF ValidSection
  <2>2. k \in 1..Len(section)
    BY <1>1, <1>3
  <2> HIDE DEF k
  <2>3. /\ before \in Seq(S) /\ Len(before) = k - 1
        /\ \A p \in 1..(k - 1) : before[p] = section[p]
    BY <1>1, <2>1, <2>2, SubSeqProperties
  <2>4. /\ after \in Seq(S) /\ Len(after) = Len(section) - k
        /\ \A p \in 1..(Len(section) - k) : after[p] = section[k + p]
    <3>1. k + 1 \in Int /\ Len(section) \in Int /\ \A i \in (k + 1)..Len(section) : section[i] \in S
      BY <1>1, <2>1, <2>2
    <3>2. /\ after \in Seq(S)
          /\ Len(after) = IF k + 1 <= Len(section) THEN Len(section) - (k + 1) + 1 ELSE 0
          /\ \A i \in 1..(Len(section) - (k + 1) + 1) : after[i] = section[(k + 1) + i - 1]
      BY <3>1, SubSeqProperties
    <3>3. Len(section) - (k + 1) + 1 = Len(section) - k
      BY <1>1, <2>2
    <3>4. \A p \in 1..(Len(section) - k) : (k + 1) + p - 1 = k + p
      BY <1>1, <2>2
    <3> HIDE DEF after
    <3>5. Len(after) = Len(section) - k
      <4>1. k \in Int /\ Len(section) \in Int /\ k <= Len(section)
        BY <1>1, <2>2
      <4>2. \A x, y \in Int : y <= x => (IF y + 1 <= x THEN x - (y + 1) + 1 ELSE 0) = x - y
        OBVIOUS
      <4>3. Len(after) = IF k + 1 <= Len(section) THEN Len(section) - (k + 1) + 1 ELSE 0
        BY <3>2
      <4> QED  BY <4>1, <4>2, <4>3
    <3> QED  BY <3>2, <3>3, <3>4, <3>5
  <2>5. /\ clause \in Seq(S) /\ Len(clause) = n
        /\ \A p \in 1..n : clause[p] = section[k]
    <3>1. section[k] \in S
      BY <2>1, <2>2, ElementOfSeq
    <3>2. clause \in [1..n -> S]
      BY <3>1
    <3> QED  BY <3>2, SeqDef, LenProperties
  <2>6. Expansion(section, n) = before \o clause \o after
    BY <1>3 DEF Expansion, k
  <2> HIDE DEF before, clause, after
  <2> DEFINE head == before \o clause
  <2>7. /\ head \in Seq(S) /\ Len(head) = k - 1 + n
        /\ \A p \in 1..(k - 1 + n) : head[p] = IF p < k THEN section[p] ELSE section[k]
    <3>1. /\ head \in Seq(S) /\ Len(head) = Len(before) + Len(clause)
          /\ \A p \in 1..(Len(before) + Len(clause)) :
               head[p] = IF p <= Len(before) THEN before[p] ELSE clause[p - Len(before)]
      BY <2>3, <2>5, ConcatProperties
    <3> HIDE DEF head
    <3>2. SUFFICES ASSUME NEW p \in 1..(k - 1 + n)
                   PROVE  head[p] = IF p < k THEN section[p] ELSE section[k]
      BY <2>3, <2>5, <3>1
    <3>3. CASE p < k
      BY <2>2, <2>3, <2>5, <3>1, <3>3
    <3>4. CASE p >= k
      <4>1. p - (k - 1) \in 1..n /\ ~(p <= k - 1)
        BY <2>2, <3>4
      <4> QED  BY <2>2, <2>3, <2>5, <3>1, <4>1
    <3> QED  BY <2>2, <3>3, <3>4
  <2> HIDE DEF head
  <2>8. /\ Len(Expansion(section, n)) = Len(section) - 1 + n
        /\ \A p \in 1..(Len(section) - 1 + n) :
             Expansion(section, n)[p] = IF p < k THEN section[p]
                                        ELSE IF p < k + n THEN section[k]
                                        ELSE section[p - n + 1]
    <3> DEFINE whole == head \o after
    <3>1. /\ Len(whole) = Len(head) + Len(after)
          /\ \A p \in 1..(Len(head) + Len(after)) :
               whole[p] = IF p <= Len(head) THEN head[p] ELSE after[p - Len(head)]
      BY <2>4, <2>7, ConcatProperties
    <3>2. whole = Expansion(section, n)
      BY <2>6 DEF head
    <3> HIDE DEF whole
    <3>3. Len(head) + Len(after) = Len(section) - 1 + n
      BY <1>1, <2>2, <2>4, <2>7
    <3>4. SUFFICES ASSUME NEW p \in 1..(Len(section) - 1 + n)
                   PROVE  whole[p] = IF p < k THEN section[p]
                                     ELSE IF p < k + n THEN section[k]
                                     ELSE section[p - n + 1]
      BY <3>1, <3>2, <3>3
    <3>5. CASE p < k + n
      <4>1. p \in 1..(k - 1 + n) /\ p <= Len(head)
        BY <1>1, <2>2, <2>7, <3>5
      <4> QED  BY <2>7, <3>1, <3>3, <3>5, <4>1
    <3>6. CASE p >= k + n
      <4>1. /\ p - Len(head) \in 1..(Len(section) - k) /\ ~(p <= Len(head))
            /\ k + (p - Len(head)) = p - n + 1
        BY <1>1, <2>2, <2>7, <3>6
      <4>2. whole[p] = section[p - n + 1]
        BY <2>4, <3>1, <3>3, <4>1
      <4>3. ~(p < k) /\ ~(p < k + n)
        BY <1>1, <2>2, <3>6
      <4> QED  BY <4>2, <4>3
    <3> QED  BY <1>1, <2>2, <3>5, <3>6
  <2> QED  BY <1>1, <1>3, <2>8 DEF SingletonCount, k
<1> QED  BY <1>2, <1>3

-----------------------------------------------------------------------------
(* Ordered groups of indexes.                                              *)

\* The position of a member of a finite group lies below the size of the group.
LEMMA PositionBounds ==
  ASSUME NEW S \in SUBSET Nat, IsFiniteSet(S), NEW i \in S
  PROVE  Position(S, i) \in 0..(Cardinality(S) - 1)
<1> DEFINE below == {j \in S : j < i}
<1>1. IsFiniteSet(below) /\ Cardinality(below) <= Cardinality(S)
      /\ (Cardinality(S) = Cardinality(below) => S = below)
  BY FS_Subset
<1>2. i \notin below
  OBVIOUS
<1>3. Cardinality(below) # Cardinality(S)
  BY <1>1, <1>2
<1>4. Cardinality(S) \in Nat /\ Cardinality(below) \in Nat
  BY <1>1, FS_CardinalityType
<1> QED  BY <1>1, <1>3, <1>4 DEF Position

\* No two members of a group share a position.
LEMMA PositionUnique ==
  ASSUME NEW S \in SUBSET Nat, IsFiniteSet(S), NEW i \in S, NEW j \in S,
         Position(S, i) = Position(S, j)
  PROVE  i = j
<1>1. ASSUME NEW a \in S, NEW b \in S, a < b, Position(S, a) = Position(S, b)
      PROVE  FALSE
  <2> DEFINE A == {k \in S : k < a}
             B == {k \in S : k < b}
  <2>0. a \in Nat /\ b \in Nat /\ \A k \in S : k \in Nat
    OBVIOUS
  <2>1. /\ \A k \in S : k < a => k < b
        /\ a < b /\ ~(a < a)
    BY <1>1, <2>0
  <2>2. A \subseteq B /\ a \in B /\ a \notin A
    BY <2>1
  <2>3. IsFiniteSet(B)
    BY FS_Subset
  <2>4. Cardinality(A) = Cardinality(B)
    BY <1>1 DEF Position
  <2>5. A = B
    BY <2>2, <2>3, <2>4, FS_Subset
  <2> QED  BY <2>2, <2>5
<1> QED  BY <1>1

\* Member p of a group, counted from 1.
Nth(S, p) == CHOOSE i \in S : Position(S, i) = p - 1

\* Every place of a finite set of indexes is taken, by one member.
LEMMA NthFacts ==
  ASSUME NEW S \in SUBSET Nat, IsFiniteSet(S)
  PROVE  /\ Cardinality(S) \in Nat
         /\ \A p \in 1..Cardinality(S) : Nth(S, p) \in S /\ Position(S, Nth(S, p)) = p - 1
         /\ \A i \in S : /\ Position(S, i) \in Nat
                         /\ Position(S, i) + 1 \in 1..Cardinality(S)
                         /\ Nth(S, Position(S, i) + 1) = i
<1> DEFINE n == Cardinality(S)
           places == 0..(n - 1)
           at == [i \in S |-> Position(S, i)]
<1>1. n \in Nat
  BY FS_CardinalityType
<1>2. \A i \in S : Position(S, i) \in places
  BY PositionBounds
<1>3. at \in [S -> places]
  BY <1>2
<1>4. \A i, j \in S : Position(S, i) = Position(S, j) => i = j
  BY PositionUnique
<1>5. at \in Injection(S, places)
  BY <1>3, <1>4 DEF Injection, IsInjective
<1>6. IsFiniteSet(places) /\ Cardinality(places) = n
  <2> HIDE DEF n
  <2>1. 0 \in Int /\ n - 1 \in Int /\ (0 > n - 1 => n = 0)
    BY <1>1
  <2> QED  BY <1>1, <2>1, FS_Interval
<1>7. at \in Surjection(S, places)
  <2> HIDE DEF at, places
  <2> QED  BY <1>5, <1>6, FS_Injection DEF n
<1>8. \A q \in places : \E i \in S : Position(S, i) = q
  BY <1>7 DEF Surjection
<1>9. ASSUME NEW p \in 1..n
      PROVE  Nth(S, p) \in S /\ Position(S, Nth(S, p)) = p - 1
  <2>1. p - 1 \in places
    BY <1>1
  <2>2. \E i \in S : Position(S, i) = p - 1
    BY <1>8, <2>1
  <2> QED  BY <2>2 DEF Nth
<1>10. ASSUME NEW i \in S
       PROVE  /\ Position(S, i) \in Nat
              /\ Position(S, i) + 1 \in 1..n
              /\ Nth(S, Position(S, i) + 1) = i
  <2> DEFINE q == Position(S, i)
  <2>1. q \in 0..(n - 1)
    BY <1>2
  <2> HIDE DEF q, n
  <2>2. q \in Nat /\ q + 1 \in 1..n /\ (q + 1) - 1 = q
    BY <1>1, <2>1
  <2>3. Nth(S, q + 1) \in S /\ Position(S, Nth(S, q + 1)) = q
    BY <1>9, <2>2
  <2>4. Position(S, Nth(S, q + 1)) = Position(S, i)
    BY <2>3 DEF q
  <2>5. Nth(S, q + 1) = i
    BY <1>4, <2>3, <2>4
  <2> QED  BY <2>2, <2>5 DEF q
<1> QED  BY <1>1, <1>9, <1>10

-----------------------------------------------------------------------------
(* Transactions.                                                           *)

\* The shape of a transaction under validation of an app's covenants.
TxShape(a, t) ==
  /\ t.inputs \in Seq(InputSpace(a))
  /\ t.outputs \in Seq(OutputSpace(t.inputs))

\* Inputs and outputs are indexed from 1, and every output names an input that
\* carries a covenant.
LEMMA TxFacts ==
  ASSUME NEW a \in Apps, NEW t, TxShape(a, t)
  PROVE  /\ Len(t.inputs) \in Nat /\ DOMAIN t.inputs = 1..Len(t.inputs)
         /\ Len(t.outputs) \in Nat /\ DOMAIN t.outputs = 1..Len(t.outputs)
         /\ \A i \in DOMAIN t.inputs : t.inputs[i] \in InputSpace(a)
         /\ \A o \in DOMAIN t.outputs :
              /\ t.outputs[o].script \in Script
              /\ t.outputs[o].auth \in DOMAIN t.inputs
              /\ t.inputs[t.outputs[o].auth].cov \in Cov
<1>1. /\ Len(t.inputs) \in Nat /\ DOMAIN t.inputs = 1..Len(t.inputs)
      /\ \A i \in DOMAIN t.inputs : t.inputs[i] \in InputSpace(a)
  BY DEF TxShape
<1>2. /\ Len(t.outputs) \in Nat /\ DOMAIN t.outputs = 1..Len(t.outputs)
      /\ \A o \in DOMAIN t.outputs : t.outputs[o] \in OutputSpace(t.inputs)
  BY DEF TxShape
<1> QED  BY <1>1, <1>2 DEF OutputSpace

\* Every input is an actor contract that runs one of its own entries, or an
\* alien script.
LEMMA InputFacts ==
  ASSUME NEW a \in Apps, NEW t, TxShape(a, t), NEW i \in DOMAIN t.inputs
  PROVE  \/ /\ t.inputs[i].cov \in Cov
            /\ t.inputs[i].entry \in a.entries
            /\ t.inputs[i].script = t.inputs[i].entry.actor
            /\ t.inputs[i].script \in a.actors
            /\ t.inputs[i].script # Alien
            /\ ValidEntry(a, t.inputs[i].entry)
         \/ /\ t.inputs[i].script = Alien
            /\ t.inputs[i].entry = AlienEntry
<1>1. t.inputs[i] \in InputSpace(a)
  BY TxFacts
<1>2. \A e \in a.entries : ValidEntry(a, e) /\ e.actor \in a.actors /\ e.actor # Alien
  BY CovenantTxAssumption DEF ValidApp, ValidEntry
<1> QED  BY <1>1, <1>2 DEF InputSpace

\* The groups of a transaction are finite sets of indexes.
LEMMA GroupFacts ==
  ASSUME NEW a \in Apps, NEW t, TxShape(a, t), NEW c, NEW i
  PROVE  /\ CovInputs(t, c) \in SUBSET Nat /\ IsFiniteSet(CovInputs(t, c))
         /\ CovOutputs(t, c) \in SUBSET Nat /\ IsFiniteSet(CovOutputs(t, c))
         /\ AuthOutputs(t, i) \in SUBSET Nat /\ IsFiniteSet(AuthOutputs(t, i))
         /\ Cardinality(CovInputs(t, c)) \in Nat
         /\ Cardinality(CovOutputs(t, c)) \in Nat
         /\ Cardinality(AuthOutputs(t, i)) \in Nat
<1>1. /\ IsFiniteSet(1..Len(t.inputs)) /\ IsFiniteSet(1..Len(t.outputs))
      /\ 1..Len(t.inputs) \subseteq Nat /\ 1..Len(t.outputs) \subseteq Nat
  <2>1. Len(t.inputs) \in Nat /\ Len(t.outputs) \in Nat
    BY TxFacts
  <2>2. \A n \in Nat : IsFiniteSet(1..n)
    BY FS_Interval
  <2> QED  BY <2>1, <2>2
<1>2. /\ CovInputs(t, c) \in SUBSET (1..Len(t.inputs))
      /\ CovOutputs(t, c) \in SUBSET (1..Len(t.outputs))
      /\ AuthOutputs(t, i) \in SUBSET (1..Len(t.outputs))
  BY TxFacts DEF CovInputs, CovOutputs, AuthOutputs
<1>3. /\ IsFiniteSet(CovInputs(t, c)) /\ IsFiniteSet(CovOutputs(t, c))
      /\ IsFiniteSet(AuthOutputs(t, i))
  BY <1>1, <1>2, FS_Subset
<1> QED  BY <1>1, <1>2, <1>3, FS_CardinalityType

\* A(i) is part of O(c), and the outputs of O(c) are authorized by inputs of c.
LEMMA AuthorizedByGroup ==
  ASSUME NEW a \in Apps, NEW t, TxShape(a, t)
  PROVE  /\ \A i \in DOMAIN t.inputs : AuthOutputs(t, i) \subseteq CovOutputs(t, t.inputs[i].cov)
         /\ \A c : \A o \in CovOutputs(t, c) : \E i \in CovInputs(t, c) : o \in AuthOutputs(t, i)
BY TxFacts DEF AuthOutputs, CovOutputs, CovInputs

\* An ordinary entry of a valid app is compiled under exactly one policy.
LEMMA PolicyCases ==
  ASSUME NEW a, NEW e, ValidEntry(a, e)
  PROVE  \/ /\ GroupPolicy(a, e) = "Batchable" /\ e.kind = "leader"
            /\ e.consumes = <<>> /\ ~IsLeaderActor(a, e.actor)
         \/ GroupPolicy(a, e) = "Delegate" /\ e.kind = "delegate"
         \/ /\ GroupPolicy(a, e) = "LeaderRanged" /\ e.kind = "leader"
            /\ HasRange(e.consumes) /\ e.consumes # <<>>
         \/ /\ GroupPolicy(a, e) = "LeaderFixed" /\ e.kind = "leader"
            /\ e.consumes # <<>> \/ IsLeaderActor(a, e.actor)
<1>1. HasRange(e.consumes) => e.consumes # <<>>
  BY DEF HasRange, RangeIndexes
<1> QED  BY <1>1 DEF GroupPolicy, AllowsCovenantBatching, ValidEntry

\* The outputs an entry authorizes are permitted by its `emits`, hence carry
\* actors of the app.
LEMMA EntryCreatesActors ==
  ASSUME NEW a \in Apps, NEW t, TxShape(a, t), NEW i \in DOMAIN t.inputs,
         ValidEntry(a, t.inputs[i].entry),
         EntrySucceeds(a, t, i),
         NEW o \in AuthOutputs(t, i)
  PROVE  t.outputs[o].script \in a.actors
<1> DEFINE e == t.inputs[i].entry
           auth == AuthOutputs(t, i)
           count == Cardinality(auth)
<1>1. auth \in SUBSET Nat /\ IsFiniteSet(auth) /\ count \in Nat
  BY GroupFacts
<1>2. ValidSection(e.emits, a.actors)
  BY DEF ValidEntry
<1>3. /\ ~HasRange(e.emits) => count = 0 + Len(e.emits)
      /\ RangeCountInBounds(e.emits, 0, count)
  BY <1>1, <1>2, SectionFacts DEF EntrySucceeds, CurrentOutputPrelude
<1>4. Position(auth, o) \in 0..(count - 1)
  BY <1>1, PositionBounds
<1>5. PICK j \in DOMAIN e.emits : Position(auth, o) \in Positions(e.emits, j, 0, count)
  BY <1>1, <1>2, <1>3, <1>4, SectionCovers
<1>6. PICK x \in auth : /\ Position(auth, x) = Position(auth, o)
                        /\ t.outputs[x].script \in e.emits[j].targets
  BY <1>5 DEF EntrySucceeds, RoutesCheck, MemberAt
<1>7. x = o
  BY <1>1, <1>6, PositionUnique
<1>8. e.emits[j].targets \subseteq a.actors
  BY <1>2, ClauseFacts
<1> QED  BY <1>6, <1>7, <1>8

-----------------------------------------------------------------------------
(* What a validated transaction guarantees.                                *)

\* Every script of t succeeds, and no input of a covenant is alien.
Validated(a, t) ==
  /\ TxShape(a, t)
  /\ \A i \in DOMAIN t.inputs :
       /\ ScriptSucceeds(a, t, i)
       /\ t.inputs[i].cov \in Cov => t.inputs[i].script # Alien

\* Rule 5: a coordinated leader is first in its group, and every continuation
\* of its covenant is its own.
LEMMA CoordinatorFacts ==
  ASSUME NEW a \in Apps, NEW t, Validated(a, t), NEW l \in DOMAIN t.inputs,
         Coordinates(t, l)
  PROVE  /\ MemberAt(Group(t, l), 0, l)
         /\ AuthOutputs(t, l) = CovOutputs(t, t.inputs[l].cov)
<1> DEFINE e == t.inputs[l].entry
<1>1. /\ e.kind = "leader" /\ e.consumes # <<>>
      /\ ValidEntry(a, e) /\ EntrySucceeds(a, t, l) /\ TxShape(a, t)
  BY InputFacts DEF Validated, Coordinates, CoordinatesCurrentOutputs, AlienEntry, ScriptSucceeds
<1>2. MemberAt(Group(t, l), 0, l)
  <2>1. Len(e.consumes) \in Nat /\ Len(e.consumes) > 0
    <3>1. ValidSection(e.consumes, a.actors)
      BY <1>1 DEF ValidEntry
    <3> QED  BY <1>1, <3>1 DEF ValidSection
  <2>2. GroupPolicyCheck(a, t, l)
    BY <1>1 DEF EntrySucceeds, CurrentInputPrelude
  <2>3. GroupPolicy(a, e) = "LeaderRanged" \/ GroupPolicy(a, e) = "LeaderFixed"
    BY <1>1, PolicyCases
  <2>4. GroupCount(e) > 1
    BY <2>1 DEF GroupCount
  <2> QED  BY <2>2, <2>3, <2>4 DEF GroupPolicyCheck, Group
<1>3. AuthOutputs(t, l) = CovOutputs(t, t.inputs[l].cov)
  <2>1. Cardinality(CovOutputs(t, t.inputs[l].cov)) = Cardinality(AuthOutputs(t, l))
    BY <1>1 DEF EntrySucceeds, CurrentOutputPrelude, Coordinates
  <2>2. AuthOutputs(t, l) \subseteq CovOutputs(t, t.inputs[l].cov)
    BY <1>1, AuthorizedByGroup
  <2>3. IsFiniteSet(CovOutputs(t, t.inputs[l].cov))
    BY <1>1, GroupFacts
  <2> QED  BY <2>1, <2>2, <2>3, FS_Subset
<1> QED  BY <1>2, <1>3

\* A delegate does not lead its group, has others beside it, and has read the
\* leader actor it names at position 0.
LEMMA DelegateFacts ==
  ASSUME NEW a \in Apps, NEW t, Validated(a, t), NEW d \in DOMAIN t.inputs,
         t.inputs[d].entry.kind = "delegate"
  PROVE  /\ t.inputs[d].entry \in a.entries
         /\ Cardinality(Group(t, d)) > 1
         /\ ~MemberAt(Group(t, d), 0, d)
         /\ \E l \in Group(t, d) :
              /\ MemberAt(Group(t, d), 0, l)
              /\ t.inputs[d].entry.consumes[1].targets = {t.inputs[l].script}
              /\ t.inputs[l].script \in a.actors
<1> DEFINE e == t.inputs[d].entry
           group == Group(t, d)
           count == Cardinality(group)
<1>1. /\ e \in a.entries /\ t.inputs[d].cov \in Cov /\ e.actor \in a.actors
      /\ ValidEntry(a, e) /\ EntrySucceeds(a, t, d) /\ TxShape(a, t)
  BY InputFacts DEF Validated, AlienEntry, ScriptSucceeds, ValidEntry
<1>2. /\ ValidSection(e.consumes, a.actors) /\ ~HasRange(e.consumes)
      /\ Len(e.consumes) \in Nat /\ Len(e.consumes) > 0
      /\ 1 \in DOMAIN e.consumes
      /\ SingleTarget(e.consumes[1])
  <2>1. /\ ValidSection(e.consumes, a.actors) /\ ~HasRange(e.consumes) /\ e.consumes # <<>>
        /\ \A j \in DOMAIN e.consumes : SingleTarget(e.consumes[j])
    BY <1>1 DEF ValidEntry
  <2>2. Len(e.consumes) \in Nat /\ DOMAIN e.consumes = 1..Len(e.consumes)
    BY <2>1, SectionFacts
  <2>3. Len(e.consumes) > 0
    BY <2>1, <2>2 DEF ValidSection
  <2> QED  BY <2>1, <2>2, <2>3
<1>3. GroupPolicy(a, e) = "Delegate" /\ SlotOffset(e) = 0
  BY <1>1, PolicyCases DEF SlotOffset
<1>4. count >= GroupCount(e) /\ ~MemberAt(group, 0, d)
  BY <1>1, <1>3 DEF EntrySucceeds, CurrentInputPrelude, GroupPolicyCheck, Group
<1>5. count > 1
  <2>1. count \in Nat
    BY <1>1, GroupFacts DEF Group
  <2> QED  BY <1>2, <1>4, <2>1 DEF GroupCount
<1>6. 0 \in Positions(e.consumes, 1, SlotOffset(e), count)
  <2>1. Location(e.consumes, 1) = [kind |-> "FromStart", index |-> 0]
    BY <1>2 DEF Location
  <2> QED  BY <1>3, <2>1 DEF Positions
<1>7. PICK l \in group : MemberAt(group, 0, l) /\ ReadsConsumed(a, t, e, 1, l)
  <2>1. ConsumesCheck(a, t, d)
    BY <1>1, <1>3 DEF EntrySucceeds, CurrentInputPrelude
  <2> QED  BY <1>2, <1>6, <2>1 DEF ConsumesCheck, Group
<1>8. t.inputs[l].script \in a.actors
  <2>1. l \in DOMAIN t.inputs /\ t.inputs[l].cov \in Cov
    BY <1>1, <1>7 DEF Group, CovInputs
  <2>2. t.inputs[l].script # Alien
    BY <2>1 DEF Validated
  <2> QED  BY <1>1, <2>1, <2>2, InputFacts
<1>9. e.consumes[1].targets = {t.inputs[l].script}
  <2>1. PICK x \in e.consumes[1].targets : e.consumes[1].targets = {x}
    BY <1>2 DEF SingleTarget
  <2>2. CASE t.inputs[l].script \in e.consumes[1].targets
    BY <2>1, <2>2
  <2>3. CASE CovenantDomainRead(a, e, e.consumes[1])
    BY <1>8, <2>3 DEF CovenantDomainRead
  <2> QED  BY <1>7, <2>2, <2>3 DEF ReadsConsumed
<1> QED  BY <1>1, <1>4, <1>5, <1>7, <1>8, <1>9

\* Claim 3: the first input of a delegate's group coordinates it.
LEMMA LeaderOfDelegateCoordinates ==
  ASSUME NEW a \in Apps, NEW t, Validated(a, t), NEW d \in DOMAIN t.inputs,
         t.inputs[d].entry.kind = "delegate"
  PROVE  \E l \in Group(t, d) :
           /\ MemberAt(Group(t, d), 0, l)
           /\ t.inputs[d].entry.consumes[1].targets = {t.inputs[l].script}
           /\ Coordinates(t, l)
<1>1. PICK l \in Group(t, d) :
        /\ MemberAt(Group(t, d), 0, l)
        /\ t.inputs[d].entry.consumes[1].targets = {t.inputs[l].script}
        /\ t.inputs[l].script \in a.actors
  BY DelegateFacts
<1> DEFINE e == t.inputs[l].entry
<1>2. /\ l \in DOMAIN t.inputs /\ Group(t, l) = Group(t, d)
      /\ t.inputs[l].cov = t.inputs[d].cov
  BY <1>1 DEF Group, CovInputs
<1>3. TxShape(a, t) /\ ScriptSucceeds(a, t, l)
  BY <1>2 DEF Validated
<1>4. /\ ValidEntry(a, e) /\ e.actor = t.inputs[l].script /\ EntrySucceeds(a, t, l)
  <2>1. t.inputs[l].script # Alien
    BY <1>1, CovenantTxAssumption
  <2> QED  BY <1>2, <1>3, <2>1, InputFacts DEF ScriptSucceeds
<1>5. IsLeaderActor(a, e.actor)
  BY <1>1, <1>4, DelegateFacts DEF IsLeaderActor, LeaderFor
<1>6. GroupPolicy(a, e) # "Delegate"
  BY <1>1, <1>2, <1>4 DEF EntrySucceeds, CurrentInputPrelude, GroupPolicyCheck, Group
<1>7. GroupPolicy(a, e) = "LeaderFixed" => e.consumes # <<>>
  <2> SUFFICES ASSUME GroupPolicy(a, e) = "LeaderFixed", e.consumes = <<>>
               PROVE  FALSE
    OBVIOUS
  <2>1. Cardinality(Group(t, l)) = GroupCount(e)
    BY <1>4 DEF EntrySucceeds, CurrentInputPrelude, GroupPolicyCheck, Group
  <2>2. GroupCount(e) = 1
    BY DEF GroupCount
  <2> QED  BY <1>2, <2>1, <2>2, DelegateFacts
<1>8. Coordinates(t, l)
  BY <1>4, <1>5, <1>6, <1>7, PolicyCases DEF Coordinates, CoordinatesCurrentOutputs
<1> QED  BY <1>1, <1>8

\* Claim 2: beside a coordinated leader, an ordinary entry of an actor that
\* declares a delegate cannot run.
LEMMA OnlyDelegatesFollow ==
  ASSUME NEW a \in Apps, NEW t, Validated(a, t), NEW l \in DOMAIN t.inputs,
         Coordinates(t, l), NEW d \in Group(t, l) \ {l},
         t.inputs[d].script \in a.actors, DelegateCapable(a, t.inputs[d].script)
  PROVE  t.inputs[d].entry \in a.entries /\ t.inputs[d].entry.kind = "delegate"
<1> DEFINE e == t.inputs[d].entry
           group == Group(t, l)
<1>1. /\ d \in DOMAIN t.inputs /\ l \in group /\ Group(t, d) = group
      /\ t.inputs[d].cov = t.inputs[l].cov
  BY DEF Group, CovInputs
<1>2. TxShape(a, t) /\ ScriptSucceeds(a, t, d)
  BY <1>1 DEF Validated
<1>3. /\ ValidEntry(a, e) /\ e \in a.entries /\ e.actor = t.inputs[d].script
      /\ EntrySucceeds(a, t, d)
  <2>1. t.inputs[d].script # Alien
    BY CovenantTxAssumption
  <2> QED  BY <1>1, <1>2, <2>1, InputFacts DEF ScriptSucceeds
<1>4. group \in SUBSET Nat /\ IsFiniteSet(group)
  BY <1>2, GroupFacts DEF Group
<1>5. ~MemberAt(group, 0, d)
  <2>1. MemberAt(group, 0, l)
    BY CoordinatorFacts
  <2> QED  BY <1>4, <2>1, PositionUnique DEF MemberAt
<1>6. AuthOutputs(t, d) = {}
  <2>1. AuthOutputs(t, l) = CovOutputs(t, t.inputs[l].cov)
    BY CoordinatorFacts
  <2>2. AuthOutputs(t, d) \subseteq AuthOutputs(t, l)
    BY <1>1, <1>2, <2>1, AuthorizedByGroup
  <2> QED  BY <2>2 DEF AuthOutputs
<1>7. e.kind # "leader"
  <2> SUFFICES ASSUME e.kind = "leader"  PROVE FALSE
    OBVIOUS
  <2>1. GroupPolicy(a, e) # "LeaderRanged"
    BY <1>1, <1>3, <1>5 DEF EntrySucceeds, CurrentInputPrelude, GroupPolicyCheck, Group
  <2>2. GroupPolicy(a, e) # "LeaderFixed"
    <3> SUFFICES ASSUME GroupPolicy(a, e) = "LeaderFixed"  PROVE FALSE
      OBVIOUS
    <3>1. Cardinality(group) = GroupCount(e) /\ ~(GroupCount(e) > 1)
      BY <1>1, <1>3, <1>5 DEF EntrySucceeds, CurrentInputPrelude, GroupPolicyCheck, Group
    <3>2. Cardinality(group) > 1
      <4>1. Position(group, d) \in 0..(Cardinality(group) - 1) /\ Cardinality(group) \in Nat
        BY <1>4, PositionBounds, FS_CardinalityType
      <4>2. Position(group, d) # 0
        BY <1>5 DEF MemberAt
      <4> QED  BY <4>1, <4>2
    <3> QED  BY <3>1, <3>2
  <2>3. GroupPolicy(a, e) = "Batchable"
    BY <1>3, <2>1, <2>2, PolicyCases
  <2>4. AllowsCovenantBatching(a, e)
    BY <2>3 DEF GroupPolicy
  <2>5. ~RequiresOptionalDelegateGuard(a, e)
    BY <1>1, <1>3, <1>5 DEF EntrySucceeds, CurrentInputPrelude, OptionalDelegateCheck, Group
  <2>6. PICK j \in DOMAIN e.emits : ~(e.emits[j].range /\ e.emits[j].min = 0)
    BY <1>3, <2>4, <2>5 DEF RequiresOptionalDelegateGuard
  <2>7. Cardinality(AuthOutputs(t, d)) = 0
    BY <1>6, FS_EmptySet
  <2>8. /\ ValidSection(e.emits, a.actors)
        /\ Len(e.emits) \in Nat /\ DOMAIN e.emits = 1..Len(e.emits)
        /\ RangeIndexes(e.emits) \subseteq 1..Len(e.emits)
    BY <1>3, SectionFacts DEF ValidEntry
  <2>9. CASE ~HasRange(e.emits)
    <3>1. Len(e.emits) = 0
      BY <1>3, <2>7, <2>9 DEF EntrySucceeds, CurrentOutputPrelude
    <3> QED  BY <2>6, <2>8, <3>1
  <2>10. CASE HasRange(e.emits)
    <3>1. PICK r \in RangeIndexes(e.emits) : TRUE
      BY <2>10 DEF HasRange
    <3>2. /\ RangeCount(e.emits, 0, 0) >= e.emits[r].min
          /\ e.emits[r].min \in Nat
          /\ e.emits[r].range
      <4>1. RangeCountInBounds(e.emits, 0, 0)
        BY <1>3, <2>7 DEF EntrySucceeds, CurrentOutputPrelude
      <4>2. r \in DOMAIN e.emits /\ e.emits[r].range
        BY <2>8 DEF RangeIndexes
      <4>3. e.emits[r].min \in Nat
        BY <2>8, <4>2, ClauseFacts
      <4>4. RangeCount(e.emits, 0, 0) >= e.emits[r].min
        BY <4>1 DEF RangeCountInBounds
      <4> QED  BY <4>2, <4>3, <4>4
    <3>3. RangeCount(e.emits, 0, 0) = 1 - Len(e.emits)
      BY <2>8, <2>10 DEF RangeCount, SingletonCount
    <3>4. Len(e.emits) = 1 /\ e.emits[r].min = 0
      <4>1. r \in 1..Len(e.emits)
        BY <2>8
      <4>2. \A n, m \in Nat : 1 - n >= m /\ n >= 1 => n = 1 /\ m = 0
        OBVIOUS
      <4>3. Len(e.emits) >= 1
        BY <2>8, <4>1
      <4>4. 1 - Len(e.emits) >= e.emits[r].min
        BY <3>2, <3>3
      <4> QED  BY <2>8, <3>2, <4>2, <4>3, <4>4
    <3>5. j = r
      BY <2>8, <3>4
    <3> QED  BY <2>6, <3>2, <3>4, <3>5
  <2> QED  BY <2>9, <2>10
<1> QED  BY <1>3, <1>7 DEF ValidEntry

\* Claim 2, for every input beside the leader.
LEMMA DelegatesFollow ==
  ASSUME NEW a \in Apps, NEW t, Validated(a, t), NEW l \in DOMAIN t.inputs,
         Coordinates(t, l), NEW d \in Group(t, l) \ {l},
         \E e \in LeaderFor(a, t.inputs[l].script) : e.actor = t.inputs[d].script
  PROVE  t.inputs[d].entry \in LeaderFor(a, t.inputs[l].script)
<1>1. /\ d \in DOMAIN t.inputs /\ Group(t, d) = Group(t, l) /\ TxShape(a, t)
  BY DEF Group, CovInputs, Validated
<1>2. /\ t.inputs[d].script \in a.actors /\ DelegateCapable(a, t.inputs[d].script)
  BY CovenantTxAssumption DEF LeaderFor, DelegateCapable, ValidApp, ValidEntry
<1>3. t.inputs[d].entry \in a.entries /\ t.inputs[d].entry.kind = "delegate"
  BY <1>2, OnlyDelegatesFollow
<1>4. PICK m \in Group(t, l) :
        /\ MemberAt(Group(t, l), 0, m)
        /\ t.inputs[d].entry.consumes[1].targets = {t.inputs[m].script}
  BY <1>1, <1>3, LeaderOfDelegateCoordinates
<1>5. m = l
  <2>1. MemberAt(Group(t, l), 0, l)
    BY CoordinatorFacts
  <2>2. Group(t, l) \in SUBSET Nat /\ IsFiniteSet(Group(t, l))
    BY <1>1, GroupFacts DEF Group
  <2> QED  BY <1>4, <2>1, <2>2, PositionUnique DEF MemberAt
<1> QED  BY <1>3, <1>4, <1>5 DEF LeaderFor

-----------------------------------------------------------------------------
(* Rule 3 and Rule 4: what the index arithmetic reads is what the section   *)
(* declares.                                                                *)

\* If every position of a section in a group of "count" holds an item its
\* clause permits, the members at those positions match the section.
LEMMA ReadsMatch ==
  ASSUME NEW actors, NEW section, ValidSection(section, actors),
         NEW offset \in Nat, NEW count \in Nat,
         ~HasRange(section) => count = offset + Len(section),
         RangeCountInBounds(section, offset, count),
         NEW members \in SUBSET Nat, IsFiniteSet(members),
         Cardinality(members) = count - offset,
         NEW scripts,
         \A j \in DOMAIN section : \A p \in Positions(section, j, offset, count) :
           \A m \in members : Position(members, m) = p - offset
                                => scripts[m] \in section[j].targets
  PROVE  Matches(section, members, scripts)
<1> DEFINE n == IF HasRange(section) THEN RangeCount(section, offset, count) ELSE 0
<1>1. /\ Len(section) \in Nat /\ DOMAIN section = 1..Len(section)
      /\ HasRange(section) => RangeIndex(section) \in RangeIndexes(section)
      /\ RangeIndexes(section) \subseteq 1..Len(section)
      /\ SingletonCount(section) \in Nat
  BY SectionFacts
<1>2. /\ n \in Nat /\ n \in RangeLengths(section)
      /\ SingletonCount(section) + n = count - offset
  <2>1. CASE ~HasRange(section)
    BY <1>1, <2>1 DEF RangeLengths, SingletonCount
  <2>2. CASE HasRange(section)
    <3>1. /\ RangeCount(section, offset, count) >= section[RangeIndex(section)].min
          /\ RangeCount(section, offset, count) <= section[RangeIndex(section)].max
      BY <1>1, <2>2 DEF RangeCountInBounds
    <3>2. /\ section[RangeIndex(section)].min \in Nat
          /\ section[RangeIndex(section)].max \in Nat
      BY <1>1, <2>2, ClauseFacts
    <3>3. RangeCount(section, offset, count) = count - (offset + SingletonCount(section))
      BY DEF RangeCount
    <3> QED  BY <1>1, <2>2, <3>1, <3>2, <3>3 DEF RangeLengths
  <2> QED  BY <2>1, <2>2
<1> HIDE DEF n
<1>3. /\ Len(Expansion(section, n)) = count - offset
      /\ \A p \in 1..(count - offset) :
           Expansion(section, n)[p] =
             IF ~HasRange(section) \/ p < RangeIndex(section) THEN section[p]
             ELSE IF p < RangeIndex(section) + n THEN section[RangeIndex(section)]
             ELSE section[p - n + 1]
  <2>1. n \in Nat /\ (~HasRange(section) => n = 0)
    BY <1>2 DEF n
  <2> DEFINE Placed(p) ==
               Expansion(section, n)[p] =
                 IF ~HasRange(section) \/ p < RangeIndex(section) THEN section[p]
                 ELSE IF p < RangeIndex(section) + n THEN section[RangeIndex(section)]
                 ELSE section[p - n + 1]
  <2>2. /\ Len(Expansion(section, n)) = SingletonCount(section) + n
        /\ \A p \in 1..(SingletonCount(section) + n) : Placed(p)
    <3> HIDE DEF Placed
    <3> SUFFICES /\ Len(Expansion(section, n)) = SingletonCount(section) + n
                 /\ \A p \in 1..(SingletonCount(section) + n) :
                      Expansion(section, n)[p] =
                        IF ~HasRange(section) \/ p < RangeIndex(section) THEN section[p]
                        ELSE IF p < RangeIndex(section) + n THEN section[RangeIndex(section)]
                        ELSE section[p - n + 1]
      BY Zenon DEF Placed
    <3> QED  BY <2>1, ExpansionFacts, SMTT(30)
  <2>3. SingletonCount(section) + n = count - offset
    BY <1>2
  <2> HIDE DEF Placed
  <2>4. Len(Expansion(section, n)) = count - offset /\ \A p \in 1..(count - offset) : Placed(p)
    BY <2>2, <2>3
  <2> QED  BY <2>4 DEF Placed
<1>4. ASSUME NEW m \in members
      PROVE  scripts[m] \in Expansion(section, n)[Position(members, m) + 1].targets
  <2> DEFINE q == Position(members, m)
             k == RangeIndex(section)
             j == IF ~HasRange(section) \/ q + 1 < k THEN q + 1
                  ELSE IF q + 1 < k + n THEN k ELSE q - n + 2
  <2>1. q \in 0..(count - offset - 1) /\ q \in Int
    BY PositionBounds
  <2> HIDE DEF q
  <2>2. Expansion(section, n)[q + 1] = section[j]
    <3>1. q + 1 \in 1..(count - offset) /\ (q + 1) - n + 1 = q - n + 2
      BY <1>2, <2>1
    <3> QED  BY <1>3, <3>1
  <2>3. HasRange(section) =>
          k \in 1..Len(section) /\ count - offset = Len(section) - 1 + n
    BY <1>1, <1>2 DEF SingletonCount
  <2>4. ~HasRange(section) => count - offset = Len(section)
    BY <1>1, <1>2 DEF SingletonCount, n
  <2>5. j \in DOMAIN section /\ offset + q \in Positions(section, j, offset, count)
    <3>1. CASE ~HasRange(section) \/ q + 1 < k
      <4>1. j = q + 1 /\ j \in DOMAIN section
        <5> DEFINE len == Len(section)
                   total == count - offset
        <5>1. /\ q \in Int /\ q >= 0 /\ q <= total - 1 /\ total \in Int /\ len \in Int
              /\ HasRange(section) => k \in 1..len
              /\ ~HasRange(section) => total = len
          BY <1>1, <2>1, <2>3, <2>4
        <5> HIDE DEF len, total, k
        <5>2. j = q + 1
          BY <3>1
        <5>3. q + 1 \in 1..len
          BY <3>1, <5>1
        <5> HIDE DEF j
        <5> QED  BY <1>1, <5>2, <5>3 DEF len
      <4>2. Location(section, q + 1) = [kind |-> "FromStart", index |-> q]
        BY <2>1, <3>1 DEF Location
      <4> QED  BY <4>1, <4>2 DEF Positions
    <3>2. CASE HasRange(section) /\ q + 1 >= k /\ q + 1 < k + n
      <4>1. j = k /\ j \in DOMAIN section
        BY <1>1, <2>1, <2>3, <3>2
      <4>2. Location(section, k) = [kind |-> "Range", index |-> k - 1]
        BY <2>3, <3>2 DEF Location
      <4>3. RangeCount(section, offset, count) = n
        BY <3>2 DEF n
      <4>4. offset + q \in (offset + (k - 1))..(offset + (k - 1) + n - 1)
        BY <1>2, <2>1, <2>3, <3>2
      <4> HIDE DEF j, k
      <4> QED  BY <4>1, <4>2, <4>3, <4>4 DEF Positions
    <3>3. CASE HasRange(section) /\ q + 1 >= k + n
      <4>1. j = q - n + 2 /\ j \in DOMAIN section /\ j > k
        <5> DEFINE len == Len(section)
                   total == count - offset
        <5>1. /\ k \in Int /\ k >= 1 /\ len \in Int /\ n \in Nat /\ q \in Int
              /\ q <= total - 1 /\ total = len - 1 + n /\ total \in Int
          BY <1>1, <1>2, <2>1, <2>3, <3>3
        <5> HIDE DEF k, len, total
        <5>2. j = q - n + 2
          BY <3>3, <5>1
        <5>3. q - n + 2 \in 1..len /\ q - n + 2 > k
          BY <3>3, <5>1
        <5> HIDE DEF j
        <5> QED  BY <1>1, <5>2, <5>3 DEF len
      <4>2. Location(section, j) = [kind |-> "FromEnd", index |-> Len(section) - j + 1]
        BY <2>3, <3>3, <4>1 DEF Location
      <4>3. count - (Len(section) - j + 1) = offset + q
        <5> DEFINE len == Len(section)
        <5>1. /\ count \in Int /\ offset \in Int /\ q \in Int /\ n \in Int /\ len \in Int
              /\ count - offset = len - 1 + n
          BY <1>1, <1>2, <2>1, <2>3, <3>3
        <5> HIDE DEF len, j, k
        <5>2. len - (q - n + 2) + 1 = count - offset - q
          BY <5>1
        <5>3. count - (count - offset - q) = offset + q
          BY <5>1
        <5>4. len - j + 1 = count - offset - q
          BY <4>1, <5>2
        <5> QED  BY <5>3, <5>4 DEF len
      <4> HIDE DEF j, k
      <4>4. Positions(section, j, offset, count) = {count - (Len(section) - j + 1)}
        BY <4>2 DEF Positions
      <4> QED  BY <4>1, <4>3, <4>4
    <3> QED  BY <1>2, <2>1, <2>3, <3>1, <3>2, <3>3
  <2> HIDE DEF j
  <2>6. (offset + q) - offset = Position(members, m)
    BY <2>1 DEF q
  <2>7. scripts[m] \in section[j].targets
    BY <2>5, <2>6
  <2> QED  BY <2>2, <2>7 DEF q
<1> QED  BY <1>2, <1>3, <1>4 DEF Matches

\* Rule 4 of one entry, whatever the other inputs of the transaction do.
LEMMA EntryOutputsMatch ==
  ASSUME NEW a \in Apps, NEW t, TxShape(a, t), NEW i \in DOMAIN t.inputs,
         ValidEntry(a, t.inputs[i].entry), EntrySucceeds(a, t, i)
  PROVE  Matches(t.inputs[i].entry.emits, AuthOutputs(t, i), OutputScripts(t))
<1> DEFINE section == t.inputs[i].entry.emits
           auth == AuthOutputs(t, i)
           count == Cardinality(auth)
<1>2. ValidSection(section, a.actors)
  BY DEF ValidEntry
<1>3. auth \in SUBSET Nat /\ IsFiniteSet(auth) /\ count \in Nat
  BY GroupFacts
<1>4. /\ ~HasRange(section) => count = 0 + Len(section)
      /\ RangeCountInBounds(section, 0, count)
  BY <1>2, SectionFacts DEF EntrySucceeds, CurrentOutputPrelude
<1>5. ASSUME NEW j \in DOMAIN section, NEW p \in Positions(section, j, 0, count),
             NEW m \in auth, Position(auth, m) = p - 0
      PROVE  OutputScripts(t)[m] \in section[j].targets
  <2>1. PICK o \in auth : MemberAt(auth, p, o) /\ t.outputs[o].script \in section[j].targets
    BY DEF EntrySucceeds, RoutesCheck
  <2>2. p \in Int
    <3>1. Position(auth, o) \in Int
      BY <1>3, PositionBounds
    <3> QED  BY <2>1, <3>1 DEF MemberAt
  <2>3. m = o
    BY <1>3, <1>5, <2>1, <2>2, PositionUnique DEF MemberAt
  <2>4. m \in DOMAIN t.outputs
    BY DEF AuthOutputs
  <2> QED  BY <2>1, <2>3, <2>4 DEF OutputScripts
<1>6. Cardinality(auth) = count - 0
  BY <1>3
<1> HIDE DEF section, auth, count
<1>7. Matches(section, auth, OutputScripts(t))
  BY <1>2, <1>3, <1>4, <1>5, <1>6, ReadsMatch
<1> QED  BY <1>7 DEF section, auth

\* Rule 4: an entry's authorized outputs are the items of its `emits`.
LEMMA OutputsMatch ==
  ASSUME NEW a \in Apps, NEW t, Validated(a, t), NEW i \in DOMAIN t.inputs,
         t.inputs[i].script # Alien
  PROVE  Matches(t.inputs[i].entry.emits, AuthOutputs(t, i), OutputScripts(t))
<1>1. TxShape(a, t) /\ EntrySucceeds(a, t, i)
  BY DEF Validated, ScriptSucceeds
<1>2. ValidEntry(a, t.inputs[i].entry)
  BY <1>1, InputFacts
<1> QED  BY <1>1, <1>2, EntryOutputsMatch

\* Without its first member, a group keeps its order.
LEMMA PositionWithoutFirst ==
  ASSUME NEW S \in SUBSET Nat, IsFiniteSet(S), NEW l \in S, Position(S, l) = 0,
         NEW m \in S \ {l}
  PROVE  Position(S \ {l}, m) = Position(S, m) - 1
<1> DEFINE below == {j \in S : j < m}
<1>1. {j \in S : j < l} = {}
  <2>1. IsFiniteSet({j \in S : j < l})
    BY FS_Subset
  <2> QED  BY <2>1, FS_EmptySet DEF Position
<1>2. l < m
  <2>1. l \in Nat /\ m \in Nat /\ ~(m < l) /\ m # l
    BY <1>1
  <2> QED  BY <2>1
<1>3. {j \in S \ {l} : j < m} = below \ {l} /\ l \in below
  BY <1>2
<1>4. IsFiniteSet(below)
  BY FS_Subset
<1>5. Cardinality(below \ {l}) = Cardinality(below) - 1
  BY <1>3, <1>4, FS_RemoveElement
<1> QED  BY <1>3, <1>5 DEF Position

\* Rule 3: beside a coordinated leader, its group is the items of `consumes`.
LEMMA InputsMatch ==
  ASSUME NEW a \in Apps, NEW t, Validated(a, t), NEW l \in DOMAIN t.inputs,
         Coordinates(t, l)
  PROVE  Matches(t.inputs[l].entry.consumes, Group(t, l) \ {l}, InputScripts(t))
<1> DEFINE e == t.inputs[l].entry
           section == e.consumes
           group == Group(t, l)
           count == Cardinality(group)
           members == group \ {l}
<1>1. /\ e.kind = "leader" /\ section # <<>> /\ ValidEntry(a, e)
      /\ e.actor \in a.actors /\ t.inputs[l].cov \in Cov
      /\ EntrySucceeds(a, t, l) /\ TxShape(a, t)
  BY InputFacts
  DEF Validated, Coordinates, CoordinatesCurrentOutputs, AlienEntry, ScriptSucceeds, ValidEntry
<1>2. ValidSection(section, a.actors)
  BY <1>1 DEF ValidEntry
<1>3. group \in SUBSET Nat /\ IsFiniteSet(group) /\ count \in Nat
  BY <1>1, GroupFacts DEF Group
<1>4. l \in group /\ Position(group, l) = 0
  BY CoordinatorFacts DEF MemberAt
<1>5. /\ GroupPolicy(a, e) # "Batchable" /\ SlotOffset(e) = 1
      /\ ~HasRange(section) => GroupPolicy(a, e) = "LeaderFixed"
  BY <1>1, PolicyCases DEF SlotOffset
<1>6. ~HasRange(section) => count = 1 + Len(section)
  <2>1. Len(section) \in Nat
    BY <1>2, SectionFacts
  <2>2. GroupPolicyCheck(a, t, l)
    BY <1>1 DEF EntrySucceeds, CurrentInputPrelude
  <2>3. ~HasRange(section) => count = GroupCount(e)
    BY <1>5, <2>2 DEF GroupPolicyCheck, Group
  <2>4. GroupCount(e) = Len(section) + 1
    BY DEF GroupCount
  <2> HIDE DEF section, count, e
  <2> QED  BY <2>1, <2>3, <2>4
<1>7. /\ RangeCountInBounds(section, 1, count)
      /\ \A j \in DOMAIN section : \A p \in Positions(section, j, 1, count) :
           \E m \in group : MemberAt(group, p, m) /\ ReadsConsumed(a, t, e, j, m)
  BY <1>1, <1>5 DEF EntrySucceeds, CurrentInputPrelude, ConsumesCheck, Group
<1>8. members \in SUBSET Nat /\ IsFiniteSet(members) /\ Cardinality(members) = count - 1
  BY <1>3, <1>4, FS_RemoveElement
<1>9. ASSUME NEW j \in DOMAIN section, NEW p \in Positions(section, j, 1, count),
             NEW m \in members, Position(members, m) = p - 1
      PROVE  InputScripts(t)[m] \in section[j].targets
  <2>1. PICK x \in group : MemberAt(group, p, x) /\ ReadsConsumed(a, t, e, j, x)
    BY <1>7
  <2>2. m = x
    <3>1. Position(members, m) = Position(group, m) - 1
      BY <1>3, <1>4, PositionWithoutFirst
    <3>2. Position(group, m) \in Int /\ Position(group, x) \in Int /\ Position(group, x) = p
      BY <1>3, <2>1, PositionBounds DEF MemberAt
    <3>3. Position(group, m) = Position(group, x)
      BY <1>9, <3>1, <3>2
    <3> QED  BY <1>3, <3>3, PositionUnique
  <2>3. m \in DOMAIN t.inputs /\ t.inputs[m].cov \in Cov
    BY <1>1 DEF Group, CovInputs
  <2>4. t.inputs[m].script \in a.actors
    BY <1>1, <2>3, InputFacts DEF Validated
  <2>5. t.inputs[m].script \in section[j].targets
    BY <2>1, <2>2, <2>4 DEF ReadsConsumed, CovenantDomainRead
  <2> QED  BY <2>3, <2>5 DEF InputScripts
<1> HIDE DEF e, section, group, count, members
<1>10. Matches(section, members, InputScripts(t))
  BY <1>2, <1>3, <1>6, <1>7, <1>8, <1>9, ReadsMatch
<1> QED  BY <1>10 DEF section, members, group, e

-----------------------------------------------------------------------------
(* What an entry accepts on its own, whatever else the transaction holds.   *)

\* Conversely, what matches a section passes its count checks, and every position
\* that the index arithmetic of a clause reaches holds what the clause permits.
LEMMA MatchReads ==
  ASSUME NEW actors, NEW section, ValidSection(section, actors),
         NEW members \in SUBSET Nat, IsFiniteSet(members), NEW scripts,
         Matches(section, members, scripts)
  PROVE  /\ ~HasRange(section) => Cardinality(members) = Len(section)
         /\ RangeCountInBounds(section, 0, Cardinality(members))
         /\ \A j \in DOMAIN section :
              \A p \in Positions(section, j, 0, Cardinality(members)) :
                \E m \in members : /\ MemberAt(members, p, m)
                                   /\ scripts[m] \in section[j].targets
<1> DEFINE count == Cardinality(members)
           k == RangeIndex(section)
           single == SingletonCount(section)
<1>1. /\ Len(section) \in Nat /\ DOMAIN section = 1..Len(section)
      /\ HasRange(section) => k \in RangeIndexes(section) /\ k \in 1..Len(section)
      /\ single = IF HasRange(section) THEN Len(section) - 1 ELSE Len(section)
      /\ single \in Nat
  BY SectionFacts DEF SingletonCount
<1>2. PICK n \in RangeLengths(section) :
        /\ count = Len(Expansion(section, n))
        /\ \A m \in members : scripts[m] \in Expansion(section, n)[Position(members, m) + 1].targets
  BY DEF Matches
<1>3. /\ n \in Nat /\ (~HasRange(section) => n = 0)
      /\ HasRange(section) => section[k].min <= n /\ n <= section[k].max
  <2>1. HasRange(section) => section[k].min \in Nat /\ section[k].max \in Nat
    BY <1>1, ClauseFacts
  <2> QED  BY <1>2, <2>1 DEF RangeLengths
<1>4. /\ Len(Expansion(section, n)) = single + n
      /\ \A p \in 1..(single + n) :
           Expansion(section, n)[p] =
             IF ~HasRange(section) \/ p < k THEN section[p]
             ELSE IF p < k + n THEN section[k]
             ELSE section[p - n + 1]
  BY <1>3, ExpansionFacts
<1>5. count = single + n /\ count \in Nat
  BY <1>2, <1>4, <1>1, <1>3
<1>6. RangeCount(section, 0, count) = n
  BY <1>1, <1>3, <1>5 DEF RangeCount
<1>7. ~HasRange(section) => count = Len(section)
  BY <1>1, <1>3, <1>5
<1>8. RangeCountInBounds(section, 0, count)
  <2> SUFFICES ASSUME NEW j \in RangeIndexes(section)
               PROVE  n >= section[j].min /\ n <= section[j].max
    BY <1>6 DEF RangeCountInBounds
  <2>1. HasRange(section) /\ j = k
    BY <1>1 DEF ValidSection, HasRange
  <2>2. section[k].min \in Nat /\ section[k].max \in Nat
    BY <1>1, <2>1, ClauseFacts
  <2> HIDE DEF k
  <2> QED  BY <1>3, <2>1, <2>2
<1>9. ASSUME NEW j \in DOMAIN section, NEW p \in Positions(section, j, 0, count)
      PROVE  p \in 0..(count - 1) /\ Expansion(section, n)[p + 1] = section[j]
  <2>0. j \in 1..Len(section) /\ j \in Int
    BY <1>1
  <2>1. CASE ~HasRange(section) \/ j < k
    <3>1. Location(section, j) = [kind |-> "FromStart", index |-> j - 1]
      BY <2>1 DEF Location
    <3>2. p = 0 + (j - 1)
      BY <3>1 DEF Positions
    <3>3. j <= single + n
      <4>1. CASE ~HasRange(section)
        BY <1>1, <1>3, <2>0, <4>1
      <4>2. CASE HasRange(section) /\ j < k
        BY <1>1, <1>3, <2>0, <4>2
      <4> QED  BY <2>1, <4>1, <4>2
    <3>4. /\ single \in Nat /\ n \in Nat /\ count = single + n
          /\ j \in Int /\ j >= 1 /\ p = 0 + (j - 1)
      BY <1>1, <1>3, <1>5, <2>0, <3>2
    <3> HIDE DEF k, count, single
    <3>5. p = j - 1 /\ p + 1 = j /\ p + 1 \in 1..(single + n) /\ p \in 0..(count - 1)
      BY <3>3, <3>4
    <3> QED  BY <1>4, <2>1, <3>5
  <2>2. CASE HasRange(section) /\ j = k
    <3>1. Location(section, j) = [kind |-> "Range", index |-> j - 1]
      BY <1>1, <2>2 DEF Location
    <3>2. p \in (0 + (j - 1))..(0 + (j - 1) + RangeCount(section, 0, count) - 1)
      BY <3>1 DEF Positions
    <3>3. p \in (0 + (j - 1))..(0 + (j - 1) + n - 1)
      BY <1>6, <3>2
    <3> HIDE DEF k, count, single
    <3>4. /\ p \in Int /\ p + 1 \in 1..(single + n) /\ p \in 0..(count - 1)
          /\ ~(p + 1 < k) /\ p + 1 < k + n
      <4>1. j \in Int /\ p \in Int /\ p >= j - 1 /\ p <= j + n - 2 /\ n \in Int
        BY <1>1, <1>3, <1>5, <2>0, <2>2, <3>3
      <4>2. j = k /\ j >= 1 /\ j <= single + 1 /\ count = single + n /\ single \in Int
        BY <1>1, <1>3, <1>5, <2>0, <2>2
      <4> QED  BY <4>1, <4>2
    <3> QED  BY <1>4, <2>2, <3>4
  <2>3. CASE HasRange(section) /\ j > k
    <3>1. Location(section, j) = [kind |-> "FromEnd", index |-> Len(section) - j + 1]
      BY <1>1, <2>0, <2>3 DEF Location
    <3>2. p = count - (Len(section) - j + 1)
      BY <3>1 DEF Positions
    <3> DEFINE len == Len(section)
    <3>3. /\ len \in Nat /\ k \in Int /\ k >= 1 /\ k < j /\ j <= len
          /\ count = len - 1 + n /\ single + n = len - 1 + n
      BY <1>1, <1>5, <2>0, <2>3
    <3> HIDE DEF k, count, single, len
    <3>4. p = count - (len - j + 1)
      BY <3>2 DEF len
    <3>5. p = n + j - 2
      BY <1>3, <2>0, <3>3, <3>4
    <3>6. /\ j \in Int /\ n \in Nat /\ p \in Int
          /\ single + n = len - 1 + n /\ count = len - 1 + n
      BY <1>3, <2>0, <3>3, <3>5
    <3>7. p + 1 \in 1..(single + n) /\ p \in 0..(count - 1)
      <4>1. p + 1 >= 1 /\ p + 1 <= len - 1 + n
        BY <3>3, <3>5, <3>6
      <4> QED  BY <3>3, <3>6, <4>1
    <3>8. ~(p + 1 < k) /\ ~(p + 1 < k + n)
      BY <3>3, <3>5, <3>6
    <3>9. (p + 1) - n + 1 = j
      BY <3>5, <3>6
    <3> QED  BY <1>4, <2>3, <3>6, <3>7, <3>8, <3>9
  <2> HIDE DEF k
  <2> QED  BY <1>1, <2>0, <2>1, <2>2, <2>3
<1>10. ASSUME NEW j \in DOMAIN section, NEW p \in Positions(section, j, 0, count)
       PROVE  \E m \in members : MemberAt(members, p, m) /\ scripts[m] \in section[j].targets
  <2>1. p \in Int /\ p + 1 \in 1..count /\ (p + 1) - 1 = p
    BY <1>5, <1>9
  <2>2. Nth(members, p + 1) \in members /\ Position(members, Nth(members, p + 1)) = p
    BY <2>1, NthFacts
  <2> QED  BY <1>2, <1>9, <2>2 DEF MemberAt
<1> QED  BY <1>7, <1>8, <1>10

\* An independent entry that always continues is accepted exactly when the
\* outputs it authorizes are those it declares.
LEMMA IndependentAccepts ==
  ASSUME NEW a \in Apps, NEW t, TxShape(a, t), NEW i \in DOMAIN t.inputs,
         IndependentContinuation(a, t.inputs[i].entry)
  PROVE  EntrySucceeds(a, t, i)
           <=> Matches(t.inputs[i].entry.emits, AuthOutputs(t, i), OutputScripts(t))
<1> DEFINE e == t.inputs[i].entry
           auth == AuthOutputs(t, i)
<1>1. e.kind = "leader" /\ e.consumes = <<>> /\ AllowsCovenantBatching(a, e)
  BY DEF IndependentContinuation, AllowsCovenantBatching
<1>2. ValidEntry(a, e) /\ ValidSection(e.emits, a.actors)
  BY <1>1, InputFacts DEF AlienEntry, ValidEntry
<1>3. EntrySucceeds(a, t, i) => Matches(e.emits, auth, OutputScripts(t))
  BY <1>2, EntryOutputsMatch
<1>4. ASSUME Matches(e.emits, auth, OutputScripts(t))
      PROVE  EntrySucceeds(a, t, i)
  <2>1. auth \in SUBSET Nat /\ IsFiniteSet(auth)
    BY GroupFacts
  <2>2. /\ ~HasRange(e.emits) => Cardinality(auth) = Len(e.emits)
        /\ RangeCountInBounds(e.emits, 0, Cardinality(auth))
        /\ \A j \in DOMAIN e.emits : \A p \in Positions(e.emits, j, 0, Cardinality(auth)) :
             \E m \in auth : MemberAt(auth, p, m) /\ OutputScripts(t)[m] \in e.emits[j].targets
    BY <1>2, <1>4, <2>1, MatchReads
  <2>3. CurrentInputPrelude(a, t, i)
    <3>1. GroupPolicy(a, e) = "Batchable"
      BY <1>1 DEF GroupPolicy
    <3>2. ~RequiresOptionalDelegateGuard(a, e)
      <4>1. PICK j \in DOMAIN e.emits : e.emits[j].min > 0
        BY DEF IndependentContinuation
      <4>2. e.emits[j].min # 0
        BY <4>1
      <4> QED  BY <4>2 DEF RequiresOptionalDelegateGuard
    <3> QED  BY <3>1, <3>2 DEF CurrentInputPrelude, GroupPolicyCheck, OptionalDelegateCheck
  <2>4. CurrentOutputPrelude(t, i)
    BY <1>1, <2>2 DEF CurrentOutputPrelude, CoordinatesCurrentOutputs
  <2>5. RoutesCheck(t, i)
    <3>1. \A o \in auth : OutputScripts(t)[o] = t.outputs[o].script
      BY DEF AuthOutputs, OutputScripts
    <3> QED  BY <2>2, <3>1 DEF RoutesCheck
  <2> QED  BY <2>3, <2>4, <2>5 DEF EntrySucceeds
<1> QED  BY <1>3, <1>4

-----------------------------------------------------------------------------
(* The builder's check of the number of inputs.                             *)

\* A non-empty set of numbers has a least one.
LEMMA LeastNatural ==
  ASSUME NEW T \in SUBSET Nat, T # {}
  PROVE  \E m \in T : \A n \in T : m <= n
<1> DEFINE R == OpToRel(<, Nat)
<1>1. PICK m \in T : \A n \in T : ~ (<<n, m>> \in R)
  <2> HIDE DEF R
  <2>1. IsWellFoundedOn(R, Nat)
    BY NatLessThanWellFounded DEF R
  <2> QED  BY <2>1, WFMin
<1>2. \A n \in T : n < m => <<n, m>> \in R
  BY DEF OpToRel
<1> HIDE DEF R
<1>3. ASSUME NEW n \in T
      PROVE  m <= n
  <2>1. m \in Nat /\ n \in Nat /\ ~(n < m)
    BY <1>1, <1>2
  <2> QED  BY <2>1
<1> QED  BY <1>3

\* Functions that agree at 0 and, having agreed, at the next number agree.
LEMMA AgreeByInduction ==
  ASSUME NEW n \in Nat, NEW f, NEW g,
         f[0] = g[0],
         \A k \in 1..n : f[k - 1] = g[k - 1] => f[k] = g[k]
  PROVE  f[n] = g[n]
<1> DEFINE Bad == {k \in 0..n : f[k] # g[k]}
<1>1. SUFFICES ASSUME Bad # {}  PROVE FALSE
  BY <1>1
<1>2. PICK m \in Bad : \A k \in Bad : m <= k
  <2>1. Bad \in SUBSET Nat
    OBVIOUS
  <2> HIDE DEF Bad
  <2> QED  BY <1>1, <2>1, LeastNatural
<1>3. m # 0
  BY <1>2
<1>4. m \in 1..n /\ m - 1 \in 0..n /\ ~(m <= m - 1)
  BY <1>2, <1>3
<1>5. f[m - 1] = g[m - 1]
  BY <1>2, <1>4
<1>6. f[m] = g[m]
  BY <1>4, <1>5
<1> QED  BY <1>2, <1>6

\* The bound on a group's inputs: the singletons, the range, the leader itself.
LEMMA BoundFacts ==
  ASSUME NEW actors, NEW e, ValidSection(e.consumes, actors),
         NEW field \in {"min", "max"}
  PROVE  InputBound(e, field) =
           IF HasRange(e.consumes)
             THEN Len(e.consumes) + e.consumes[RangeIndex(e.consumes)][field]
             ELSE Len(e.consumes) + 1
<1> DEFINE section == e.consumes
           n == Len(section)
           r == RangeIndex(section)
           size == section[r][field]
           g == [k \in 0..n |-> IF HasRange(section) /\ r <= k THEN k + size ELSE 1 + k]
           Total(f) == f = [k \in 0..n |-> IF k = 0 THEN 1 ELSE f[k - 1] + section[k][field]]
<1>1. /\ n \in Nat /\ DOMAIN section = 1..n
      /\ HasRange(section) => r \in 1..n /\ r \in RangeIndexes(section)
  BY SectionFacts
<1>2. ASSUME NEW k \in 1..n
      PROVE  /\ section[k][field] \in Nat
             /\ ~(HasRange(section) /\ k = r) => section[k][field] = 1
  <2>1. k \in DOMAIN section
    BY <1>1
  <2>2. section[k].min \in Nat /\ section[k].max \in Nat
    BY <2>1, ClauseFacts
  <2>3. ~section[k].range => section[k].min = 1 /\ section[k].max = 1
    BY <2>1 DEF ValidSection, ResolvedCardinality
  <2>4. section[k].range => HasRange(section) /\ k = r
    BY <1>1, <2>1 DEF ValidSection, HasRange, RangeIndexes
  <2> QED  BY <2>2, <2>3, <2>4
<1>3. HasRange(section) => size \in Nat /\ r \in 1..n
  BY <1>1, <1>2
<1> HIDE DEF r, size
<1>4. g[0] = 1
  BY <1>1, <1>3
<1>5. ASSUME NEW k \in 1..n
      PROVE  g[k] = g[k - 1] + section[k][field]
  <2>1. k \in 0..n /\ k - 1 \in 0..n /\ k \in Int
    BY <1>1
  <2>2. CASE HasRange(section) /\ r = k
    <3>1. section[k][field] = size
      BY <2>2 DEF size
    <3>2. g[k] = k + size /\ g[k - 1] = 1 + (k - 1)
      BY <1>3, <2>1, <2>2
    <3> HIDE DEF g
    <3> QED  BY <1>3, <2>1, <2>2, <3>1, <3>2
  <2>3. CASE HasRange(section) /\ r < k
    <3>1. section[k][field] = 1
      BY <1>2, <1>3, <2>1, <2>3
    <3>2. g[k] = k + size /\ g[k - 1] = (k - 1) + size
      BY <1>3, <2>1, <2>3
    <3> HIDE DEF g
    <3> QED  BY <1>3, <2>1, <2>3, <3>1, <3>2
  <2>4. CASE ~(HasRange(section) /\ r <= k)
    <3>1. section[k][field] = 1
      BY <1>2, <1>3, <2>1, <2>4
    <3>2. g[k] = 1 + k /\ g[k - 1] = 1 + (k - 1)
      BY <1>3, <2>1, <2>4
    <3> HIDE DEF g
    <3> QED  BY <2>1, <3>1, <3>2
  <2> HIDE DEF g
  <2> QED  BY <1>3, <2>1, <2>2, <2>3, <2>4
<1>6. Total(g)
  <2>1. \A k \in 0..n : g[k] = IF k = 0 THEN 1 ELSE g[k - 1] + section[k][field]
    <3> SUFFICES ASSUME NEW k \in 0..n
                 PROVE  g[k] = IF k = 0 THEN 1 ELSE g[k - 1] + section[k][field]
      OBVIOUS
    <3> HIDE DEF g
    <3>1. k # 0 => k \in 1..n
      BY <1>1
    <3> QED  BY <1>4, <1>5, <3>1
  <2> QED  BY <2>1
<1> DEFINE f == CHOOSE h : Total(h)
<1>7. InputBound(e, field) = f[n]
  BY DEF InputBound
<1> HIDE DEF g
<1>8. Total(f)
  <2> HIDE DEF Total
  <2> QED  BY <1>6
<1>9. f[n] = g[n]
  <2>1. f = [k \in 0..n |-> IF k = 0 THEN 1 ELSE f[k - 1] + section[k][field]]
    BY <1>8
  <2> HIDE DEF f, n, section
  <2>2. f[0] = g[0] /\ \A k \in 1..n : f[k] = f[k - 1] + section[k][field]
    BY <1>1, <1>4, <2>1
  <2>3. \A k \in 1..n : f[k - 1] = g[k - 1] => f[k] = g[k]
    BY <1>5, <2>2
  <2> QED  BY <1>1, <2>2, <2>3, AgreeByInduction
<1>10. g[n] = IF HasRange(section) THEN n + size ELSE n + 1
  BY <1>1, <1>3 DEF g
<1> QED  BY <1>7, <1>9, <1>10 DEF size, r

\* The runtime builder never refuses, by the number of inputs, what the script
\* of the leader accepts.
LEMMA PrecheckAccepts ==
  ASSUME NEW a \in Apps, NEW t, TxShape(a, t), NEW i \in DOMAIN t.inputs,
         t.inputs[i].script # Alien, EntrySucceeds(a, t, i)
  PROVE  LeaderInputCountAccepted(a, t, i)
<1> DEFINE e == t.inputs[i].entry
           section == e.consumes
           found == Cardinality(CovInputs(t, t.inputs[i].cov))
           r == RangeIndex(section)
<1> SUFFICES ASSUME e.kind = "leader", IsLeaderActor(a, e.actor)
             PROVE  InputBound(e, "min") <= found /\ found <= InputBound(e, "max")
  BY DEF LeaderInputCountAccepted
<1>1. ValidEntry(a, e) /\ ValidSection(section, a.actors)
  BY InputFacts DEF ValidEntry
<1>2. found \in Nat
  BY GroupFacts
<1>3. /\ Len(section) \in Nat /\ DOMAIN section = 1..Len(section)
      /\ HasRange(section) => r \in RangeIndexes(section) /\ r \in 1..Len(section)
  BY <1>1, SectionFacts
<1>4. \/ GroupPolicy(a, e) = "LeaderRanged" /\ HasRange(section)
      \/ GroupPolicy(a, e) = "LeaderFixed" /\ ~HasRange(section)
  BY DEF GroupPolicy, AllowsCovenantBatching
<1>5. CASE GroupPolicy(a, e) = "LeaderFixed" /\ ~HasRange(section)
  <2>1. GroupPolicyCheck(a, t, i)
    BY DEF EntrySucceeds, CurrentInputPrelude
  <2>2. found = GroupCount(e)
    BY <1>5, <2>1 DEF GroupPolicyCheck
  <2>3. found = Len(section) + 1
    BY <2>2 DEF GroupCount
  <2>4. InputBound(e, "min") = Len(section) + 1 /\ InputBound(e, "max") = Len(section) + 1
    BY <1>1, <1>5, BoundFacts
  <2> HIDE DEF found
  <2> QED  BY <1>2, <2>3, <2>4
<1>6. CASE GroupPolicy(a, e) = "LeaderRanged" /\ HasRange(section)
  <2>1. RangeCountInBounds(section, 1, found)
    <3>1. GroupPolicy(a, e) # "Batchable" /\ SlotOffset(e) = 1
      BY <1>6 DEF SlotOffset
    <3>2. ConsumesCheck(a, t, i)
      BY <3>1 DEF EntrySucceeds, CurrentInputPrelude
    <3> QED  BY <3>1, <3>2 DEF ConsumesCheck
  <2>2. RangeCount(section, 1, found) = found - Len(section)
    <3>1. SingletonCount(section) = Len(section) - 1
      BY <1>6 DEF SingletonCount
    <3> HIDE DEF found, section
    <3> QED  BY <1>2, <1>3, <3>1 DEF RangeCount
  <2>3. section[r].min <= found - Len(section) /\ found - Len(section) <= section[r].max
    <3>1. section[r].min \in Nat /\ section[r].max \in Nat
      BY <1>1, <1>3, <1>6, ClauseFacts
    <3>2. /\ RangeCount(section, 1, found) >= section[r].min
          /\ RangeCount(section, 1, found) <= section[r].max
      BY <1>3, <1>6, <2>1 DEF RangeCountInBounds
    <3> HIDE DEF found, section, r
    <3> QED  BY <1>2, <1>3, <2>2, <3>1, <3>2
  <2>4. /\ InputBound(e, "min") = Len(section) + section[r].min
        /\ InputBound(e, "max") = Len(section) + section[r].max
    BY <1>1, <1>6, BoundFacts
  <2>5. section[r].min \in Nat /\ section[r].max \in Nat
    BY <1>1, <1>3, <1>6, ClauseFacts
  <2> HIDE DEF found, section, r
  <2> QED  BY <1>2, <1>3, <2>3, <2>4, <2>5
<1> QED  BY <1>4, <1>5, <1>6

-----------------------------------------------------------------------------
(* The inductive invariant.                                                *)

\* The state of CovenantTx with its transaction's shape named.
LEMMA TypeShape ==
  ASSUME TypeOK
  PROVE  app \in Apps /\ TxShape(app, tx)
BY DEF TypeOK, TxShape

\* The empty transaction is well formed and spends nothing.
LEMMA NoTxShape ==
  /\ \A a \in Apps : TxShape(a, NoTx)
  /\ Len(NoTx.inputs) = 0
  /\ \A c, s : Spent(NoTx, c, s) = 0
<1>1. NoTx.inputs = <<>> /\ NoTx.outputs = <<>>
  BY DEF NoTx
<1>2. \A c, s : {i \in CovInputs(NoTx, c) : NoTx.inputs[i].script = s} = {}
  BY <1>1 DEF CovInputs
<1> QED  BY <1>1, <1>2, FS_EmptySet DEF TxShape, Spent

\* What a transaction spends and creates are numbers.
LEMMA SpentType ==
  ASSUME NEW a \in Apps, NEW t, TxShape(a, t), NEW c, NEW s
  PROVE  /\ Spent(t, c, s) \in Nat
         /\ Created(t, c, s) \in Nat
         /\ IsFiniteSet({i \in CovInputs(t, c) : t.inputs[i].script = s})
<1>1. IsFiniteSet(CovInputs(t, c)) /\ IsFiniteSet(CovOutputs(t, c))
  BY GroupFacts
<1>2. /\ IsFiniteSet({i \in CovInputs(t, c) : t.inputs[i].script = s})
      /\ IsFiniteSet({o \in CovOutputs(t, c) : t.outputs[o].script = s})
  BY <1>1, FS_Subset
<1> QED  BY <1>2, FS_CardinalityType DEF Spent, Created

\* A covenant that holds no alien coin has no alien input.
LEMMA NoAlienInput ==
  ASSUME IInv, NEW i \in DOMAIN tx.inputs, tx.inputs[i].cov \in Cov
  PROVE  tx.inputs[i].script # Alien
<1> SUFFICES ASSUME tx.inputs[i].script = Alien  PROVE FALSE
  OBVIOUS
<1> DEFINE c == tx.inputs[i].cov
           S == {j \in CovInputs(tx, c) : tx.inputs[j].script = Alien}
<1>1. app \in Apps /\ TxShape(app, tx)
  BY TypeShape DEF IInv
<1>2. i \in S /\ IsFiniteSet(S)
  <2>1. i \in S
    BY DEF CovInputs
  <2>2. IsFiniteSet(CovInputs(tx, c))
    BY <1>1, GroupFacts
  <2>3. IsFiniteSet(S)
    BY <2>2, FS_Subset
  <2> QED  BY <2>1, <2>3
<1>3. Spent(tx, c, Alien) \in Nat /\ Spent(tx, c, Alien) # 0
  BY <1>1, <1>2, SpentType, FS_EmptySet DEF Spent
<1>4. Spent(tx, c, Alien) <= ledger[c][Alien]
  BY DEF IInv, Progress, Spendable, Script
<1>5. ledger[c][Alien] = 0
  BY <1>1, CovenantTxAssumption DEF IInv, ClosedDomain, Script
<1> QED  BY <1>3, <1>4, <1>5

\* Once the cursor has passed every input, every script has succeeded.
LEMMA ValidatedWhenAllSucceeded ==
  ASSUME IInv, AllSucceeded
  PROVE  app \in Apps /\ Validated(app, tx)
<1>1. app \in Apps /\ TxShape(app, tx)
  BY TypeShape DEF IInv
<1>2. DOMAIN tx.inputs = 1..(next - 1)
  BY <1>1, TxFacts DEF AllSucceeded
<1>3. \A i \in DOMAIN tx.inputs : ScriptSucceeds(app, tx, i)
  BY <1>2 DEF IInv, Progress, AllSucceeded
<1> QED  BY <1>1, <1>3, NoAlienInput DEF Validated

\* A validated transaction creates coins of the app's actors only.
LEMMA CreatesActors ==
  ASSUME NEW a \in Apps, NEW t, Validated(a, t), NEW c \in Cov, NEW s, s \notin a.actors
  PROVE  Created(t, c, s) = 0
<1>1. \A o \in CovOutputs(t, c) : t.outputs[o].script \in a.actors
  <2> SUFFICES ASSUME NEW o \in CovOutputs(t, c)  PROVE t.outputs[o].script \in a.actors
    OBVIOUS
  <2>1. PICK i \in CovInputs(t, c) : o \in AuthOutputs(t, i)
    BY AuthorizedByGroup DEF Validated
  <2>2. /\ i \in DOMAIN t.inputs /\ t.inputs[i].script # Alien
        /\ TxShape(a, t) /\ EntrySucceeds(a, t, i)
    BY <2>1 DEF CovInputs, Validated, ScriptSucceeds
  <2>3. ValidEntry(a, t.inputs[i].entry)
    BY <2>2, InputFacts
  <2> QED  BY <2>1, <2>2, <2>3, EntryCreatesActors
<1>2. {o \in CovOutputs(t, c) : t.outputs[o].script = s} = {}
  BY <1>1
<1> QED  BY <1>2, FS_EmptySet DEF Created

\* An honest genesis establishes the invariant.
LEMMA InitIInv == Init => IInv
<1> SUFFICES ASSUME Init  PROVE IInv
  OBVIOUS
<1>1. /\ app \in Apps /\ tx = NoTx /\ next = 1 /\ phase = "idle"
      /\ ledger \in [Cov -> [Script -> 0..MaxCoins]]
      /\ \A c \in Cov, s \in Script : s \notin app.actors => ledger[c][s] = 0
  BY DEF Init, InitialLedgers
<1>2. ledger \in [Cov -> [Script -> Nat]]
  <2>1. \A c \in Cov : ledger[c] \in [Script -> Nat]
    BY <1>1, CovenantTxAssumption
  <2> QED  BY <1>1, <2>1
<1>3. TypeOK
  BY <1>1, <1>2, NoTxShape DEF TypeOK, TxShape
<1>4. Progress
  BY <1>1, <1>2, NoTxShape DEF Progress, Spendable
<1> QED  BY <1>1, <1>3, <1>4 DEF IInv, ClosedDomain

\* Dropping or finishing a transaction leaves nothing to spend.
LEMMA IdleIInv ==
  ASSUME app' \in Apps, ledger' \in [Cov -> [Script -> Nat]], ClosedDomain',
         phase' = "idle", tx' = NoTx, next' = 1
  PROVE  IInv'
<1>1. TypeOK'
  BY NoTxShape DEF TypeOK, TxShape
<1>2. Progress'
  BY NoTxShape DEF Progress, Spendable
<1> QED  BY <1>1, <1>2 DEF IInv

\* A proposal spends live coins and no script has run on it yet.
LEMMA ProposeIInv == IInv /\ Propose => IInv'
<1> SUFFICES ASSUME IInv, Propose  PROVE IInv'
  OBVIOUS
<1>1. PICK inputs \in BoundedSeqs(InputSpace(app), MaxInputs) \ {<<>>} :
        /\ Spendable(ledger, [inputs |-> inputs, outputs |-> <<>>])
        /\ \E outputs \in BoundedSeqs(OutputSpace(inputs), MaxOutputs) :
             tx' = [inputs |-> inputs, outputs |-> outputs]
  BY DEF Propose
<1>2. PICK outputs \in BoundedSeqs(OutputSpace(inputs), MaxOutputs) :
        tx' = [inputs |-> inputs, outputs |-> outputs]
  BY <1>1
<1>3. \A S, n : n \in Nat => BoundedSeqs(S, n) \subseteq Seq(S)
  BY SeqDef DEF BoundedSeqs
<1>4. inputs \in Seq(InputSpace(app)) /\ outputs \in Seq(OutputSpace(inputs))
  BY <1>3, CovenantTxAssumption
<1>5. /\ app' = app /\ ledger' = ledger /\ phase' = "running" /\ next' = 1
      /\ tx'.inputs = inputs /\ tx'.outputs = outputs
  BY <1>2 DEF Propose
<1>6. TypeOK'
  BY <1>4, <1>5 DEF IInv, TypeOK
<1>7. Spendable(ledger, tx')
  <2>1. \A c, s : Spent(tx', c, s) = Spent([inputs |-> inputs, outputs |-> <<>>], c, s)
    BY <1>5 DEF Spent, CovInputs
  <2> QED  BY <1>1, <2>1 DEF Spendable
<1>8. Progress'
  BY <1>5, <1>7 DEF Progress
<1>9. ClosedDomain'
  BY <1>5 DEF IInv, ClosedDomain
<1> QED  BY <1>6, <1>8, <1>9 DEF IInv

\* A script that succeeds moves the cursor over an input it vouches for.
LEMMA RunIInv ==
  ASSUME IInv, phase = "running", next \in DOMAIN tx.inputs,
         ScriptSucceeds(app, tx, next),
         next' = next + 1, UNCHANGED <<app, ledger, phase, tx>>
  PROVE  IInv'
<1>1. TxShape(app, tx) /\ app \in Apps
  BY TypeShape DEF IInv
<1>2. /\ Len(tx.inputs) \in Nat /\ DOMAIN tx.inputs = 1..Len(tx.inputs)
      /\ next \in 1..Len(tx.inputs)
  BY <1>1, TxFacts
<1>3. TypeOK'
  <2>1. next' \in 1..(Len(tx.inputs) + 1)
    BY <1>2
  <2> QED  BY <2>1 DEF IInv, TypeOK
<1>4. Progress'
  <2>1. \A i \in 1..next : ScriptSucceeds(app, tx, i)
    BY <1>2 DEF IInv, Progress
  <2>2. 1..(next' - 1) = 1..next
    BY <1>2
  <2> QED  BY <2>1, <2>2 DEF IInv, Progress
<1> QED  BY <1>3, <1>4 DEF IInv, ClosedDomain

\* A commit spends what is there and creates coins of the app's actors only.
LEMMA CommitIInv == IInv /\ Commit => IInv'
<1> SUFFICES ASSUME IInv, Commit  PROVE IInv'
  OBVIOUS
<1>1. app \in Apps /\ Validated(app, tx) /\ TxShape(app, tx)
  BY ValidatedWhenAllSucceeded DEF Commit, Validated
<1>2. \A c \in Cov, s \in Script :
        /\ ledger[c][s] \in Nat /\ Spent(tx, c, s) \in Nat /\ Created(tx, c, s) \in Nat
        /\ Spent(tx, c, s) <= ledger[c][s]
  BY <1>1, SpentType DEF IInv, TypeOK, Progress, Spendable
<1>3. ledger' = Apply(ledger, tx) /\ app' = app
  BY DEF Commit
<1>4. ledger' \in [Cov -> [Script -> Nat]]
  BY <1>2, <1>3 DEF Apply
<1>5. ClosedDomain'
  <2> SUFFICES ASSUME NEW c \in Cov, NEW s \in Script, s \notin app.actors
               PROVE  ledger'[c][s] = 0
    BY <1>3 DEF ClosedDomain
  <2>1. ledger[c][s] = 0
    BY DEF IInv, ClosedDomain
  <2>2. Created(tx, c, s) = 0
    BY <1>1, CreatesActors
  <2>3. ledger'[c][s] = ledger[c][s] - Spent(tx, c, s) + Created(tx, c, s)
    BY <1>3 DEF Apply
  <2> QED  BY <1>2, <2>1, <2>2, <2>3
<1> QED  BY <1>1, <1>3, <1>4, <1>5, IdleIInv DEF Commit

\* Every step preserves the invariant.
LEMMA NextIInv == IInv /\ [Next]_vars => IInv'
<1> SUFFICES ASSUME IInv, [Next]_vars  PROVE IInv'
  OBVIOUS
<1>1. CASE Propose
  BY <1>1, ProposeIInv
<1>2. ASSUME NEW policy, RunScript(policy)  PROVE IInv'
  BY <1>2, RunIInv DEF RunScript, ScriptSucceeds
<1>3. CASE RunAlien
  BY <1>3, RunIInv DEF RunAlien, ScriptSucceeds
<1>4. CASE Reject
  BY <1>4, IdleIInv DEF Reject, IInv, TypeOK, ClosedDomain
<1>5. CASE Commit
  BY <1>5, CommitIInv
<1>6. CASE Abandon
  BY <1>6, IdleIInv DEF Abandon, IInv, TypeOK, ClosedDomain
<1>7. CASE UNCHANGED vars
  BY <1>7 DEF vars, IInv, TypeOK, ClosedDomain, Progress
<1> QED
  BY <1>1, <1>2, <1>3, <1>4, <1>5, <1>6, <1>7
  DEF Next, RunBatchable, RunLeaderFixed, RunLeaderRanged, RunDelegate

-----------------------------------------------------------------------------
(* Theorems.                                                               *)

\* The state stays well formed: no coin count goes below zero and the script
\* cursor stays on the transaction, and a covenant only ever holds its own
\* app's actors.  Both rest on the inductive invariant IInv.
THEOREM Invariance == Spec => []IInv
<1>1. Init => IInv
  BY InitIInv
<1>2. IInv /\ [Next]_vars => IInv'
  BY NextIInv
<1> QED  BY <1>1, <1>2, PTL DEF Spec

\* The types of the variables (EntryPlan and CovenantTx agree on what a
\* transaction is), for every app.
THEOREM TypeCorrect == Spec => []TypeOK
<1>1. IInv => TypeOK
  BY DEF IInv
<1> QED  BY <1>1, Invariance, PTL

\* No commit brings a foreign script into an honestly created covenant, so a
\* singleton app may read a consumed input by covenant domain alone.
THEOREM DomainStaysClosed == Spec => []ClosedDomain
<1>1. IInv => ClosedDomain
  BY DEF IInv
<1> QED  BY <1>1, Invariance, PTL

\* Property 3 of leader-delegate-input-groups.md, from Rule 5 by counting.
THEOREM LeaderOwnsContinuations == Spec => []ContinuationOwnership
<1>1. IInv => ContinuationOwnership
  BY ValidatedWhenAllSucceeded, CoordinatorFacts DEF ContinuationOwnership
<1> QED  BY <1>1, Invariance, PTL

\* Property 1: a delegate never approves without its leader's coordination.
THEOREM DelegatesFollowTheirLeader == Spec => []LeaderIntegrity
<1>1. IInv => LeaderIntegrity
  BY ValidatedWhenAllSucceeded, LeaderOfDelegateCoordinates DEF LeaderIntegrity
<1> QED  BY <1>1, Invariance, PTL

\* Property 4: no ordinary entry stands in for a delegate.
THEOREM DelegatesAreNotReplaced == Spec => []DelegatePositionIntegrity
<1>1. IInv => DelegatePositionIntegrity
  BY ValidatedWhenAllSucceeded, DelegatesFollow DEF DelegatePositionIntegrity
<1> QED  BY <1>1, Invariance, PTL

\* Property 2: a coordinated group is the leader and what it declares.
THEOREM GroupsAreClosed == Spec => []InputClosure
<1>1. IInv => InputClosure
  BY ValidatedWhenAllSucceeded, CoordinatorFacts, InputsMatch DEF InputClosure
<1> QED  BY <1>1, Invariance, PTL

\* Rule 4: an entry creates what it declares, position by position.
THEOREM OutputsAreDeclared == Spec => []AuthorizedOutputIntegrity
<1>1. IInv => AuthorizedOutputIntegrity
  BY ValidatedWhenAllSucceeded, OutputsMatch DEF AuthorizedOutputIntegrity
<1> QED  BY <1>1, Invariance, PTL

\* Property 6: the group policy adds no cost to a batch of independent entries.
THEOREM BatchesAreIndependent == Spec => []BatchIndependence
<1>1. IInv => BatchIndependence
  BY TypeShape, IndependentAccepts DEF IInv, BatchIndependence
<1> QED  BY <1>1, Invariance, PTL

\* The runtime builder's pre-check is never stricter than the script.
THEOREM PrecheckIsSound == Spec => []PrecheckSound
<1>1. IInv => PrecheckSound
  BY TypeShape, PrecheckAccepts DEF IInv, PrecheckSound
<1> QED  BY <1>1, Invariance, PTL

-----------------------------------------------------------------------------
(* The scripts implement the app: every committed transaction of CovenantTx  *)
(* is a step of CovenantApp.  A coordinated leader, or else each input of a  *)
(* group, is a move; the coins a move spends and creates are listed by their *)
(* places among the inputs and outputs of the transaction.                   *)

-----------------------------------------------------------------------------
(* The members of a set of indexes, listed in order.                        *)

Listed(S, f) == [p \in 1..Cardinality(S) |-> f[Nth(S, p)]]

\* A one-to-one correspondence preserves the number.
LEMMA SameNumber ==
  ASSUME NEW S, IsFiniteSet(S), NEW T, NEW g \in [S -> T],
         \A x, y \in S : g[x] = g[y] => x = y,
         \A y \in T : \E x \in S : g[x] = y
  PROVE  Cardinality(T) = Cardinality(S)
<1>1. g \in Injection(S, T)
  BY DEF Injection, IsInjective
<1>2. g \in Surjection(S, T)
  BY DEF Surjection
<1> QED  BY <1>1, <1>2, FS_Bijection DEF Bijection, ExistsBijection

-----------------------------------------------------------------------------
(* Rows: for every member i of a set M, in order, what f gives the members  *)
(* of R[i], in order.                                                       *)

Rows(M, R, f) == [r \in 1..Cardinality(M) |-> Listed(R[Nth(M, r)], f)]

\* Where x stands in the rows.
Places(rows, x) ==
  UNION {{<<r, p>> : p \in {p \in DOMAIN rows[r] : rows[r][p] = x}} : r \in DOMAIN rows}

\* The sets R[i] are apart, and D has their members that f gives x.
GivenIn(M, R, f, x, D) ==
  /\ \A i \in M : R[i] \in SUBSET Nat /\ IsFiniteSet(R[i])
  /\ \A i, j \in M : R[i] \cap R[j] # {} => i = j
  /\ IsFiniteSet(D)
  /\ D = {m \in UNION {R[i] : i \in M} : f[m] = x}

\* The rows hold x as often as the members of all R[i] are given it.
LEMMA RowsCount ==
  ASSUME NEW M \in SUBSET Nat, IsFiniteSet(M), NEW R, NEW f, NEW x, NEW D,
         GivenIn(M, R, f, x, D)
  PROVE  Cardinality(Places(Rows(M, R, f), x)) = Cardinality(D)
<1> USE DEF GivenIn
<1> DEFINE P == Places(Rows(M, R, f), x)
           Owner(m) == CHOOSE i \in M : m \in R[i]
           g == [m \in D |-> <<Position(M, Owner(m)) + 1, Position(R[Owner(m)], m) + 1>>]
<1>1. \A m \in D : Owner(m) \in M /\ m \in R[Owner(m)] /\ f[m] = x
  OBVIOUS
<1>2. \A r, p : <<r, p>> \in P <=> /\ r \in 1..Cardinality(M)
                                  /\ p \in 1..Cardinality(R[Nth(M, r)])
                                  /\ f[Nth(R[Nth(M, r)], p)] = x
  <2> DEFINE rows == Rows(M, R, f)
  <2>1. DOMAIN rows = 1..Cardinality(M)
    BY DEF Rows
  <2>2. ASSUME NEW r \in 1..Cardinality(M)
        PROVE  /\ DOMAIN rows[r] = 1..Cardinality(R[Nth(M, r)])
               /\ \A p \in DOMAIN rows[r] : rows[r][p] = f[Nth(R[Nth(M, r)], p)]
    BY DEF Rows, Listed
  <2> HIDE DEF rows
  <2>3. \A r, p : <<r, p>> \in Places(rows, x) <=> /\ r \in DOMAIN rows
                                                  /\ p \in DOMAIN rows[r]
                                                  /\ rows[r][p] = x
    <3>1. ASSUME NEW r, NEW p, <<r, p>> \in Places(rows, x)
          PROVE  r \in DOMAIN rows /\ p \in DOMAIN rows[r] /\ rows[r][p] = x
      BY <3>1 DEF Places
    <3>2. ASSUME NEW r \in DOMAIN rows, NEW p \in DOMAIN rows[r], rows[r][p] = x
          PROVE  <<r, p>> \in Places(rows, x)
      <4> DEFINE row(k) == {<<k, q>> : q \in {q \in DOMAIN rows[k] : rows[k][q] = x}}
      <4>1. <<r, p>> \in row(r)
        BY <3>2
      <4>2. Places(rows, x) = UNION {row(k) : k \in DOMAIN rows}
        BY DEF Places
      <4> HIDE DEF row
      <4> QED  BY <4>1, <4>2
    <3> QED  BY <3>1, <3>2
  <2>4. P = Places(rows, x)
    BY DEF rows
  <2> HIDE DEF P
  <2>5. ASSUME NEW r, NEW p
        PROVE  <<r, p>> \in P <=> /\ r \in 1..Cardinality(M)
                                  /\ p \in 1..Cardinality(R[Nth(M, r)])
                                  /\ f[Nth(R[Nth(M, r)], p)] = x
    <3>1. <<r, p>> \in P <=> r \in DOMAIN rows /\ p \in DOMAIN rows[r] /\ rows[r][p] = x
      BY <2>3, <2>4
    <3> QED  BY <2>1, <2>2, <3>1
  <2> QED  BY <2>5
<1>3. \A q \in P : \E r, p : q = <<r, p>>
  BY DEF Places
<1> HIDE DEF P
<1>4. ASSUME NEW m \in D
      PROVE  g[m] \in P
  <2>1. /\ Position(M, Owner(m)) + 1 \in 1..Cardinality(M)
        /\ Nth(M, Position(M, Owner(m)) + 1) = Owner(m)
    BY <1>1, NthFacts
  <2>2. /\ Position(R[Owner(m)], m) + 1 \in 1..Cardinality(R[Owner(m)])
        /\ Nth(R[Owner(m)], Position(R[Owner(m)], m) + 1) = m
    <3>1. R[Owner(m)] \in SUBSET Nat /\ IsFiniteSet(R[Owner(m)]) /\ m \in R[Owner(m)]
      BY <1>1
    <3> HIDE DEF Owner, GivenIn
    <3> QED  BY <3>1, NthFacts
  <2>3. g[m] = <<Position(M, Owner(m)) + 1, Position(R[Owner(m)], m) + 1>>
    OBVIOUS
  <2> HIDE DEF g, Owner
  <2> QED  BY <1>1, <1>2, <2>1, <2>2, <2>3
<1>5. ASSUME NEW m \in D, NEW k \in D, g[m] = g[k]
      PROVE  m = k
  <2>1. /\ Position(M, Owner(m)) + 1 = Position(M, Owner(k)) + 1
        /\ Position(R[Owner(m)], m) + 1 = Position(R[Owner(k)], k) + 1
    BY <1>5
  <2> HIDE DEF g, Owner
  <2>2. Owner(m) = Owner(k)
    <3>1. /\ Nth(M, Position(M, Owner(m)) + 1) = Owner(m)
          /\ Nth(M, Position(M, Owner(k)) + 1) = Owner(k)
      BY <1>1, NthFacts
    <3> QED  BY <2>1, <3>1
  <2>3. /\ Nth(R[Owner(m)], Position(R[Owner(m)], m) + 1) = m
        /\ Nth(R[Owner(k)], Position(R[Owner(k)], k) + 1) = k
    BY <1>1, NthFacts
  <2> QED  BY <2>1, <2>2, <2>3
<1>6. ASSUME NEW q \in P
      PROVE  \E m \in D : g[m] = q
  <2>1. PICK r, p : q = <<r, p>>
    BY <1>3
  <2> DEFINE i == Nth(M, r)
             m == Nth(R[i], p)
  <2>2. r \in 1..Cardinality(M) /\ p \in 1..Cardinality(R[i]) /\ f[m] = x
    BY <1>2, <2>1
  <2>3. i \in M /\ Position(M, i) = r - 1
    BY <2>2, NthFacts
  <2>4. m \in R[i] /\ Position(R[i], m) = p - 1
    BY <2>2, <2>3, NthFacts
  <2>5. m \in D
    BY <2>2, <2>3, <2>4
  <2>6. Owner(m) = i
    BY <1>1, <2>3, <2>4, <2>5
  <2>7. g[m] = <<(r - 1) + 1, (p - 1) + 1>>
    BY <2>3, <2>4, <2>5, <2>6
  <2>8. (r - 1) + 1 = r /\ (p - 1) + 1 = p
    BY <2>2
  <2> QED  BY <2>1, <2>5, <2>7, <2>8
<1>7. g \in [D -> P]
  BY <1>4
<1> HIDE DEF g
<1> QED  BY <1>5, <1>6, <1>7, SameNumber DEF P

-----------------------------------------------------------------------------
(* Sections, as CovenantApp unrolls them.                                   *)

\* What matches a section, listed, is one of the lists the section permits.
LEMMA ListPermitted ==
  ASSUME NEW actors, NEW section, ValidSection(section, actors),
         NEW S \in SUBSET Nat, IsFiniteSet(S), NEW f, Matches(section, S, f)
  PROVE  Listed(S, f) \in App!ActorLists(section)
<1>1. /\ Len(section) \in Nat /\ DOMAIN section = 1..Len(section)
      /\ HasRange(section) => RangeIndex(section) \in 1..Len(section)
      /\ SingletonCount(section) = IF HasRange(section) THEN Len(section) - 1 ELSE Len(section)
  BY SectionFacts DEF SingletonCount
<1>2. PICK n \in RangeLengths(section) :
        /\ Cardinality(S) = Len(Expansion(section, n))
        /\ \A m \in S : f[m] \in Expansion(section, n)[Position(S, m) + 1].targets
  BY DEF Matches
<1>3. n \in Nat /\ (~HasRange(section) => n = 0)
  <2>1. HasRange(section) => /\ section[RangeIndex(section)].min \in Nat
                             /\ section[RangeIndex(section)].max \in Nat
    BY <1>1, ClauseFacts
  <2> QED  BY <1>2, <2>1 DEF RangeLengths
<1>4. /\ App!ItemCounts(section) = RangeLengths(section)
      /\ App!SectionItems(section, n) =
           [p \in 1..(SingletonCount(section) + n) |->
              IF ~HasRange(section) \/ p < RangeIndex(section) THEN section[p]
              ELSE IF p < RangeIndex(section) + n THEN section[RangeIndex(section)]
              ELSE section[p - n + 1]]
  BY DEF App!ItemCounts, App!SectionItems, App!HasRange, App!RangeIndex, App!RangeIndexes,
         App!SingletonCount, RangeLengths, HasRange, RangeIndex, RangeIndexes, SingletonCount
<1> DEFINE items == App!SectionItems(section, n)
           U == UNION {section[j].targets : j \in DOMAIN section}
<1>5. /\ DOMAIN items = 1..Cardinality(S)
      /\ \A p \in DOMAIN items : items[p] = Expansion(section, n)[p]
  <2>1. /\ Len(Expansion(section, n)) = SingletonCount(section) + n
        /\ \A p \in 1..(SingletonCount(section) + n) :
             Expansion(section, n)[p] =
               IF ~HasRange(section) \/ p < RangeIndex(section) THEN section[p]
               ELSE IF p < RangeIndex(section) + n THEN section[RangeIndex(section)]
               ELSE section[p - n + 1]
    BY <1>3, ExpansionFacts
  <2> QED  BY <1>2, <1>4, <2>1
<1>6. ASSUME NEW p \in DOMAIN items
      PROVE  \E j \in DOMAIN section : items[p] = section[j]
  <2>1. p \in 1..(SingletonCount(section) + n)
    BY <1>4
  <2>2. CASE ~HasRange(section)
    BY <1>1, <1>3, <1>4, <2>1, <2>2
  <2>3. CASE HasRange(section) /\ p < RangeIndex(section)
    BY <1>1, <1>4, <2>1, <2>3
  <2>4. CASE HasRange(section) /\ RangeIndex(section) <= p /\ p < RangeIndex(section) + n
    <3>1. items[p] = section[RangeIndex(section)]
      BY <1>1, <1>3, <1>4, <2>1, <2>4
    <3> QED  BY <1>1, <2>4, <3>1
  <2>5. CASE HasRange(section) /\ p >= RangeIndex(section) + n
    <3>1. p - n + 1 \in 1..Len(section)
      BY <1>1, <1>3, <2>1, <2>5
    <3>2. items[p] = section[p - n + 1]
      BY <1>1, <1>3, <1>4, <2>1, <2>5
    <3> QED  BY <1>1, <3>1, <3>2
  <2> QED  BY <1>1, <1>3, <2>1, <2>2, <2>3, <2>4, <2>5
<1>7. \A p \in DOMAIN items : Listed(S, f)[p] \in items[p].targets
  <2> SUFFICES ASSUME NEW p \in DOMAIN items  PROVE Listed(S, f)[p] \in items[p].targets
    OBVIOUS
  <2> HIDE DEF items
  <2>1. p \in 1..Cardinality(S) /\ p \in Int
    BY <1>5
  <2>2. Nth(S, p) \in S /\ Position(S, Nth(S, p)) + 1 = p
    BY <2>1, NthFacts
  <2>3. Listed(S, f)[p] = f[Nth(S, p)]
    BY <2>1 DEF Listed
  <2> QED  BY <1>2, <1>5, <2>2, <2>3
<1>8. Listed(S, f) \in [DOMAIN items -> U]
  <2> HIDE DEF items
  <2>1. \A p \in DOMAIN items : Listed(S, f)[p] \in U
    BY <1>6, <1>7
  <2>2. Listed(S, f) = [p \in DOMAIN items |-> Listed(S, f)[p]]
    BY <1>5 DEF Listed
  <2> QED  BY <2>1, <2>2
<1> DEFINE lists(k) ==
             {list \in [DOMAIN App!SectionItems(section, k) -> U] :
                \A p \in DOMAIN list : list[p] \in App!SectionItems(section, k)[p].targets}
<1>9. Listed(S, f) \in lists(n)
  <2> HIDE DEF U
  <2> QED  BY <1>7, <1>8
<1>10. App!ActorLists(section) = UNION {lists(k) : k \in App!ItemCounts(section)}
  BY DEF App!ActorLists
<1> HIDE DEF lists
<1> QED  BY <1>2, <1>4, <1>9, <1>10

-----------------------------------------------------------------------------
(* The moves of a covenant in a validated transaction.                      *)

\* The inputs of covenant c beside the movers M.
Rest(t, c, M) == CovInputs(t, c) \ M

\* M moves covenant c: its members run ordinary entries that take all other
\* inputs, create all outputs, and are alone or independent.
Movers(a, t, c, M) ==
  /\ M \subseteq CovInputs(t, c)
  /\ M = {} => CovInputs(t, c) = {}
  /\ \A i \in M :
       /\ t.inputs[i].entry \in a.entries /\ t.inputs[i].entry.kind = "leader"
       /\ ValidEntry(a, t.inputs[i].entry)
       /\ t.inputs[i].script = t.inputs[i].entry.actor
       /\ Matches(t.inputs[i].entry.consumes, Rest(t, c, M), InputScripts(t))
       /\ Matches(t.inputs[i].entry.emits, AuthOutputs(t, i), OutputScripts(t))
  /\ \A i, j \in M : i # j => Rest(t, c, M) = {} /\ AllowsCovenantBatching(a, t.inputs[i].entry)
  /\ \A o \in CovOutputs(t, c) : t.outputs[o].auth \in M

\* An empty section matches no members.
LEMMA NothingMatches ==
  ASSUME NEW scripts
  PROVE  Matches(<<>>, {}, scripts)
<1>1. ~HasRange(<<>>)
  BY DEF HasRange, RangeIndexes
<1>2. RangeLengths(<<>>) = {0} /\ Expansion(<<>>, 0) = <<>>
  BY <1>1 DEF RangeLengths, Expansion
<1> QED  BY <1>2, FS_EmptySet DEF Matches

\* Beside a coordinated leader, the leader alone moves.
LEMMA LeaderMoves ==
  ASSUME NEW a \in Apps, NEW t, Validated(a, t), NEW c \in Cov,
         NEW l \in CovInputs(t, c), Coordinates(t, l)
  PROVE  Movers(a, t, c, {l})
<1>1. l \in DOMAIN t.inputs /\ t.inputs[l].cov = c /\ TxShape(a, t)
  BY DEF CovInputs, Validated
<1>2. /\ t.inputs[l].script # Alien /\ t.inputs[l].entry \in a.entries
      /\ t.inputs[l].script = t.inputs[l].entry.actor
      /\ ValidEntry(a, t.inputs[l].entry)
      /\ t.inputs[l].entry.kind = "leader"
  BY <1>1, InputFacts DEF Validated, Coordinates, CoordinatesCurrentOutputs
<1>3. AuthOutputs(t, l) = CovOutputs(t, c)
  BY <1>1, CoordinatorFacts
<1>4. Matches(t.inputs[l].entry.consumes, Rest(t, c, {l}), InputScripts(t))
  BY <1>1, InputsMatch DEF Rest, Group
<1>5. Matches(t.inputs[l].entry.emits, AuthOutputs(t, l), OutputScripts(t))
  BY <1>1, <1>2, OutputsMatch
<1>6. \A o \in CovOutputs(t, c) : t.outputs[o].auth = l
  BY <1>3 DEF AuthOutputs
<1> QED  BY <1>2, <1>4, <1>5, <1>6 DEF Movers

\* Without one, every input moves.
LEMMA AllMove ==
  ASSUME NEW a \in Apps, NEW t, Validated(a, t), NEW c \in Cov,
         \A l \in CovInputs(t, c) : ~Coordinates(t, l)
  PROVE  Movers(a, t, c, CovInputs(t, c))
<1> DEFINE group == CovInputs(t, c)
<1>1. TxShape(a, t) /\ group \in SUBSET Nat /\ IsFiniteSet(group)
  BY GroupFacts DEF Validated
<1>2. ASSUME NEW i \in group
      PROVE  /\ i \in DOMAIN t.inputs /\ Group(t, i) = group
             /\ t.inputs[i].script # Alien /\ t.inputs[i].entry \in a.entries
             /\ t.inputs[i].script = t.inputs[i].entry.actor
             /\ ValidEntry(a, t.inputs[i].entry)
             /\ EntrySucceeds(a, t, i)
  <2>1. i \in DOMAIN t.inputs /\ t.inputs[i].cov = c
    BY DEF CovInputs
  <2> QED  BY <1>1, <2>1, InputFacts DEF Validated, Group, ScriptSucceeds
<1>3. ASSUME NEW i \in group
      PROVE  t.inputs[i].entry.kind = "leader" /\ t.inputs[i].entry.consumes = <<>>
  <2>1. t.inputs[i].entry.kind # "delegate"
    BY <1>2, LeaderOfDelegateCoordinates
  <2>2. t.inputs[i].entry.kind = "leader"
    BY <1>2, <2>1 DEF ValidEntry
  <2> QED  BY <2>2 DEF Coordinates, CoordinatesCurrentOutputs
<1>4. ASSUME NEW i \in group, NEW j \in group, i # j
      PROVE  AllowsCovenantBatching(a, t.inputs[i].entry)
  <2> DEFINE e == t.inputs[i].entry
  <2>1. Cardinality(group) # 1
    BY <1>1, <1>4, FS_Singleton
  <2>2. GroupPolicyCheck(a, t, i) /\ Group(t, i) = group /\ ValidEntry(a, e)
    BY <1>2 DEF EntrySucceeds, CurrentInputPrelude
  <2>3. e.kind = "leader" /\ e.consumes = <<>> /\ ~HasRange(e.consumes) /\ GroupCount(e) = 1
    BY <1>3 DEF HasRange, RangeIndexes, GroupCount
  <2> HIDE DEF e
  <2>4. GroupPolicy(a, e) = "LeaderFixed" => Cardinality(group) = GroupCount(e)
    BY <2>2 DEF GroupPolicyCheck, Group, e
  <2>5. GroupPolicy(a, e) # "LeaderFixed"
    BY <2>1, <2>3, <2>4
  <2> QED  BY <2>3, <2>5 DEF GroupPolicy, e
<1>5. Rest(t, c, group) = {}
  BY DEF Rest
<1>6. ASSUME NEW i \in group
      PROVE  /\ Matches(t.inputs[i].entry.consumes, Rest(t, c, group), InputScripts(t))
             /\ Matches(t.inputs[i].entry.emits, AuthOutputs(t, i), OutputScripts(t))
  BY <1>2, <1>3, <1>5, NothingMatches, OutputsMatch
<1>7. \A o \in CovOutputs(t, c) : t.outputs[o].auth \in group
  BY <1>1, TxFacts DEF CovOutputs, CovInputs
<1> HIDE DEF group
<1> QED  BY <1>2, <1>3, <1>4, <1>5, <1>6, <1>7 DEF Movers, group

\* Some inputs move every covenant of a validated transaction.
LEMMA SomeMove ==
  ASSUME NEW a \in Apps, NEW t, Validated(a, t), NEW c \in Cov
  PROVE  \E M : Movers(a, t, c, M)
<1>1. CASE \E l \in CovInputs(t, c) : Coordinates(t, l)
  BY <1>1, LeaderMoves
<1>2. CASE \A l \in CovInputs(t, c) : ~Coordinates(t, l)
  BY <1>2, AllMove
<1> QED  BY <1>1, <1>2

-----------------------------------------------------------------------------
(* The batch of a set of movers.                                            *)

MoveOf(t, c, M, i) ==
  [entry   |-> t.inputs[i].entry,
   spends  |-> Listed(Rest(t, c, M), InputScripts(t)),
   creates |-> Listed(AuthOutputs(t, i), OutputScripts(t))]

\* The inputs each mover takes beside itself, and the outputs it creates.
Takes(t, c, M) == [i \in M |-> Rest(t, c, M)]

Makes(t, M) == [i \in M |-> AuthOutputs(t, i)]

Batch(t, c, M) == [r \in 1..Cardinality(M) |-> MoveOf(t, c, M, Nth(M, r))]

\* The moves of a batch that spend their own coin of x, and the places of x among
\* the other coins the batch spends and among those it creates.
Turns(batch, x) == {i \in DOMAIN batch : batch[i].entry.actor = x}

SpentPlaces(batch, x) ==
  UNION {{<<i, p>> : p \in {p \in DOMAIN batch[i].spends : batch[i].spends[p] = x}} :
         i \in DOMAIN batch}

MadePlaces(batch, x) ==
  UNION {{<<i, p>> : p \in {p \in DOMAIN batch[i].creates : batch[i].creates[p] = x}} :
         i \in DOMAIN batch}

\* Movers, and the inputs they take, are finite sets of indexes.
LEMMA MoversFinite ==
  ASSUME NEW a \in Apps, NEW t, Validated(a, t), NEW c \in Cov, NEW M, Movers(a, t, c, M)
  PROVE  /\ TxShape(a, t)
         /\ M \in SUBSET Nat /\ IsFiniteSet(M)
         /\ Rest(t, c, M) \in SUBSET Nat /\ IsFiniteSet(Rest(t, c, M))
         /\ Cardinality(M) \in Nat /\ Cardinality(M) <= Cardinality(CovInputs(t, c))
<1>1. /\ TxShape(a, t) /\ M \subseteq CovInputs(t, c)
  BY DEF Validated, Movers
<1>2. CovInputs(t, c) \in SUBSET Nat /\ IsFiniteSet(CovInputs(t, c))
  BY <1>1, GroupFacts
<1> QED  BY <1>1, <1>2, FS_Subset, FS_CardinalityType DEF Rest

\* Each mover makes a move of the app, and several only if each is independent.
LEMMA BatchOfMoves ==
  ASSUME NEW a \in Apps, NEW t, Validated(a, t), NEW c \in Cov, NEW M, Movers(a, t, c, M)
  PROVE  /\ Batch(t, c, M) \in [1..Cardinality(M) -> App!Moves(a)]
         /\ App!MayShareStep(a, Batch(t, c, M))
<1>1. /\ TxShape(a, t) /\ M \in SUBSET Nat /\ IsFiniteSet(M) /\ Cardinality(M) \in Nat
      /\ Rest(t, c, M) \in SUBSET Nat /\ IsFiniteSet(Rest(t, c, M))
  BY MoversFinite
<1>2. ASSUME NEW i \in M
      PROVE  MoveOf(t, c, M, i) \in App!Moves(a)
  <2> DEFINE e == t.inputs[i].entry
             moves(k) == [entry : {k}, spends : App!ActorLists(k.consumes),
                          creates : App!ActorLists(k.emits)]
  <2>1. /\ e \in a.entries /\ e.kind = "leader" /\ ValidEntry(a, e)
        /\ Matches(e.consumes, Rest(t, c, M), InputScripts(t))
        /\ Matches(e.emits, AuthOutputs(t, i), OutputScripts(t))
    BY DEF Movers
  <2>2. ValidSection(e.consumes, a.actors) /\ ValidSection(e.emits, a.actors)
    BY <2>1 DEF ValidEntry
  <2>3. AuthOutputs(t, i) \in SUBSET Nat /\ IsFiniteSet(AuthOutputs(t, i))
    BY <1>1, GroupFacts
  <2>4. Listed(Rest(t, c, M), InputScripts(t)) \in App!ActorLists(e.consumes)
    BY <1>1, <2>1, <2>2, ListPermitted
  <2>5. Listed(AuthOutputs(t, i), OutputScripts(t)) \in App!ActorLists(e.emits)
    BY <2>1, <2>2, <2>3, ListPermitted
  <2>6. MoveOf(t, c, M, i) \in moves(e)
    BY <2>4, <2>5 DEF MoveOf
  <2>7. App!Moves(a) = UNION {moves(k) : k \in {k \in a.entries : k.kind = "leader"}}
    BY DEF App!Moves
  <2> HIDE DEF moves, e
  <2> QED  BY <2>1, <2>6, <2>7
<1>3. \A r \in 1..Cardinality(M) : Nth(M, r) \in M
  BY <1>1, NthFacts
<1>4. Batch(t, c, M) \in [1..Cardinality(M) -> App!Moves(a)]
  BY <1>2, <1>3 DEF Batch
<1>5. App!MayShareStep(a, Batch(t, c, M))
  <2> DEFINE n == Cardinality(M)
  <2>1. Len(Batch(t, c, M)) = n /\ DOMAIN Batch(t, c, M) = 1..n
    BY <1>1 DEF Batch
  <2>2. SUFFICES ASSUME n > 1, NEW r \in 1..n
                 PROVE  App!AllowsCovenantBatching(a, Batch(t, c, M)[r].entry)
    BY <2>1 DEF App!MayShareStep
  <2>3. \E j \in M : j # Nth(M, r)
    <3>1. CASE r = 1
      <4>1. 2 \in 1..n
        BY <1>1, <2>2
      <4>2. /\ Position(M, Nth(M, 1)) = 1 - 1 /\ Position(M, Nth(M, 2)) = 2 - 1
            /\ Nth(M, 2) \in M
        BY <1>1, <3>1, <4>1, NthFacts
      <4> QED  BY <3>1, <4>2
    <3>2. CASE r # 1
      <4>1. 1 \in 1..n /\ r \in Int
        BY <1>1, <2>2
      <4>2. /\ Position(M, Nth(M, 1)) = 1 - 1 /\ Position(M, Nth(M, r)) = r - 1
            /\ Nth(M, 1) \in M
        BY <1>1, <2>2, <4>1, NthFacts
      <4> QED  BY <3>2, <4>1, <4>2
    <3> QED  BY <3>1, <3>2
  <2>4. AllowsCovenantBatching(a, t.inputs[Nth(M, r)].entry)
    BY <1>3, <2>2, <2>3 DEF Movers
  <2>5. Batch(t, c, M)[r].entry = t.inputs[Nth(M, r)].entry
    BY DEF Batch, MoveOf
  <2> QED
    BY <2>4, <2>5
    DEF AllowsCovenantBatching, IsLeaderActor, LeaderFor,
        App!AllowsCovenantBatching, App!IsLeaderActor, App!LeaderFor
<1> QED  BY <1>4, <1>5

\* The places of x in a batch are its places in the rows of its movers.
LEMMA BatchPlaces ==
  ASSUME NEW a \in Apps, NEW t, Validated(a, t), NEW c \in Cov, NEW M, Movers(a, t, c, M),
         NEW x
  PROVE  /\ SpentPlaces(Batch(t, c, M), x)
              = Places(Rows(M, Takes(t, c, M), InputScripts(t)), x)
         /\ MadePlaces(Batch(t, c, M), x)
              = Places(Rows(M, Makes(t, M), OutputScripts(t)), x)
<1> DEFINE batch == Batch(t, c, M)
           spent == Rows(M, Takes(t, c, M), InputScripts(t))
           made == Rows(M, Makes(t, M), OutputScripts(t))
<1>1. \A r \in 1..Cardinality(M) : Nth(M, r) \in M
  BY MoversFinite, NthFacts
<1>2. /\ DOMAIN batch = 1..Cardinality(M) /\ DOMAIN spent = 1..Cardinality(M)
      /\ DOMAIN made = 1..Cardinality(M)
  BY DEF Batch, Rows
<1>3. \A r \in 1..Cardinality(M) : batch[r].spends = spent[r] /\ batch[r].creates = made[r]
  BY <1>1 DEF Batch, Rows, MoveOf, Takes, Makes
<1> HIDE DEF batch, spent, made
<1>4. SpentPlaces(batch, x) = Places(spent, x)
  BY <1>2, <1>3 DEF SpentPlaces, Places
<1>5. MadePlaces(batch, x) = Places(made, x)
  BY <1>2, <1>3 DEF MadePlaces, Places
<1> QED  BY <1>4, <1>5 DEF batch, spent, made

\* The coins the movers themselves carry, in the batch and in the transaction.
LEMMA OwnCoins ==
  ASSUME NEW a \in Apps, NEW t, Validated(a, t), NEW c \in Cov, NEW M, Movers(a, t, c, M),
         NEW x
  PROVE  Cardinality(Turns(Batch(t, c, M), x))
           = Cardinality({i \in M : t.inputs[i].script = x})
<1> DEFINE own == {i \in M : t.inputs[i].script = x}
           turns == Turns(Batch(t, c, M), x)
           turn == [i \in own |-> Position(M, i) + 1]
<1>1. M \in SUBSET Nat /\ IsFiniteSet(M)
  BY MoversFinite
<1>2. IsFiniteSet(own)
  BY <1>1, FS_Subset
<1>3. \A i \in M : t.inputs[i].script = t.inputs[i].entry.actor
  BY DEF Movers
<1>4. \A r : r \in turns <=> /\ r \in 1..Cardinality(M)
                             /\ t.inputs[Nth(M, r)].entry.actor = x
  BY DEF Turns, Batch, MoveOf
<1> HIDE DEF turns
<1>5. ASSUME NEW i \in own
      PROVE  turn[i] \in turns /\ Nth(M, turn[i]) = i
  <2>1. Position(M, i) + 1 \in 1..Cardinality(M) /\ Nth(M, Position(M, i) + 1) = i
    BY <1>1, NthFacts
  <2> QED  BY <1>3, <1>4, <2>1
<1>6. ASSUME NEW r \in turns
      PROVE  \E i \in own : turn[i] = r
  <2>1. r \in 1..Cardinality(M) /\ t.inputs[Nth(M, r)].entry.actor = x
    BY <1>4
  <2>2. Nth(M, r) \in M /\ Position(M, Nth(M, r)) = r - 1
    BY <1>1, <2>1, NthFacts
  <2>3. Nth(M, r) \in own
    BY <1>3, <2>1, <2>2
  <2>4. turn[Nth(M, r)] = (r - 1) + 1
    BY <2>2, <2>3
  <2> QED  BY <2>1, <2>3, <2>4
<1>7. turn \in [own -> turns]
  BY <1>5
<1>8. \A i, j \in own : turn[i] = turn[j] => i = j
  BY <1>5
<1> HIDE DEF turn, own
<1>9. Cardinality(turns) = Cardinality(own)
  BY <1>2, <1>6, <1>7, <1>8, SameNumber
<1> QED  BY <1>9 DEF turns, own

\* The coins the movers take beside their own.
LEMMA TakenCoins ==
  ASSUME NEW a \in Apps, NEW t, Validated(a, t), NEW c \in Cov, NEW M, Movers(a, t, c, M),
         NEW x
  PROVE  Cardinality(Places(Rows(M, Takes(t, c, M), InputScripts(t)), x))
           = Cardinality({m \in Rest(t, c, M) : t.inputs[m].script = x})
<1> DEFINE R == Takes(t, c, M)
           f == InputScripts(t)
           D == {m \in Rest(t, c, M) : t.inputs[m].script = x}
<1>1. /\ M \in SUBSET Nat /\ IsFiniteSet(M)
      /\ Rest(t, c, M) \in SUBSET Nat /\ IsFiniteSet(Rest(t, c, M))
  BY MoversFinite
<1>2. \A i \in M : R[i] \in SUBSET Nat /\ IsFiniteSet(R[i])
  BY <1>1 DEF Takes
<1>3. \A i, j \in M : R[i] \cap R[j] # {} => i = j
  BY DEF Movers, Takes
<1>4. IsFiniteSet(D)
  BY <1>1, FS_Subset
<1>5. UNION {R[i] : i \in M} = Rest(t, c, M)
  <2>1. M = {} => Rest(t, c, M) = {}
    BY DEF Movers, Rest
  <2> QED  BY <2>1 DEF Takes
<1>6. \A m \in Rest(t, c, M) : f[m] = t.inputs[m].script
  BY DEF Rest, CovInputs, InputScripts
<1>7. D = {m \in UNION {R[i] : i \in M} : f[m] = x}
  BY <1>5, <1>6
<1> HIDE DEF R, f, D
<1>8. Cardinality(Places(Rows(M, R, f), x)) = Cardinality(D)
  <2>1. M \in SUBSET Nat /\ IsFiniteSet(M)
    BY <1>1
  <2>2. GivenIn(M, R, f, x, D)
    BY <1>2, <1>3, <1>4, <1>7 DEF GivenIn
  <2> QED  BY <2>1, <2>2, RowsCount
<1> QED  BY <1>8 DEF R, f, D

\* The coins the movers create are all the coins their covenant receives.
LEMMA MadeCoins ==
  ASSUME NEW a \in Apps, NEW t, Validated(a, t), NEW c \in Cov, NEW M, Movers(a, t, c, M),
         NEW x
  PROVE  Cardinality(Places(Rows(M, Makes(t, M), OutputScripts(t)), x))
           = Created(t, c, x)
<1> DEFINE R == Makes(t, M)
           f == OutputScripts(t)
           D == {o \in CovOutputs(t, c) : t.outputs[o].script = x}
<1>1. M \in SUBSET Nat /\ IsFiniteSet(M) /\ TxShape(a, t)
  BY MoversFinite
<1>2. \A i \in M : R[i] \in SUBSET Nat /\ IsFiniteSet(R[i])
  BY <1>1, GroupFacts DEF Makes
<1>3. \A i, j \in M : R[i] \cap R[j] # {} => i = j
  BY DEF AuthOutputs, Makes
<1>4. IsFiniteSet(D)
  BY <1>1, GroupFacts, FS_Subset
<1>5. UNION {R[i] : i \in M} = CovOutputs(t, c)
  <2>1. \A i \in M : R[i] \subseteq CovOutputs(t, c)
    BY DEF Movers, Makes, AuthOutputs, CovOutputs, CovInputs
  <2>2. \A o \in CovOutputs(t, c) : t.outputs[o].auth \in M /\ o \in R[t.outputs[o].auth]
    BY DEF Movers, Makes, AuthOutputs, CovOutputs
  <2> QED  BY <2>1, <2>2 DEF Makes
<1>6. \A o \in CovOutputs(t, c) : f[o] = t.outputs[o].script
  BY DEF CovOutputs, OutputScripts
<1>7. D = {m \in UNION {R[i] : i \in M} : f[m] = x}
  BY <1>5, <1>6
<1> HIDE DEF R, f, D
<1>8. Cardinality(Places(Rows(M, R, f), x)) = Cardinality(D)
  <2>1. M \in SUBSET Nat /\ IsFiniteSet(M)
    BY <1>1
  <2>2. GivenIn(M, R, f, x, D)
    BY <1>2, <1>3, <1>4, <1>7 DEF GivenIn
  <2> QED  BY <2>1, <2>2, RowsCount
<1> QED  BY <1>8 DEF R, f, D, Created

\* CovenantApp counts as CovenantTx does.
LEMMA SameCount == \A S : App!Cardinality(S) = Cardinality(S)
BY DEF App!Cardinality, Cardinality

\* The batch spends and creates what the transaction does.
LEMMA BatchTotals ==
  ASSUME NEW a \in Apps, NEW t, Validated(a, t), NEW c \in Cov, NEW M, Movers(a, t, c, M),
         NEW x
  PROVE  /\ App!TotalSpent(Batch(t, c, M), x) = Spent(t, c, x)
         /\ App!TotalCreated(Batch(t, c, M), x) = Created(t, c, x)
<1> DEFINE own == {i \in M : t.inputs[i].script = x}
           taken == {m \in Rest(t, c, M) : t.inputs[m].script = x}
           all == {i \in CovInputs(t, c) : t.inputs[i].script = x}
<1>1. App!TotalSpent(Batch(t, c, M), x) = Cardinality(own) + Cardinality(taken)
  <2>1. App!TotalSpent(Batch(t, c, M), x)
          = Cardinality(Turns(Batch(t, c, M), x)) + Cardinality(SpentPlaces(Batch(t, c, M), x))
    BY SameCount DEF App!TotalSpent, Turns, SpentPlaces
  <2> QED  BY <2>1, BatchPlaces, OwnCoins, TakenCoins
<1>2. Cardinality(own) + Cardinality(taken) = Cardinality(all)
  <2>1. IsFiniteSet(own) /\ IsFiniteSet(taken)
    BY MoversFinite, FS_Subset
  <2>2. own \cup taken = all /\ own \cap taken = {}
    BY DEF Movers, Rest
  <2> HIDE DEF own, taken, all
  <2>3. Cardinality(all) = Cardinality(own) + Cardinality(taken) - Cardinality({})
    BY <2>1, <2>2, FS_Union
  <2> QED  BY <2>1, <2>3, FS_EmptySet, FS_CardinalityType
<1>3. App!TotalCreated(Batch(t, c, M), x) = Created(t, c, x)
  <2>1. App!TotalCreated(Batch(t, c, M), x) = Cardinality(MadePlaces(Batch(t, c, M), x))
    BY SameCount DEF App!TotalCreated, MadePlaces
  <2> QED  BY <2>1, BatchPlaces, MadeCoins
<1> QED  BY <1>1, <1>2, <1>3 DEF Spent

-----------------------------------------------------------------------------
(* The refinement.                                                          *)

\* A transaction has at most MaxInputs inputs, and so a covenant as many moves.
Bounded == Len(tx.inputs) <= MaxInputs

\* No proposal exceeds the bound and no other step touches the inputs.
LEMMA BoundedStep == IInv /\ Bounded /\ [Next]_vars => Bounded'
<1> SUFFICES ASSUME IInv, Bounded, [Next]_vars  PROVE Bounded'
  OBVIOUS
<1>1. CASE Propose
  <2>1. PICK inputs \in BoundedSeqs(InputSpace(app), MaxInputs) \ {<<>>} :
          \E outputs \in BoundedSeqs(OutputSpace(inputs), MaxOutputs) :
             tx' = [inputs |-> inputs, outputs |-> outputs]
    BY <1>1 DEF Propose
  <2>2. PICK k \in 0..MaxInputs : inputs \in [1..k -> InputSpace(app)]
    BY <2>1 DEF BoundedSeqs
  <2>3. Len(inputs) = k /\ k <= MaxInputs
    BY <2>2, CovenantTxAssumption, LenProperties
  <2> QED  BY <2>1, <2>3 DEF Bounded
<1>2. CASE tx' = NoTx
  BY <1>2, NoTxShape, CovenantTxAssumption DEF Bounded
<1>3. CASE tx' = tx
  BY <1>3 DEF Bounded
<1> QED
  BY <1>1, <1>2, <1>3
  DEF Next, RunBatchable, RunLeaderFixed, RunLeaderRanged, RunDelegate, RunScript,
      RunAlien, Reject, Commit, Abandon, vars

\* The initial states of CovenantTx are initial states of CovenantApp.
LEMMA AppInit == IInv => App!Init
<1> SUFFICES ASSUME IInv  PROVE App!Init
  OBVIOUS
<1>1. app \in Apps /\ ledger \in [Cov -> [Script -> Nat]]
  BY DEF IInv, TypeOK
<1>2. \A c \in Cov, x \in Actor : ledger[c][x] \in Nat
  BY <1>1 DEF Script
<1>3. Coins \in [Cov -> [Actor -> Nat]]
  BY <1>2 DEF Coins
<1> QED  BY <1>1, <1>3 DEF App!Init

\* A committed transaction moves each of its covenants as CovenantApp allows.
LEMMA CommitMoves == IInv /\ Bounded /\ Commit => App!Step
<1> SUFFICES ASSUME IInv, Bounded, Commit  PROVE App!Step
  OBVIOUS
<1>1. /\ app \in Apps /\ Validated(app, tx) /\ TxShape(app, tx)
      /\ app' = app /\ ledger' = Apply(ledger, tx)
  BY ValidatedWhenAllSucceeded DEF Commit, Validated
<1>2. ASSUME NEW c \in Cov
      PROVE  \E k \in 0..MaxInputs : \E batch \in [1..k -> App!Moves(app)] :
               App!MayShareStep(app, batch) /\ App!Moved(Coins[c], batch, Coins'[c])
  <2>1. PICK M : Movers(app, tx, c, M)
    BY <1>1, SomeMove
  <2> DEFINE k == Cardinality(M)
             batch == Batch(tx, c, M)
  <2>2. k \in 0..MaxInputs
    <3>1. k \in Nat /\ k <= Cardinality(CovInputs(tx, c))
      BY <1>1, <2>1, MoversFinite
    <3>2. Len(tx.inputs) \in Nat /\ CovInputs(tx, c) \subseteq 1..Len(tx.inputs)
      BY <1>1, TxFacts DEF CovInputs
    <3>3. /\ IsFiniteSet(1..Len(tx.inputs))
          /\ Cardinality(1..Len(tx.inputs)) = Len(tx.inputs)
      <4> DEFINE n == Len(tx.inputs)
      <4>1. 1 \in Int /\ n \in Int /\ (1 > n => n = 0) /\ n - 1 + 1 = n
        BY <3>2
      <4> HIDE DEF n
      <4>2. IsFiniteSet(1..n) /\ Cardinality(1..n) = n
        BY <4>1, FS_Interval
      <4> QED  BY <4>2 DEF n
    <3>4. Cardinality(CovInputs(tx, c)) <= Len(tx.inputs)
      BY <3>2, <3>3, FS_Subset
    <3>5. Cardinality(CovInputs(tx, c)) \in Nat
      BY <1>1, GroupFacts
    <3> HIDE DEF k
    <3> QED  BY <3>1, <3>2, <3>4, <3>5, CovenantTxAssumption DEF Bounded
  <2>3. batch \in [1..k -> App!Moves(app)] /\ App!MayShareStep(app, batch)
    BY <1>1, <2>1, BatchOfMoves
  <2>4. App!Moved(Coins[c], batch, Coins'[c])
    <3> SUFFICES ASSUME NEW x \in Actor
                 PROVE  /\ App!TotalSpent(batch, x) <= Coins[c][x]
                        /\ Coins'[c][x] = Coins[c][x] - App!TotalSpent(batch, x)
                                            + App!TotalCreated(batch, x)
      BY DEF App!Moved
    <3>1. /\ App!TotalSpent(batch, x) = Spent(tx, c, x)
          /\ App!TotalCreated(batch, x) = Created(tx, c, x)
      BY <1>1, <2>1, BatchTotals
    <3>2. Coins[c][x] = ledger[c][x] /\ Coins'[c][x] = ledger'[c][x] /\ x \in Script
      BY DEF Coins, Script
    <3>3. ledger'[c][x] = ledger[c][x] - Spent(tx, c, x) + Created(tx, c, x)
      BY <1>1, <3>2 DEF Apply
    <3>4. Spent(tx, c, x) <= ledger[c][x]
      BY <3>2 DEF IInv, Progress, Spendable
    <3> HIDE DEF batch
    <3> QED  BY <3>1, <3>2, <3>3, <3>4
  <2> HIDE DEF k, batch
  <2> QED  BY <2>2, <2>3, <2>4
<1> QED  BY <1>1, <1>2 DEF App!Step

\* Every other step leaves the app and its coins alone.
LEMMA AppStep == IInv /\ Bounded /\ [Next]_vars => [App!Step]_(App!avars)
<1> SUFFICES ASSUME IInv, Bounded, [Next]_vars  PROVE [App!Step]_(App!avars)
  OBVIOUS
<1>1. CASE Commit
  BY <1>1, CommitMoves
<1>2. CASE UNCHANGED <<app, ledger>>
  BY <1>2 DEF App!avars, Coins
<1> QED
  BY <1>1, <1>2
  DEF Next, Propose, RunBatchable, RunLeaderFixed, RunLeaderRanged, RunDelegate, RunScript,
      RunAlien, Reject, Abandon, vars

\* The generated scripts implement the app, for every set of apps the compiler
\* accepts: whatever inputs, entries, order and outputs a spender chooses, a
\* transaction that is committed makes, in each covenant, one coordinated move
\* or a batch of independent ones, and no coin appears or disappears outside a
\* declared move.
THEOREM ScriptsImplementApp == Spec => ImplementsApp
<1>1. Init => Bounded
  BY NoTxShape, CovenantTxAssumption DEF Init, Bounded
<1>2. Init => App!Init
  BY InitIInv, AppInit
<1> QED
  BY <1>1, <1>2, BoundedStep, AppStep, Invariance, PTL
  DEF Spec, ImplementsApp, App!Spec
=============================================================================
