---------------------------- MODULE ScopesProofs ----------------------------
(***************************************************************************)
(* Proofs about Scopes, for every body of a well-formed task: the names in   *)
(* the script denote what the source means, and a body in which every name    *)
(* means something is refused only for a binding that hides another.          *)
(***************************************************************************)
EXTENDS Scopes, FiniteSetTheorems, SequenceTheorems, WellFoundedInduction, TLAPS

-----------------------------------------------------------------------------
(* Natural numbers and sequences.                                           *)

\* A set of natural numbers that is not empty has a least one.
LEMMA LeastNatural ==
  ASSUME NEW S \in SUBSET Nat, S # {}
  PROVE  \E m \in S : \A x \in S : m <= x
<1> DEFINE R == OpToRel(<, Nat)
<1>1. PICK m \in S : ~\E y \in S : <<y, m>> \in R
  <2>1. IsWellFoundedOn(R, Nat)
    BY NatLessThanWellFounded
  <2> HIDE DEF R
  <2> QED  BY <2>1, WFMin
<1>2. ASSUME NEW x \in S PROVE m <= x
  BY <1>1 DEF OpToRel
<1> QED  BY <1>2

\* The greatest member of a set of numbers.
LEMMA MaxIs ==
  ASSUME NEW S \in SUBSET Int, NEW m \in S, \A x \in S : x <= m
  PROVE  Max(S) = m
<1>1. \A x \in S : m >= x
  OBVIOUS
<1>2. Max(S) \in S /\ \A x \in S : Max(S) >= x
  BY <1>1 DEF Max
<1> DEFINE M == Max(S)
<1>3. M \in S /\ M \in Int /\ m \in Int /\ M >= m /\ M <= m
  BY <1>2
<1> HIDE DEF M
<1>4. M = m
  BY <1>3
<1> QED  BY <1>4 DEF M

\* A bounded set of numbers has a greatest member.
LEMMA GreatestMember ==
  ASSUME NEW n \in Nat, NEW S \in SUBSET 1..n, S # {}
  PROVE  Max(S) \in S /\ \A x \in S : x <= Max(S)
<1> DEFINE T == {n - x : x \in S}
<1>1. T \in SUBSET Nat /\ T # {}
  <2>1. \A x \in S : n - x \in Nat
    OBVIOUS
  <2>2. T \in SUBSET Nat
    BY <2>1
  <2>3. PICK x \in S : TRUE
    OBVIOUS
  <2>4. n - x \in T
    BY <2>3
  <2> QED  BY <2>2, <2>4
<1>2. PICK t \in T : \A y \in T : t <= y
  <2> HIDE DEF T
  <2> QED  BY <1>1, LeastNatural
<1>3. PICK m \in S : t = n - m
  BY <1>2
<1>4. ASSUME NEW x \in S PROVE x <= m
  <2>1. n - x \in T
    OBVIOUS
  <2>2. n - m <= n - x
    BY <1>2, <1>3, <2>1
  <2> QED  BY <2>2
<1>5. S \in SUBSET Int
  OBVIOUS
<1> QED  BY <1>3, <1>4, <1>5, MaxIs

Line(s) == s \in Seq(Range(s))

LEMMA LineFacts ==
  ASSUME NEW s, Line(s)
  PROVE  Len(s) \in Nat /\ DOMAIN s = 1..Len(s)
BY DEF Line

IsAppended(t, s, v) ==
  /\ Line(t) /\ Len(t) = Len(s) + 1 /\ DOMAIN t = 1..(Len(s) + 1)
  /\ t[Len(s) + 1] = v /\ \A i \in 1..Len(s) : t[i] = s[i]

IsReplaced(t, s, i, v) ==
  /\ Line(t) /\ Len(t) = Len(s) /\ DOMAIN t = DOMAIN s
  /\ t[i] = v /\ \A j \in DOMAIN s : j # i => t[j] = s[j]

IsJoined(r, s, t) ==
  /\ Line(r) /\ Len(r) = Len(s) + Len(t)
  /\ \A i \in DOMAIN s : r[i] = s[i]
  /\ \A j \in DOMAIN t : r[Len(s) + j] = t[j]
  /\ Range(r) = Range(s) \cup Range(t)

IsFront(t, s) ==
  /\ Line(t) /\ Len(t) = Len(s) - 1 /\ \A i \in 1..(Len(s) - 1) : t[i] = s[i]

\* A sequence with a value added, or one of its values replaced.
LEMMA AppendedValue ==
  ASSUME NEW s, Line(s), NEW v, NEW t, t = Append(s, v)
  PROVE  IsAppended(t, s, v)
<1> DEFINE n == Len(s)
<1>0. s \in Seq(Range(s))
  BY DEF Line
<1>1. n \in Nat /\ DOMAIN s = 1..n
  BY <1>0
<1>2. Len(t) = n + 1 /\ DOMAIN t = 1..(n + 1) /\ t[n + 1] = v /\ \A i \in 1..n : t[i] = s[i]
  BY <1>0
<1> DEFINE R == Range(t)
<1>3. \A i \in 1..n : s[i] \in R
  BY <1>1, <1>2 DEF Range
<1>4. v \in R
  BY <1>1, <1>2 DEF Range
<1>5. t \in Seq(Range(t))
  <2> HIDE DEF n, R
  <2>1. s = [i \in 1..n |-> s[i]] /\ Len(s) = n
    BY <1>0, <1>1 DEF n
  <2>2. s \in Seq(R)
    BY <1>0, <1>1, <1>3, <2>1
  <2>3. t \in Seq(R)
    BY <1>4, <2>2
  <2> QED  BY <2>3 DEF R
<1> QED  BY <1>1, <1>2, <1>5 DEF Line, IsAppended

\* A function on an initial segment of the positive numbers is a sequence.
LEMMA ListIsSeq ==
  ASSUME NEW R, NEW n \in Nat, NEW t \in [1..n -> R]
  PROVE  t \in Seq(R)
BY SeqDef

\* ... and a line of its length.
LEMMA ListIsLine ==
  ASSUME NEW n \in Nat, NEW t, t = [i \in 1..n |-> t[i]]
  PROVE  Line(t) /\ Len(t) = n
<1>1. DOMAIN t = 1..n
  OBVIOUS
<1>2. \A i \in 1..n : t[i] \in Range(t)
  BY <1>1 DEF Range
<1> DEFINE R == Range(t)
<1>3. t \in [1..n -> R]
  <2> HIDE DEF R
  <2> QED  BY <1>2 DEF R
<1>4. t \in Seq(R)
  BY <1>3, ListIsSeq
<1>5. Len(t) \in Nat /\ DOMAIN t = 1..Len(t)
  BY <1>4, LenProperties
<1>6. Len(t) = n
  BY <1>1, <1>5
<1> QED  BY <1>4, <1>6 DEF Line

\* A line with one place replaced.
LEMMA ReplacedValue ==
  ASSUME NEW s, Line(s), NEW i \in DOMAIN s, NEW v, NEW t, t = [s EXCEPT ![i] = v]
  PROVE  IsReplaced(t, s, i, v)
<1> DEFINE n == Len(s)
<1>1. n \in Nat /\ DOMAIN s = 1..n
  BY LineFacts
<1>2. DOMAIN t = 1..n /\ t[i] = v /\ \A j \in 1..n : j # i => t[j] = s[j]
  BY <1>1
<1>3. t = [j \in 1..n |-> t[j]]
  BY <1>1
<1> HIDE DEF n
<1>4. Line(t) /\ Len(t) = n
  BY <1>1, <1>3, ListIsLine
<1> QED  BY <1>1, <1>2, <1>4 DEF n, IsReplaced

\* A line without its last value.
LEMMA FrontValues ==
  ASSUME NEW s, Line(s), Len(s) > 0, NEW t, t = Front(s)
  PROVE  IsFront(t, s)
<1> DEFINE n == Len(s) - 1
<1>0. s \in Seq(Range(s))
  BY DEF Line
<1>1. Len(s) \in Nat /\ n \in Nat /\ DOMAIN s = 1..Len(s)
  BY LineFacts
<1>2. t = SubSeq(s, 1, n)
  BY DEF Front
<1>3. t = [i \in 1..n |-> s[i]]
  BY <1>0, <1>1, <1>2
<1>4. t = [i \in 1..n |-> t[i]]
  BY <1>3
<1>5. \A i \in 1..n : t[i] = s[i]
  BY <1>3
<1> HIDE DEF n
<1>6. Line(t) /\ Len(t) = n
  BY <1>1, <1>4, ListIsLine
<1> QED  BY <1>5, <1>6 DEF n, IsFront

\* One sequence after another.
LEMMA Joined ==
  ASSUME NEW s, Line(s), NEW t, Line(t), NEW r, r = s \o t
  PROVE  IsJoined(r, s, t)
<1> DEFINE m == Len(s)
           n == Len(t)
<1>1. m \in Nat /\ n \in Nat /\ DOMAIN s = 1..m /\ DOMAIN t = 1..n
  BY LineFacts
<1>2. s \in Seq(Range(s)) /\ t \in Seq(Range(t))
  BY DEF Line
<1>3. r = [i \in 1..(m + n) |-> IF i <= m THEN s[i] ELSE t[i - m]]
  <2> DEFINE R == Range(s) \cup Range(t)
  <2>1. s \in Seq(R) /\ t \in Seq(R)
    <3>1. (\A i \in 1..m : s[i] \in R) /\ (\A i \in 1..n : t[i] \in R)
      BY <1>1 DEF Range
    <3> HIDE DEF R
    <3> QED  BY <1>1, <1>2, <3>1
  <2> HIDE DEF R
  <2>2. r \in Seq(R) /\ Len(r) = m + n
    BY <2>1
  <2>3. \A i \in 1..(m + n) : r[i] = IF i <= m THEN s[i] ELSE t[i - m]
    BY <1>1, <2>1
  <2>4. r = [i \in 1..(m + n) |-> r[i]]
    BY <2>2, LenProperties
  <2> QED  BY <2>3, <2>4
<1>4. r = [i \in 1..(m + n) |-> r[i]] /\ DOMAIN r = 1..(m + n)
  BY <1>3
<1>5. (\A i \in 1..m : r[i] = s[i]) /\ (\A j \in 1..n : r[m + j] = t[j])
  BY <1>1, <1>3
<1>6. \A i \in 1..(m + n) : r[i] \in Range(s) \cup Range(t)
  <2> TAKE i \in 1..(m + n)
  <2>1. CASE i <= m
    BY <1>1, <1>3, <2>1 DEF Range
  <2>2. CASE ~(i <= m)
    <3>1. i - m \in 1..n /\ r[i] = t[i - m]
      BY <1>1, <1>3, <2>2
    <3> QED  BY <1>1, <3>1 DEF Range
  <2> QED  BY <2>1, <2>2
<1> HIDE DEF m, n
<1>7. Line(r) /\ Len(r) = m + n
  BY <1>1, <1>4, ListIsLine
<1>8. Range(r) = Range(s) \cup Range(t)
  <2>1. Range(r) \subseteq Range(s) \cup Range(t)
    <3>1. Range(r) = {r[i] : i \in 1..(m + n)}
      BY <1>4 DEF Range
    <3> HIDE DEF Range
    <3> QED  BY <1>6, <3>1
  <2>2. Range(s) \subseteq Range(r)
    <3> SUFFICES ASSUME NEW i \in 1..m PROVE s[i] \in Range(r)
      BY <1>1 DEF Range
    <3>1. i \in 1..(m + n) /\ r[i] = s[i]
      BY <1>1, <1>5
    <3> QED  BY <1>4, <3>1 DEF Range
  <2>3. Range(t) \subseteq Range(r)
    <3> SUFFICES ASSUME NEW j \in 1..n PROVE t[j] \in Range(r)
      BY <1>1 DEF Range
    <3>1. m + j \in 1..(m + n) /\ r[m + j] = t[j]
      BY <1>1, <1>5
    <3> QED  BY <1>4, <3>1 DEF Range
  <2> QED  BY <2>1, <2>2, <2>3
<1> QED  BY <1>1, <1>5, <1>7, <1>8 DEF m, n, IsJoined

-----------------------------------------------------------------------------
(* Places in a body.                                                        *)

Ending == Len(task.body)

LEMMA UnitFacts ==
  ASSUME WellFormed(task)
  PROVE  /\ Line(task.body) /\ Ending \in Nat /\ DOMAIN task.body = 1..Ending
         /\ Line(task.head.params) /\ DOMAIN task.head.params = 1..Len(task.head.params)
         /\ Line(task.head.handles) /\ DOMAIN task.head.handles = 1..Len(task.head.handles)
         /\ Len(task.head.params) \in Nat /\ Len(task.head.handles) \in Nat
         /\ Line(task.world.decls) /\ Len(task.world.decls) \in Nat
         /\ DOMAIN task.world.decls = 1..Len(task.world.decls)
<1>1. /\ Line(task.body) /\ Line(task.head.params)
      /\ Line(task.head.handles) /\ Line(task.world.decls)
  BY DEF WellFormed, Lines, Line
<1> QED  BY <1>1, LineFacts DEF Ending

\* Tokens of a kind, counted from one to the next.
LEMMA BegunStep ==
  ASSUME NEW u, NEW kind, NEW p \in Nat
  PROVE  /\ Begun(u, kind, p) \in Nat
         /\ u.body[p + 1][1] = kind => Begun(u, kind, p + 1) = Begun(u, kind, p) + 1
         /\ u.body[p + 1][1] # kind => Begun(u, kind, p + 1) = Begun(u, kind, p)
<1> DEFINE A == {q \in 1..p : u.body[q][1] = kind}
           B == {q \in 1..(p + 1) : u.body[q][1] = kind}
<1>1. IsFiniteSet(A)
  <2>1. IsFiniteSet(1..p)
    BY FS_Interval
  <2> QED  BY <2>1, FS_Subset
<1>2. Cardinality(A) \in Nat
  BY <1>1, FS_CardinalityType
<1>3. CASE u.body[p + 1][1] = kind
  <2>1. B = A \cup {p + 1} /\ p + 1 \notin A
    BY <1>3
  <2> HIDE DEF A, B
  <2>2. Cardinality(B) = Cardinality(A) + 1
    BY <1>1, <2>1, FS_AddElement
  <2> QED  BY <1>2, <1>3, <2>2 DEF A, B, Begun
<1>4. CASE u.body[p + 1][1] # kind
  <2>1. B = A
    <3>1. \A q \in 1..(p + 1) : q \in 1..p \/ q = p + 1
      OBVIOUS
    <3> QED  BY <1>4, <3>1
  <2> QED  BY <1>2, <1>4, <2>1 DEF Begun
<1> QED  BY <1>3, <1>4

LEMMA BegunNone ==
  ASSUME NEW u, NEW kind
  PROVE  Begun(u, kind, 0) = 0
<1>1. {q \in 1..0 : u.body[q][1] = kind} = {}
  OBVIOUS
<1> QED  BY <1>1, FS_EmptySet DEF Begun

LEMMA BegunGrows ==
  ASSUME NEW u, NEW kind, NEW p \in Nat, NEW q \in Nat, p <= q
  PROVE  Begun(u, kind, p) <= Begun(u, kind, q)
<1> DEFINE A == {r \in 1..p : u.body[r][1] = kind}
           B == {r \in 1..q : u.body[r][1] = kind}
<1>1. A \subseteq B
  OBVIOUS
<1>2. IsFiniteSet(B)
  <2>1. IsFiniteSet(1..q)
    BY FS_Interval
  <2> QED  BY <2>1, FS_Subset
<1> HIDE DEF A, B
<1>3. Cardinality(A) <= Cardinality(B)
  BY <1>1, <1>2, FS_Subset
<1> QED  BY <1>3 DEF A, B, Begun

LEMMA HeadFacts ==
  ASSUME WellFormed(task)
  PROVE  /\ Line(Params) /\ Len(Params) = Len(task.head.params) /\ DOMAIN Params = DOMAIN task.head.params
         /\ Line(Handles) /\ Len(Handles) = Len(task.head.handles) /\ DOMAIN Handles = DOMAIN task.head.handles
         /\ Line(HeadNames) /\ Len(HeadNames) \in Nat /\ DOMAIN HeadNames = 1..Len(HeadNames)
         /\ Len(HeadNames) = Len(Params) + Len(Handles)
         /\ Len(Params) \in Nat /\ Len(Handles) \in Nat
         /\ \A i \in DOMAIN Params : HeadNames[i] = Params[i]
         /\ \A j \in DOMAIN Handles : HeadNames[Len(Params) + j] = Handles[j]
         /\ Range(HeadNames) = Range(Params) \cup Range(Handles)
<1>1. /\ Params = [n \in 1..Len(task.head.params) |-> Params[n]]
      /\ Handles = [n \in 1..Len(task.head.handles) |-> Handles[n]]
  BY UnitFacts DEF Params, Handles
<1>2. Len(task.head.params) \in Nat /\ Len(task.head.handles) \in Nat
  BY UnitFacts
<1>3. /\ Line(Params) /\ Len(Params) = Len(task.head.params)
      /\ Line(Handles) /\ Len(Handles) = Len(task.head.handles)
  <2>1. Line(Params) /\ Len(Params) = Len(task.head.params)
    <3> DEFINE n == Len(task.head.params)
    <3> HIDE DEF n
    <3>1. n \in Nat /\ Params = [i \in 1..n |-> Params[i]]
      BY <1>1, <1>2 DEF n
    <3> QED  BY <3>1, ListIsLine DEF n
  <2>2. Line(Handles) /\ Len(Handles) = Len(task.head.handles)
    <3> DEFINE n == Len(task.head.handles)
    <3> HIDE DEF n
    <3>1. n \in Nat /\ Handles = [i \in 1..n |-> Handles[i]]
      BY <1>1, <1>2 DEF n
    <3> QED  BY <3>1, ListIsLine DEF n
  <2> QED  BY <2>1, <2>2
<1>4. /\ Line(HeadNames) /\ Len(HeadNames) = Len(Params) + Len(Handles)
      /\ \A i \in DOMAIN Params : HeadNames[i] = Params[i]
      /\ \A j \in DOMAIN Handles : HeadNames[Len(Params) + j] = Handles[j]
      /\ Range(HeadNames) = Range(Params) \cup Range(Handles)
  <2>1. IsJoined(HeadNames, Params, Handles)
    BY <1>3, Joined DEF HeadNames
  <2> QED  BY <2>1 DEF IsJoined
<1>5. DOMAIN Params = DOMAIN task.head.params /\ DOMAIN Handles = DOMAIN task.head.handles
  BY DEF Params, Handles
<1> QED  BY <1>2, <1>3, <1>4, <1>5, LineFacts

\* How deep the blocks go, from one token to the next.
LEMMA DepthStep ==
  ASSUME WellFormed(task), NEW p \in 1..Ending
  PROVE  /\ Depth(p) \in Nat /\ Depth(p + 1) \in Nat
         /\ task.body[p][1] = "open" => Depth(p + 1) = Depth(p) + 1
         /\ task.body[p][1] = "close" => Depth(p + 1) = Depth(p) - 1
         /\ task.body[p][1] \notin {"open", "close"} => Depth(p + 1) = Depth(p)
<1>1. Ending \in Nat /\ DOMAIN task.body = 1..Ending
  BY UnitFacts
<1>2. p - 1 \in Nat /\ (p - 1) + 1 = p /\ (p + 1) - 1 = p
  BY <1>1
<1> DEFINE o(n) == Begun(task, "open", n)
           c(n) == Begun(task, "close", n)
<1>3. /\ o(p - 1) \in Nat
      /\ task.body[p][1] = "open" => o(p) = o(p - 1) + 1
      /\ task.body[p][1] # "open" => o(p) = o(p - 1)
  BY <1>2, BegunStep
<1>4. /\ c(p - 1) \in Nat
      /\ task.body[p][1] = "close" => c(p) = c(p - 1) + 1
      /\ task.body[p][1] # "close" => c(p) = c(p - 1)
  BY <1>2, BegunStep
<1>5. c(p) <= o(p)
  BY <1>1 DEF WellFormed
<1>6. c(p - 1) <= o(p - 1)
  <2>1. CASE p = 1
    BY <2>1, BegunNone
  <2>2. CASE p # 1
    <3>1. p - 1 \in DOMAIN task.body
      BY <1>1, <2>2
    <3> QED  BY <3>1 DEF WellFormed
  <2> QED  BY <2>1, <2>2
<1>7. Depth(p) = o(p - 1) - c(p - 1) /\ Depth(p + 1) = o(p) - c(p)
  BY <1>2 DEF Depth
<1> HIDE DEF o, c
<1> QED  BY <1>3, <1>4, <1>5, <1>6, <1>7

LEMMA DepthRange ==
  ASSUME WellFormed(task)
  PROVE  Depth(1) = 0 /\ \A p \in 1..(Ending + 1) : Depth(p) \in Nat
<1>1. Depth(1) = 0
  BY BegunNone DEF Depth
<1>2. Ending \in Nat
  BY UnitFacts
<1>3. ASSUME NEW p \in 1..(Ending + 1) PROVE Depth(p) \in Nat
  <2>1. CASE p = 1
    BY <1>1, <2>1
  <2>2. CASE p # 1
    <3>1. p - 1 \in 1..Ending /\ (p - 1) + 1 = p
      BY <1>2, <2>2
    <3> DEFINE r == p - 1
    <3>2. Depth(r + 1) \in Nat
      <4> HIDE DEF r
      <4>1. r \in 1..Ending
        BY <3>1 DEF r
      <4> QED  BY <4>1, DepthStep
    <3> QED  BY <3>1, <3>2
  <2> QED  BY <2>1, <2>2
<1> QED  BY <1>1, <1>3

\* The ids of the locals, from one token to the next.
LEMMA IdStep ==
  ASSUME WellFormed(task), NEW p \in 1..Ending
  PROVE  /\ LocalId(p - 1) \in Nat /\ LocalId(p) \in Nat
         /\ LocalId(p - 1) >= Len(HeadNames)
         /\ task.body[p][1] = "bind" => LocalId(p) = LocalId(p - 1) + 1
         /\ task.body[p][1] # "bind" => LocalId(p) = LocalId(p - 1)
<1>1. Ending \in Nat /\ Len(HeadNames) \in Nat
  BY UnitFacts, HeadFacts
<1>2. p - 1 \in Nat /\ (p - 1) + 1 = p
  BY <1>1
<1> DEFINE b(n) == Begun(task, "bind", n)
<1>3. /\ b(p - 1) \in Nat
      /\ task.body[p][1] = "bind" => b(p) = b(p - 1) + 1
      /\ task.body[p][1] # "bind" => b(p) = b(p - 1)
  BY <1>2, BegunStep
<1>4. LocalId(p) = Len(HeadNames) + b(p) /\ LocalId(p - 1) = Len(HeadNames) + b(p - 1)
  BY DEF LocalId
<1> HIDE DEF b
<1> QED  BY <1>1, <1>3, <1>4

LEMMA IdsGrow ==
  ASSUME WellFormed(task), NEW p \in 0..Ending, NEW q \in 1..Ending, p < q, task.body[q][1] = "bind"
  PROVE  LocalId(p) \in Nat /\ LocalId(q) \in Nat /\ LocalId(p) < LocalId(q)
         /\ Len(HeadNames) < LocalId(q)
<1>1. Ending \in Nat /\ Len(HeadNames) \in Nat
  BY UnitFacts, HeadFacts
<1>2. LocalId(q) = LocalId(q - 1) + 1 /\ LocalId(q - 1) \in Nat /\ LocalId(q - 1) >= Len(HeadNames)
  BY IdStep
<1>3. p \in Nat /\ q - 1 \in Nat /\ p <= q - 1
  BY <1>1
<1>4. Begun(task, "bind", p) <= Begun(task, "bind", q - 1)
  BY <1>3, BegunGrows
<1>5. Begun(task, "bind", p) \in Nat /\ Begun(task, "bind", q - 1) \in Nat
  BY <1>3, BegunStep
<1>6. LocalId(p) <= LocalId(q - 1) /\ LocalId(p) \in Nat
  BY <1>1, <1>4, <1>5 DEF LocalId
<1> QED  BY <1>1, <1>2, <1>6

-----------------------------------------------------------------------------
(* The bindings that a place of the body sees.                              *)

\* Those in the blocks that are open at p, down to a depth.
VisibleAt(k, p) ==
  {q \in 1..(p - 1) : task.body[q][1] = "bind" /\ InBlockOf(p, q) /\ Depth(q) <= k}

BoundAt(n, k, p) == {q \in VisibleAt(k, p) : task.body[q][2] = n}

LEMMA BoundHere ==
  ASSUME WellFormed(task), NEW n, NEW p \in 1..(Ending + 1)
  PROVE  BoundAt(n, Depth(p), p) = BindingsOf(n, p)
<1>1. Ending \in Nat
  BY UnitFacts
<1>2. ASSUME NEW q \in 1..(p - 1), InBlockOf(p, q)
      PROVE  Depth(q) <= Depth(p)
  <2>1. p \in q..p
    BY <1>1
  <2>2. Depth(p) >= Depth(q)
    BY <1>2, <2>1 DEF InBlockOf
  <2>3. q \in 1..(Ending + 1)
    BY <1>1
  <2>4. Depth(p) \in Nat /\ Depth(q) \in Nat
    BY <2>3, DepthRange
  <2> QED  BY <2>2, <2>4
<1> QED  BY <1>2 DEF BoundAt, VisibleAt, BindingsOf

\* After a token, what is seen at a depth that is still open is what was seen
\* before and what the token binds.
LEMMA VisibleStep ==
  ASSUME WellFormed(task), NEW p \in 1..Ending, NEW k \in Nat, k <= Depth(p + 1)
  PROVE  VisibleAt(k, p + 1) =
           VisibleAt(k, p) \cup (IF task.body[p][1] = "bind" /\ Depth(p) <= k THEN {p} ELSE {})
<1>1. Ending \in Nat /\ p \in 1..(Ending + 1) /\ p + 1 \in 1..(Ending + 1) /\ (p + 1) - 1 = p
  BY UnitFacts
<1>2. \A q \in 1..(Ending + 1) : Depth(q) \in Nat
  BY DepthRange
<1>3. ASSUME NEW q \in 1..(p - 1), Depth(q) <= k
      PROVE  InBlockOf(p + 1, q) <=> InBlockOf(p, q)
  <2>1. q < p /\ q < p + 1 /\ q \in 1..(Ending + 1)
    BY <1>1
  <2>2. \A r : r \in q..(p + 1) <=> r \in q..p \/ r = p + 1
    BY <1>1, <2>1
  <2>3. Depth(p + 1) >= Depth(q)
    BY <1>1, <1>2, <1>3, <2>1
  <2> QED  BY <2>1, <2>2, <2>3 DEF InBlockOf
<1>4. ASSUME task.body[p][1] = "bind"
      PROVE  InBlockOf(p + 1, p)
  <2>1. Depth(p + 1) = Depth(p)
    BY <1>4, DepthStep
  <2>2. p < p + 1 /\ \A r \in p..(p + 1) : r = p \/ r = p + 1
    BY <1>1
  <2>3. Depth(p) \in Nat
    BY <1>1, <1>2
  <2> QED  BY <2>1, <2>2, <2>3 DEF InBlockOf
<1>5. \A q : q \in 1..((p + 1) - 1) <=> q \in 1..(p - 1) \/ q = p
  BY <1>1
<1>6. \A q \in 1..(p - 1) : q \in VisibleAt(k, p + 1) <=> q \in VisibleAt(k, p)
  BY <1>3, <1>5 DEF VisibleAt
<1>7. p \in VisibleAt(k, p + 1) <=> task.body[p][1] = "bind" /\ Depth(p) <= k
  BY <1>4, <1>5 DEF VisibleAt
<1>8. p \notin VisibleAt(k, p) /\ VisibleAt(k, p) \subseteq 1..(p - 1)
  BY <1>1 DEF VisibleAt
<1>9. VisibleAt(k, p + 1) \subseteq 1..(p - 1) \cup {p}
  BY <1>5 DEF VisibleAt
<1> QED  BY <1>6, <1>7, <1>8, <1>9

\* In a block that was opened just before, what is seen is what was seen outside.
LEMMA VisibleDeeper ==
  ASSUME WellFormed(task), NEW p \in 1..(Ending + 1)
  PROVE  VisibleAt(Depth(p) + 1, p) = VisibleAt(Depth(p), p)
<1>1. Ending \in Nat
  BY UnitFacts
<1>2. \A q \in 1..(Ending + 1) : Depth(q) \in Nat
  BY DepthRange
<1>3. ASSUME NEW q \in 1..(p - 1), InBlockOf(p, q)
      PROVE  Depth(q) <= Depth(p) /\ Depth(q) <= Depth(p) + 1
  <2>1. p \in q..p /\ q \in 1..(Ending + 1)
    BY <1>1
  <2>2. Depth(p) >= Depth(q)
    BY <1>3, <2>1 DEF InBlockOf
  <2> QED  BY <1>2, <2>1, <2>2
<1> QED  BY <1>3 DEF VisibleAt

LEMMA VisibleFirst ==
  ASSUME NEW k
  PROVE  VisibleAt(k, 1) = {}
BY DEF VisibleAt

-----------------------------------------------------------------------------
(* What the binder's scopes hold, told from the places.                     *)

FieldNames == IF OfActor THEN task.world.fields ELSE {}

NamesIn(k, p) == Range(HeadNames) \cup FieldNames \cup {task.body[q][2] : q \in VisibleAt(k, p)}

LastInHead(n) == Max({i \in DOMAIN HeadNames : HeadNames[i] = n})

MeaningIn(n, k, p) ==
  IF BoundAt(n, k, p) # {} THEN <<"local", LocalId(Max(BoundAt(n, k, p)))>>
  ELSE IF InHead(n) THEN <<"local", LastInHead(n)>>
  ELSE <<"field", n>>

ScopeIn(k, p) == [n \in NamesIn(k, p) |-> MeaningIn(n, k, p)]

\* The bindings of a name that say whether it may select an actor.
Typed(n, k, p) == {q \in BoundAt(n, k, p) : task.body[q][3] \in {"actor", "value"}}

Selects(n, k, p) ==
  IF Typed(n, k, p) # {} THEN task.body[Max(Typed(n, k, p))][3] = "actor"
  ELSE \E param \in Range(task.head.params) : param.name = n /\ param.actor

SelectorsIn(k, p) == {n \in NamesIn(k, p) : Selects(n, k, p)}

\* The scope that a callable begins with.
LEMMA FirstScope ==
  ASSUME WellFormed(task)
  PROVE  Over(Begin(HeadNames), OuterScope) = ScopeIn(0, 1)
<1>1. /\ Line(HeadNames) /\ Len(HeadNames) \in Nat /\ DOMAIN HeadNames = 1..Len(HeadNames)
  BY HeadFacts
<1>2. DOMAIN Begin(HeadNames) = Range(HeadNames) /\ DOMAIN OuterScope = FieldNames
  BY DEF Begin, OuterScope, FieldNames
<1>3. NamesIn(0, 1) = Range(HeadNames) \cup FieldNames
  BY VisibleFirst DEF NamesIn
<1>4. ASSUME NEW n \in Range(HeadNames)
      PROVE  Begin(HeadNames)[n] = MeaningIn(n, 0, 1)
  <2> DEFINE S == {i \in DOMAIN HeadNames : HeadNames[i] = n}
  <2>1. S # {} /\ S \in SUBSET 1..Len(HeadNames)
    BY <1>1 DEF Range
  <2>2. Max(S) \in S /\ \A x \in S : x <= Max(S)
    <3> DEFINE m == Len(HeadNames)
    <3> HIDE DEF S, m
    <3>1. m \in Nat /\ S \in SUBSET 1..m
      BY <1>1, <2>1 DEF m
    <3> QED  BY <2>1, <3>1, GreatestMember
  <2> DEFINE Latest(i) == HeadNames[i] = n /\ \A j \in (i + 1)..Len(HeadNames) : HeadNames[j] # n
  <2>3. ASSUME NEW i \in DOMAIN HeadNames, Latest(i)
        PROVE  i = Max(S)
    <3>1. i \in S /\ Max(S) \in 1..Len(HeadNames) /\ HeadNames[Max(S)] = n
      BY <2>1, <2>2, <2>3
    <3>2. ~(Max(S) > i)
      BY <1>1, <2>3, <3>1
    <3>3. i <= Max(S)
      BY <2>2, <3>1
    <3> QED  BY <1>1, <3>1, <3>2, <3>3
  <2>4. Latest(Max(S)) /\ Max(S) \in DOMAIN HeadNames
    <3>1. Max(S) \in 1..Len(HeadNames) /\ HeadNames[Max(S)] = n
      BY <2>1, <2>2
    <3>2. ASSUME NEW j \in (Max(S) + 1)..Len(HeadNames), HeadNames[j] = n PROVE FALSE
      <4>1. j \in 1..Len(HeadNames) /\ ~(j <= Max(S))
        BY <1>1, <3>1
      <4>2. j \in S
        BY <1>1, <3>2, <4>1
      <4> QED  BY <2>2, <4>1, <4>2
    <3> QED  BY <1>1, <3>1, <3>2
  <2>5. (CHOOSE i \in DOMAIN HeadNames : Latest(i)) = Max(S)
    <3> HIDE DEF Latest, S
    <3> QED  BY <2>3, <2>4
  <2>6. Begin(HeadNames)[n] = <<"local", Max(S)>>
    BY <2>5 DEF Begin
  <2>7. BoundAt(n, 0, 1) = {} /\ InHead(n) /\ LastInHead(n) = Max(S)
    BY VisibleFirst DEF BoundAt, InHead, LastInHead
  <2> QED  BY <2>6, <2>7 DEF MeaningIn
<1>5. ASSUME NEW n \in FieldNames, n \notin Range(HeadNames)
      PROVE  OuterScope[n] = MeaningIn(n, 0, 1)
  <2>1. BoundAt(n, 0, 1) = {} /\ ~InHead(n)
    BY <1>5, VisibleFirst DEF BoundAt, InHead
  <2>2. OuterScope[n] = <<"field", n>>
    BY DEF OuterScope, FieldNames
  <2> QED  BY <2>1, <2>2 DEF MeaningIn
<1> QED  BY <1>2, <1>3, <1>4, <1>5 DEF Over, ScopeIn

\* A set of places before p and p itself.
LEMMA LatestIs ==
  ASSUME NEW p \in Nat, NEW S \in SUBSET 1..(p - 1)
  PROVE  Max(S \cup {p}) = p
<1>1. \A x \in S \cup {p} : x <= p
  OBVIOUS
<1>2. S \cup {p} \in SUBSET Int /\ p \in S \cup {p}
  OBVIOUS
<1> HIDE DEF Max
<1> DEFINE T == S \cup {p}
<1>3. T \in SUBSET Int /\ p \in T /\ \A x \in T : x <= p
  BY <1>1, <1>2
<1> HIDE DEF T
<1>4. Max(T) = p
  BY <1>3, MaxIs
<1> QED  BY <1>4 DEF T

\* What a binding adds to the scope it is in.
LEMMA ScopeBinds ==
  ASSUME WellFormed(task), NEW p \in 1..Ending, task.body[p][1] = "bind"
  PROVE  /\ ScopeIn(Depth(p), p + 1) = Put(ScopeIn(Depth(p), p), task.body[p][2], <<"local", LocalId(p)>>)
         /\ SelectorsIn(Depth(p), p + 1) =
              CASE task.body[p][3] = "actor" -> SelectorsIn(Depth(p), p) \cup {task.body[p][2]}
                [] task.body[p][3] = "value" -> SelectorsIn(Depth(p), p) \ {task.body[p][2]}
                [] OTHER -> SelectorsIn(Depth(p), p)
<1> DEFINE D == Depth(p)
           x == task.body[p][2]
<1>1. Depth(p + 1) = D /\ D \in Nat
  BY DepthStep
<1>2. VisibleAt(D, p + 1) = VisibleAt(D, p) \cup {p}
  BY <1>1, VisibleStep
<1>3. VisibleAt(D, p) \subseteq 1..(p - 1) /\ p \in Nat
  BY UnitFacts DEF VisibleAt
<1> HIDE DEF D
<1>4. /\ \A n : n # x => BoundAt(n, D, p + 1) = BoundAt(n, D, p)
      /\ BoundAt(x, D, p + 1) = BoundAt(x, D, p) \cup {p}
  BY <1>2 DEF BoundAt
<1>5. NamesIn(D, p + 1) = NamesIn(D, p) \cup {x}
  BY <1>2 DEF NamesIn
<1>6. \A n : n # x => MeaningIn(n, D, p + 1) = MeaningIn(n, D, p)
  BY <1>4 DEF MeaningIn
<1>7. BoundAt(x, D, p) \in SUBSET 1..(p - 1)
  BY <1>3 DEF BoundAt
<1>8. MeaningIn(x, D, p + 1) = <<"local", LocalId(p)>>
  <2>1. Max(BoundAt(x, D, p + 1)) = p
    BY <1>3, <1>4, <1>7, LatestIs
  <2>2. BoundAt(x, D, p + 1) # {}
    BY <1>4
  <2> QED  BY <2>1, <2>2 DEF MeaningIn
<1>9. ScopeIn(D, p + 1) = Put(ScopeIn(D, p), x, <<"local", LocalId(p)>>)
  BY <1>5, <1>6, <1>8 DEF ScopeIn, Put
<1>10. \A n : n # x => (Selects(n, D, p + 1) <=> Selects(n, D, p))
  BY <1>4 DEF Selects, Typed
<1>11. CASE task.body[p][3] \in {"actor", "value"}
  <2>1. Typed(x, D, p + 1) = Typed(x, D, p) \cup {p}
    BY <1>4, <1>11 DEF Typed
  <2>2. Typed(x, D, p) \in SUBSET 1..(p - 1)
    BY <1>7 DEF Typed
  <2>3. Max(Typed(x, D, p + 1)) = p
    BY <1>3, <2>1, <2>2, LatestIs
  <2>4. Selects(x, D, p + 1) <=> task.body[p][3] = "actor"
    BY <2>1, <2>3 DEF Selects
  <2>5. SelectorsIn(D, p + 1) =
          IF task.body[p][3] = "actor" THEN SelectorsIn(D, p) \cup {x} ELSE SelectorsIn(D, p) \ {x}
    BY <1>5, <1>10, <2>4 DEF SelectorsIn
  <2> QED  BY <1>9, <1>11, <2>5 DEF D
<1>12. CASE task.body[p][3] \notin {"actor", "value"}
  <2>1. Typed(x, D, p + 1) = Typed(x, D, p)
    BY <1>4, <1>12 DEF Typed
  <2>2. Selects(x, D, p + 1) <=> Selects(x, D, p)
    BY <2>1 DEF Selects
  <2>3. Selects(x, D, p) => x \in NamesIn(D, p)
    <3> SUFFICES ASSUME Selects(x, D, p) PROVE x \in NamesIn(D, p)
      OBVIOUS
    <3>1. CASE Typed(x, D, p) # {}
      BY <3>1 DEF Typed, BoundAt, NamesIn
    <3>2. CASE Typed(x, D, p) = {}
      <4>1. PICK param \in Range(task.head.params) : param.name = x
        BY <3>2 DEF Selects
      <4>2. x \in Range(Params)
        BY <4>1 DEF Range, Params
      <4> QED  BY <4>2, HeadFacts DEF NamesIn
    <3> QED  BY <3>1, <3>2
  <2>4. SelectorsIn(D, p + 1) = SelectorsIn(D, p)
    BY <1>5, <1>10, <2>2, <2>3 DEF SelectorsIn
  <2> QED  BY <1>9, <1>12, <2>4 DEF D
<1> QED  BY <1>11, <1>12

\* What a token leaves as it is: the scopes outside of the one a binding is in.
LEMMA ScopeStays ==
  ASSUME WellFormed(task), NEW p \in 1..Ending, NEW k \in Nat, k <= Depth(p + 1),
         task.body[p][1] = "bind" => k < Depth(p)
  PROVE  ScopeIn(k, p + 1) = ScopeIn(k, p) /\ SelectorsIn(k, p + 1) = SelectorsIn(k, p)
<1>1. VisibleAt(k, p + 1) = VisibleAt(k, p)
  <2>1. Depth(p) \in Nat
    BY DepthStep
  <2>2. ~(task.body[p][1] = "bind" /\ Depth(p) <= k)
    BY <2>1
  <2>3. VisibleAt(k, p + 1) =
          VisibleAt(k, p) \cup (IF task.body[p][1] = "bind" /\ Depth(p) <= k THEN {p} ELSE {})
    BY VisibleStep
  <2> QED  BY <2>2, <2>3
<1>2. (\A n : BoundAt(n, k, p + 1) = BoundAt(n, k, p)) /\ NamesIn(k, p + 1) = NamesIn(k, p)
  BY <1>1 DEF BoundAt, NamesIn
<1>3. \A n : MeaningIn(n, k, p + 1) = MeaningIn(n, k, p)
  BY <1>2 DEF MeaningIn
<1>4. \A n : Selects(n, k, p + 1) <=> Selects(n, k, p)
  <2>1. \A n : Typed(n, k, p + 1) = Typed(n, k, p)
    BY <1>2 DEF Typed
  <2> QED  BY <2>1 DEF Selects
<1>5. ScopeIn(k, p + 1) = ScopeIn(k, p)
  BY <1>2, <1>3 DEF ScopeIn
<1>6. SelectorsIn(k, p + 1) = SelectorsIn(k, p)
  BY <1>2, <1>4 DEF SelectorsIn
<1> QED  BY <1>5, <1>6

LEMMA ScopeDeeper ==
  ASSUME WellFormed(task), NEW p \in 1..(Ending + 1)
  PROVE  /\ ScopeIn(Depth(p) + 1, p) = ScopeIn(Depth(p), p)
         /\ SelectorsIn(Depth(p) + 1, p) = SelectorsIn(Depth(p), p)
<1> DEFINE D == Depth(p)
<1>1. VisibleAt(D + 1, p) = VisibleAt(D, p)
  BY VisibleDeeper
<1> HIDE DEF D
<1>2. (\A n : BoundAt(n, D + 1, p) = BoundAt(n, D, p)) /\ NamesIn(D + 1, p) = NamesIn(D, p)
  BY <1>1 DEF BoundAt, NamesIn
<1>3. \A n : MeaningIn(n, D + 1, p) = MeaningIn(n, D, p)
  BY <1>2 DEF MeaningIn
<1>4. \A n : Selects(n, D + 1, p) <=> Selects(n, D, p)
  <2>1. \A n : Typed(n, D + 1, p) = Typed(n, D, p)
    BY <1>2 DEF Typed
  <2> QED  BY <2>1 DEF Selects
<1> QED  BY <1>2, <1>3, <1>4 DEF D, ScopeIn, SelectorsIn

\* The selectors that a callable begins with.
LEMMA FirstSelectors ==
  ASSUME WellFormed(task)
  PROVE  SelectorsIn(0, 1) = {param.name : param \in {q \in Range(task.head.params) : q.actor}}
<1>1. \A n : Typed(n, 0, 1) = {}
  BY VisibleFirst DEF Typed, BoundAt
<1>2. \A n : Selects(n, 0, 1) <=> \E param \in Range(task.head.params) : param.name = n /\ param.actor
  BY <1>1 DEF Selects
<1>3. \A param \in Range(task.head.params) : param.name \in Range(Params)
  BY DEF Range, Params
<1>4. \A param \in Range(task.head.params) : param.name \in NamesIn(0, 1)
  BY <1>3, HeadFacts DEF NamesIn
<1> QED  BY <1>2, <1>4 DEF SelectorsIn

-----------------------------------------------------------------------------
(* Binding.                                                                 *)

LocalMeaningAt(q) ==
  LET how == task.body[q][2]
      n == task.body[q][3]
  IN  CASE how = "call" -> IF n \in task.world.helpers THEN {<<"helper", n>>} ELSE {}
        [] how = "field" -> IF OfActor /\ n \in task.world.fields THEN {<<"field", n>>} ELSE {}
        [] OTHER -> IF n \in NamesIn(Depth(q), q) THEN {MeaningIn(n, Depth(q), q)} ELSE {}

MeaningsAt(q) ==
  IF LocalMeaningAt(q) # {} \/ task.body[q][2] = "field" THEN LocalMeaningAt(q)
  ELSE {<<"decl", d>> : d \in Declaring(task.body[q][3])}

SelectableAt(q) ==
  task.body[q][2] = "route" =>
    \/ task.body[q][3] \in SelectorsIn(Depth(q), q)
    \/ task.body[q][3] \notin NamesIn(Depth(q), q)

BindsBefore(P) == {q \in 1..(P - 1) : task.body[q][1] = "bind"}
UsesBefore(P) == {q \in 1..(P - 1) : task.body[q][1] = "use"}

\* The tokens before P are bound.
BoundUpTo(P) ==
  /\ Line(locals) /\ Len(locals) = LocalId(P - 1)
  /\ \A i \in DOMAIN HeadNames : locals[i] = HeadNames[i]
  /\ Range(locals) = Range(HeadNames) \cup {task.body[q][2] : q \in BindsBefore(P)}
  /\ \A q \in BindsBefore(P) : locals[LocalId(q)] = task.body[q][2] /\ sites[q] = <<"local", LocalId(q)>>
  /\ \A q \in UsesBefore(P) : sites[q] \in MeaningsAt(q) /\ SelectableAt(q)
  /\ DOMAIN sites = BindsBefore(P) \cup UsesBefore(P)

StacksAt(P) ==
  /\ Line(scopes) /\ Len(scopes) = Depth(P) + 1
  /\ \A k \in 1..(Depth(P) + 1) : scopes[k] = ScopeIn(k - 1, P)
  /\ Line(selectors) /\ Len(selectors) = Depth(P) + 1
  /\ \A k \in 1..(Depth(P) + 1) : selectors[k] = SelectorsIn(k - 1, P)

BindInv ==
  stage = "bind" => pos \in 1..(Ending + 1) /\ BoundUpTo(pos) /\ StacksAt(pos)

BoundInv == stage \in {"check", "name", "emit", "accepted"} => BoundUpTo(Ending + 1)

BindFrame ==
  /\ Ending' = Ending /\ HeadNames' = HeadNames
  /\ \A q : LocalId(q)' = LocalId(q)
  /\ \A q : Depth(q)' = Depth(q)
  /\ \A k, q : ScopeIn(k, q)' = ScopeIn(k, q)
  /\ \A k, q : NamesIn(k, q)' = NamesIn(k, q)
  /\ \A k, q : SelectorsIn(k, q)' = SelectorsIn(k, q)
  /\ \A q : MeaningsAt(q)' = MeaningsAt(q)
  /\ \A q : SelectableAt(q)' <=> SelectableAt(q)
  /\ \A q : BindsBefore(q)' = BindsBefore(q)
  /\ \A q : UsesBefore(q)' = UsesBefore(q)

\* What is told from the task does not change.
LEMMA BindFrames ==
  ASSUME task' = task
  PROVE  BindFrame
<1>1. Ending' = Ending /\ HeadNames' = HeadNames /\ (OfActor' <=> OfActor) /\ FieldNames' = FieldNames
  BY DEF Ending, HeadNames, Params, Handles, OfActor, FieldNames
<1>2. \A q : LocalId(q)' = LocalId(q)
  BY <1>1 DEF LocalId
<1>3. \A q : Depth(q)' = Depth(q)
  BY DEF Depth
<1>4. \A k, q : VisibleAt(k, q)' = VisibleAt(k, q)
  BY <1>3 DEF VisibleAt, InBlockOf
<1>5. \A n, k, q : BoundAt(n, k, q)' = BoundAt(n, k, q)
  BY <1>4 DEF BoundAt
<1>6. \A k, q : NamesIn(k, q)' = NamesIn(k, q)
  BY <1>1, <1>4 DEF NamesIn
<1>7. \A n : LastInHead(n)' = LastInHead(n) /\ (InHead(n)' <=> InHead(n))
  BY <1>1 DEF LastInHead, InHead
<1>8. \A n, k, q : MeaningIn(n, k, q)' = MeaningIn(n, k, q)
  <2> TAKE n, k, q
  <2>1. BoundAt(n, k, q)' = BoundAt(n, k, q)
    BY <1>5
  <2>2. \A r : LocalId(r)' = LocalId(r)
    BY <1>2
  <2> QED  BY <1>1, <2>1, <2>2 DEF MeaningIn, LocalId, LastInHead, InHead
<1>9. \A k, q : ScopeIn(k, q)' = ScopeIn(k, q)
  BY <1>6, <1>8 DEF ScopeIn
<1>10. \A n, k, q : Typed(n, k, q)' = Typed(n, k, q)
  BY <1>5 DEF Typed
<1>11. \A n, k, q : Selects(n, k, q)' <=> Selects(n, k, q)
  BY <1>10 DEF Selects
<1>12. \A k, q : SelectorsIn(k, q)' = SelectorsIn(k, q)
  BY <1>6, <1>11 DEF SelectorsIn
<1>13. \A q : LocalMeaningAt(q)' = LocalMeaningAt(q)
  BY DEF LocalMeaningAt, NamesIn, MeaningIn, FieldNames, OfActor, BoundAt, VisibleAt, InBlockOf,
         InHead, LastInHead, HeadNames, Params, Handles, Depth, LocalId
<1>14. \A n : Declaring(n)' = Declaring(n)
  BY DEF Declaring, Items
<1>15. \A q : MeaningsAt(q)' = MeaningsAt(q)
  BY <1>13, <1>14 DEF MeaningsAt, Declaring, Items
<1>16. \A q : SelectableAt(q)' <=> SelectableAt(q)
  BY DEF SelectableAt, SelectorsIn, Selects, Typed, NamesIn, FieldNames, OfActor, BoundAt, VisibleAt,
         InBlockOf, HeadNames, Params, Handles, Depth
<1>17. \A q : BindsBefore(q)' = BindsBefore(q) /\ UsesBefore(q)' = UsesBefore(q)
  BY DEF BindsBefore, UsesBefore
<1> QED
  BY <1>1, <1>2, <1>3, <1>6, <1>9, <1>12, <1>15, <1>16, <1>17 DEF BindFrame

LEMMA BindStarts ==
  ASSUME BodyInit, WellFormed(task)
  PROVE  stage = "bind" /\ BindInv /\ BoundInv
<1>1. stage = "bind" /\ pos = 1 /\ locals = HeadNames /\ sites = <<>>
  BY DEF BodyInit, HeadNames
<1>2. Ending \in Nat /\ pos \in 1..(Ending + 1)
  BY <1>1, UnitFacts
<1>3. BindsBefore(1) = {} /\ UsesBefore(1) = {}
  BY DEF BindsBefore, UsesBefore
<1>4. LocalId(0) = Len(HeadNames)
  BY BegunNone, HeadFacts DEF LocalId
<1>5. BoundUpTo(1)
  <2>1. Line(locals) /\ Len(locals) = LocalId(1 - 1)
    BY <1>1, <1>4, HeadFacts
  <2>2. DOMAIN sites = {}
    BY <1>1
  <2> QED  BY <1>1, <1>3, <2>1, <2>2 DEF BoundUpTo
<1>6. StacksAt(1)
  <2>1. Depth(1) = 0
    BY DepthRange
  <2>2. scopes = <<ScopeIn(0, 1)>>
    BY <1>1, FirstScope DEF BodyInit
  <2>3. selectors = <<SelectorsIn(0, 1)>>
    BY FirstSelectors DEF BodyInit
  <2> DEFINE t == <<ScopeIn(0, 1)>>
             u == <<SelectorsIn(0, 1)>>
  <2>4. /\ t = [i \in 1..1 |-> t[i]] /\ t[1] = ScopeIn(0, 1)
        /\ u = [i \in 1..1 |-> u[i]] /\ u[1] = SelectorsIn(0, 1)
    OBVIOUS
  <2> HIDE DEF t, u
  <2>5. Line(t) /\ Len(t) = 1 /\ Line(u) /\ Len(u) = 1
    BY <2>4, ListIsLine
  <2>6. scopes = t /\ selectors = u
    BY <2>2, <2>3 DEF t, u
  <2>7. \A k \in 1..(0 + 1) : k = 1 /\ k - 1 = 0
    OBVIOUS
  <2> QED  BY <2>1, <2>4, <2>5, <2>6, <2>7 DEF StacksAt
<1> QED  BY <1>1, <1>2, <1>5, <1>6 DEF BindInv, BoundInv

\* The place of a token that is bound.
LEMMA TokenPlace ==
  ASSUME WellFormed(task), pos \in 1..(Ending + 1), pos <= Len(task.body)
  PROVE  /\ pos \in 1..Ending /\ pos + 1 \in 1..(Ending + 1) /\ (pos + 1) - 1 = pos
         /\ Ending \in Nat /\ pos - 1 \in Nat
         /\ BindsBefore(pos + 1) = BindsBefore(pos) \cup (IF task.body[pos][1] = "bind" THEN {pos} ELSE {})
         /\ UsesBefore(pos + 1) = UsesBefore(pos) \cup (IF task.body[pos][1] = "use" THEN {pos} ELSE {})
         /\ pos \notin BindsBefore(pos) /\ pos \notin UsesBefore(pos)
<1>1. Ending \in Nat
  BY UnitFacts
<1>2. pos \in 1..Ending /\ pos + 1 \in 1..(Ending + 1) /\ (pos + 1) - 1 = pos /\ pos - 1 \in Nat
  BY <1>1 DEF Ending
<1>3. \A q : q \in 1..((pos + 1) - 1) <=> q \in 1..(pos - 1) \/ q = pos
  BY <1>2
<1>4. pos \notin 1..(pos - 1)
  BY <1>2
<1> QED  BY <1>1, <1>2, <1>3, <1>4 DEF BindsBefore, UsesBefore

\* The scope a token is in.
LEMMA ScopeHere ==
  ASSUME WellFormed(task), pos \in 1..(Ending + 1), StacksAt(pos)
  PROVE  Scope = ScopeIn(Depth(pos), pos) /\ Last(selectors) = SelectorsIn(Depth(pos), pos)
<1>1. Depth(pos) \in Nat
  BY DepthRange
<1>2. Depth(pos) + 1 \in 1..(Depth(pos) + 1) /\ (Depth(pos) + 1) - 1 = Depth(pos)
  BY <1>1
<1> DEFINE D == Depth(pos)
<1>3. scopes[D + 1] = ScopeIn((D + 1) - 1, pos) /\ selectors[D + 1] = SelectorsIn((D + 1) - 1, pos)
  BY <1>2 DEF StacksAt
<1>4. Len(scopes) = D + 1 /\ Len(selectors) = D + 1
  BY DEF StacksAt
<1>5. (D + 1) - 1 = D
  BY <1>2
<1> HIDE DEF D
<1> QED  BY <1>3, <1>4, <1>5 DEF Scope, Last, D

LEMMA MeaningsHere ==
  ASSUME WellFormed(task), pos \in 1..(Ending + 1), StacksAt(pos)
  PROVE  /\ Meanings(Token[2], Token[3]) = MeaningsAt(pos)
         /\ Selectable(Token[2], Token[3]) <=> SelectableAt(pos)
<1>1. /\ DOMAIN Scope = NamesIn(Depth(pos), pos)
      /\ \A n \in NamesIn(Depth(pos), pos) : Scope[n] = MeaningIn(n, Depth(pos), pos)
  BY ScopeHere DEF ScopeIn
<1>2. LocalMeaning(Token[2], Token[3]) = LocalMeaningAt(pos)
  BY <1>1 DEF LocalMeaning, LocalMeaningAt, Token
<1>3. Meanings(Token[2], Token[3]) = MeaningsAt(pos)
  BY <1>2 DEF Meanings, MeaningsAt, Token
<1>4. Selectable(Token[2], Token[3]) <=> SelectableAt(pos)
  BY <1>1, ScopeHere DEF Selectable, SelectableAt, Token
<1> QED  BY <1>3, <1>4

\* The tokens before the next one are bound, told from what does not change.
LEMMA BoundNext ==
  ASSUME BindFrame, task' = task,
         Line(locals') /\ Len(locals') = LocalId(pos' - 1),
         \A i \in DOMAIN HeadNames : locals'[i] = HeadNames[i],
         Range(locals') = Range(HeadNames) \cup {task.body[q][2] : q \in BindsBefore(pos')},
         \A q \in BindsBefore(pos') : locals'[LocalId(q)] = task.body[q][2] /\ sites'[q] = <<"local", LocalId(q)>>,
         \A q \in UsesBefore(pos') : sites'[q] \in MeaningsAt(q) /\ SelectableAt(q),
         DOMAIN sites' = BindsBefore(pos') \cup UsesBefore(pos')
  PROVE  BoundUpTo(pos)'
<1>1. (Line(locals) /\ Len(locals) = LocalId(pos - 1))'
  BY DEF BindFrame
<1>2. (\A i \in DOMAIN HeadNames : locals[i] = HeadNames[i])'
  BY DEF BindFrame
<1>3. (Range(locals) = Range(HeadNames) \cup {task.body[q][2] : q \in BindsBefore(pos)})'
  BY DEF BindFrame, BindsBefore
<1>4. (\A q \in BindsBefore(pos) : locals[LocalId(q)] = task.body[q][2] /\ sites[q] = <<"local", LocalId(q)>>)'
  BY DEF BindFrame
<1>5. (\A q \in UsesBefore(pos) : sites[q] \in MeaningsAt(q) /\ SelectableAt(q))'
  BY DEF BindFrame
<1>6. (DOMAIN sites = BindsBefore(pos) \cup UsesBefore(pos))'
  BY DEF BindFrame
<1> QED  BY <1>1, <1>2, <1>3, <1>4, <1>5, <1>6 DEF BoundUpTo

\* A token that binds nothing and opens or closes no block.
LEMMA UseBinds ==
  ASSUME WellFormed(task), BindInv, BindUse, stage' = "bind"
  PROVE  BindInv'
<1>1. /\ stage = "bind" /\ pos \in 1..(Ending + 1) /\ BoundUpTo(pos) /\ StacksAt(pos)
      /\ pos <= Len(task.body) /\ task.body[pos][1] = "use"
  BY DEF BindInv, BindUse, AtToken, Token
<1>2. /\ Meanings(Token[2], Token[3]) # {} /\ Selectable(Token[2], Token[3])
      /\ sites' = Put(sites, pos, CHOOSE m \in Meanings(Token[2], Token[3]) : TRUE)
      /\ pos' = pos + 1 /\ task' = task /\ scopes' = scopes /\ locals' = locals /\ selectors' = selectors
  BY DEF BindUse, Refuse
<1>3. (CHOOSE m \in Meanings(Token[2], Token[3]) : TRUE) \in MeaningsAt(pos) /\ SelectableAt(pos)
  BY <1>1, <1>2, MeaningsHere
<1> DEFINE P == pos + 1
<1>4. /\ pos \in 1..Ending /\ P \in 1..(Ending + 1) /\ P - 1 = pos
      /\ BindsBefore(P) = BindsBefore(pos) /\ UsesBefore(P) = UsesBefore(pos) \cup {pos}
      /\ pos \notin BindsBefore(pos) /\ pos \notin UsesBefore(pos)
  BY <1>1, TokenPlace
<1>5. LocalId(pos) = LocalId(pos - 1) /\ Depth(P) = Depth(pos) /\ Depth(P) \in Nat
  BY <1>1, <1>4, IdStep, DepthStep
<1>6. BindFrame
  BY <1>2, BindFrames
<1>7. /\ DOMAIN sites' = DOMAIN sites \cup {pos} /\ sites'[pos] \in MeaningsAt(pos)
      /\ \A q \in DOMAIN sites \ {pos} : sites'[q] = sites[q]
  BY <1>2, <1>3 DEF Put
<1>8. BoundUpTo(pos)'
  <2>1. /\ Line(locals) /\ Len(locals) = LocalId(P - 1)
        /\ \A i \in DOMAIN HeadNames : locals[i] = HeadNames[i]
        /\ Range(locals) = Range(HeadNames) \cup {task.body[q][2] : q \in BindsBefore(P)}
    BY <1>1, <1>4, <1>5 DEF BoundUpTo
  <2>2. \A q \in BindsBefore(P) : locals[LocalId(q)] = task.body[q][2] /\ sites'[q] = <<"local", LocalId(q)>>
    BY <1>1, <1>4, <1>7 DEF BoundUpTo
  <2>3. \A q \in UsesBefore(P) : sites'[q] \in MeaningsAt(q) /\ SelectableAt(q)
    BY <1>1, <1>3, <1>4, <1>7 DEF BoundUpTo
  <2>4. DOMAIN sites' = BindsBefore(P) \cup UsesBefore(P)
    BY <1>1, <1>4, <1>7 DEF BoundUpTo
  <2> HIDE DEF P
  <2>5. pos' = P
    BY <1>2 DEF P
  <2> QED  BY <1>2, <1>6, <2>1, <2>2, <2>3, <2>4, <2>5, BoundNext
<1>9. StacksAt(pos)'
  <2>1. \A k \in 1..(Depth(P) + 1) : scopes[k] = ScopeIn(k - 1, P) /\ selectors[k] = SelectorsIn(k - 1, P)
    <3> TAKE k \in 1..(Depth(P) + 1)
    <3>1. k - 1 \in Nat /\ k - 1 <= Depth(pos + 1) /\ k \in 1..(Depth(pos) + 1)
      BY <1>5
    <3>2. ScopeIn(k - 1, pos + 1) = ScopeIn(k - 1, pos) /\ SelectorsIn(k - 1, pos + 1) = SelectorsIn(k - 1, pos)
      BY <1>1, <1>4, <3>1, ScopeStays
    <3> QED  BY <1>1, <3>1, <3>2 DEF StacksAt
  <2>2. Line(scopes) /\ Len(scopes) = Depth(P) + 1 /\ Line(selectors) /\ Len(selectors) = Depth(P) + 1
    BY <1>1, <1>5 DEF StacksAt
  <2> HIDE DEF P
  <2>3. pos' = P
    BY <1>2 DEF P
  <2> QED  BY <1>2, <1>6, <2>1, <2>2, <2>3 DEF StacksAt, BindFrame
<1>10. pos' \in 1..(Ending' + 1)
  BY <1>2, <1>4, <1>6 DEF BindFrame
<1> QED  BY <1>8, <1>9, <1>10 DEF BindInv

LEMMA LocalBinds ==
  ASSUME WellFormed(task), BindInv, BindLocal
  PROVE  BindInv'
<1>1. /\ stage = "bind" /\ pos \in 1..(Ending + 1) /\ BoundUpTo(pos) /\ StacksAt(pos)
      /\ pos <= Len(task.body) /\ task.body[pos][1] = "bind" /\ Token = task.body[pos]
  BY DEF BindInv, BindLocal, AtToken, Token
<1> DEFINE P == pos + 1
           x == task.body[pos][2]
           D == Depth(pos)
<1>2. /\ pos \in 1..Ending /\ P \in 1..(Ending + 1) /\ P - 1 = pos
      /\ BindsBefore(P) = BindsBefore(pos) \cup {pos} /\ UsesBefore(P) = UsesBefore(pos)
      /\ pos \notin BindsBefore(pos) /\ pos \notin UsesBefore(pos)
  BY <1>1, TokenPlace
<1>3. /\ LocalId(pos) = LocalId(pos - 1) + 1 /\ LocalId(pos - 1) \in Nat
      /\ Depth(P) = D /\ D \in Nat /\ Len(HeadNames) <= LocalId(pos - 1) /\ Len(HeadNames) \in Nat
  BY <1>1, <1>2, IdStep, DepthStep, HeadFacts
<1>4. /\ Len(locals) = LocalId(pos - 1) /\ Line(locals)
      /\ Line(scopes) /\ Len(scopes) = D + 1 /\ Line(selectors) /\ Len(selectors) = D + 1
  BY <1>1 DEF BoundUpTo, StacksAt
<1>5. /\ locals' = Append(locals, x)
      /\ scopes' = [scopes EXCEPT ![D + 1] = Put(scopes[D + 1], x, <<"local", LocalId(pos)>>)]
      /\ selectors' = [selectors EXCEPT ![D + 1] =
                         CASE task.body[pos][3] = "actor" -> selectors[D + 1] \cup {x}
                           [] task.body[pos][3] = "value" -> selectors[D + 1] \ {x}
                           [] OTHER -> selectors[D + 1]]
      /\ sites' = Put(sites, pos, <<"local", LocalId(pos)>>)
      /\ pos' = P /\ task' = task
  BY <1>1, <1>3, <1>4 DEF BindLocal, InTop
<1>6. BindFrame
  BY <1>5, BindFrames
<1>7. IsAppended(locals', locals, x)
  BY <1>4, <1>5, AppendedValue
<1>8. Range(locals') = Range(locals) \cup {x}
  <2>1. /\ DOMAIN locals = 1..Len(locals) /\ Len(locals) \in Nat
    BY <1>4, LineFacts
  <2>2. /\ DOMAIN locals' = 1..(Len(locals) + 1) /\ locals'[Len(locals) + 1] = x
        /\ \A i \in 1..Len(locals) : locals'[i] = locals[i]
    BY <1>7 DEF IsAppended
  <2>3. \A i : i \in 1..(Len(locals) + 1) <=> i \in 1..Len(locals) \/ i = Len(locals) + 1
    BY <2>1
  <2> QED  BY <2>1, <2>2, <2>3 DEF Range
<1>9. /\ DOMAIN sites' = DOMAIN sites \cup {pos} /\ sites'[pos] = <<"local", LocalId(pos)>>
      /\ \A q \in DOMAIN sites \ {pos} : sites'[q] = sites[q]
  BY <1>5 DEF Put
<1>10. BoundUpTo(pos)'
  <2>1. Line(locals') /\ Len(locals') = LocalId(P - 1)
    BY <1>2, <1>3, <1>4, <1>7 DEF IsAppended
  <2>2. \A i \in DOMAIN HeadNames : locals'[i] = HeadNames[i]
    <3>1. \A i \in DOMAIN HeadNames : i \in 1..Len(locals)
      BY <1>3, <1>4, HeadFacts
    <3> QED  BY <1>1, <1>7, <3>1 DEF BoundUpTo, IsAppended
  <2>3. Range(locals') = Range(HeadNames) \cup {task.body[q][2] : q \in BindsBefore(P)}
    BY <1>1, <1>2, <1>8 DEF BoundUpTo
  <2>4. \A q \in BindsBefore(pos) : LocalId(q) \in 1..Len(locals)
    <3> TAKE q \in BindsBefore(pos)
    <3>1. q \in 1..Ending /\ q \in 0..Ending /\ q < pos /\ task.body[q][1] = "bind" /\ 0 \in 0..Ending /\ 0 < q
      BY <1>2, UnitFacts DEF BindsBefore
    <3>2. LocalId(q) \in Nat /\ LocalId(q) < LocalId(pos)
      BY <1>1, <1>2, <3>1, IdsGrow
    <3>3. Len(HeadNames) < LocalId(q)
      BY <3>1, IdsGrow
    <3> QED  BY <1>3, <1>4, <3>2, <3>3
  <2>5. \A q \in BindsBefore(P) : locals'[LocalId(q)] = task.body[q][2] /\ sites'[q] = <<"local", LocalId(q)>>
    <3>1. \A q \in BindsBefore(pos) :
            locals'[LocalId(q)] = task.body[q][2] /\ sites'[q] = <<"local", LocalId(q)>>
      BY <1>1, <1>2, <1>7, <1>9, <2>4 DEF BoundUpTo, IsAppended
    <3>2. locals'[LocalId(pos)] = x
      BY <1>3, <1>4, <1>7 DEF IsAppended
    <3> QED  BY <1>2, <1>9, <3>1, <3>2
  <2>6. \A q \in UsesBefore(P) : sites'[q] \in MeaningsAt(q) /\ SelectableAt(q)
    BY <1>1, <1>2, <1>9 DEF BoundUpTo
  <2>7. DOMAIN sites' = BindsBefore(P) \cup UsesBefore(P)
    BY <1>1, <1>2, <1>9 DEF BoundUpTo
  <2> HIDE DEF P, x, D
  <2>8. pos' = P /\ task' = task
    BY <1>5
  <2> QED  BY <1>6, <2>1, <2>2, <2>3, <2>5, <2>6, <2>7, <2>8, BoundNext
<1>11. StacksAt(pos)'
  <2>1. D + 1 \in DOMAIN scopes /\ D + 1 \in DOMAIN selectors
    BY <1>3, <1>4, LineFacts
  <2>2. /\ IsReplaced(scopes', scopes, D + 1, Put(scopes[D + 1], x, <<"local", LocalId(pos)>>))
        /\ IsReplaced(selectors', selectors, D + 1,
                      CASE task.body[pos][3] = "actor" -> selectors[D + 1] \cup {x}
                        [] task.body[pos][3] = "value" -> selectors[D + 1] \ {x}
                        [] OTHER -> selectors[D + 1])
    BY <1>4, <1>5, <2>1, ReplacedValue
  <2>3. scopes[D + 1] = ScopeIn(D, pos) /\ selectors[D + 1] = SelectorsIn(D, pos)
    BY <1>1, <1>4, ScopeHere DEF Scope, Last
  <2>4. scopes'[D + 1] = ScopeIn(D, P) /\ selectors'[D + 1] = SelectorsIn(D, P)
    BY <1>1, <1>2, <2>2, <2>3, ScopeBinds DEF IsReplaced
  <2>5. ASSUME NEW k \in 1..(D + 1), k # D + 1
        PROVE  scopes'[k] = ScopeIn(k - 1, P) /\ selectors'[k] = SelectorsIn(k - 1, P)
    <3>1. k - 1 \in Nat /\ k - 1 <= Depth(pos + 1) /\ k - 1 < Depth(pos)
      BY <1>3, <2>5
    <3>2. ScopeIn(k - 1, pos + 1) = ScopeIn(k - 1, pos) /\ SelectorsIn(k - 1, pos + 1) = SelectorsIn(k - 1, pos)
      BY <1>2, <3>1, ScopeStays
    <3>3. scopes'[k] = scopes[k] /\ selectors'[k] = selectors[k]
      BY <1>4, <2>2, <2>5, LineFacts DEF IsReplaced
    <3> QED  BY <1>1, <3>2, <3>3 DEF StacksAt
  <2>6. (D + 1) - 1 = D
    BY <1>3
  <2>7. \A k \in 1..(Depth(P) + 1) : scopes'[k] = ScopeIn(k - 1, P) /\ selectors'[k] = SelectorsIn(k - 1, P)
    BY <1>3, <2>4, <2>5, <2>6
  <2>8. /\ Line(scopes') /\ Len(scopes') = Depth(P) + 1
        /\ Line(selectors') /\ Len(selectors') = Depth(P) + 1
    BY <1>3, <1>4, <2>2 DEF IsReplaced
  <2> HIDE DEF P, x, D
  <2> QED  BY <1>5, <1>6, <2>7, <2>8 DEF StacksAt, BindFrame
<1>12. pos' \in 1..(Ending' + 1)
  BY <1>2, <1>5, <1>6 DEF BindFrame
<1> QED  BY <1>10, <1>11, <1>12 DEF BindInv

LEMMA BlockKeepsBound ==
  ASSUME WellFormed(task), pos \in 1..(Ending + 1), BoundUpTo(pos), pos <= Len(task.body),
         task.body[pos][1] \in {"open", "close"}, pos' = pos + 1, UNCHANGED <<task, locals, sites>>
  PROVE  BoundUpTo(pos)' /\ pos' \in 1..(Ending' + 1)
<1>1. /\ pos \in 1..Ending /\ pos + 1 \in 1..(Ending + 1) /\ (pos + 1) - 1 = pos
      /\ BindsBefore(pos + 1) = BindsBefore(pos) /\ UsesBefore(pos + 1) = UsesBefore(pos)
  BY TokenPlace
<1>2. LocalId(pos) = LocalId(pos - 1)
  BY <1>1, IdStep
<1>3. BindFrame
  BY BindFrames
<1> DEFINE P == pos + 1
<1>4. P - 1 = pos
  BY <1>1
<1>5. /\ Line(locals) /\ Len(locals) = LocalId(P - 1)
      /\ \A i \in DOMAIN HeadNames : locals[i] = HeadNames[i]
      /\ Range(locals) = Range(HeadNames) \cup {task.body[q][2] : q \in BindsBefore(P)}
      /\ \A q \in BindsBefore(P) : locals[LocalId(q)] = task.body[q][2] /\ sites[q] = <<"local", LocalId(q)>>
      /\ \A q \in UsesBefore(P) : sites[q] \in MeaningsAt(q) /\ SelectableAt(q)
      /\ DOMAIN sites = BindsBefore(P) \cup UsesBefore(P)
  BY <1>1, <1>2, <1>4 DEF BoundUpTo
<1> HIDE DEF P
<1>6. pos' = P /\ locals' = locals /\ sites' = sites
  BY DEF P
<1>7. BoundUpTo(pos)'
  BY <1>3, <1>5, <1>6, BoundNext
<1>8. pos' \in 1..(Ending' + 1)
  BY <1>1, <1>3 DEF BindFrame
<1> QED  BY <1>7, <1>8

LEMMA BlockOpens ==
  ASSUME WellFormed(task), BindInv, OpenBlock
  PROVE  BindInv'
<1>1. /\ stage = "bind" /\ pos \in 1..(Ending + 1) /\ BoundUpTo(pos) /\ StacksAt(pos)
      /\ pos <= Len(task.body) /\ task.body[pos][1] = "open" /\ pos' = pos + 1
      /\ UNCHANGED <<task, stage, locals, sites>>
      /\ scopes' = Append(scopes, Scope) /\ selectors' = Append(selectors, Last(selectors))
  BY DEF BindInv, OpenBlock, AtToken, Token
<1>2. BoundUpTo(pos)' /\ pos' \in 1..(Ending' + 1)
  BY <1>1, BlockKeepsBound
<1> DEFINE P == pos + 1
           D == Depth(pos)
<1>3. pos \in 1..Ending /\ P \in 1..(Ending + 1)
  BY <1>1, TokenPlace
<1>4. Depth(P) = D + 1 /\ D \in Nat
  BY <1>1, <1>3, DepthStep
<1>5. /\ Line(scopes) /\ Len(scopes) = D + 1 /\ Line(selectors) /\ Len(selectors) = D + 1
      /\ Scope = ScopeIn(D, pos) /\ Last(selectors) = SelectorsIn(D, pos)
  BY <1>1, ScopeHere DEF StacksAt
<1>6. IsAppended(scopes', scopes, ScopeIn(D, pos)) /\ IsAppended(selectors', selectors, SelectorsIn(D, pos))
  BY <1>1, <1>5, AppendedValue
<1>7. \A k \in 0..(D + 1) : ScopeIn(k, P) = ScopeIn(k, pos) /\ SelectorsIn(k, P) = SelectorsIn(k, pos)
  <2> TAKE k \in 0..(D + 1)
  <2>1. k \in Nat /\ k <= Depth(pos + 1)
    BY <1>4
  <2> QED  BY <1>1, <1>3, <2>1, ScopeStays
<1>8. ScopeIn(D + 1, pos) = ScopeIn(D, pos) /\ SelectorsIn(D + 1, pos) = SelectorsIn(D, pos)
  BY <1>1, ScopeDeeper
<1>9. \A k \in 1..(Depth(P) + 1) : scopes'[k] = ScopeIn(k - 1, P) /\ selectors'[k] = SelectorsIn(k - 1, P)
  <2> TAKE k \in 1..(Depth(P) + 1)
  <2>1. k - 1 \in 0..(D + 1)
    BY <1>4
  <2>2. CASE k = D + 2
    <3>1. k = (D + 1) + 1 /\ k - 1 = D + 1
      BY <1>4, <2>2
    <3>2. scopes'[k] = ScopeIn(D, pos) /\ selectors'[k] = SelectorsIn(D, pos)
      BY <1>5, <1>6, <3>1 DEF IsAppended
    <3>3. ScopeIn(k - 1, P) = ScopeIn(k - 1, pos) /\ SelectorsIn(k - 1, P) = SelectorsIn(k - 1, pos)
      BY <1>7, <2>1
    <3> HIDE DEF P, D
    <3> QED  BY <1>8, <3>1, <3>2, <3>3
  <2>3. CASE k # D + 2
    <3>1. k \in 1..(D + 1)
      BY <1>4, <2>3
    <3>2. scopes'[k] = scopes[k] /\ selectors'[k] = selectors[k]
      BY <1>5, <1>6, <3>1 DEF IsAppended
    <3>3. scopes[k] = ScopeIn(k - 1, pos) /\ selectors[k] = SelectorsIn(k - 1, pos)
      BY <1>1, <3>1 DEF StacksAt
    <3> HIDE DEF P, D
    <3> QED  BY <1>7, <2>1, <3>2, <3>3
  <2> QED  BY <2>2, <2>3
<1>10. /\ Line(scopes') /\ Len(scopes') = Depth(P) + 1
       /\ Line(selectors') /\ Len(selectors') = Depth(P) + 1
  BY <1>4, <1>5, <1>6 DEF IsAppended
<1>11. BindFrame
  BY <1>1, BindFrames
<1>12. StacksAt(pos)'
  <2> HIDE DEF P, D
  <2>1. pos' = P /\ task' = task
    BY <1>1 DEF P
  <2> QED  BY <1>9, <1>10, <1>11, <2>1 DEF StacksAt, BindFrame
<1> QED  BY <1>2, <1>12 DEF BindInv

LEMMA BlockCloses ==
  ASSUME WellFormed(task), BindInv, CloseBlock
  PROVE  BindInv'
<1>1. /\ stage = "bind" /\ pos \in 1..(Ending + 1) /\ BoundUpTo(pos) /\ StacksAt(pos)
      /\ pos <= Len(task.body) /\ task.body[pos][1] = "close" /\ pos' = pos + 1
      /\ UNCHANGED <<task, stage, locals, sites>>
      /\ scopes' = Front(scopes) /\ selectors' = Front(selectors)
  BY DEF BindInv, CloseBlock, AtToken, Token
<1>2. BoundUpTo(pos)' /\ pos' \in 1..(Ending' + 1)
  BY <1>1, BlockKeepsBound
<1> DEFINE P == pos + 1
           D == Depth(pos)
<1>3. pos \in 1..Ending /\ P \in 1..(Ending + 1)
  BY <1>1, TokenPlace
<1>4. Depth(P) = D - 1 /\ D \in Nat /\ D - 1 \in Nat
  BY <1>1, <1>3, DepthStep
<1>5. Line(scopes) /\ Len(scopes) = D + 1 /\ Line(selectors) /\ Len(selectors) = D + 1
  BY <1>1 DEF StacksAt
<1>6. IsFront(scopes', scopes) /\ IsFront(selectors', selectors)
  BY <1>1, <1>4, <1>5, FrontValues
<1>7. \A k \in 1..(Depth(P) + 1) : scopes'[k] = ScopeIn(k - 1, P) /\ selectors'[k] = SelectorsIn(k - 1, P)
  <2> TAKE k \in 1..(Depth(P) + 1)
  <2>1. k - 1 \in Nat /\ k - 1 <= Depth(pos + 1) /\ k \in 1..(Len(scopes) - 1) /\ k \in 1..(D + 1)
    BY <1>4, <1>5
  <2>2. ScopeIn(k - 1, P) = ScopeIn(k - 1, pos) /\ SelectorsIn(k - 1, P) = SelectorsIn(k - 1, pos)
    BY <1>1, <1>3, <2>1, ScopeStays
  <2>3. scopes'[k] = scopes[k] /\ selectors'[k] = selectors[k]
    BY <1>5, <1>6, <2>1 DEF IsFront
  <2> QED  BY <1>1, <2>1, <2>2, <2>3 DEF StacksAt
<1>8. /\ Line(scopes') /\ Len(scopes') = Depth(P) + 1
      /\ Line(selectors') /\ Len(selectors') = Depth(P) + 1
  BY <1>4, <1>5, <1>6 DEF IsFront
<1>9. BindFrame
  BY <1>1, BindFrames
<1>10. StacksAt(pos)'
  <2> HIDE DEF P, D
  <2>1. pos' = P /\ task' = task
    BY <1>1 DEF P
  <2> QED  BY <1>7, <1>8, <1>9, <2>1 DEF StacksAt, BindFrame
<1> QED  BY <1>2, <1>10 DEF BindInv

\* When every token is bound, and after.
LEMMA BoundKept ==
  ASSUME BoundUpTo(Ending + 1), UNCHANGED <<task, locals, sites>>
  PROVE  BoundUpTo(Ending + 1)'
<1>1. BindFrame
  BY BindFrames
<1>2. Ending' = Ending
  BY <1>1 DEF BindFrame
<1> DEFINE P == Ending + 1
<1> HIDE DEF P
<1>3. BoundUpTo(P)
  BY DEF P
<1>4. P' = P
  BY <1>2 DEF P
<1>5. (Line(locals) /\ Len(locals) = LocalId(P - 1))'
  BY <1>1, <1>3, <1>4 DEF BindFrame, BoundUpTo
<1>6. (\A i \in DOMAIN HeadNames : locals[i] = HeadNames[i])'
  BY <1>1, <1>3 DEF BindFrame, BoundUpTo
<1>7. (Range(locals) = Range(HeadNames) \cup {task.body[q][2] : q \in BindsBefore(P)})'
  BY <1>1, <1>3, <1>4 DEF BindFrame, BoundUpTo, BindsBefore
<1>8. (\A q \in BindsBefore(P) : locals[LocalId(q)] = task.body[q][2] /\ sites[q] = <<"local", LocalId(q)>>)'
  BY <1>1, <1>3, <1>4 DEF BindFrame, BoundUpTo
<1>9. (\A q \in UsesBefore(P) : sites[q] \in MeaningsAt(q) /\ SelectableAt(q))'
  BY <1>1, <1>3, <1>4 DEF BindFrame, BoundUpTo
<1>10. (DOMAIN sites = BindsBefore(P) \cup UsesBefore(P))'
  BY <1>1, <1>3, <1>4 DEF BindFrame, BoundUpTo
<1>11. BoundUpTo(P)'
  BY <1>5, <1>6, <1>7, <1>8, <1>9, <1>10 DEF BoundUpTo
<1> QED  BY <1>11 DEF P

LEMMA BindEnds ==
  ASSUME WellFormed(task), BindInv, AllBound
  PROVE  BoundUpTo(Ending + 1) /\ BoundInv' /\ BindInv'
<1>1. /\ stage = "bind" /\ pos \in 1..(Ending + 1) /\ BoundUpTo(pos) /\ pos > Len(task.body)
      /\ stage' = "check" /\ UNCHANGED <<task, locals, sites>>
  BY DEF BindInv, AllBound
<1>2. pos = Ending + 1
  BY <1>1, UnitFacts DEF Ending
<1>3. BoundUpTo(Ending + 1)
  BY <1>1, <1>2
<1>4. BoundUpTo(Ending + 1)'
  BY <1>1, <1>3, BoundKept
<1> QED  BY <1>1, <1>3, <1>4 DEF BoundInv, BindInv

\* Of more different values than a set has, the first that is not in the set.
LEMMA FirstFree ==
  ASSUME NEW low \in Nat, NEW high \in Nat, NEW T, IsFiniteSet(T),
         Cardinality(T) < high - low + 1, NEW f,
         \A j, k \in low..high : f[j] = f[k] => j = k
  PROVE  \E k \in low..high : f[k] \notin T /\ \A j \in low..(k - 1) : f[j] \in T
<1> DEFINE I == low..high
           Free == {k \in I : f[k] \notin T}
<1>1. IsFiniteSet(I) /\ Cardinality(I) = high - low + 1
  <2>1. Cardinality(T) \in Nat
    BY FS_CardinalityType
  <2>2. low \in Int /\ high \in Int /\ ~(low > high)
    BY <2>1
  <2>3. IsFiniteSet(low..high) /\ Cardinality(low..high) = IF low > high THEN 0 ELSE high - low + 1
    BY <2>2, FS_Interval
  <2> QED  BY <2>2, <2>3
<1>2. Free # {}
  <2> SUFFICES ASSUME Free = {} PROVE FALSE
    OBVIOUS
  <2> DEFINE g == [k \in I |-> f[k]]
  <2>1. g \in [I -> T]
    OBVIOUS
  <2>2. PICK j, k \in I : j # k /\ g[j] = g[k]
    <3> HIDE DEF I, g
    <3> QED  BY <1>1, <2>1, FS_PigeonHole
  <2> QED  BY <2>2
<1>3. Free \in SUBSET Nat
  OBVIOUS
<1>4. PICK k \in Free : \A j \in Free : k <= j
  <2> HIDE DEF Free
  <2> QED  BY <1>2, <1>3, LeastNatural
<1>5. ASSUME NEW j \in low..(k - 1) PROVE f[j] \in T
  <2>1. j \in I /\ ~(k <= j)
    BY <1>3
  <2> QED  BY <1>4, <2>1
<1> QED  BY <1>5

\* The same of the values of the numbers up to the size of the set.
LEMMA FreeValue ==
  ASSUME NEW T, IsFiniteSet(T), NEW f,
         \A j, k \in 0..Cardinality(T) : f[j] = f[k] => j = k
  PROVE  \E k \in 0..Cardinality(T) : f[k] \notin T /\ \A j \in 0..(k - 1) : f[j] \in T
<1> DEFINE low == 0
           high == Cardinality(T)
<1>1. low \in Nat /\ high \in Nat /\ Cardinality(T) < high - low + 1
  BY FS_CardinalityType
<1>2. \A j, k \in low..high : f[j] = f[k] => j = k
  OBVIOUS
<1> HIDE DEF low, high
<1>3. \E k \in low..high : f[k] \notin T /\ \A j \in low..(k - 1) : f[j] \in T
  BY <1>1, <1>2, FirstFree
<1> QED  BY <1>3 DEF low, high

-----------------------------------------------------------------------------
(* The names in the script.                                                 *)

LEMMA NameParts ==
  /\ \A m, n : Verbatim(m) = Verbatim(n) => m = n
  /\ \A n : Verbatim(n).base = n /\ Verbatim(n).mark = "none" /\ Verbatim(n).suffix = <<>>
  /\ \A n, mark : Marked(Verbatim(n), mark).base = n /\ Marked(Verbatim(n), mark).mark = mark
                  /\ Marked(Verbatim(n), mark).suffix = <<>>
<1>1. \A n : Verbatim(n).base = n /\ Verbatim(n).mark = "none" /\ Verbatim(n).suffix = <<>>
  BY DEF Verbatim
<1>2. \A m, n : Verbatim(m) = Verbatim(n) => m = n
  BY <1>1
<1>3. \A n, mark : Marked(Verbatim(n), mark).base = n /\ Marked(Verbatim(n), mark).mark = mark
                  /\ Marked(Verbatim(n), mark).suffix = <<>>
  BY DEF Verbatim, Marked
<1> QED  BY <1>1, <1>2, <1>3

\* The name a local is given if it can be.
LEMMA BaseParts ==
  ASSUME NEW n
  PROVE  /\ Base(n).base = n /\ Base(n).suffix = <<>>
         /\ Base(n).mark = IF task.root = "function" THEN "glob" ELSE "none"
BY NameParts DEF Base

\* A declaration's display name is told from the others by its source name.
LEMMA DisplayParts ==
  ASSUME NEW d
  PROVE  /\ Display(d).base = task.world.decls[d].name
         /\ Display(d).mark \in {"none", "module"}
         /\ Display(d).mark = "none" <=>
              ~(task.world.decls[d].kind # "actor" /\ task.world.decls[d].name \in OutsideLocals(d))
         /\ Display(d).mark = "none" => Display(d) = Verbatim(task.world.decls[d].name)
BY NameParts DEF Display

LEMMA NumberedParts ==
  ASSUME NEW n, NEW i \in Nat
  PROVE  Numbered(Base(n), i).mark = Base(n).mark /\ Numbered(Base(n), i).suffix = <<i>>
<1>1. Append(<<>>, i) = <<i>>
  OBVIOUS
<1>2. Base(n).suffix = <<>>
  BY BaseParts
<1>3. Base(n) = [base |-> Base(n).base, mark |-> Base(n).mark, suffix |-> Base(n).suffix]
  BY DEF Base, Marked, Verbatim
<1> DEFINE b == Base(n)
<1> HIDE DEF b
<1>4. b.suffix = <<>> /\ b = [base |-> b.base, mark |-> b.mark, suffix |-> b.suffix]
  BY <1>2, <1>3 DEF b
<1>5. Numbered(b, i) = [base |-> b.base, mark |-> b.mark, suffix |-> Append(b.suffix, i)]
  BY <1>4 DEF Numbered
<1>6. Numbered(b, i).mark = b.mark /\ Numbered(b, i).suffix = <<i>>
  BY <1>1, <1>4, <1>5
<1> QED  BY <1>6 DEF b

\* A name that is found is not among those that are taken.
LEMMA FreeNameIs ==
  ASSUME NEW n, NEW i \in Nat, NEW occupied, IsFiniteSet(occupied), IsFiniteSet(AuthoredLocals)
  PROVE  FreeName(Base(n), i, occupied) \notin occupied /\ FreeName(Base(n), i, occupied).mark = Base(n).mark
<1> DEFINE base == Base(n)
           Free(name) == name \notin occupied /\ (name = base \/ name \notin AuthoredLocals)
           Try(k) == Numbered(base, i + k)
           T == occupied \cup AuthoredLocals
           Found(k) == Free(Try(k)) /\ \A j \in 0..(k - 1) : ~Free(Try(j))
           c == Cardinality(T)
<1>1. FreeName(Base(n), i, occupied) = IF Free(base) THEN base ELSE Try(CHOOSE k \in 0..c : Found(k))
  BY DEF FreeName
<1>2. CASE Free(base)
  BY <1>1, <1>2
<1>3. CASE ~Free(base)
  <2>1. IsFiniteSet(T) /\ c \in Nat
    BY FS_Union, FS_CardinalityType
  <2>2. \A k \in Nat : i + k \in Nat /\ Try(k).mark = base.mark /\ Try(k).suffix = <<i + k>>
    BY NumberedParts
  <2> DEFINE f == [k \in 0..c |-> Try(k)]
  <2>3. \A j, k \in 0..c : f[j] = f[k] => j = k
    <3> SUFFICES ASSUME NEW j \in 0..c, NEW k \in 0..c, f[j] = f[k] PROVE j = k
      OBVIOUS
    <3>1. Try(j).suffix = Try(k).suffix /\ j \in Nat /\ k \in Nat
      BY <2>1
    <3>2. <<i + j>> = <<i + k>>
      <4> HIDE DEF Try
      <4> QED  BY <2>2, <3>1
    <3> QED  BY <3>1, <3>2
  <2>4. \E k \in 0..c : f[k] \notin T
    <3> HIDE DEF T, f
    <3> QED  BY <2>1, <2>3, FreeValue DEF c
  <2>5. PICK k0 \in 0..c : Free(Try(k0))
    BY <2>4
  <2> DEFINE S == {k \in 0..c : Free(Try(k))}
  <2>6. S # {} /\ S \in SUBSET Nat
    BY <2>1, <2>5
  <2>7. PICK m \in S : \A k \in S : m <= k
    <3> HIDE DEF S
    <3> QED  BY <2>6, LeastNatural
  <2>8. m \in 0..c /\ Found(m)
    <3>1. ASSUME NEW j \in 0..(m - 1), Free(Try(j)) PROVE FALSE
      <4>1. j \in 0..c /\ ~(m <= j)
        BY <2>1, <2>7
      <4>2. j \in S
        BY <3>1, <4>1
      <4> QED  BY <2>7, <4>1, <4>2
    <3> QED  BY <2>7, <3>1
  <2> DEFINE k1 == CHOOSE k \in 0..c : Found(k)
  <2>9. k1 \in 0..c /\ Found(k1)
    <3> HIDE DEF Found
    <3> QED  BY <2>8
  <2>10. FreeName(Base(n), i, occupied) = Try(k1)
    BY <1>1, <1>3
  <2>11. Try(k1) \notin occupied /\ Try(k1).mark = base.mark
    <3>1. k1 \in Nat
      BY <2>1, <2>9
    <3> HIDE DEF k1
    <3> QED  BY <2>2, <2>9, <3>1
  <2> QED  BY <2>10, <2>11
<1> QED  BY <1>2, <1>3

\* A finite number of values, one for each member.
LEMMA ImagesFinite ==
  ASSUME NEW S, IsFiniteSet(S), NEW f, f = [x \in S |-> f[x]]
  PROVE  IsFiniteSet(Range(f))
<1> DEFINE R == Range(f)
<1>0. R = {f[x] : x \in S} /\ DOMAIN f = S
  BY DEF Range
<1> HIDE DEF R
<1>2. f \in [S -> R]
  BY <1>0
<1>3. f \in Surjection(S, R)
  BY <1>0, <1>2 DEF Surjection
<1>1. f \in Surjection(S, Range(f))
  BY <1>3 DEF R
<1> QED  BY <1>1, FS_Surjection DEF ExistsSurjection

LEMMA LineFinite ==
  ASSUME NEW s, Line(s)
  PROVE  IsFiniteSet(Range(s))
<1> DEFINE n == Len(s)
<1>2. n \in Nat /\ DOMAIN s = 1..n
  BY LineFacts
<1>3. s = [i \in DOMAIN s |-> s[i]]
  <2>1. s \in Seq(Range(s))
    BY DEF Line
  <2>2. s \in [1..n -> Range(s)]
    BY <2>1, LenProperties
  <2> QED  BY <1>2, <2>2
<1>1. IsFiniteSet(DOMAIN s)
  <2> HIDE DEF n
  <2>1. 1 \in Int /\ n \in Int
    BY <1>2
  <2> QED  BY <1>2, <2>1, FS_Interval
<1> QED  BY <1>1, <1>3, ImagesFinite

LEMMA NamesFinite ==
  ASSUME NEW S, IsFiniteSet(S)
  PROVE  IsFiniteSet(Plain(S))
<1> DEFINE f == [n \in S |-> Verbatim(n)]
<1>1. Plain(S) = Range(f)
  BY DEF Plain, Range
<1>2. IsFiniteSet(Range(f))
  BY ImagesFinite
<1> QED  BY <1>1, <1>2

\* The names that are taken before the first local has one.
TakenFirst ==
  Displays \cup Plain(Reserved)
    \cup IF OfActor THEN Plain(task.world.helpers \cup task.world.fields) ELSE {}

LEMMA TakenFinite ==
  ASSUME WellFormed(task), IsFiniteSet(Reserved), Line(locals), Line(spelled)
  PROVE  /\ Excluded = Range(spelled) \cup TakenFirst
         /\ IsFiniteSet(Excluded) /\ IsFiniteSet(AuthoredLocals)
<1>1. IsFiniteSet(Displays)
  <2> DEFINE f == [d \in Items |-> Display(d)]
  <2>1. IsFiniteSet(Items)
    <3> DEFINE m == Len(task.world.decls)
    <3>1. 1 \in Int /\ m \in Int /\ Items = 1..m
      BY UnitFacts DEF Items
    <3> HIDE DEF m
    <3> QED  BY <3>1, FS_Interval
  <2>2. Displays = Range(f)
    BY DEF Displays, Range
  <2>3. IsFiniteSet(Range(f))
    BY <2>1, ImagesFinite
  <2> QED  BY <2>2, <2>3
<1>2. IsFiniteSet(Plain(Reserved))
  BY NamesFinite
<1>3. IsFiniteSet(Plain(task.world.helpers \cup task.world.fields))
  <2>1. IsFiniteSet(task.world.helpers \cup task.world.fields)
    BY FS_Union DEF WellFormed
  <2> QED  BY <2>1, NamesFinite
<1>4. IsFiniteSet({})
  BY FS_EmptySet
<1>5. IsFiniteSet(TakenFirst)
  <2>1. IsFiniteSet(IF OfActor THEN Plain(task.world.helpers \cup task.world.fields) ELSE {})
    BY <1>3, <1>4
  <2>2. IsFiniteSet(Displays \cup Plain(Reserved))
    BY <1>1, <1>2, FS_Union
  <2> QED  BY <2>1, <2>2, FS_Union DEF TakenFirst
<1>6. Excluded = Range(spelled) \cup TakenFirst
  BY DEF Excluded, TakenFirst
<1>7. IsFiniteSet(Excluded)
  BY <1>5, <1>6, LineFinite, FS_Union
<1>8. IsFiniteSet(AuthoredLocals)
  <2> DEFINE f == [n \in Range(locals) |-> Base(n)]
  <2>1. AuthoredLocals = Range(f)
    BY DEF AuthoredLocals, Range
  <2>2. IsFiniteSet(Range(locals))
    BY LineFinite
  <2>3. IsFiniteSet(Range(f))
    BY <2>2, ImagesFinite
  <2> QED  BY <2>1, <2>3
<1> QED  BY <1>6, <1>7, <1>8

\* What the name of a local is, besides that of the locals of its source name.
SpellingFits(n, name) ==
  IF Verbatim(n) \in Kept \/ task.root = "entry" THEN name = Verbatim(n)
  ELSE name \notin TakenFirst /\ name.mark = Base(n).mark

SpellingsFit ==
  /\ Line(spelled) /\ Len(spelled) <= Len(locals)
  /\ \A i \in 1..Len(spelled) : SpellingFits(locals[i], spelled[i])
  /\ \A i, j \in 1..Len(spelled) : spelled[i] = spelled[j] <=> locals[i] = locals[j]

\* A constant of the file of the callable.
IsConstantHere(n) == \E d \in Declaring(n) : task.world.decls[d].kind = "const" /\ task.world.decls[d].file = 1

\* A local that is named as a constant is has the source name of one of its file.
LEMMA ConstantNamed ==
  ASSUME WellFormed(task), NEW n \in Range(locals), Verbatim(n) \in ConstantNames
  PROVE  IsConstantHere(n)
<1>1. PICK d \in Constants : Display(d) = Verbatim(n)
  BY DEF ConstantNames
<1>2. d \in Items /\ task.world.decls[d].kind = "const"
  BY DEF Constants
<1>3. task.world.decls[d].name = n /\ Display(d).mark = "none"
  BY <1>1, NameParts, DisplayParts
<1>4. n \notin OutsideLocals(d)
  BY <1>2, <1>3, DisplayParts
<1>5. task.world.decls[d].file = 1
  BY <1>4 DEF OutsideLocals, OwnLocals
<1> QED  BY <1>2, <1>3, <1>5 DEF IsConstantHere, Declaring

LEMMA KeptTaken ==
  Kept \subseteq TakenFirst
<1>1. ConstantNames \subseteq Displays
  BY DEF ConstantNames, Constants, Displays
<1>2. OfActor => Plain(task.world.fields) \subseteq Plain(task.world.helpers \cup task.world.fields)
  BY DEF Plain
<1> QED  BY <1>1, <1>2 DEF Kept, TakenFirst

\* A local whose name in the script is that of a field or of a constant is named
\* as one in the source.
LEMMA NameCollides ==
  ASSUME WellFormed(task), NEW n \in Range(locals), NEW name, SpellingFits(n, name),
         name \in DOMAIN ContractScope
  PROVE  (OfActor /\ n \in task.world.fields) \/ IsConstantHere(n)
<1>1. name \in Plain(task.world.fields) \cup ConstantNames
  BY DEF ContractScope
<1>2. CASE Verbatim(n) \in Kept /\ task.root # "entry"
  <2>1. Verbatim(n) \in ConstantNames \/ (OfActor /\ Verbatim(n) \in Plain(task.world.fields))
    BY <1>2 DEF Kept
  <2> QED  BY <2>1, ConstantNamed, NameParts DEF Plain
<1>3. CASE task.root = "entry"
  <2>1. name = Verbatim(n) /\ OfActor
    BY <1>3 DEF SpellingFits, OfActor
  <2> QED  BY <1>1, <2>1, ConstantNamed, NameParts DEF Plain
<1>4. CASE Verbatim(n) \notin Kept /\ task.root # "entry"
  <2>1. name \notin TakenFirst /\ name.mark = Base(n).mark
    BY <1>4 DEF SpellingFits
  <2>2. name \notin ConstantNames
    BY <2>1, KeptTaken DEF Kept
  <2>3. PICK f \in task.world.fields : name = Verbatim(f)
    BY <1>1, <2>2 DEF Plain
  <2>4. ~OfActor
    BY <2>1, <2>3 DEF TakenFirst, Plain
  <2>5. name.mark = "glob"
    BY <2>1, <2>4, BaseParts DEF OfActor
  <2> QED  BY <2>3, <2>5, NameParts
<1> QED  BY <1>2, <1>3, <1>4

\* One more local is named.
LEMMA SpellingStep ==
  ASSUME WellFormed(task), IsFiniteSet(Reserved), Line(locals), SpellingsFit, NameLocal
  PROVE  SpellingsFit'
<1> DEFINE i == Len(spelled)
           n == locals[i + 1]
           name == Spell(n, i)
<1>1. /\ Line(spelled) /\ i \in Nat /\ Len(locals) \in Nat /\ DOMAIN spelled = 1..i
      /\ i < Len(locals) /\ spelled' = Append(spelled, name) /\ task' = task /\ locals' = locals
  BY LineFacts DEF SpellingsFit, NameLocal
<1>2. IsAppended(spelled', spelled, name)
  BY <1>1, AppendedValue
<1>3. \A j \in 1..i : SpellingFits(locals[j], spelled[j])
  BY DEF SpellingsFit
<1>4. \A j, k \in 1..i : spelled[j] = spelled[k] <=> locals[j] = locals[k]
  BY DEF SpellingsFit
<1>5. SpellingFits(n, name) /\ \A j \in 1..i : spelled[j] = name <=> locals[j] = n
  <2>1. CASE Verbatim(n) \in Kept
    <3>1. name = Verbatim(n) /\ SpellingFits(n, name)
      BY <2>1 DEF Spell, SpellingFits
    <3>2. ASSUME NEW j \in 1..i, spelled[j] = name PROVE locals[j] = n
      <4>1. name \in TakenFirst
        BY <2>1, <3>1, KeptTaken
      <4>2. spelled[j] = Verbatim(locals[j])
        BY <1>3, <3>2, <4>1 DEF SpellingFits
      <4> DEFINE m == locals[j]
      <4> HIDE DEF m, n, name
      <4>3. Verbatim(m) = Verbatim(n)
        BY <3>1, <3>2, <4>2 DEF m
      <4>4. m = n
        BY <4>3, NameParts
      <4> QED  BY <4>4 DEF m
    <3>3. ASSUME NEW j \in 1..i, locals[j] = n PROVE spelled[j] = name
      <4>1. SpellingFits(n, spelled[j])
        BY <1>3, <3>3
      <4> QED  BY <2>1, <3>1, <4>1 DEF SpellingFits
    <3> QED  BY <3>1, <3>2, <3>3
  <2>2. CASE Verbatim(n) \notin Kept /\ Spelled(n) # {}
    <3>1. PICK j \in Spelled(n) : name = spelled[j]
      BY <2>2 DEF Spell
    <3>2. j \in 1..i /\ locals[j] = n
      BY <1>1, <3>1 DEF Spelled
    <3>3. SpellingFits(n, name)
      BY <1>3, <3>1, <3>2
    <3> QED  BY <1>4, <3>1, <3>2, <3>3
  <2>3. CASE Verbatim(n) \notin Kept /\ Spelled(n) = {} /\ task.root = "entry"
    <3>1. name = Verbatim(n) /\ SpellingFits(n, name)
      BY <2>3 DEF Spell, Base, SpellingFits
    <3>2. \A j \in 1..i : locals[j] # n
      BY <1>1, <2>3 DEF Spelled
    <3>3. \A j \in 1..i : spelled[j] = Verbatim(locals[j])
      BY <1>3, <2>3 DEF SpellingFits
    <3> QED  BY <3>1, <3>2, <3>3, NameParts
  <2>4. CASE Verbatim(n) \notin Kept /\ Spelled(n) = {} /\ task.root # "entry"
    <3>1. name = FreeName(Base(n), i, Excluded)
      BY <2>4 DEF Spell
    <3>2. Excluded = Range(spelled) \cup TakenFirst /\ IsFiniteSet(Excluded) /\ IsFiniteSet(AuthoredLocals)
      BY <1>1, TakenFinite
    <3>3. name \notin Excluded /\ name.mark = Base(n).mark
      BY <1>1, <3>1, <3>2, FreeNameIs
    <3>4. SpellingFits(n, name)
      BY <2>4, <3>2, <3>3 DEF SpellingFits
    <3>5. \A j \in 1..i : spelled[j] # name
      BY <1>1, <3>2, <3>3 DEF Range
    <3>6. \A j \in 1..i : locals[j] # n
      BY <1>1, <2>4 DEF Spelled
    <3> QED  BY <3>4, <3>5, <3>6
  <2> QED  BY <2>1, <2>2, <2>3, <2>4
<1> HIDE DEF name, n
<1>6. Line(spelled') /\ Len(spelled') = i + 1 /\ Len(spelled') <= Len(locals')
  BY <1>1, <1>2 DEF IsAppended
<1>7. \A j \in 1..i : spelled'[j] = spelled[j] /\ locals'[j] = locals[j]
  BY <1>1, <1>2 DEF IsAppended
<1>8. spelled'[i + 1] = name /\ locals'[i + 1] = n
  BY <1>1, <1>2 DEF IsAppended, n
<1>9. \A j : j \in 1..(i + 1) <=> j \in 1..i \/ j = i + 1
  BY <1>1
<1>10. \A j \in 1..(i + 1) : SpellingFits(locals'[j], spelled'[j])
  <2>1. SpellingFits(locals'[i + 1], spelled'[i + 1])
    BY <1>5, <1>8
  <2>2. \A j \in 1..i : SpellingFits(locals'[j], spelled'[j])
    BY <1>3, <1>7
  <2> HIDE DEF i
  <2> QED  BY <1>9, <2>1, <2>2
<1>11. \A j, k \in 1..(i + 1) : spelled'[j] = spelled'[k] <=> locals'[j] = locals'[k]
  BY <1>4, <1>5, <1>7, <1>8, <1>9
<1>12. \A m, x : SpellingFits(m, x)' <=> SpellingFits(m, x)
  BY <1>1 DEF SpellingFits, Kept, ConstantNames, Constants, Items, Display, OutsideLocals, OwnLocals,
              TakenFirst, Displays, OfActor, Base
<1> HIDE DEF i
<1>13. (\A j \in 1..Len(spelled) : SpellingFits(locals[j], spelled[j]))'
  BY <1>6, <1>10, <1>12
<1> QED  BY <1>6, <1>11, <1>13 DEF SpellingsFit

-----------------------------------------------------------------------------
(* What is bound and what the source means.                                 *)

\* A name that is in a scope means what the scope says.
LEMMA ValueMeantIs ==
  ASSUME WellFormed(task), NEW q \in 1..Ending, NEW n
  PROVE  ValueMeant(n, q) =
           IF n \in NamesIn(Depth(q), q) THEN {MeaningIn(n, Depth(q), q)}
           ELSE {<<"decl", d>> : d \in Declaring(n)}
<1> DEFINE B == BindingsOf(n, q)
           D == Depth(q)
<1>1. BoundAt(n, D, q) = B
  <2>1. q \in 1..(Ending + 1)
    BY UnitFacts
  <2> QED  BY <2>1, BoundHere
<1>2. n \in NamesIn(D, q) <=> InHead(n) \/ (OfActor /\ n \in task.world.fields) \/ B # {}
  BY <1>1 DEF NamesIn, InHead, FieldNames, BoundAt
<1> HIDE DEF B, D
<1>3. CASE B # {}
  BY <1>1, <1>2, <1>3 DEF ValueMeant, MeaningIn, B, D
<1>4. CASE B = {} /\ InHead(n)
  BY <1>1, <1>2, <1>4 DEF ValueMeant, MeaningIn, LastInHead, B, D
<1>5. CASE B = {} /\ ~InHead(n) /\ OfActor /\ n \in task.world.fields
  BY <1>1, <1>2, <1>5 DEF ValueMeant, MeaningIn, B, D
<1>6. CASE B = {} /\ ~InHead(n) /\ ~(OfActor /\ n \in task.world.fields)
  BY <1>1, <1>2, <1>6 DEF ValueMeant, B, D
<1> QED  BY <1>3, <1>4, <1>5, <1>6 DEF D

\* A declaration is the only one of its name.
LEMMA OneDeclared ==
  ASSUME WellFormed(task), NEW n
  PROVE  /\ \A d, e \in Declaring(n) : d = e
         /\ \A d \in Items : task.world.decls[d].name = n <=> d \in Declaring(n)
BY DEF WellFormed, Declaring, Items

\* What a use may be bound to, by its kind.
LEMMA MeaningsByKind ==
  ASSUME WellFormed(task), NEW q \in 1..Ending, task.body[q][1] = "use"
  PROVE  LET n == task.body[q][3]
             declared == {<<"decl", d>> : d \in Declaring(n)}
         IN  /\ task.body[q][2] \in {"value", "call", "field", "route"}
             /\ task.body[q][2] = "call" =>
                  MeaningsAt(q) = IF n \in task.world.helpers THEN {<<"helper", n>>} ELSE declared
             /\ task.body[q][2] = "field" =>
                  MeaningsAt(q) = IF OfActor /\ n \in task.world.fields THEN {<<"field", n>>} ELSE {}
             /\ task.body[q][2] \in {"value", "route"} => MeaningsAt(q) = ValueMeant(n, q)
<1> DEFINE n == task.body[q][3]
           declared == {<<"decl", d>> : d \in Declaring(n)}
<1>1. task.body[q][2] \in {"value", "call", "field", "route"}
  BY UnitFacts DEF WellFormed
<1>2. CASE task.body[q][2] = "call"
  BY <1>2 DEF MeaningsAt, LocalMeaningAt
<1>3. CASE task.body[q][2] = "field"
  BY <1>3 DEF MeaningsAt, LocalMeaningAt
<1>4. CASE task.body[q][2] \in {"value", "route"}
  <2>1. LocalMeaningAt(q) = IF n \in NamesIn(Depth(q), q) THEN {MeaningIn(n, Depth(q), q)} ELSE {}
    BY <1>4 DEF LocalMeaningAt
  <2>2. MeaningsAt(q) = IF n \in NamesIn(Depth(q), q) THEN {MeaningIn(n, Depth(q), q)} ELSE declared
    BY <1>4, <2>1 DEF MeaningsAt
  <2> QED  BY <1>4, <2>2, ValueMeantIs
<1> QED  BY <1>1, <1>2, <1>3, <1>4

\* No use means anything it cannot be bound to, and none can be bound to two.
LEMMA MeantBound ==
  ASSUME WellFormed(task), NEW q \in 1..Ending, task.body[q][1] = "use"
  PROVE  Meant(q) \subseteq MeaningsAt(q) /\ \A m1, m2 \in MeaningsAt(q) : m1 = m2
<1> DEFINE n == task.body[q][3]
           how == task.body[q][2]
           declared == {<<"decl", d>> : d \in Declaring(n)}
<1>1. \A m1, m2 \in declared : m1 = m2
  BY OneDeclared
<1>2. \A m1, m2 \in ValueMeant(n, q) : m1 = m2
  BY <1>1, ValueMeantIs
<1>3. CASE how = "call"
  <2>1. MeaningsAt(q) = IF n \in task.world.helpers THEN {<<"helper", n>>} ELSE declared
    BY <1>3, MeaningsByKind
  <2>2. Meant(q) = IF n \in task.world.helpers THEN {<<"helper", n>>} ELSE OfKind(declared, "function")
    BY <1>3 DEF Meant
  <2> QED  BY <1>1, <2>1, <2>2 DEF OfKind
<1>4. CASE how = "field"
  <2>1. MeaningsAt(q) = IF OfActor /\ n \in task.world.fields THEN {<<"field", n>>} ELSE {}
    BY <1>4, MeaningsByKind
  <2> QED  BY <1>4, <2>1 DEF Meant
<1>5. CASE how \in {"value", "route"}
  <2>1. MeaningsAt(q) = ValueMeant(n, q)
    BY <1>5, MeaningsByKind
  <2>2. Meant(q) \subseteq ValueMeant(n, q)
    BY <1>5 DEF Meant, OfKind
  <2> QED  BY <1>2, <2>1, <2>2
<1>6. how \in {"value", "call", "field", "route"}
  BY MeaningsByKind
<1> QED  BY <1>3, <1>4, <1>5, <1>6

\* What the last of a set of bindings is.
LEMMA LastBound ==
  ASSUME WellFormed(task), NEW p \in 1..(Ending + 1), NEW S \in SUBSET BindsBefore(p), S # {}
  PROVE  Max(S) \in S /\ \A q \in S : q <= Max(S)
<1>1. Ending \in Nat
  BY UnitFacts
<1>2. S \in SUBSET (1..Ending)
  BY <1>1 DEF BindsBefore
<1> DEFINE n == Ending
<1> HIDE DEF n
<1> QED  BY <1>1, <1>2, GreatestMember DEF n

\* The token that gives a local its id.
LEMMA IdOfBinding ==
  ASSUME WellFormed(task), NEW q \in Binds
  PROVE  /\ q \in 1..Ending /\ LocalId(q) \in Nat /\ Len(HeadNames) < LocalId(q)
         /\ LocalId(q) \notin DOMAIN task.head.params
         /\ ~IsHandle(<<"local", LocalId(q)>>)
         /\ \A r \in Binds : LocalId(r) = LocalId(q) => r = q
<1>1. Ending \in Nat /\ DOMAIN task.body = 1..Ending
  BY UnitFacts
<1>2. \A r \in Binds : r \in 1..Ending /\ task.body[r][1] = "bind"
  BY <1>1 DEF Binds
<1>3. \A r \in Binds : LocalId(r) \in Nat /\ Len(HeadNames) < LocalId(r)
  <2> TAKE r \in Binds
  <2>1. 0 \in 0..Ending /\ 0 < r
    BY <1>1, <1>2
  <2> QED  BY <1>2, <2>1, IdsGrow
<1>4. \A r, s \in Binds : r < s => LocalId(r) < LocalId(s)
  <2> TAKE r, s \in Binds
  <2>1. r \in 0..Ending
    BY <1>1, <1>2
  <2> QED  BY <1>2, <2>1, IdsGrow
<1>5. \A r \in Binds : LocalId(r) = LocalId(q) => r = q
  BY <1>1, <1>2, <1>3, <1>4
<1>6. /\ Len(HeadNames) = Len(Params) + Len(Handles) /\ Len(Params) \in Nat /\ Len(Handles) \in Nat
      /\ DOMAIN task.head.params = 1..Len(Params)
  BY UnitFacts, HeadFacts
<1>7. Len(Params \o Handles) = Len(HeadNames)
  BY DEF HeadNames
<1>8. LocalId(q) \in Nat /\ Len(HeadNames) < LocalId(q)
  BY <1>3
<1> DEFINE x == LocalId(q)
<1>9. x \in Nat /\ Len(HeadNames) < x
  BY <1>8
<1> HIDE DEF x
<1>10. x \notin DOMAIN task.head.params
  BY <1>6, <1>9
<1>11. ~IsHandle(<<"local", x>>)
  <2>1. x \notin (Len(Params) + 1)..Len(Params \o Handles)
    BY <1>6, <1>7, <1>9
  <2> QED  BY <2>1 DEF IsHandle
<1> QED  BY <1>2, <1>5, <1>8, <1>10, <1>11 DEF x

\* Whether a local that is bound in the body may select an actor.
LEMMA BoundSelector ==
  ASSUME WellFormed(task), NEW q \in Binds
  PROVE  IsSelector(<<"local", LocalId(q)>>) <=> task.body[q][3] = "actor"
<1>1. /\ LocalId(q) \notin DOMAIN task.head.params
      /\ \A r \in Binds : LocalId(r) = LocalId(q) => r = q
  BY IdOfBinding
<1>2. IsSelector(<<"local", LocalId(q)>>) <=>
        \E r \in DOMAIN task.body :
           task.body[r][1] = "bind" /\ LocalId(r) = LocalId(q) /\ task.body[r][3] = "actor"
  BY <1>1 DEF IsSelector
<1> QED  BY <1>1, <1>2 DEF Binds

\* ... and whether one of the head may.
LEMMA HeadSelector ==
  ASSUME WellFormed(task), NEW i \in DOMAIN HeadNames
  PROVE  IsSelector(<<"local", i>>) <=> i \in DOMAIN task.head.params /\ task.head.params[i].actor
<1>1. \A r \in Binds : LocalId(r) # i
  <2> TAKE r \in Binds
  <2>1. LocalId(r) \in Nat /\ Len(HeadNames) < LocalId(r) /\ Len(HeadNames) \in Nat /\ i \in 1..Len(HeadNames)
    BY IdOfBinding, HeadFacts
  <2> DEFINE x == LocalId(r)
  <2> HIDE DEF x
  <2>2. x # i
    BY <2>1 DEF x
  <2> QED  BY <2>2 DEF x
<1>2. ~\E r \in DOMAIN task.body : task.body[r][1] = "bind" /\ LocalId(r) = i /\ task.body[r][3] = "actor"
  BY <1>1 DEF Binds
<1>3. \A j \in DOMAIN task.head.params : task.head.params[j].actor \in BOOLEAN
  BY DEF WellFormed, Range
<1> QED  BY <1>2, <1>3 DEF IsSelector

\* The last of the head of a name.
LEMMA LastHeadIs ==
  ASSUME WellFormed(task), NEW n, InHead(n)
  PROVE  /\ LastInHead(n) \in DOMAIN HeadNames /\ HeadNames[LastInHead(n)] = n
<1> DEFINE S == {i \in DOMAIN HeadNames : HeadNames[i] = n}
           m == Len(HeadNames)
<1>1. m \in Nat /\ S \in SUBSET (1..m) /\ S # {}
  BY HeadFacts DEF InHead, Range
<1>2. Max(S) \in S
  <2> HIDE DEF S, m
  <2> QED  BY <1>1, GreatestMember
<1> QED  BY <1>2 DEF LastInHead

\* A route of a name that may not select means no actor.
LEMMA NotSelectable ==
  ASSUME WellFormed(task), NEW q \in 1..Ending, task.body[q][1] = "use", ~SelectableAt(q)
  PROVE  Meant(q) = {}
<1> DEFINE n == task.body[q][3]
           D == Depth(q)
           M == MeaningIn(n, D, q)
<1>1. /\ task.body[q][2] = "route" /\ n \in NamesIn(D, q) /\ ~Selects(n, D, q)
  BY DEF SelectableAt, SelectorsIn
<1>2. Meant(q) = {m \in {M} : IsSelector(m)}
  BY <1>1, ValueMeantIs DEF Meant
<1>3. BoundAt(n, D, q) \subseteq Binds /\ BoundAt(n, D, q) \subseteq BindsBefore(q)
  BY UnitFacts DEF BoundAt, VisibleAt, Binds, BindsBefore
<1> DEFINE B == BoundAt(n, D, q)
<1>4. CASE B # {}
  <2>1. Max(B) \in B /\ \A r \in B : r <= Max(B)
    BY <1>3, <1>4, LastBound, UnitFacts
  <2>2. M = <<"local", LocalId(Max(B))>>
    BY <1>4 DEF MeaningIn
  <2>3. task.body[Max(B)][3] # "actor"
    <3> SUFFICES ASSUME task.body[Max(B)][3] = "actor" PROVE FALSE
      OBVIOUS
    <3>1. Max(B) \in Typed(n, D, q) /\ \A r \in Typed(n, D, q) : r <= Max(B)
      BY <2>1 DEF Typed
    <3>2. Typed(n, D, q) \in SUBSET Int
      BY <1>3 DEF Typed, BindsBefore
    <3> DEFINE T == Typed(n, D, q)
               x == Max(B)
    <3> HIDE DEF T, x, Max
    <3>3. Max(T) = x
      BY <3>1, <3>2, MaxIs DEF T, x
    <3> QED  BY <1>1, <3>1, <3>3 DEF Selects, T, x
  <2>4. ~IsSelector(<<"local", LocalId(Max(B))>>)
    BY <1>3, <2>1, <2>3, BoundSelector
  <2> QED  BY <1>2, <2>2, <2>4
<1>5. CASE B = {}
  <2>1. \A param \in Range(task.head.params) : param.name = n => ~param.actor
    BY <1>1, <1>5 DEF Selects, Typed
  <2>2. CASE InHead(n)
    <3>1. LastInHead(n) \in DOMAIN HeadNames /\ HeadNames[LastInHead(n)] = n
      BY <2>2, LastHeadIs
    <3>2. M = <<"local", LastInHead(n)>>
      BY <1>5, <2>2 DEF MeaningIn
    <3> DEFINE i == LastInHead(n)
    <3>3. i \in DOMAIN task.head.params => task.head.params[i] \in Range(task.head.params) /\ task.head.params[i].name = n
      BY <3>1, HeadFacts DEF Params, Range
    <3>4. ~IsSelector(<<"local", i>>)
      BY <2>1, <3>1, <3>3, HeadSelector
    <3> QED  BY <1>2, <3>2, <3>4
  <2>3. CASE ~InHead(n)
    <3>1. M = <<"field", n>>
      BY <1>5, <2>3 DEF MeaningIn
    <3>2. ~IsSelector(M)
      BY <3>1 DEF IsSelector
    <3> QED  BY <1>2, <3>2
  <2> QED  BY <2>2, <2>3
<1> QED  BY <1>4, <1>5

-----------------------------------------------------------------------------
(* Where nothing hides another binding.                                     *)

\* A binding that hides another of the callable, a field or a name of a clause.
HidesAt(q) ==
  LET n == task.body[q][2]
  IN  \/ InHead(n) \/ BindingsOf(n, q) # {}
      \/ OfActor /\ n \in task.world.fields
      \/ task.root = "entry" /\ n \in task.head.labels

HeadClear ==
  /\ IsInjective(HeadNames)
  /\ task.root = "entry" => Range(HeadNames) \cap task.head.labels = {}
  /\ OfActor => Range(Params) \cap task.world.fields = {}

BodyClear(P) == \A q \in BindsBefore(P) : ~HidesAt(q)

LEMMA HidesIs ==
  ASSUME WellFormed(task)
  PROVE  /\ Binds = BindsBefore(Ending + 1) /\ Uses = UsesBefore(Ending + 1)
         /\ ~Hides <=> HeadClear /\ BodyClear(Ending + 1)
<1>1. Ending \in Nat /\ DOMAIN task.body = 1..Ending
  BY UnitFacts
<1> DEFINE e == Ending
<1>2. (e + 1) - 1 = e
  BY <1>1
<1> HIDE DEF e
<1>3. DOMAIN task.body = 1..((e + 1) - 1)
  BY <1>1, <1>2 DEF e
<1>4. Binds = BindsBefore(e + 1) /\ Uses = UsesBefore(e + 1)
  BY <1>3 DEF Binds, Uses, BindsBefore, UsesBefore
<1>5. ~Hides <=> HeadClear /\ \A q \in Binds : ~HidesAt(q)
  BY DEF Hides, HeadClear, HidesAt
<1>6. ~Hides <=> HeadClear /\ BodyClear(e + 1)
  BY <1>4, <1>5 DEF BodyClear
<1> QED  BY <1>4, <1>6 DEF e

\* One binding of a name is visible.
LEMMA OneBinding ==
  ASSUME WellFormed(task), NEW p \in 1..(Ending + 1), BodyClear(p), NEW n, NEW k,
         NEW q1 \in BoundAt(n, k, p), NEW q2 \in BoundAt(n, k, p)
  PROVE  q1 = q2
<1>1. Ending \in Nat
  BY UnitFacts
<1>2. ASSUME NEW r \in BoundAt(n, k, p), NEW s \in BoundAt(n, k, p), r < s
      PROVE  FALSE
  <2>1. /\ r \in 1..(p - 1) /\ s \in 1..(p - 1) /\ InBlockOf(p, r) /\ task.body[r][1] = "bind"
        /\ task.body[s][1] = "bind" /\ task.body[r][2] = n /\ task.body[s][2] = n
    BY <1>2 DEF BoundAt, VisibleAt
  <2>2. \A t \in r..s : t \in r..p
    BY <1>1, <2>1
  <2>3. InBlockOf(s, r)
    BY <1>2, <2>1, <2>2 DEF InBlockOf
  <2>4. r \in 1..(s - 1)
    BY <1>1, <1>2, <2>1
  <2>5. r \in BindingsOf(n, s)
    BY <2>1, <2>3, <2>4 DEF BindingsOf
  <2>6. s \in BindsBefore(p)
    BY <2>1 DEF BindsBefore
  <2> QED  BY <2>1, <2>5, <2>6 DEF BodyClear, HidesAt
<1>3. q1 \in Int /\ q2 \in Int
  BY DEF BoundAt, VisibleAt
<1> QED  BY <1>2, <1>3

\* A parameter is in the head, in its place.
LEMMA ParamInHead ==
  ASSUME WellFormed(task), NEW j \in DOMAIN task.head.params
  PROVE  /\ j \in DOMAIN HeadNames /\ HeadNames[j] = task.head.params[j].name
         /\ InHead(task.head.params[j].name)
<1>1. /\ DOMAIN task.head.params = 1..Len(Params) /\ DOMAIN HeadNames = 1..Len(HeadNames)
      /\ Len(HeadNames) = Len(Params) + Len(Handles) /\ Len(Params) \in Nat /\ Len(Handles) \in Nat
      /\ DOMAIN Params = DOMAIN task.head.params /\ HeadNames[j] = Params[j]
  BY UnitFacts, HeadFacts
<1>2. Params[j] = task.head.params[j].name
  BY DEF Params
<1> QED  BY <1>1, <1>2 DEF InHead, Range

\* What a use is bound to is what it means.
LEMMA UseMeans ==
  ASSUME WellFormed(task), HeadClear, NEW q \in 1..Ending, task.body[q][1] = "use", BodyClear(q),
         NEW m \in MeaningsAt(q), SelectableAt(q),
         m[1] = "decl" => task.world.decls[m[2]].kind \in KindFor[task.body[q][2]]
  PROVE  Meant(q) = {m}
<1> DEFINE n == task.body[q][3]
           how == task.body[q][2]
           declared == {<<"decl", d>> : d \in Declaring(n)}
           D == Depth(q)
<1>1. how \in {"value", "call", "field", "route"}
  BY MeaningsByKind
<1>2. m \in Meant(q)
  <2>1. CASE how = "call"
    <3>1. MeaningsAt(q) = IF n \in task.world.helpers THEN {<<"helper", n>>} ELSE declared
      BY <2>1, MeaningsByKind
    <3>2. Meant(q) = IF n \in task.world.helpers THEN {<<"helper", n>>} ELSE OfKind(declared, "function")
      BY <2>1 DEF Meant
    <3>3. KindFor[how] = {"function"}
      BY <2>1 DEF KindFor
    <3> QED  BY <3>1, <3>2, <3>3 DEF OfKind
  <2>2. CASE how = "field"
    <3>1. MeaningsAt(q) = IF OfActor /\ n \in task.world.fields THEN {<<"field", n>>} ELSE {}
      BY <2>2, MeaningsByKind
    <3> QED  BY <2>2, <3>1 DEF Meant
  <2>3. CASE how = "value"
    <3>1. m \in ValueMeant(n, q)
      BY <2>3, MeaningsByKind
    <3>2. KindFor[how] = {"const"}
      BY <2>3 DEF KindFor
    <3>3. Meant(q) = OfKind(ValueMeant(n, q), "const")
      BY <2>3 DEF Meant
    <3> QED  BY <3>1, <3>2, <3>3 DEF OfKind
  <2>4. CASE how = "route"
    <3>1. m \in ValueMeant(n, q) /\ Meant(q) = {x \in ValueMeant(n, q) : IsSelector(x)}
      BY <2>4, MeaningsByKind DEF Meant
    <3>2. KindFor[how] = {"actor"}
      BY <2>4 DEF KindFor
    <3>3. CASE n \notin NamesIn(D, q)
      <4>1. PICK d \in Declaring(n) : m = <<"decl", d>>
        BY <3>1, <3>3, ValueMeantIs
      <4>2. IsSelector(m)
        BY <3>2, <4>1 DEF IsSelector
      <4> QED  BY <3>1, <4>2
    <3>4. CASE n \in NamesIn(D, q)
      <4>1. m = MeaningIn(n, D, q)
        BY <3>1, <3>4, ValueMeantIs
      <4>2. Selects(n, D, q)
        BY <2>4, <3>4 DEF SelectableAt, SelectorsIn
      <4> DEFINE B == BoundAt(n, D, q)
      <4>3. B \subseteq Binds /\ B \subseteq BindsBefore(q)
        BY UnitFacts DEF BoundAt, VisibleAt, Binds, BindsBefore
      <4>4. CASE B # {}
        <5>1. Max(B) \in B
          BY <4>3, <4>4, LastBound, UnitFacts
        <5>2. m = <<"local", LocalId(Max(B))>>
          BY <4>1, <4>4 DEF MeaningIn
        <5>3. \A r \in B : r = Max(B)
          BY <5>1, OneBinding, UnitFacts
        <5>4. ~InHead(n)
          BY <4>3, <5>1 DEF BoundAt, BodyClear, HidesAt
        <5>5. \A param \in Range(task.head.params) : param.name # n
          BY <5>4, ParamInHead DEF Range
        <5>6. Typed(n, D, q) # {} /\ task.body[Max(Typed(n, D, q))][3] = "actor"
          BY <4>2, <5>5 DEF Selects
        <5>7. Typed(n, D, q) = B
          BY <5>1, <5>3, <5>6 DEF Typed
        <5>8. IsSelector(<<"local", LocalId(Max(B))>>)
          BY <4>3, <5>1, <5>6, <5>7, BoundSelector
        <5> QED  BY <3>1, <5>2, <5>8
      <4>5. CASE B = {}
        <5>1. PICK param \in Range(task.head.params) : param.name = n /\ param.actor
          BY <4>2, <4>5 DEF Selects, Typed
        <5>2. PICK j \in DOMAIN task.head.params : task.head.params[j] = param
          BY <5>1 DEF Range
        <5>3. j \in DOMAIN HeadNames /\ HeadNames[j] = n
          BY <5>1, <5>2, ParamInHead
        <5>4. InHead(n)
          BY <5>3 DEF InHead, Range
        <5>5. LastInHead(n) = j
          BY <5>3, <5>4, LastHeadIs DEF HeadClear, IsInjective
        <5>6. m = <<"local", j>>
          BY <4>1, <4>5, <5>4, <5>5 DEF MeaningIn
        <5>7. IsSelector(<<"local", j>>)
          BY <5>1, <5>2, <5>3, HeadSelector
        <5> QED  BY <3>1, <5>6, <5>7
      <4> QED  BY <4>4, <4>5
    <3> QED  BY <3>3, <3>4
  <2> QED  BY <1>1, <2>1, <2>2, <2>3, <2>4
<1> QED  BY <1>2, MeantBound

-----------------------------------------------------------------------------
(* What the names in the script denote.                                     *)

\* Two declarations have different display names, none of which is a field's or a
\* helper's.
LEMMA DisplaysApart ==
  ASSUME WellFormed(task)
  PROVE  /\ \A d, e \in Items : Display(d) = Display(e) => d = e
         /\ \A d \in Constants : Display(d) \notin Plain(task.world.fields)
         /\ \A d \in Items : task.world.decls[d].kind = "function" => Display(d) \notin Plain(task.world.helpers)
<1>1. \A d, e \in Items : Display(d) = Display(e) => d = e
  BY DisplayParts DEF WellFormed, Items
<1>2. ASSUME NEW d \in Items, NEW S, task.world.decls[d].kind # "actor",
             OfActor => S \subseteq OwnLocals,
             task.world.decls[d].name \in S => RenamedIn(task, task.world.decls[d])
      PROVE  Display(d) \notin Plain(S)
  <2> SUFFICES ASSUME NEW n \in S, Display(d) = Verbatim(n) PROVE FALSE
    BY DEF Plain
  <2>1. task.world.decls[d].name = n /\ Display(d).mark = "none"
    BY NameParts, DisplayParts
  <2>2. task.world.decls[d].name \notin OutsideLocals(d)
    BY <1>2, <2>1, DisplayParts
  <2>3. RenamedIn(task, task.world.decls[d])
    BY <1>2, <2>1
  <2>4. CASE task.world.decls[d].file = 1
    BY <2>2, <2>3, <2>4 DEF RenamedIn, OutsideLocals
  <2>5. CASE task.world.decls[d].file # 1
    <3>1. OfActor /\ OutsideLocals(d) = OwnLocals
      BY <2>3, <2>5 DEF RenamedIn, OutsideLocals, OfActor
    <3> QED  BY <1>2, <2>1, <2>2, <3>1
  <2> QED  BY <2>4, <2>5
<1>3. \A d \in Items : task.world.decls[d] \in Range(task.world.decls)
  BY DEF Items, Range
<1>4. OfActor => task.world.fields \subseteq OwnLocals /\ task.world.helpers \subseteq OwnLocals
  BY DEF OwnLocals
<1>5. \A d \in Constants : Display(d) \notin Plain(task.world.fields)
  <2> TAKE d \in Constants
  <2>1. d \in Items /\ task.world.decls[d].kind = "const"
    BY DEF Constants
  <2>2. task.world.decls[d].name \in task.world.fields => RenamedIn(task, task.world.decls[d])
    BY <1>3, <2>1 DEF WellFormed
  <2> QED  BY <1>2, <1>4, <2>1, <2>2
<1>6. \A d \in Items : task.world.decls[d].kind = "function" => Display(d) \notin Plain(task.world.helpers)
  <2> SUFFICES ASSUME NEW d \in Items, task.world.decls[d].kind = "function"
               PROVE  Display(d) \notin Plain(task.world.helpers)
    OBVIOUS
  <2>1. task.world.decls[d].name \in task.world.helpers => RenamedIn(task, task.world.decls[d])
    BY <1>3 DEF WellFormed
  <2> QED  BY <1>2, <1>4, <2>1
<1> QED  BY <1>1, <1>5, <1>6

LEMMA ContractNames ==
  ASSUME WellFormed(task)
  PROVE  /\ \A d \in Constants :
              Display(d) \in DOMAIN ContractScope /\ ContractScope[Display(d)] = <<"decl", d>>
         /\ \A f \in task.world.fields :
              Verbatim(f) \in DOMAIN ContractScope /\ ContractScope[Verbatim(f)] = <<"field", f>>
         /\ \A d \in Items : task.world.decls[d].kind = "function" =>
              Display(d) \in DOMAIN Functions0 /\ Functions0[Display(d)] = <<"decl", d>>
         /\ \A h \in task.world.helpers :
              Verbatim(h) \in DOMAIN Functions0 /\ Functions0[Verbatim(h)] = <<"helper", h>>
<1>1. ASSUME NEW d \in Constants
      PROVE  Display(d) \in DOMAIN ContractScope /\ ContractScope[Display(d)] = <<"decl", d>>
  <2>1. Display(d) \in ConstantNames
    BY DEF ConstantNames
  <2>2. (CHOOSE e \in Constants : Display(e) = Display(d)) = d
    BY DisplaysApart DEF Constants
  <2> QED  BY <2>1, <2>2 DEF ContractScope
<1>2. ASSUME NEW f \in task.world.fields
      PROVE  Verbatim(f) \in DOMAIN ContractScope /\ ContractScope[Verbatim(f)] = <<"field", f>>
  <2>1. Verbatim(f) \in Plain(task.world.fields)
    BY DEF Plain
  <2>2. Verbatim(f) \notin ConstantNames
    BY <2>1, DisplaysApart DEF ConstantNames
  <2> QED  BY <2>1, <2>2, NameParts DEF ContractScope
<1> DEFINE shared == {d \in Items : task.world.decls[d].kind = "function"}
<1>3. ASSUME NEW d \in shared
      PROVE  Display(d) \in DOMAIN Functions0 /\ Functions0[Display(d)] = <<"decl", d>>
  <2>1. Display(d) \in {Display(e) : e \in shared} /\ Display(d) \notin Plain(task.world.helpers)
    BY DisplaysApart
  <2>2. (CHOOSE e \in shared : Display(e) = Display(d)) = d
    BY DisplaysApart
  <2> QED  BY <2>1, <2>2 DEF Functions0
<1>4. ASSUME NEW h \in task.world.helpers
      PROVE  Verbatim(h) \in DOMAIN Functions0 /\ Functions0[Verbatim(h)] = <<"helper", h>>
  <2>1. Verbatim(h) \in Plain(task.world.helpers)
    BY DEF Plain
  <2> QED  BY <2>1, NameParts DEF Functions0
<1> QED  BY <1>1, <1>2, <1>3, <1>4

\* A scope of the script: the contract's, the parameters, what is bound.
ScriptScope(scope, k, p) ==
  /\ DOMAIN scope = DOMAIN ContractScope \cup Range(ParamNames) \cup {spelled[LocalId(q)] : q \in VisibleAt(k, p)}
  /\ \A name \in DOMAIN ContractScope : scope[name] = ContractScope[name]
  /\ \A i \in DOMAIN task.head.params : scope[spelled[i]] = <<"local", i>>
  /\ \A q \in VisibleAt(k, p) : scope[spelled[LocalId(q)]] = <<"local", LocalId(q)>>

\* A use of what it means is read in the script as that.
LEMMA UseReads ==
  ASSUME WellFormed(task), NEW q \in 1..Ending, task.body[q][1] = "use",
         ScriptScope(Last(visible), Depth(q), q), sites[q] \in MeaningsAt(q),
         sites[q][1] = "decl" => task.world.decls[sites[q][2]].kind \in KindFor[task.body[q][2]]
  PROVE  Reads(q) = {sites[q]}
<1> DEFINE n == task.body[q][3]
           how == task.body[q][2]
           m == sites[q]
           D == Depth(q)
           declared == {<<"decl", d>> : d \in Declaring(n)}
           scope == Last(visible)
<1>1. how \in {"value", "call", "field", "route"}
  BY MeaningsByKind
<1>2. CASE how = "call"
  <2>1. m \in IF n \in task.world.helpers THEN {<<"helper", n>>} ELSE declared
    BY <1>2, MeaningsByKind
  <2>2. KindFor[how] = {"function"}
    BY <1>2 DEF KindFor
  <2>3. CASE n \in task.world.helpers
    <3>1. m = <<"helper", n>>
      BY <2>1, <2>3
    <3>2. Written(q, m) = Verbatim(n) /\ ~IsHandle(m) /\ ~IsActor(m)
      BY <3>1 DEF Written, IsHandle, IsActor
    <3> QED  BY <1>2, <2>3, <3>1, <3>2, ContractNames DEF Reads
  <2>4. CASE n \notin task.world.helpers
    <3>1. PICK d \in Declaring(n) : m = <<"decl", d>>
      BY <2>1, <2>4
    <3>2. d \in Items /\ task.world.decls[d].kind = "function"
      BY <2>2, <3>1 DEF Declaring
    <3>3. Written(q, m) = Display(d) /\ ~IsHandle(m) /\ ~IsActor(m)
      BY <3>1, <3>2 DEF Written, IsHandle, IsActor
    <3> QED  BY <1>2, <3>1, <3>2, <3>3, ContractNames DEF Reads
  <2> QED  BY <2>3, <2>4
<1>3. CASE how # "call"
  <2>1. ASSUME m = <<"field", n>>, n \in task.world.fields
        PROVE  Reads(q) = {m}
    <3>1. Written(q, m) = Verbatim(n) /\ ~IsHandle(m) /\ ~IsActor(m)
      BY <2>1 DEF Written, IsHandle, IsActor
    <3>2. Verbatim(n) \in DOMAIN scope /\ scope[Verbatim(n)] = m
      BY <2>1, ContractNames DEF ScriptScope
    <3> QED  BY <1>3, <3>1, <3>2 DEF Reads
  <2>2. ASSUME how # "field", NEW d \in Declaring(n), m = <<"decl", d>>
        PROVE  Reads(q) = {m}
    <3>1. CASE how = "route"
      <4>1. task.world.decls[d].kind = "actor"
        BY <2>2, <3>1 DEF KindFor
      <4> QED  BY <2>2, <4>1 DEF Reads, IsActor
    <3>2. CASE how = "value"
      <4>1. task.world.decls[d].kind = "const" /\ d \in Constants
        BY <2>2, <3>2 DEF KindFor, Declaring, Constants
      <4>2. Written(q, m) = Display(d) /\ ~IsHandle(m) /\ ~IsActor(m)
        BY <2>2, <4>1 DEF Written, IsHandle, IsActor
      <4>3. Display(d) \in DOMAIN scope /\ scope[Display(d)] = m
        BY <2>2, <4>1, ContractNames DEF ScriptScope
      <4> QED  BY <1>3, <4>2, <4>3 DEF Reads
    <3> QED  BY <1>1, <1>3, <2>2, <3>1, <3>2
  <2>3. ASSUME NEW i, m = <<"local", i>>, ~IsHandle(m) => spelled[i] \in DOMAIN scope /\ scope[spelled[i]] = m
        PROVE  Reads(q) = {m}
    <3>1. Written(q, m) = spelled[i]
      BY <2>3 DEF Written
    <3> QED  BY <1>3, <2>3, <3>1 DEF Reads
  <2>4. CASE how = "field"
    <3>1. m \in IF OfActor /\ n \in task.world.fields THEN {<<"field", n>>} ELSE {}
      BY <2>4, MeaningsByKind
    <3> QED  BY <2>1, <3>1
  <2>5. CASE how \in {"value", "route"} /\ n \notin NamesIn(D, q)
    <3>1. m \in declared
      BY <2>5, MeaningsByKind, ValueMeantIs
    <3> QED  BY <2>2, <2>5, <3>1
  <2>6. CASE how \in {"value", "route"} /\ n \in NamesIn(D, q)
    <3>1. m = MeaningIn(n, D, q)
      BY <2>6, MeaningsByKind, ValueMeantIs
    <3> DEFINE B == BoundAt(n, D, q)
    <3>2. CASE B # {}
      <4>1. B \subseteq BindsBefore(q)
        BY DEF BoundAt, VisibleAt, BindsBefore
      <4>2. Max(B) \in B
        BY <3>2, <4>1, LastBound, UnitFacts
      <4>3. m = <<"local", LocalId(Max(B))>>
        BY <3>1, <3>2 DEF MeaningIn
      <4>4. Max(B) \in VisibleAt(D, q)
        BY <4>2 DEF BoundAt
      <4> DEFINE i == LocalId(Max(B))
      <4>5. spelled[i] \in DOMAIN scope /\ scope[spelled[i]] = m
        BY <4>3, <4>4 DEF ScriptScope
      <4> QED  BY <2>3, <4>3, <4>5
    <3>3. CASE B = {} /\ InHead(n)
      <4> DEFINE i == LastInHead(n)
      <4>1. i \in DOMAIN HeadNames /\ m = <<"local", i>>
        BY <3>1, <3>3, LastHeadIs DEF MeaningIn
      <4>2. CASE i \in DOMAIN task.head.params
        <5>1. spelled[i] \in Range(ParamNames)
          BY <4>2 DEF ParamNames, Range
        <5>2. spelled[i] \in DOMAIN scope /\ scope[spelled[i]] = m
          BY <4>1, <4>2, <5>1 DEF ScriptScope
        <5> QED  BY <2>3, <4>1, <5>2
      <4>3. CASE i \notin DOMAIN task.head.params
        <5>1. /\ DOMAIN task.head.params = 1..Len(Params) /\ DOMAIN HeadNames = 1..Len(HeadNames)
              /\ Len(Params) \in Nat /\ Len(HeadNames) \in Nat
          BY UnitFacts, HeadFacts
        <5>2. Len(Params \o Handles) = Len(HeadNames)
          BY DEF HeadNames
        <5> HIDE DEF i
        <5>3. i \in (Len(Params) + 1)..Len(Params \o Handles)
          BY <4>1, <4>3, <5>1, <5>2
        <5>4. IsHandle(m)
          BY <4>1, <5>3 DEF IsHandle
        <5> QED  BY <2>3, <4>1, <5>4
      <4> QED  BY <4>2, <4>3
    <3>4. CASE B = {} /\ ~InHead(n)
      <4>1. m = <<"field", n>>
        BY <3>1, <3>4 DEF MeaningIn
      <4>2. n \in task.world.fields
        BY <2>6, <3>4 DEF NamesIn, InHead, FieldNames, BoundAt
      <4> QED  BY <2>1, <4>1, <4>2
    <3> QED  BY <3>2, <3>3, <3>4
  <2> QED  BY <1>1, <1>3, <2>4, <2>5, <2>6
<1> QED  BY <1>2, <1>3

\* Two sequences in either order.
LEMMA TurnedInjective ==
  ASSUME NEW s, Line(s), NEW t, Line(t), IsInjective(s \o t)
  PROVE  IsInjective(t \o s)
<1> DEFINE m == Len(s)
           n == Len(t)
           r == s \o t
           u == t \o s
<1>1. m \in Nat /\ n \in Nat /\ DOMAIN s = 1..m /\ DOMAIN t = 1..n
  BY LineFacts
<1>0. IsJoined(r, s, t) /\ IsJoined(u, t, s)
  <2> HIDE DEF u
  <2>1. IsJoined(r, s, t)
    BY Joined
  <2>2. IsJoined(u, t, s)
    BY Joined DEF u
  <2> QED  BY <2>1, <2>2
<1>2. /\ Line(r) /\ Len(r) = m + n
      /\ \A i \in DOMAIN s : r[i] = s[i]
      /\ \A j \in DOMAIN t : r[m + j] = t[j]
  BY <1>0 DEF IsJoined
<1>3. /\ Line(u) /\ Len(u) = n + m
      /\ \A j \in DOMAIN t : u[j] = t[j]
      /\ \A i \in DOMAIN s : u[n + i] = s[i]
  BY <1>0 DEF IsJoined
<1>4. \A i, j \in DOMAIN r : r[i] = r[j] => i = j
  BY DEF IsInjective
<1> HIDE DEF m, n, r, u
<1>5. DOMAIN r = 1..(m + n) /\ DOMAIN u = 1..(n + m)
  BY <1>2, <1>3, LineFacts
<1> DEFINE f(i) == IF i <= n THEN m + i ELSE i - n
<1>6. \A i \in DOMAIN u : f(i) \in DOMAIN r /\ r[f(i)] = u[i]
  <2> TAKE i \in DOMAIN u
  <2>1. CASE i <= n
    BY <1>1, <1>2, <1>3, <1>5, <2>1
  <2>2. CASE ~(i <= n)
    <3>1. i - n \in 1..m /\ n + (i - n) = i
      BY <1>1, <1>5, <2>2
    <3> QED  BY <1>1, <1>2, <1>3, <1>5, <2>2, <3>1
  <2> QED  BY <2>1, <2>2
<1>7. \A i, j \in DOMAIN u : f(i) = f(j) => i = j
  BY <1>1, <1>5
<1> HIDE DEF f
<1>8. \A i, j \in DOMAIN u : u[i] = u[j] => i = j
  <2> TAKE i, j \in DOMAIN u
  <2> HAVE u[i] = u[j]
  <2>1. f(i) \in DOMAIN r /\ f(j) \in DOMAIN r /\ r[f(i)] = r[f(j)]
    BY <1>6
  <2>2. f(i) = f(j)
    BY <1>4, <2>1
  <2> QED  BY <1>7, <2>2
<1> QED  BY <1>8 DEF IsInjective, u

\* The names of an entry, in the order the checks list them.
LEMMA EntryHead ==
  ASSUME WellFormed(task)
  PROVE  /\ IsInjective(Handles \o Params) <=> IsInjective(HeadNames)
         /\ Range(Handles \o Params) = Range(HeadNames)
<1>1. Line(Params) /\ Line(Handles)
  BY HeadFacts
<1>2. IsInjective(Handles \o Params) => IsInjective(Params \o Handles)
  BY <1>1, TurnedInjective
<1>3. IsInjective(Params \o Handles) => IsInjective(Handles \o Params)
  BY <1>1, TurnedInjective
<1>4. Range(Handles \o Params) = Range(Handles) \cup Range(Params)
  <2>1. IsJoined(Handles \o Params, Handles, Params)
    BY <1>1, Joined
  <2> QED  BY <2>1 DEF IsJoined
<1>5. Range(HeadNames) = Range(Params) \cup Range(Handles)
  BY HeadFacts
<1> QED  BY <1>2, <1>3, <1>4, <1>5 DEF HeadNames, IsInjective

\* A use of what may not be referred to so means nothing.
LEMMA KindRefused ==
  ASSUME WellFormed(task), BoundUpTo(Ending + 1), ~KindsFit
  PROVE  \E p \in Uses : Meant(p) = {}
<1>1. PICK p \in DOMAIN sites :
        sites[p][1] = "decl" /\ task.world.decls[sites[p][2]].kind \notin KindFor[task.body[p][2]]
  BY DEF KindsFit
<1>2. DOMAIN sites = Binds \cup Uses /\ \A q \in Binds : sites[q][1] = "local"
  BY HidesIs DEF BoundUpTo
<1>3. p \in Uses
  BY <1>1, <1>2
<1>4. p \in 1..Ending /\ task.body[p][1] = "use" /\ sites[p] \in MeaningsAt(p)
  BY <1>3, HidesIs, UnitFacts DEF BoundUpTo, Uses
<1> DEFINE m == sites[p]
           n == task.body[p][3]
           how == task.body[p][2]
           declared == {<<"decl", d>> : d \in Declaring(n)}
<1>5. how \in {"value", "call", "field", "route"}
  BY <1>4, MeaningsByKind
<1>6. \A x \in Meant(p) : x = m
  BY <1>4, MeantBound
<1>7. m \notin Meant(p)
  <2>1. CASE how = "call"
    <3>1. m \in declared /\ n \notin task.world.helpers
      BY <1>1, <1>4, <2>1, MeaningsByKind
    <3>2. Meant(p) = OfKind(declared, "function") /\ KindFor[how] = {"function"}
      BY <2>1, <3>1 DEF Meant, KindFor
    <3> QED  BY <1>1, <3>2 DEF OfKind
  <2>2. CASE how = "field"
    <3>1. m \in IF OfActor /\ n \in task.world.fields THEN {<<"field", n>>} ELSE {}
      BY <1>4, <2>2, MeaningsByKind
    <3> QED  BY <1>1, <3>1
  <2>3. CASE how = "value"
    <3>1. Meant(p) = OfKind(ValueMeant(n, p), "const") /\ KindFor[how] = {"const"}
      BY <2>3 DEF Meant, KindFor
    <3> QED  BY <1>1, <3>1 DEF OfKind
  <2>4. CASE how = "route"
    <3>1. Meant(p) = {x \in ValueMeant(n, p) : IsSelector(x)} /\ KindFor[how] = {"actor"}
      BY <2>4 DEF Meant, KindFor
    <3>2. ~IsSelector(m)
      BY <1>1, <3>1 DEF IsSelector
    <3> QED  BY <3>1, <3>2
  <2> QED  BY <1>5, <2>1, <2>2, <2>3, <2>4
<1>8. Meant(p) = {}
  BY <1>6, <1>7
<1> QED  BY <1>3, <1>8

LEMMA EntryRefused ==
  ASSUME WellFormed(task), task.root = "entry", ~EntryNamesDistinct
  PROVE  Hides
<1>1. CASE ~IsInjective(HeadNames)
  BY <1>1 DEF Hides
<1>2. CASE Range(HeadNames) \cap task.head.labels # {}
  BY <1>2 DEF Hides
<1>3. CASE BoundInBody \cap (Range(HeadNames) \cup task.head.labels) # {}
  <2>1. PICK p \in Binds : task.body[p][2] \in Range(HeadNames) \cup task.head.labels
    BY <1>3 DEF BoundInBody, Binds
  <2> QED  BY <2>1 DEF Hides, InHead
<1> QED  BY <1>1, <1>2, <1>3, EntryHead DEF EntryNamesDistinct

-----------------------------------------------------------------------------
(* The locals and their names.                                              *)

LEMMA LocalFacts ==
  ASSUME WellFormed(task), BoundUpTo(Ending + 1), SpellingsFit, Len(spelled) = Len(locals)
  PROVE  /\ DOMAIN spelled = 1..Len(locals) /\ DOMAIN locals = 1..Len(locals)
         /\ \A i \in DOMAIN HeadNames : i \in DOMAIN locals /\ locals[i] = HeadNames[i]
         /\ \A q \in Binds : LocalId(q) \in DOMAIN locals /\ locals[LocalId(q)] = task.body[q][2]
         /\ Range(locals) = Range(HeadNames) \cup BoundInBody
         /\ \A i \in DOMAIN locals : SpellingFits(locals[i], spelled[i])
         /\ \A i, j \in DOMAIN locals : spelled[i] = spelled[j] <=> locals[i] = locals[j]
<1>1. Ending \in Nat /\ DOMAIN task.body = 1..Ending
  BY UnitFacts
<1> DEFINE e == Ending
<1>2. (e + 1) - 1 = e
  BY <1>1
<1>3. Len(locals) = LocalId(e)
  <2> HIDE DEF e
  <2>1. BoundUpTo(e + 1)
    BY DEF e
  <2> QED  BY <1>2, <2>1 DEF BoundUpTo
<1>4. Line(locals) /\ Line(spelled)
  BY DEF BoundUpTo, SpellingsFit
<1>5. DOMAIN spelled = 1..Len(locals) /\ DOMAIN locals = 1..Len(locals)
  BY <1>4, LineFacts
<1>6. \A q \in Binds : LocalId(q) \in DOMAIN locals
  <2> TAKE q \in Binds
  <2>1. q \in 1..Ending /\ LocalId(q) \in Nat /\ Len(HeadNames) < LocalId(q) /\ Len(HeadNames) \in Nat
    BY IdOfBinding, HeadFacts
  <2>2. Begun(task, "bind", q) <= Begun(task, "bind", e)
    BY <1>1, <2>1, BegunGrows
  <2>3. Begun(task, "bind", q) \in Nat /\ Begun(task, "bind", e) \in Nat
    BY <1>1, <2>1, BegunStep
  <2> DEFINE x == Begun(task, "bind", q)
             y == Begun(task, "bind", e)
             h == Len(HeadNames)
  <2>4. LocalId(q) = h + x /\ LocalId(e) = h + y
    BY DEF LocalId
  <2> HIDE DEF x, y, h, e
  <2>5. h + x \in 1..(h + y)
    BY <2>1, <2>2, <2>3, <2>4 DEF x, y, h
  <2> QED  BY <1>3, <1>5, <2>4, <2>5
<1>7. \A i \in DOMAIN HeadNames : i \in DOMAIN locals
  <2>1. Begun(task, "bind", e) \in Nat /\ Len(HeadNames) \in Nat /\ DOMAIN HeadNames = 1..Len(HeadNames)
    BY <1>1, BegunStep, HeadFacts
  <2> DEFINE y == Begun(task, "bind", e)
             h == Len(HeadNames)
  <2>2. LocalId(e) = h + y
    BY DEF LocalId
  <2> HIDE DEF y, h, e
  <2>3. \A i \in 1..h : i \in 1..(h + y)
    BY <2>1 DEF y, h
  <2> QED  BY <1>3, <1>5, <2>1, <2>2, <2>3 DEF h
<1>8. BoundInBody = {task.body[q][2] : q \in Binds}
  BY DEF BoundInBody, Binds
<1>9. /\ \A i \in DOMAIN HeadNames : locals[i] = HeadNames[i]
      /\ \A q \in Binds : locals[LocalId(q)] = task.body[q][2]
      /\ Range(locals) = Range(HeadNames) \cup BoundInBody
  BY <1>8, HidesIs DEF BoundUpTo
<1>10. /\ \A i \in DOMAIN locals : SpellingFits(locals[i], spelled[i])
       /\ \A i, j \in DOMAIN locals : spelled[i] = spelled[j] <=> locals[i] = locals[j]
  BY <1>5 DEF SpellingsFit
<1> QED  BY <1>5, <1>6, <1>7, <1>9, <1>10

\* What is named fits, when all is named.
AllFits == BoundUpTo(Ending + 1) /\ SpellingsFit /\ Len(spelled) = Len(locals)

LEMMA ParamFacts ==
  ASSUME WellFormed(task), AllFits
  PROVE  /\ \A i \in DOMAIN task.head.params :
              i \in DOMAIN locals /\ i \in DOMAIN HeadNames /\ locals[i] = Params[i] /\ Params[i] = HeadNames[i]
         /\ DOMAIN ParamNames = DOMAIN task.head.params /\ DOMAIN Params = DOMAIN task.head.params
         /\ \A i \in DOMAIN task.head.params : ParamNames[i] = spelled[i]
         /\ Range(ParamNames) = {spelled[i] : i \in DOMAIN task.head.params}
<1>1. \A i \in DOMAIN task.head.params : i \in DOMAIN HeadNames /\ Params[i] = HeadNames[i]
  BY ParamInHead DEF Params
<1>2. \A i \in DOMAIN task.head.params : i \in DOMAIN locals /\ locals[i] = HeadNames[i]
  BY <1>1, LocalFacts DEF AllFits
<1>3. DOMAIN ParamNames = DOMAIN task.head.params /\ \A i \in DOMAIN task.head.params : ParamNames[i] = spelled[i]
  BY DEF ParamNames
<1>4. Range(ParamNames) = {spelled[i] : i \in DOMAIN task.head.params}
  BY <1>3 DEF Range
<1> QED  BY <1>1, <1>2, <1>3, <1>4 DEF Params

\* The head of a callable that is no entry.
LEMMA HeadOfOther ==
  ASSUME WellFormed(task), task.root # "entry"
  PROVE  /\ HeadNames = Params /\ Range(HeadNames) = Range(Params)
         /\ DOMAIN HeadNames = DOMAIN task.head.params
<1>1. task.head.handles = <<>>
  BY DEF WellFormed
<1>2. Handles = <<>>
  BY <1>1 DEF Handles
<1>3. Range(Handles) = {}
  BY <1>2 DEF Range
<1>4. Line(Params) /\ DOMAIN Params = DOMAIN task.head.params
  BY HeadFacts
<1>5. HeadNames = Params
  <2> DEFINE s == Params
  <2>1. s \in Seq(Range(s))
    BY <1>4 DEF Line
  <2> HIDE DEF s
  <2>2. s \o <<>> = s
    BY <2>1
  <2> QED  BY <1>2, <2>2 DEF HeadNames, s
<1> QED  BY <1>4, <1>5

\* The names are refused for what is hidden.
LEMMA NamesRefused ==
  ASSUME WellFormed(task), AllFits, ShadowsShared \/ ~ParamsAccepted
  PROVE  Hides \/ HidesConstant
<1>1. CASE ShadowsShared
  <2>1. PICK n \in Range(locals) : Verbatim(n) \in ConstantNames
    BY <1>1 DEF ShadowsShared
  <2>2. IsConstantHere(n)
    BY <2>1, ConstantNamed
  <2>3. n \in Range(Params) \cup BoundInBody
    BY <1>1, LocalFacts, HeadOfOther DEF AllFits, ShadowsShared
  <2> QED  BY <2>2, <2>3 DEF HidesConstant, IsConstantHere
<1>2. CASE ~IsInjective(ParamNames)
  <2>1. PICK i, j \in DOMAIN task.head.params : spelled[i] = spelled[j] /\ i # j
    BY <1>2, ParamFacts DEF IsInjective
  <2>2. locals[i] = locals[j]
    BY <2>1, ParamFacts, LocalFacts DEF AllFits
  <2>3. HeadNames[i] = HeadNames[j] /\ i \in DOMAIN HeadNames /\ j \in DOMAIN HeadNames
    BY <2>2, ParamFacts
  <2> QED  BY <2>1, <2>3 DEF Hides, IsInjective
<1>3. CASE Range(ParamNames) \cap DOMAIN ContractScope # {}
  <2>1. PICK i \in DOMAIN task.head.params : spelled[i] \in DOMAIN ContractScope
    BY <1>3, ParamFacts
  <2> DEFINE n == Params[i]
  <2>2. n \in Range(Params) /\ n \in Range(locals) /\ SpellingFits(n, spelled[i])
    <3>1. i \in DOMAIN locals /\ locals[i] = n /\ i \in DOMAIN Params
      BY ParamFacts
    <3>2. SpellingFits(locals[i], spelled[i])
      BY <3>1, LocalFacts DEF AllFits
    <3> QED  BY <3>1, <3>2 DEF Range
  <2>3. (OfActor /\ n \in task.world.fields) \/ IsConstantHere(n)
    BY <2>1, <2>2, NameCollides
  <2> QED  BY <2>2, <2>3 DEF Hides, HidesConstant, IsConstantHere
<1> QED  BY <1>1, <1>2, <1>3 DEF ParamsAccepted

\* A local of the name of a field keeps it.
LEMMA FieldSpelled ==
  ASSUME NEW n \in task.world.fields, OfActor, NEW name, SpellingFits(n, name)
  PROVE  name \in DOMAIN ContractScope
<1>1. Verbatim(n) \in Plain(task.world.fields)
  BY DEF Plain
<1>2. name = Verbatim(n)
  BY <1>1 DEF SpellingFits, Kept
<1> QED  BY <1>1, <1>2 DEF ContractScope

\* Where they are accepted, nothing of the head is hidden.
LEMMA HeadAccepted ==
  ASSUME WellFormed(task), AllFits, ParamsAccepted, task.root = "entry" => EntryNamesDistinct
  PROVE  HeadClear
<1>1. IsInjective(HeadNames)
  <2>1. CASE task.root = "entry"
    BY <2>1, EntryHead DEF EntryNamesDistinct
  <2>2. CASE task.root # "entry"
    <3> SUFFICES ASSUME NEW i \in DOMAIN task.head.params, NEW j \in DOMAIN task.head.params,
                        HeadNames[i] = HeadNames[j]
                 PROVE  i = j
      BY <2>2, HeadOfOther DEF IsInjective
    <3>1. i \in DOMAIN locals /\ j \in DOMAIN locals /\ locals[i] = locals[j]
      BY ParamFacts
    <3>2. spelled[i] = spelled[j]
      BY <3>1, LocalFacts DEF AllFits
    <3> QED  BY <3>2, ParamFacts DEF ParamsAccepted, IsInjective
  <2> QED  BY <2>1, <2>2
<1>2. task.root = "entry" => Range(HeadNames) \cap task.head.labels = {}
  BY EntryHead DEF EntryNamesDistinct
<1>3. ASSUME OfActor, NEW n \in Range(Params), n \in task.world.fields
      PROVE  FALSE
  <2>1. PICK i \in DOMAIN task.head.params : Params[i] = n
    BY ParamFacts DEF Range
  <2>2. i \in DOMAIN locals /\ locals[i] = n /\ spelled[i] \in Range(ParamNames)
    BY <2>1, ParamFacts
  <2>3. SpellingFits(n, spelled[i])
    BY <2>2, LocalFacts DEF AllFits
  <2>4. spelled[i] \in DOMAIN ContractScope
    BY <1>3, <2>3, FieldSpelled
  <2> QED  BY <2>2, <2>4 DEF ParamsAccepted
<1> QED  BY <1>1, <1>2, <1>3 DEF HeadClear

\* ... and the first scope of the script holds the contract and the parameters.
LEMMA FirstScript ==
  ASSUME WellFormed(task), AllFits, ParamsAccepted
  PROVE  ScriptScope(Over(ParamScope, ContractScope), 0, 1)
<1> DEFINE scope == Over(ParamScope, ContractScope)
<1>1. DOMAIN ParamScope = Range(ParamNames)
  BY DEF ParamScope
<1>2. DOMAIN scope = Range(ParamNames) \cup DOMAIN ContractScope
  BY <1>1 DEF Over
<1>3. \A name \in DOMAIN ContractScope : scope[name] = ContractScope[name]
  BY <1>1 DEF Over, ParamsAccepted
<1>4. ASSUME NEW i \in DOMAIN task.head.params
      PROVE  scope[spelled[i]] = <<"local", i>>
  <2>1. spelled[i] \in Range(ParamNames) /\ i \in DOMAIN ParamNames /\ ParamNames[i] = spelled[i]
    BY ParamFacts
  <2>2. (CHOOSE j \in DOMAIN ParamNames : ParamNames[j] = spelled[i]) = i
    BY <2>1 DEF ParamsAccepted, IsInjective
  <2>3. ParamScope[spelled[i]] = <<"local", i>>
    BY <2>1, <2>2 DEF ParamScope
  <2> QED  BY <1>1, <2>1, <2>3 DEF Over
<1>5. VisibleAt(0, 1) = {}
  BY VisibleFirst
<1> HIDE DEF scope
<1>6. ScriptScope(scope, 0, 1)
  BY <1>2, <1>3, <1>4, <1>5 DEF ScriptScope
<1> QED  BY <1>6 DEF scope

\* A binding of the body is refused in the script only if it hides another.
LEMMA LocalRefused ==
  ASSUME WellFormed(task), AllFits, NEW p \in 1..Ending, task.body[p][1] = "bind",
         NEW scope, ScriptScope(scope, Depth(p), p), spelled[LocalId(p)] \in DOMAIN scope
  PROVE  Hides \/ HidesConstant
<1> DEFINE n == task.body[p][2]
           name == spelled[LocalId(p)]
<1>1. p \in Binds /\ n \in BoundInBody
  BY UnitFacts DEF Binds, BoundInBody
<1>2. LocalId(p) \in DOMAIN locals /\ locals[LocalId(p)] = n /\ n \in Range(locals) /\ SpellingFits(n, name)
  BY <1>1, LocalFacts DEF AllFits
<1>3. CASE name \in DOMAIN ContractScope
  <2>1. (OfActor /\ n \in task.world.fields) \/ IsConstantHere(n)
    BY <1>2, <1>3, NameCollides
  <2> QED  BY <1>1, <2>1 DEF Hides, HidesConstant, IsConstantHere
<1>4. CASE name \in Range(ParamNames)
  <2>1. PICK i \in DOMAIN task.head.params : spelled[i] = name
    BY <1>4, ParamFacts
  <2>2. i \in DOMAIN locals /\ i \in DOMAIN HeadNames /\ locals[i] = HeadNames[i]
    BY ParamFacts
  <2>3. locals[i] = n
    BY <1>2, <2>1, <2>2, LocalFacts DEF AllFits
  <2>4. InHead(n)
    BY <2>2, <2>3 DEF InHead, Range
  <2> QED  BY <1>1, <2>4 DEF Hides
<1>5. CASE name \in {spelled[LocalId(q)] : q \in VisibleAt(Depth(p), p)}
  <2>1. PICK q \in VisibleAt(Depth(p), p) : spelled[LocalId(q)] = name
    BY <1>5
  <2>2. q \in Binds
    BY <2>1, UnitFacts DEF VisibleAt, Binds
  <2>3. LocalId(q) \in DOMAIN locals /\ locals[LocalId(q)] = task.body[q][2]
    BY <2>2, LocalFacts DEF AllFits
  <2>4. task.body[q][2] = n
    BY <1>2, <2>1, <2>3, LocalFacts DEF AllFits
  <2>5. q \in BoundAt(n, Depth(p), p)
    BY <2>1, <2>4 DEF BoundAt
  <2>6. BindingsOf(n, p) # {}
    BY <2>5, BoundHere, UnitFacts
  <2> QED  BY <1>1, <2>6 DEF Hides
<1> QED  BY <1>3, <1>4, <1>5 DEF ScriptScope

\* ... and accepted only if it hides none.
LEMMA LocalAccepted ==
  ASSUME WellFormed(task), AllFits, task.root = "entry" => EntryNamesDistinct,
         NEW p \in 1..Ending, task.body[p][1] = "bind",
         NEW scope, ScriptScope(scope, Depth(p), p), spelled[LocalId(p)] \notin DOMAIN scope
  PROVE  ~HidesAt(p)
<1> DEFINE n == task.body[p][2]
           name == spelled[LocalId(p)]
<1>1. p \in Binds /\ n \in BoundInBody
  BY UnitFacts DEF Binds, BoundInBody
<1>2. LocalId(p) \in DOMAIN locals /\ locals[LocalId(p)] = n /\ SpellingFits(n, name)
  BY <1>1, LocalFacts DEF AllFits
<1>3. ASSUME task.root = "entry" PROVE ~InHead(n) /\ n \notin task.head.labels
  BY <1>1, <1>3, EntryHead DEF EntryNamesDistinct, InHead
<1>4. ASSUME task.root # "entry", InHead(n) PROVE FALSE
  <2>1. PICK i \in DOMAIN task.head.params : HeadNames[i] = n
    BY <1>4, HeadOfOther DEF InHead, Range
  <2>2. i \in DOMAIN locals /\ locals[i] = n /\ spelled[i] \in Range(ParamNames)
    BY <2>1, ParamFacts
  <2>3. spelled[i] = name
    BY <1>2, <2>2, LocalFacts DEF AllFits
  <2> QED  BY <2>2, <2>3 DEF ScriptScope
<1>5. ASSUME BindingsOf(n, p) # {} PROVE FALSE
  <2>1. PICK q \in BoundAt(n, Depth(p), p) : TRUE
    BY <1>5, BoundHere, UnitFacts
  <2>2. q \in VisibleAt(Depth(p), p) /\ task.body[q][2] = n
    BY <2>1 DEF BoundAt
  <2>3. q \in Binds
    BY <2>2, UnitFacts DEF VisibleAt, Binds
  <2>4. LocalId(q) \in DOMAIN locals /\ locals[LocalId(q)] = n
    BY <2>2, <2>3, LocalFacts DEF AllFits
  <2>5. spelled[LocalId(q)] = name
    BY <1>2, <2>4, LocalFacts DEF AllFits
  <2> QED  BY <2>2, <2>5 DEF ScriptScope
<1>6. ASSUME OfActor, n \in task.world.fields PROVE FALSE
  <2>1. name \in DOMAIN ContractScope
    BY <1>2, <1>6, FieldSpelled
  <2> QED  BY <2>1 DEF ScriptScope
<1> QED  BY <1>3, <1>4, <1>5, <1>6 DEF HidesAt

\* What a binding adds to the script's scope.
LEMMA ScriptBinds ==
  ASSUME WellFormed(task), NEW p \in 1..Ending, task.body[p][1] = "bind",
         NEW scope, ScriptScope(scope, Depth(p), p), spelled[LocalId(p)] \notin DOMAIN scope
  PROVE  ScriptScope(Put(scope, spelled[LocalId(p)], <<"local", LocalId(p)>>), Depth(p), p + 1)
<1> DEFINE name == spelled[LocalId(p)]
           v == <<"local", LocalId(p)>>
           next == Put(scope, name, v)
           D == Depth(p)
<1>1. VisibleAt(D, p + 1) = VisibleAt(D, p) \cup {p}
  <2>1. Depth(p + 1) = D /\ D \in Nat
    BY DepthStep
  <2>2. D <= Depth(p + 1) /\ D <= D
    BY <2>1
  <2>3. VisibleAt(D, p + 1) = VisibleAt(D, p) \cup (IF task.body[p][1] = "bind" /\ Depth(p) <= D THEN {p} ELSE {})
    <3> HIDE DEF D
    <3> QED  BY <2>1, <2>2, VisibleStep
  <2> QED  BY <2>2, <2>3
<1>2. /\ DOMAIN next = DOMAIN scope \cup {name} /\ next[name] = v
      /\ \A x \in DOMAIN scope : next[x] = scope[x]
  BY DEF Put
<1> DEFINE P == p + 1
<1>3. VisibleAt(D, P) = VisibleAt(D, p) \cup {p}
  BY <1>1
<1> HIDE DEF next, P, D
<1>4. DOMAIN next = DOMAIN ContractScope \cup Range(ParamNames) \cup {spelled[LocalId(q)] : q \in VisibleAt(D, P)}
  BY <1>2, <1>3 DEF ScriptScope, D
<1>5. \A x \in DOMAIN ContractScope : next[x] = ContractScope[x]
  BY <1>2 DEF ScriptScope
<1>6. \A i \in DOMAIN task.head.params : next[spelled[i]] = <<"local", i>>
  <2>1. \A i \in DOMAIN task.head.params : spelled[i] \in Range(ParamNames)
    BY DEF ParamNames, Range
  <2> QED  BY <1>2, <2>1 DEF ScriptScope
<1>7. \A q \in VisibleAt(D, P) : next[spelled[LocalId(q)]] = <<"local", LocalId(q)>>
  <2>1. \A q \in VisibleAt(D, p) :
          /\ spelled[LocalId(q)] \in DOMAIN scope
          /\ scope[spelled[LocalId(q)]] = <<"local", LocalId(q)>>
    BY DEF ScriptScope, D
  <2> QED  BY <1>2, <1>3, <2>1
<1>8. ScriptScope(next, D, P)
  BY <1>4, <1>5, <1>6, <1>7 DEF ScriptScope
<1> QED  BY <1>8 DEF next, D, P

-----------------------------------------------------------------------------
(* The script's scopes.                                                     *)

ScriptStack(stack, p) ==
  /\ Line(stack) /\ Len(stack) = Depth(p) + 1
  /\ \A k \in 1..(Depth(p) + 1) : ScriptScope(stack[k], k - 1, p)

LEMMA ScriptStays ==
  ASSUME WellFormed(task), NEW p \in 1..Ending, NEW k \in Nat, k <= Depth(p + 1),
         task.body[p][1] = "bind" => k < Depth(p), NEW scope, ScriptScope(scope, k, p)
  PROVE  ScriptScope(scope, k, p + 1)
<1>1. VisibleAt(k, p + 1) = VisibleAt(k, p)
  <2>1. Depth(p) \in Nat
    BY DepthStep
  <2>2. ~(task.body[p][1] = "bind" /\ Depth(p) <= k)
    BY <2>1
  <2>3. VisibleAt(k, p + 1) =
          VisibleAt(k, p) \cup (IF task.body[p][1] = "bind" /\ Depth(p) <= k THEN {p} ELSE {})
    BY VisibleStep
  <2> QED  BY <2>2, <2>3
<1> DEFINE P == p + 1
<1>2. VisibleAt(k, P) = VisibleAt(k, p)
  BY <1>1
<1> HIDE DEF P
<1>3. ScriptScope(scope, k, P)
  BY <1>2 DEF ScriptScope
<1> QED  BY <1>3 DEF P

LEMMA ScriptDeeper ==
  ASSUME WellFormed(task), NEW p \in 1..(Ending + 1), NEW scope, ScriptScope(scope, Depth(p), p)
  PROVE  ScriptScope(scope, Depth(p) + 1, p)
<1> DEFINE D == Depth(p)
           E == D + 1
<1>1. VisibleAt(E, p) = VisibleAt(D, p)
  BY VisibleDeeper
<1> HIDE DEF D, E
<1>2. ScriptScope(scope, E, p)
  BY <1>1 DEF ScriptScope, D
<1> QED  BY <1>2 DEF D, E

\* The innermost scope is that of a token.
LEMMA LastScript ==
  ASSUME WellFormed(task), NEW p \in 1..(Ending + 1), NEW stack, ScriptStack(stack, p)
  PROVE  ScriptScope(Last(stack), Depth(p), p)
<1> DEFINE D == Depth(p)
           E == D + 1
<1>1. D \in Nat
  BY DepthRange
<1>2. E \in 1..(D + 1) /\ E - 1 = D
  BY <1>1
<1>3. ScriptScope(stack[E], E - 1, p) /\ Len(stack) = E
  BY <1>2 DEF ScriptStack
<1> HIDE DEF D, E
<1>4. Last(stack) = stack[E]
  BY <1>3 DEF Last
<1>5. ScriptScope(Last(stack), D, p)
  BY <1>2, <1>3, <1>4
<1> QED  BY <1>5 DEF D

LEMMA StackStays ==
  ASSUME WellFormed(task), NEW p \in 1..Ending, task.body[p][1] = "use",
         NEW stack, ScriptStack(stack, p)
  PROVE  ScriptStack(stack, p + 1)
<1>1. Depth(p + 1) = Depth(p) /\ Depth(p) \in Nat
  BY DepthStep
<1> DEFINE P == p + 1
<1>2. \A k \in 1..(Depth(P) + 1) : ScriptScope(stack[k], k - 1, P)
  <2> TAKE k \in 1..(Depth(P) + 1)
  <2> DEFINE j == k - 1
  <2>1. j \in Nat /\ j <= Depth(p + 1) /\ k \in 1..(Depth(p) + 1)
    BY <1>1
  <2>2. ScriptScope(stack[k], j, p)
    BY <2>1 DEF ScriptStack
  <2> HIDE DEF j
  <2>3. ScriptScope(stack[k], j, p + 1)
    BY <2>1, <2>2, ScriptStays
  <2> QED  BY <2>3 DEF j
<1>3. Line(stack) /\ Len(stack) = Depth(P) + 1
  BY <1>1 DEF ScriptStack
<1> HIDE DEF P
<1>4. ScriptStack(stack, P)
  BY <1>2, <1>3 DEF ScriptStack
<1> QED  BY <1>4 DEF P

LEMMA StackBinds ==
  ASSUME WellFormed(task), NEW p \in 1..Ending, task.body[p][1] = "bind",
         NEW stack, ScriptStack(stack, p), spelled[LocalId(p)] \notin DOMAIN Last(stack),
         NEW next, next = InTop(stack, spelled[LocalId(p)], <<"local", LocalId(p)>>)
  PROVE  ScriptStack(next, p + 1)
<1> DEFINE P == p + 1
           D == Depth(p)
           v == Put(Last(stack), spelled[LocalId(p)], <<"local", LocalId(p)>>)
<1>1. Depth(P) = D /\ D \in Nat
  BY DepthStep
<1>2. Line(stack) /\ Len(stack) = D + 1 /\ DOMAIN stack = 1..(D + 1)
  BY LineFacts DEF ScriptStack
<1>3. D + 1 \in DOMAIN stack /\ stack[D + 1] = Last(stack)
  BY <1>1, <1>2 DEF Last
<1>4. IsReplaced(next, stack, D + 1, v)
  <2>1. next = [stack EXCEPT ![D + 1] = v]
    BY <1>2, <1>3 DEF InTop
  <2> HIDE DEF D, v
  <2> QED  BY <1>2, <1>3, <2>1, ReplacedValue
<1>5. ScriptScope(Last(stack), D, p)
  BY LastScript, UnitFacts
<1>6. ScriptScope(v, D, P)
  BY <1>5, ScriptBinds
<1>7. ASSUME NEW k \in 1..(D + 1) PROVE ScriptScope(next[k], k - 1, P)
  <2> DEFINE j == k - 1
  <2>1. CASE k = D + 1
    <3>1. next[k] = v /\ j = D
      BY <1>1, <1>4, <2>1 DEF IsReplaced
    <3> HIDE DEF j, v, D, P
    <3>2. ScriptScope(next[k], j, P)
      BY <1>6, <3>1
    <3> QED  BY <3>2 DEF j
  <2>2. CASE k # D + 1
    <3>1. j \in Nat /\ j <= Depth(p + 1) /\ j < Depth(p)
      BY <1>1, <2>2
    <3>2. next[k] = stack[k]
      BY <1>2, <1>4, <2>2 DEF IsReplaced
    <3>3. ScriptScope(stack[k], j, p)
      BY DEF ScriptStack
    <3> HIDE DEF j
    <3>4. ScriptScope(stack[k], j, p + 1)
      BY <3>1, <3>3, ScriptStays
    <3> QED  BY <3>2, <3>4 DEF j
  <2> QED  BY <2>1, <2>2
<1>8. Line(next) /\ Len(next) = Depth(P) + 1
  BY <1>1, <1>2, <1>4 DEF IsReplaced
<1> HIDE DEF P, v
<1>9. ScriptStack(next, P)
  BY <1>1, <1>7, <1>8 DEF ScriptStack
<1> QED  BY <1>9 DEF P

LEMMA StackOpens ==
  ASSUME WellFormed(task), NEW p \in 1..Ending, task.body[p][1] = "open",
         NEW stack, ScriptStack(stack, p), NEW next, next = Append(stack, Last(stack))
  PROVE  ScriptStack(next, p + 1)
<1> DEFINE P == p + 1
           D == Depth(p)
           v == Last(stack)
<1>1. Depth(P) = D + 1 /\ D \in Nat
  BY DepthStep
<1>2. Line(stack) /\ Len(stack) = D + 1
  BY DEF ScriptStack
<1>3. IsAppended(next, stack, v)
  BY <1>2, AppendedValue
<1>4. ScriptScope(v, D, p)
  BY LastScript, UnitFacts
<1>5. ScriptScope(v, D + 1, p)
  BY <1>4, ScriptDeeper, UnitFacts
<1>6. ASSUME NEW j \in 0..(D + 1), NEW scope, ScriptScope(scope, j, p)
      PROVE  ScriptScope(scope, j, P)
  <2>1. j \in Nat /\ j <= Depth(p + 1)
    BY <1>1
  <2> QED  BY <1>6, <2>1, ScriptStays
<1>7. ASSUME NEW k \in 1..(D + 2) PROVE ScriptScope(next[k], k - 1, P)
  <2> DEFINE j == k - 1
  <2>1. j \in 0..(D + 1)
    BY <1>1
  <2>2. ScriptScope(next[k], j, p)
    <3>1. CASE k = D + 2
      <4>1. next[k] = v /\ j = D + 1
        BY <1>1, <1>2, <1>3, <3>1 DEF IsAppended
      <4> HIDE DEF j, v, D
      <4> QED  BY <1>5, <4>1
    <3>2. CASE k # D + 2
      <4>1. k \in 1..(D + 1)
        BY <1>1, <3>2
      <4>2. next[k] = stack[k]
        BY <1>2, <1>3, <4>1 DEF IsAppended
      <4>3. ScriptScope(stack[k], j, p)
        BY <4>1 DEF ScriptStack
      <4> QED  BY <4>2, <4>3
    <3> QED  BY <3>1, <3>2
  <2> HIDE DEF j, P
  <2>3. ScriptScope(next[k], j, P)
    BY <1>6, <2>1, <2>2
  <2> QED  BY <2>3 DEF j
<1>8. Line(next) /\ Len(next) = Depth(P) + 1
  BY <1>1, <1>2, <1>3 DEF IsAppended
<1>9. Depth(P) + 1 = D + 2
  BY <1>1
<1> HIDE DEF P, v, D
<1>10. ScriptStack(next, P)
  BY <1>7, <1>8, <1>9 DEF ScriptStack
<1> QED  BY <1>10 DEF P

LEMMA StackCloses ==
  ASSUME WellFormed(task), NEW p \in 1..Ending, task.body[p][1] = "close",
         NEW stack, ScriptStack(stack, p), NEW next, next = Front(stack)
  PROVE  ScriptStack(next, p + 1)
<1> DEFINE P == p + 1
           D == Depth(p)
<1>1. Depth(P) = D - 1 /\ D \in Nat /\ D - 1 \in Nat
  BY DepthStep
<1>2. Line(stack) /\ Len(stack) = D + 1
  BY DEF ScriptStack
<1>3. IsFront(next, stack)
  BY <1>1, <1>2, FrontValues
<1>4. ASSUME NEW k \in 1..D PROVE ScriptScope(next[k], k - 1, P)
  <2> DEFINE j == k - 1
  <2>1. j \in Nat /\ j <= Depth(p + 1) /\ k \in 1..(D + 1)
    BY <1>1
  <2>2. next[k] = stack[k]
    BY <1>1, <1>2, <1>3 DEF IsFront
  <2>3. ScriptScope(stack[k], j, p)
    BY <2>1 DEF ScriptStack
  <2> HIDE DEF j
  <2>4. ScriptScope(stack[k], j, p + 1)
    BY <2>1, <2>3, ScriptStays
  <2> QED  BY <2>2, <2>4 DEF j
<1>5. Line(next) /\ Len(next) = Depth(P) + 1 /\ Depth(P) + 1 = D
  BY <1>1, <1>2, <1>3 DEF IsFront
<1> HIDE DEF P, D
<1>6. ScriptStack(next, P)
  BY <1>4, <1>5 DEF ScriptStack
<1> QED  BY <1>6 DEF P

-----------------------------------------------------------------------------
(* The invariant.                                                           *)

ChecksPassed == KindsFit /\ (task.root = "entry" => EntryNamesDistinct)

NameInv ==
  /\ stage \in {"bind", "check"} => spelled = <<>>
  /\ stage \in {"bind", "check", "name"} => emitted = <<>>
  /\ stage \in {"name", "emit", "accepted"} => ChecksPassed /\ SpellingsFit

EmittedUpTo(P) == DOMAIN emitted = UsesBefore(P) /\ \A q \in UsesBefore(P) : {emitted[q]} = Meant(q)

EmitInv ==
  stage \in {"emit", "accepted"} =>
    /\ AllFits /\ HeadClear
    /\ pos \in 1..(Ending + 1) /\ (stage = "accepted" => pos = Ending + 1)
    /\ ScriptStack(visible, pos) /\ BodyClear(pos) /\ EmittedUpTo(pos)

RefusedWell == Hides \/ HidesConstant \/ \E p \in Uses : Meant(p) = {}
RefusedInv == stage = "refused" => RefusedWell

ScopesInv ==
  /\ WellFormed(task) /\ stage \in {"bind", "check", "name", "emit", "accepted", "refused"}
  /\ BindInv /\ BoundInv /\ NameInv /\ EmitInv /\ RefusedInv

MeaningFrame ==
  /\ WellFormed(task)' <=> WellFormed(task)
  /\ RefusedWell' <=> RefusedWell
  /\ HeadClear' <=> HeadClear
  /\ EntryNamesDistinct' <=> EntryNamesDistinct
  /\ \A P : BodyClear(P)' <=> BodyClear(P)
  /\ \A p : Meant(p)' = Meant(p)

\* What the source means does not change.
LEMMA MeaningFrames ==
  ASSUME task' = task
  PROVE  MeaningFrame
<1>1. HeadNames' = HeadNames /\ (OfActor' <=> OfActor) /\ Params' = Params /\ Handles' = Handles
  BY DEF HeadNames, Params, Handles, OfActor
<1>2. \A n, p : BindingsOf(n, p)' = BindingsOf(n, p)
  BY DEF BindingsOf, InBlockOf, Depth
<1>3. \A p : HidesAt(p)' <=> HidesAt(p)
  BY <1>1, <1>2 DEF HidesAt, InHead
<1>4. \A P : BodyClear(P)' <=> BodyClear(P)
  BY <1>3 DEF BodyClear, BindsBefore
<1>5. HeadClear' <=> HeadClear
  BY <1>1 DEF HeadClear, IsInjective
<1>6. EntryNamesDistinct' <=> EntryNamesDistinct
  BY <1>1 DEF EntryNamesDistinct, BoundInBody
<1>7. WellFormed(task)' <=> WellFormed(task)
  OBVIOUS
<1>8. Hides' <=> Hides
  BY <1>1, <1>2 DEF Hides, InHead, Binds
<1>9. HidesConstant' <=> HidesConstant
  BY <1>1 DEF HidesConstant, BoundInBody, Declaring, Items
<1>10. \A p : Meant(p)' = Meant(p)
  <2>1. \A q : LocalId(q)' = LocalId(q)
    BY <1>1 DEF LocalId
  <2>2. \A m : IsSelector(m)' <=> IsSelector(m)
    BY <2>1 DEF IsSelector
  <2>3. \A n : Declaring(n)' = Declaring(n)
    BY DEF Declaring, Items
  <2>4. \A n, p : ValueMeant(n, p)' = ValueMeant(n, p)
    <3> TAKE n, p
    <3>1. BindingsOf(n, p)' = BindingsOf(n, p)
      BY <1>2
    <3> QED  BY <1>1, <2>1, <2>3, <3>1 DEF ValueMeant, InHead, LocalId, Declaring, Items
  <2> TAKE p
  <2>6. \A n : ValueMeant(n, p)' = ValueMeant(n, p)
    BY <2>4
  <2> DEFINE how == task.body[p][2]
             n == task.body[p][3]
             Shared == OfKind({<<"decl", d>> : d \in Declaring(n)}, "function")
             Selected == {m \in ValueMeant(n, p) : IsSelector(m)}
             Constant == OfKind(ValueMeant(n, p), "const")
  <2>7. Shared' = Shared
    BY DEF OfKind, Declaring, Items
  <2>8. Selected' = Selected
    BY <2>2, <2>6
  <2>9. Constant' = Constant
    BY <2>6 DEF OfKind
  <2>10. Meant(p) =
           CASE how = "call" -> IF n \in task.world.helpers THEN {<<"helper", n>>} ELSE Shared
             [] how = "field" -> IF OfActor /\ n \in task.world.fields THEN {<<"field", n>>} ELSE {}
             [] how = "route" -> Selected
             [] OTHER -> Constant
    BY DEF Meant
  <2>11. Meant(p)' =
           CASE how = "call" -> IF n \in task.world.helpers THEN {<<"helper", n>>} ELSE Shared'
             [] how = "field" -> IF OfActor' /\ n \in task.world.fields THEN {<<"field", n>>} ELSE {}
             [] how = "route" -> Selected'
             [] OTHER -> Constant'
    BY DEF Meant
  <2> HIDE DEF Shared, Selected, Constant
  <2> QED  BY <1>1, <2>7, <2>8, <2>9, <2>10, <2>11
<1>11. RefusedWell' <=> RefusedWell
  BY <1>8, <1>9, <1>10 DEF RefusedWell, Uses
<1> QED  BY <1>4, <1>5, <1>6, <1>7, <1>10, <1>11 DEF MeaningFrame

NameFrame ==
  /\ KindsFit' <=> KindsFit
  /\ SpellingsFit' <=> SpellingsFit
  /\ AllFits => AllFits'
  /\ \A stack, p : ScriptStack(stack, p)' <=> ScriptStack(stack, p)

\* What the names of the script denote does not, once they are given.
LEMMA NameFrames ==
  ASSUME UNCHANGED <<task, locals, sites, spelled>>
  PROVE  NameFrame
<1>1. KindsFit' <=> KindsFit
  BY DEF KindsFit, KindFor
<1>2. \A n, x : SpellingFits(n, x)' <=> SpellingFits(n, x)
  BY DEF SpellingFits, Kept, ConstantNames, Constants, Items, Display, OutsideLocals, OwnLocals,
         TakenFirst, Displays, OfActor, Base
<1>3. SpellingsFit' <=> SpellingsFit
  BY <1>2 DEF SpellingsFit
<1>4. AllFits => AllFits'
  BY <1>3, BoundKept DEF AllFits
<1>5. BindFrame
  BY BindFrames
<1>6. \A k, p : VisibleAt(k, p)' = VisibleAt(k, p)
  BY DEF VisibleAt, InBlockOf, Depth
<1>7. ContractScope' = ContractScope
  BY DEF ContractScope, ConstantNames, Constants, Items, Display, OutsideLocals, OwnLocals, OfActor
<1>8. ParamNames' = ParamNames
  BY DEF ParamNames
<1>9. \A scope, k, p : ScriptScope(scope, k, p)' <=> ScriptScope(scope, k, p)
  <2> TAKE scope, k, p
  <2>1. VisibleAt(k, p)' = VisibleAt(k, p)
    BY <1>6
  <2>2. \A q : LocalId(q)' = LocalId(q)
    BY <1>5 DEF BindFrame
  <2> QED  BY <1>7, <1>8, <2>1, <2>2 DEF ScriptScope, LocalId, HeadNames, Params, Handles
<1>10. \A stack, p : ScriptStack(stack, p)' <=> ScriptStack(stack, p)
  <2>1. \A p : Depth(p)' = Depth(p)
    BY <1>5 DEF BindFrame
  <2> QED  BY <1>9, <2>1 DEF ScriptStack
<1> QED  BY <1>1, <1>3, <1>4, <1>10 DEF NameFrame

LEMMA InvStarts ==
  ASSUME BodyInit, WellFormed(task)
  PROVE  ScopesInv
<1>1. stage = "bind" /\ BindInv /\ BoundInv
  BY BindStarts
<1>2. NameInv /\ EmitInv /\ RefusedInv
  BY <1>1 DEF BodyInit, NameInv, EmitInv, RefusedInv
<1> QED  BY <1>1, <1>2 DEF ScopesInv

\* A step of the binder that goes on.
LEMMA BindKeeps ==
  ASSUME ScopesInv, BindUse \/ BindLocal \/ OpenBlock \/ CloseBlock, stage' = "bind"
  PROVE  ScopesInv'
<1>1. WellFormed(task) /\ BindInv /\ task' = task /\ stage = "bind"
  BY DEF ScopesInv, BindUse, BindLocal, OpenBlock, CloseBlock, Refuse
<1>2. BindInv'
  BY <1>1, UseBinds, LocalBinds, BlockOpens, BlockCloses
<1>3. spelled' = spelled /\ emitted' = emitted
  BY DEF BindUse, BindLocal, OpenBlock, CloseBlock, Refuse
<1>4. NameInv'
  BY <1>1, <1>3 DEF ScopesInv, NameInv
<1>5. WellFormed(task)'
  BY <1>1
<1> QED  BY <1>2, <1>4, <1>5 DEF ScopesInv, BoundInv, EmitInv, RefusedInv

\* A refusal, whatever led to it.
LEMMA RefuseKeeps ==
  ASSUME ScopesInv, Refuse, RefusedWell
  PROVE  ScopesInv'
<1>1. task' = task /\ stage' = "refused"
  BY DEF Refuse
<1>2. MeaningFrame
  BY <1>1, MeaningFrames
<1>3. WellFormed(task)' /\ RefusedWell'
  BY <1>2 DEF MeaningFrame, ScopesInv
<1> QED  BY <1>1, <1>3 DEF ScopesInv, BindInv, BoundInv, NameInv, EmitInv, RefusedInv

\* A use that is bound to nothing means nothing.
LEMMA UseRefused ==
  ASSUME ScopesInv, BindUse, stage' # "bind"
  PROVE  ScopesInv'
<1>1. /\ WellFormed(task) /\ stage = "bind" /\ pos \in 1..(Ending + 1) /\ StacksAt(pos)
      /\ pos <= Len(task.body) /\ task.body[pos][1] = "use"
  BY DEF ScopesInv, BindInv, BindUse, AtToken, Token
<1>2. Refuse /\ (Meanings(Token[2], Token[3]) = {} \/ ~Selectable(Token[2], Token[3]))
  BY <1>1 DEF BindUse
<1>3. MeaningsAt(pos) = {} \/ ~SelectableAt(pos)
  BY <1>1, <1>2, MeaningsHere
<1>4. pos \in 1..Ending
  BY <1>1, TokenPlace
<1>5. Meant(pos) = {}
  BY <1>1, <1>3, <1>4, MeantBound, NotSelectable
<1>6. pos \in Uses
  BY <1>1, <1>4, UnitFacts DEF Uses
<1> QED  BY <1>2, <1>5, <1>6, RefuseKeeps DEF RefusedWell

LEMMA AllBoundKeeps ==
  ASSUME ScopesInv, AllBound
  PROVE  ScopesInv'
<1>1. WellFormed(task) /\ BindInv /\ stage = "bind" /\ task' = task /\ stage' = "check"
      /\ spelled' = spelled /\ emitted' = emitted
  BY DEF ScopesInv, AllBound
<1>2. BoundInv' /\ BindInv'
  BY <1>1, BindEnds
<1>3. NameInv'
  BY <1>1 DEF ScopesInv, NameInv
<1> QED  BY <1>1, <1>2, <1>3 DEF ScopesInv, EmitInv, RefusedInv

LEMMA CheckKeeps ==
  ASSUME ScopesInv, Check
  PROVE  ScopesInv'
<1>1. WellFormed(task) /\ stage = "check" /\ BoundUpTo(Ending + 1) /\ spelled = <<>> /\ emitted = <<>>
  BY DEF ScopesInv, Check, BoundInv, NameInv
<1>2. CASE ChecksPassed
  <2>1. stage' = "name" /\ UNCHANGED <<task, locals, sites, spelled, emitted>>
    BY <1>2 DEF Check, ChecksPassed
  <2>2. BoundUpTo(Ending + 1)'
    BY <1>1, <2>1, BoundKept
  <2>3. SpellingsFit
    <3>1. Line(spelled) /\ Len(spelled) = 0
      <4> DEFINE s == spelled
      <4>1. s = [i \in 1..0 |-> s[i]] /\ 0 \in Nat
        BY <1>1
      <4> HIDE DEF s
      <4>2. Line(s) /\ Len(s) = 0
        BY <4>1, ListIsLine
      <4> QED  BY <4>2 DEF s
    <3>2. Len(locals) \in Nat
      BY <1>1, LineFacts DEF BoundUpTo
    <3>3. 1..Len(spelled) = {}
      BY <3>1
    <3> QED  BY <3>1, <3>2, <3>3 DEF SpellingsFit
  <2>4. NameFrame /\ MeaningFrame
    BY <2>1, NameFrames, MeaningFrames
  <2>5. SpellingsFit' /\ WellFormed(task)'
    BY <1>1, <2>3, <2>4 DEF NameFrame, MeaningFrame
  <2>6. ChecksPassed'
    BY <1>2, <2>1, <2>4 DEF ChecksPassed, NameFrame, MeaningFrame
  <2>7. NameInv' /\ BoundInv'
    BY <1>1, <2>1, <2>2, <2>5, <2>6 DEF NameInv, BoundInv
  <2> QED  BY <2>1, <2>5, <2>7 DEF ScopesInv, BindInv, EmitInv, RefusedInv
<1>3. CASE ~ChecksPassed
  <2>1. Refuse
    BY <1>3 DEF Check, ChecksPassed
  <2>2. RefusedWell
    BY <1>1, <1>3, KindRefused, EntryRefused DEF RefusedWell, ChecksPassed
  <2> QED  BY <2>1, <2>2, RefuseKeeps
<1> QED  BY <1>2, <1>3

LEMMA NameKeeps ==
  ASSUME ScopesInv, NameLocal, IsFiniteSet(Reserved)
  PROVE  ScopesInv'
<1>1. /\ WellFormed(task) /\ stage = "name" /\ BoundUpTo(Ending + 1) /\ ChecksPassed /\ SpellingsFit
      /\ UNCHANGED <<task, stage, locals, sites, emitted>> /\ emitted = <<>>
  BY DEF ScopesInv, NameLocal, BoundInv, NameInv
<1>2. SpellingsFit'
  BY <1>1, SpellingStep DEF BoundUpTo
<1>3. BoundUpTo(Ending + 1)'
  BY <1>1, BoundKept
<1>4. KindsFit' <=> KindsFit
  BY <1>1 DEF KindsFit, KindFor
<1>5. MeaningFrame
  BY <1>1, MeaningFrames
<1>6. ChecksPassed' /\ WellFormed(task)'
  BY <1>1, <1>4, <1>5 DEF ChecksPassed, MeaningFrame
<1>7. NameInv' /\ BoundInv'
  BY <1>1, <1>2, <1>3, <1>6 DEF NameInv, BoundInv
<1> QED  BY <1>1, <1>6, <1>7 DEF ScopesInv, BindInv, EmitInv, RefusedInv

\* What holds from the names on, but for the place.
LEMMA EmitKeeps ==
  ASSUME ScopesInv, AllFits, HeadClear, stage \in {"name", "emit"}, stage' \in {"emit", "accepted"},
         UNCHANGED <<task, locals, sites, spelled>>,
         NEW P \in 1..(Ending + 1), pos' = P, stage' = "accepted" => P = Ending + 1,
         ScriptStack(visible', P), BodyClear(P),
         DOMAIN emitted' = UsesBefore(P), \A q \in UsesBefore(P) : {emitted'[q]} = Meant(q)
  PROVE  ScopesInv'
<1>1. WellFormed(task) /\ ChecksPassed /\ SpellingsFit /\ BoundUpTo(Ending + 1)
  BY DEF ScopesInv, NameInv, BoundInv
<1>2. NameFrame /\ MeaningFrame /\ BindFrame
  BY NameFrames, MeaningFrames, BindFrames
<1>3. AllFits' /\ HeadClear' /\ WellFormed(task)' /\ ChecksPassed' /\ SpellingsFit' /\ BoundUpTo(Ending + 1)'
  BY <1>1, <1>2, BoundKept DEF NameFrame, MeaningFrame, ChecksPassed
<1>4. (pos \in 1..(Ending + 1) /\ (stage = "accepted" => pos = Ending + 1))'
  BY <1>2 DEF BindFrame
<1>5. ScriptStack(visible, pos)'
  BY <1>2 DEF NameFrame
<1>6. BodyClear(pos)'
  BY <1>2 DEF MeaningFrame
<1>7. EmittedUpTo(pos)'
  BY <1>2 DEF MeaningFrame, BindFrame, EmittedUpTo
<1>8. EmitInv'
  BY <1>3, <1>4, <1>5, <1>6, <1>7 DEF EmitInv
<1>9. NameInv' /\ BoundInv'
  BY <1>3 DEF NameInv, BoundInv
<1> QED  BY <1>3, <1>8, <1>9 DEF ScopesInv, BindInv, RefusedInv

LEMMA AllNamedKeeps ==
  ASSUME ScopesInv, AllNamed
  PROVE  ScopesInv'
<1>1. /\ WellFormed(task) /\ stage = "name" /\ emitted = <<>> /\ ChecksPassed
      /\ AllFits
  BY DEF ScopesInv, AllNamed, BoundInv, NameInv, AllFits
<1>2. CASE ShadowsShared \/ ~ParamsAccepted
  <2>1. Refuse
    BY <1>2 DEF AllNamed
  <2>2. RefusedWell
    BY <1>1, <1>2, NamesRefused DEF RefusedWell
  <2> QED  BY <2>1, <2>2, RefuseKeeps
<1>3. CASE ~(ShadowsShared \/ ~ParamsAccepted)
  <2>1. /\ visible' = <<Over(ParamScope, ContractScope)>> /\ stage' = "emit" /\ pos' = 1
        /\ UNCHANGED <<task, locals, sites, spelled, emitted>>
    BY <1>3 DEF AllNamed
  <2>2. HeadClear
    BY <1>1, <1>3, HeadAccepted DEF ChecksPassed
  <2>3. ScriptStack(visible', 1)
    <3> DEFINE scope == Over(ParamScope, ContractScope)
               t == <<scope>>
    <3>1. ScriptScope(scope, 0, 1)
      BY <1>1, <1>3, FirstScript
    <3>2. t = [i \in 1..1 |-> t[i]] /\ t[1] = scope
      OBVIOUS
    <3> HIDE DEF t, scope
    <3>3. Line(t) /\ Len(t) = 1
      BY <3>2, ListIsLine
    <3>4. Depth(1) = 0
      BY <1>1, DepthRange
    <3>5. \A k \in 1..(0 + 1) : k = 1 /\ k - 1 = 0
      OBVIOUS
    <3>6. ScriptStack(t, 1)
      BY <3>1, <3>2, <3>3, <3>4, <3>5 DEF ScriptStack
    <3> QED  BY <2>1, <3>6 DEF t, scope
  <2>4. BindsBefore(1) = {} /\ UsesBefore(1) = {}
    BY DEF BindsBefore, UsesBefore
  <2>5. BodyClear(1)
    BY <2>4 DEF BodyClear
  <2>6. DOMAIN emitted' = {}
    BY <1>1, <2>1
  <2>7. 1 \in 1..(Ending + 1)
    BY <1>1, UnitFacts
  <2> QED  BY <1>1, <2>1, <2>2, <2>3, <2>4, <2>5, <2>6, <2>7, EmitKeeps
<1> QED  BY <1>2, <1>3

\* The place of a token that is written.
LEMMA EmitPlace ==
  ASSUME ScopesInv, stage = "emit", pos <= Len(task.body)
  PROVE  /\ WellFormed(task) /\ ChecksPassed /\ AllFits /\ HeadClear
         /\ pos \in 1..Ending /\ pos + 1 \in 1..(Ending + 1)
         /\ ScriptStack(visible, pos) /\ ScriptScope(Last(visible), Depth(pos), pos) /\ BodyClear(pos)
         /\ DOMAIN emitted = UsesBefore(pos) /\ \A q \in UsesBefore(pos) : {emitted[q]} = Meant(q)
         /\ BindsBefore(pos + 1) = BindsBefore(pos) \cup (IF task.body[pos][1] = "bind" THEN {pos} ELSE {})
         /\ UsesBefore(pos + 1) = UsesBefore(pos) \cup (IF task.body[pos][1] = "use" THEN {pos} ELSE {})
<1>1. /\ WellFormed(task) /\ ChecksPassed /\ AllFits /\ HeadClear /\ pos \in 1..(Ending + 1)
      /\ ScriptStack(visible, pos) /\ BodyClear(pos) /\ EmittedUpTo(pos)
  BY DEF ScopesInv, NameInv, EmitInv
<1>2. ScriptScope(Last(visible), Depth(pos), pos)
  BY <1>1, LastScript
<1> QED  BY <1>1, <1>2, TokenPlace DEF EmittedUpTo

LEMMA EmitUseKeeps ==
  ASSUME ScopesInv, EmitUse
  PROVE  ScopesInv'
<1>1. stage = "emit" /\ pos <= Len(task.body) /\ task.body[pos][1] = "use"
  BY DEF EmitUse, AtToken, Token
<1>2. /\ WellFormed(task) /\ ChecksPassed /\ AllFits /\ HeadClear
      /\ pos \in 1..Ending /\ pos + 1 \in 1..(Ending + 1)
      /\ ScriptStack(visible, pos) /\ ScriptScope(Last(visible), Depth(pos), pos) /\ BodyClear(pos)
      /\ DOMAIN emitted = UsesBefore(pos) /\ \A q \in UsesBefore(pos) : {emitted[q]} = Meant(q)
      /\ BindsBefore(pos + 1) = BindsBefore(pos) /\ UsesBefore(pos + 1) = UsesBefore(pos) \cup {pos}
  BY <1>1, EmitPlace
<1>3. sites[pos] \in MeaningsAt(pos) /\ SelectableAt(pos) /\ pos \in DOMAIN sites
  <2>1. pos \in UsesBefore(Ending + 1)
    BY <1>1, <1>2, HidesIs, UnitFacts DEF Uses
  <2> QED  BY <1>2, <2>1 DEF AllFits, BoundUpTo
<1>4. sites[pos][1] = "decl" => task.world.decls[sites[pos][2]].kind \in KindFor[task.body[pos][2]]
  BY <1>2, <1>3 DEF ChecksPassed, KindsFit
<1> DEFINE m == sites[pos]
<1>5. Meant(pos) = {m}
  BY <1>1, <1>2, <1>3, <1>4, UseMeans
<1>6. Reads(pos) = {m}
  BY <1>1, <1>2, <1>3, <1>4, UseReads
<1>7. /\ emitted' = Put(emitted, pos, m) /\ pos' = pos + 1 /\ stage' = "emit" /\ visible' = visible
      /\ UNCHANGED <<task, locals, sites, spelled>>
  BY <1>1, <1>6 DEF EmitUse
<1> DEFINE P == pos + 1
<1>8. ScriptStack(visible', P)
  BY <1>1, <1>2, <1>7, StackStays
<1>9. BodyClear(P)
  BY <1>2 DEF BodyClear
<1>10. DOMAIN emitted' = UsesBefore(P)
  BY <1>2, <1>7 DEF Put
<1>11. \A q \in UsesBefore(P) : {emitted'[q]} = Meant(q)
  <2>1. pos \notin UsesBefore(pos)
    BY <1>2, UnitFacts DEF UsesBefore
  <2>2. emitted'[pos] = m /\ \A q \in UsesBefore(pos) : emitted'[q] = emitted[q]
    BY <1>2, <1>7, <2>1 DEF Put
  <2> QED  BY <1>2, <1>5, <2>2
<1>12. P \in 1..(Ending + 1) /\ pos' = P
  BY <1>2, <1>7
<1> HIDE DEF P, m
<1> QED  BY <1>1, <1>2, <1>7, <1>8, <1>9, <1>10, <1>11, <1>12, EmitKeeps

LEMMA EmitLocalKeeps ==
  ASSUME ScopesInv, EmitLocal
  PROVE  ScopesInv'
<1>1. stage = "emit" /\ pos <= Len(task.body) /\ task.body[pos][1] = "bind"
  BY DEF EmitLocal, AtToken, Token
<1>2. /\ WellFormed(task) /\ ChecksPassed /\ AllFits /\ HeadClear
      /\ pos \in 1..Ending /\ pos + 1 \in 1..(Ending + 1)
      /\ ScriptStack(visible, pos) /\ ScriptScope(Last(visible), Depth(pos), pos) /\ BodyClear(pos)
      /\ DOMAIN emitted = UsesBefore(pos) /\ \A q \in UsesBefore(pos) : {emitted[q]} = Meant(q)
      /\ BindsBefore(pos + 1) = BindsBefore(pos) \cup {pos} /\ UsesBefore(pos + 1) = UsesBefore(pos)
  BY <1>1, EmitPlace
<1>3. sites[pos][2] = LocalId(pos)
  <2>1. pos \in BindsBefore(Ending + 1)
    BY <1>1, <1>2, HidesIs, UnitFacts DEF Binds
  <2> QED  BY <1>2, <2>1 DEF AllFits, BoundUpTo
<1> DEFINE name == spelled[LocalId(pos)]
<1>4. CASE name \in DOMAIN Last(visible)
  <2>1. Refuse
    BY <1>3, <1>4 DEF EmitLocal
  <2>2. Hides \/ HidesConstant
    BY <1>1, <1>2, <1>4, LocalRefused
  <2> QED  BY <2>1, <2>2, RefuseKeeps DEF RefusedWell
<1>5. CASE name \notin DOMAIN Last(visible)
  <2>1. /\ visible' = InTop(visible, name, <<"local", LocalId(pos)>>) /\ pos' = pos + 1 /\ stage' = "emit"
        /\ UNCHANGED <<task, locals, sites, spelled, emitted>>
    BY <1>1, <1>3, <1>5 DEF EmitLocal
  <2> DEFINE P == pos + 1
  <2>2. ScriptStack(visible', P)
    BY <1>1, <1>2, <1>5, <2>1, StackBinds
  <2>3. ~HidesAt(pos)
    BY <1>1, <1>2, <1>5, LocalAccepted DEF ChecksPassed
  <2>4. BodyClear(P)
    BY <1>2, <2>3 DEF BodyClear
  <2>5. DOMAIN emitted' = UsesBefore(P) /\ \A q \in UsesBefore(P) : {emitted'[q]} = Meant(q)
    BY <1>2, <2>1
  <2>6. P \in 1..(Ending + 1) /\ pos' = P
    BY <1>2, <2>1
  <2> HIDE DEF P, name
  <2> QED  BY <1>1, <1>2, <2>1, <2>2, <2>4, <2>5, <2>6, EmitKeeps
<1> QED  BY <1>4, <1>5

LEMMA EmitBlockKeeps ==
  ASSUME ScopesInv, EmitBlock
  PROVE  ScopesInv'
<1>1. /\ stage = "emit" /\ pos <= Len(task.body) /\ pos' = pos + 1 /\ stage' = "emit"
      /\ UNCHANGED <<task, locals, sites, spelled, emitted>>
      /\ \/ task.body[pos][1] = "open" /\ visible' = Append(visible, Last(visible))
         \/ task.body[pos][1] = "close" /\ visible' = Front(visible)
  BY DEF EmitBlock, AtToken, Token
<1>2. /\ WellFormed(task) /\ AllFits /\ HeadClear
      /\ pos \in 1..Ending /\ pos + 1 \in 1..(Ending + 1)
      /\ ScriptStack(visible, pos) /\ BodyClear(pos)
      /\ DOMAIN emitted = UsesBefore(pos) /\ \A q \in UsesBefore(pos) : {emitted[q]} = Meant(q)
      /\ BindsBefore(pos + 1) = BindsBefore(pos) /\ UsesBefore(pos + 1) = UsesBefore(pos)
  BY <1>1, EmitPlace
<1> DEFINE P == pos + 1
<1>3. ScriptStack(visible', P)
  <2>1. CASE task.body[pos][1] = "open"
    <3>1. visible' = Append(visible, Last(visible))
      BY <1>1, <2>1
    <3> QED  BY <1>2, <2>1, <3>1, StackOpens
  <2>2. CASE task.body[pos][1] = "close"
    <3>1. visible' = Front(visible)
      BY <1>1, <2>2
    <3> QED  BY <1>2, <2>2, <3>1, StackCloses
  <2> QED  BY <1>1, <2>1, <2>2
<1>4. BodyClear(P)
  BY <1>2 DEF BodyClear
<1>5. DOMAIN emitted' = UsesBefore(P) /\ \A q \in UsesBefore(P) : {emitted'[q]} = Meant(q)
  BY <1>1, <1>2
<1>6. P \in 1..(Ending + 1) /\ pos' = P
  BY <1>1, <1>2
<1> HIDE DEF P
<1> QED  BY <1>1, <1>2, <1>3, <1>4, <1>5, <1>6, EmitKeeps

LEMMA AcceptKeeps ==
  ASSUME ScopesInv, Accept
  PROVE  ScopesInv'
<1>1. /\ stage = "emit" /\ pos > Len(task.body) /\ stage' = "accepted"
      /\ UNCHANGED <<task, locals, sites, spelled, emitted>> /\ visible' = visible /\ pos' = pos
  BY DEF Accept
<1>2. /\ WellFormed(task) /\ AllFits /\ HeadClear /\ pos \in 1..(Ending + 1)
      /\ ScriptStack(visible, pos) /\ BodyClear(pos) /\ EmittedUpTo(pos)
  BY <1>1 DEF ScopesInv, EmitInv
<1>3. pos = Ending + 1
  BY <1>1, <1>2, UnitFacts DEF Ending
<1> DEFINE P == pos
<1>4. /\ P \in 1..(Ending + 1) /\ pos' = P /\ P = Ending + 1 /\ ScriptStack(visible', P) /\ BodyClear(P)
      /\ DOMAIN emitted' = UsesBefore(P) /\ \A q \in UsesBefore(P) : {emitted'[q]} = Meant(q)
  BY <1>1, <1>2, <1>3 DEF EmittedUpTo
<1> HIDE DEF P
<1> QED  BY <1>1, <1>2, <1>4, EmitKeeps

\* A step that changes nothing.
LEMMA StutterKeeps ==
  ASSUME ScopesInv, UNCHANGED bodyVars
  PROVE  ScopesInv'
<1>1. UNCHANGED <<task, stage, pos, scopes, locals, selectors, sites, spelled, visible, emitted>>
  BY DEF bodyVars
<1>2. NameFrame /\ MeaningFrame /\ BindFrame
  BY <1>1, NameFrames, MeaningFrames, BindFrames
<1>3. BindInv'
  <2> SUFFICES ASSUME stage = "bind" PROVE BindInv'
    BY <1>1 DEF BindInv
  <2>1. pos \in 1..(Ending + 1) /\ BoundUpTo(pos) /\ StacksAt(pos)
    BY DEF ScopesInv, BindInv
  <2>2. BoundUpTo(pos)'
    <3>1. /\ Line(locals') /\ Len(locals') = LocalId(pos' - 1)
          /\ \A i \in DOMAIN HeadNames : locals'[i] = HeadNames[i]
          /\ Range(locals') = Range(HeadNames) \cup {task.body[q][2] : q \in BindsBefore(pos')}
          /\ \A q \in BindsBefore(pos') : locals'[LocalId(q)] = task.body[q][2] /\ sites'[q] = <<"local", LocalId(q)>>
          /\ \A q \in UsesBefore(pos') : sites'[q] \in MeaningsAt(q) /\ SelectableAt(q)
          /\ DOMAIN sites' = BindsBefore(pos') \cup UsesBefore(pos')
      BY <1>1, <2>1 DEF BoundUpTo
    <3> QED  BY <1>1, <1>2, <3>1, BoundNext
  <2>3. StacksAt(pos)'
    BY <1>1, <1>2, <2>1 DEF StacksAt, BindFrame
  <2>4. (pos \in 1..(Ending + 1))'
    BY <1>1, <1>2, <2>1 DEF BindFrame
  <2> QED  BY <2>2, <2>3, <2>4 DEF BindInv
<1>4. BoundInv'
  BY <1>1, BoundKept DEF ScopesInv, BoundInv
<1>5. NameInv'
  BY <1>1, <1>2 DEF ScopesInv, NameInv, ChecksPassed, NameFrame, MeaningFrame
<1>6. EmitInv'
  <2> SUFFICES ASSUME stage \in {"emit", "accepted"} PROVE EmitInv'
    BY <1>1 DEF EmitInv
  <2>1. EmitInv
    BY DEF ScopesInv
  <2>2. AllFits' /\ HeadClear' /\ (pos \in 1..(Ending + 1) /\ (stage = "accepted" => pos = Ending + 1))'
    BY <1>1, <1>2, <2>1 DEF EmitInv, NameFrame, MeaningFrame, BindFrame
  <2>3. ScriptStack(visible, pos)' /\ BodyClear(pos)'
    BY <1>1, <1>2, <2>1 DEF EmitInv, NameFrame, MeaningFrame
  <2>4. EmittedUpTo(pos)'
    BY <1>1, <1>2, <2>1 DEF EmitInv, EmittedUpTo, MeaningFrame, BindFrame
  <2> QED  BY <2>2, <2>3, <2>4 DEF EmitInv
<1>7. RefusedInv' /\ WellFormed(task)'
  BY <1>1, <1>2 DEF ScopesInv, RefusedInv, MeaningFrame
<1> QED  BY <1>1, <1>3, <1>4, <1>5, <1>6, <1>7 DEF ScopesInv

-----------------------------------------------------------------------------
(* What follows of every body.                                              *)

LEMMA InvStep ==
  ASSUME ScopesInv, [BodyNext]_bodyVars, IsFiniteSet(Reserved)
  PROVE  ScopesInv'
<1>1. CASE BindUse
  <2>1. stage' = "bind" \/ stage' # "bind"
    OBVIOUS
  <2> QED  BY <1>1, <2>1, BindKeeps, UseRefused
<1>2. CASE BindLocal \/ OpenBlock \/ CloseBlock
  <2>1. stage' = "bind"
    BY <1>2 DEF BindLocal, OpenBlock, CloseBlock
  <2> QED  BY <1>2, <2>1, BindKeeps
<1>3. CASE AllBound
  BY <1>3, AllBoundKeeps
<1>4. CASE Check
  BY <1>4, CheckKeeps
<1>5. CASE NameLocal
  BY <1>5, NameKeeps
<1>6. CASE AllNamed
  BY <1>6, AllNamedKeeps
<1>7. CASE EmitUse
  BY <1>7, EmitUseKeeps
<1>8. CASE EmitLocal
  BY <1>8, EmitLocalKeeps
<1>9. CASE EmitBlock
  BY <1>9, EmitBlockKeeps
<1>10. CASE Accept
  BY <1>10, AcceptKeeps
<1>11. CASE UNCHANGED bodyVars
  BY <1>11, StutterKeeps
<1> QED
  BY <1>1, <1>2, <1>3, <1>4, <1>5, <1>6, <1>7, <1>8, <1>9, <1>10, <1>11 DEF BodyNext

LEMMA InvMeans ==
  ASSUME ScopesInv
  PROVE  UsesKeepMeaning /\ HidingRefused
<1>1. WellFormed(task)
  BY DEF ScopesInv
<1>2. ASSUME stage = "accepted"
      PROVE  (\A p \in Uses : {emitted[p]} = Meant(p)) /\ ~Hides
  <2>1. pos = Ending + 1 /\ HeadClear /\ BodyClear(pos) /\ EmittedUpTo(pos)
    BY <1>2 DEF ScopesInv, EmitInv
  <2> DEFINE P == Ending + 1
  <2>2. BodyClear(P) /\ EmittedUpTo(P)
    BY <2>1
  <2>3. Uses = UsesBefore(P) /\ (~Hides <=> HeadClear /\ BodyClear(P))
    BY <1>1, HidesIs
  <2> HIDE DEF P
  <2> QED  BY <2>1, <2>2, <2>3 DEF EmittedUpTo
<1>3. RefusedInv
  BY DEF ScopesInv
<1> QED  BY <1>2, <1>3 DEF UsesKeepMeaning, HidingRefused, RefusedInv, RefusedWell

\* Every part of the compiler that names a body's locals leaves what is told here
\* of the binder's scopes, of the names and of the script's scopes.
THEOREM InvariantHolds ==
  ASSUME TasksWellFormed
  PROVE  BodySpec => []ScopesInv
<1>1. BodyInit => ScopesInv
  <2> SUFFICES ASSUME BodyInit PROVE ScopesInv
    OBVIOUS
  <2>1. WellFormed(task)
    BY DEF BodyInit, TasksWellFormed
  <2> QED  BY <2>1, InvStarts
<1>2. ScopesInv /\ [BodyNext]_bodyVars => ScopesInv'
  BY InvStep DEF TasksWellFormed
<1> QED  BY <1>1, <1>2, PTL DEF BodySpec

\* No name is captured: in the script each use denotes what it denotes in the
\* source, whatever bodies are compiled (UsesKeepMeaning).
THEOREM MeaningsKept ==
  ASSUME TasksWellFormed
  PROVE  BodySpec => []UsesKeepMeaning
<1>1. ScopesInv => UsesKeepMeaning
  BY InvMeans
<1> QED  BY <1>1, InvariantHolds, PTL

\* A body is refused for a binding that hides another, or for a name that means
\* nothing, and for nothing else; and one that hides is refused (HidingRefused).
THEOREM OnlyHidingRefused ==
  ASSUME TasksWellFormed
  PROVE  BodySpec => []HidingRefused
<1>1. ScopesInv => HidingRefused
  BY InvMeans
<1> QED  BY <1>1, InvariantHolds, PTL
=============================================================================
