------------------------- MODULE GenesisBuilderProofs -------------------------
(***************************************************************************)
(* Proofs about GenesisBuilder and GenesisProof, for every context and      *)
(* whatever is made of a package.                                           *)
(***************************************************************************)
EXTENDS GenesisProof, FiniteSetTheorems, WellFoundedInduction, TLAPS

-----------------------------------------------------------------------------
(* The invariant.                                                          *)

Inputs == Len(ctx.inputs)

Outputs == Len(ctx.outputs)

\* The first n outputs are not refused, and their groups are declared: a group
\* lists its outputs in order.
Accepted(n) == \A o \in 1..n : ~Refuses(o)

GroupOf(key, n) == {o \in 1..n : IsGenesis(o) /\ KeyOf(o) = key}

Grouped(n) ==
  /\ DOMAIN groups = {KeyOf(o) : o \in {q \in 1..n : IsGenesis(q)}}
  /\ \A key \in DOMAIN groups :
       /\ groups[key] \in Seq(1..n)
       /\ Ascending(groups[key])
       /\ {groups[key][j] : j \in DOMAIN groups[key]} = GroupOf(key, n)

\* Every group has the id its outputs derive.
Identified ==
  /\ DOMAIN ids = {Slot(key) : key \in DOMAIN groups}
  /\ \A key \in DOMAIN groups : ids[Slot(key)] = Derived(key)

\* The outputs built are those of the context, their ids and states read.
ResolvedOutput(o) ==
  [script |-> ScriptOf(o, StateOf(o)), auth |-> Binding(o).auth, id |-> Binding(o).id]

BuiltSoFar ==
  /\ Len(built) \in 0..Outputs
  /\ built = [o \in 1..Len(built) |-> ResolvedOutput(o)]
  /\ \A o \in 1..Len(built) : Resolvable(o) /\ ~Unreadable(o)

\* The group named for a clause is as declared, and starts after the previous one.
Follows(i, k) ==
  /\ NamedGroup(i, k) # <<>>
  /\ IsDeclared(i, k, NamedGroup(i, k))
  /\ k > 1 => NamedGroup(i, k - 1)[1] < NamedGroup(i, k)[1]

\* The groups found for the clauses of the inputs before pos, and of pos so far.
FoundSoFar ==
  /\ found \in Seq(Seq(Seq(Nat))) /\ Len(found) = pos
  /\ \A i \in 1..pos : \A k \in DOMAIN found[i] :
       /\ k \in DOMAIN ctx.inputs[i].entry.spawns
       /\ found[i][k] = NamedGroup(i, k)
       /\ Follows(i, k)
  /\ \A i \in 1..(pos - 1) : DOMAIN found[i] = DOMAIN ctx.inputs[i].entry.spawns

Declaring ==
  pass = "declare" =>
    pos \in 1..(Outputs + 1) /\ Accepted(pos - 1) /\ Grouped(pos - 1) /\ built = <<>>

Deriving == pass = "derive" => Accepted(Outputs) /\ Grouped(Outputs) /\ built = <<>>

WithIds ==
  pass \in {"resolve", "spawns", "refused_spawn", "built"} =>
    Accepted(Outputs) /\ Grouped(Outputs) /\ Identified

Resolving == pass = "resolve" => pos \in 1..(Outputs + 1) /\ Len(built) = pos - 1

Spawning ==
  pass \in {"spawns", "refused_spawn", "built"} =>
    pos \in 1..(Inputs + 1) /\ Len(built) = Outputs /\ FoundSoFar

\* How the builder ended.
Ended ==
  /\ pass = "refused_spawn" =>
       /\ pos \in DOMAIN ctx.inputs
       /\ clause \in DOMAIN ctx.inputs[pos].entry.spawns
       /\ ~GroupFits(pos, clause)
  /\ pass = "built" => pos = Inputs + 1

IInv ==
  /\ ValidContext(ctx)
  /\ BuiltSoFar
  /\ Declaring /\ Deriving /\ WithIds /\ Resolving /\ Spawning /\ Ended

-----------------------------------------------------------------------------
(* Frames: what a step that leaves some variables alone does not disturb.   *)

\* What a declared group is reads the context and the groups only.
LEMMA GroupsFrame ==
  ASSUME UNCHANGED <<ctx, groups>>, NEW n
  PROVE  Grouped(n)' = Grouped(n) /\ Accepted(n)' = Accepted(n) /\ Outputs' = Outputs
BY DEF Grouped, GroupOf, Accepted, Refuses, RefusesGenesis, IsGenesis, IsDeferred, KeyOf, Outputs

\* That every group has its id reads the context, the groups and the ids only.
LEMMA IdsFrame ==
  ASSUME UNCHANGED <<ctx, groups, ids>>
  PROVE  Identified' = Identified
BY DEF Identified, Derived, ScriptOf

\* That the outputs built are as resolved reads neither the groups nor the position.
LEMMA BuiltFrame ==
  ASSUME UNCHANGED <<ctx, ids, built>>
  PROVE  BuiltSoFar' = BuiltSoFar
BY DEF BuiltSoFar, ResolvedOutput, Resolvable, Unreadable, ScriptOf, StateOf, Binding, SlotOf,
       IsDeferred, IsGenesis, Outputs

\* What group a clause names, and whether it is as declared, reads the groups only.
LEMMA FitsFrame ==
  ASSUME UNCHANGED <<ctx, groups>>, NEW i, NEW k
  PROVE  Follows(i, k)' = Follows(i, k) /\ NamedGroup(i, k)' = NamedGroup(i, k)
BY DEF Follows, NamedGroup, IsDeclared

\* What has been found so far stays so while the groups, pos and found do.
LEMMA FoundFrame ==
  ASSUME UNCHANGED <<ctx, groups, found, pos>>
  PROVE  FoundSoFar' = FoundSoFar
<1>1. \A i, k : Follows(i, k)' = Follows(i, k) /\ NamedGroup(i, k)' = NamedGroup(i, k)
  BY FitsFrame
<1>2. ASSUME FoundSoFar PROVE FoundSoFar'
  <2>1. found' \in Seq(Seq(Seq(Nat))) /\ Len(found') = pos'
    BY <1>2 DEF FoundSoFar
  <2>2. ASSUME NEW i \in 1..pos', NEW k \in DOMAIN found'[i]
        PROVE  /\ k \in DOMAIN ctx'.inputs[i].entry.spawns
               /\ found'[i][k] = NamedGroup(i, k)'
               /\ Follows(i, k)'
    BY <1>1, <1>2, <2>2 DEF FoundSoFar
  <2>3. \A i \in 1..(pos' - 1) : DOMAIN found'[i] = DOMAIN ctx'.inputs[i].entry.spawns
    BY <1>2 DEF FoundSoFar
  <2> QED  BY <2>1, <2>2, <2>3 DEF FoundSoFar
<1>3. ASSUME FoundSoFar' PROVE FoundSoFar
  <2>1. found \in Seq(Seq(Seq(Nat))) /\ Len(found) = pos
    BY <1>3 DEF FoundSoFar
  <2>2. ASSUME NEW i \in 1..pos, NEW k \in DOMAIN found[i]
        PROVE  /\ k \in DOMAIN ctx.inputs[i].entry.spawns
               /\ found[i][k] = NamedGroup(i, k)
               /\ Follows(i, k)
    BY <1>1, <1>3, <2>2 DEF FoundSoFar
  <2>3. \A i \in 1..(pos - 1) : DOMAIN found[i] = DOMAIN ctx.inputs[i].entry.spawns
    BY <1>3 DEF FoundSoFar
  <2> QED  BY <2>1, <2>2, <2>3 DEF FoundSoFar
<1> QED  BY <1>2, <1>3 DEF FoundSoFar

-----------------------------------------------------------------------------
(* Declaring the groups.                                                   *)

\* What a genesis output that is not refused is known by.
LEMMA GenesisOutput ==
  ASSUME ValidContext(ctx), NEW o \in DOMAIN ctx.outputs, IsGenesis(o), ~Refuses(o)
  PROVE  /\ Slot(KeyOf(o)) = SlotOf(o)
         /\ ~IsDeferred(o)
         /\ ctx.outputs[o].auth \in DOMAIN ctx.inputs
<1> DEFINE path == ctx.outputs[o].path
<1>1. IsPath(path) /\ ~IsDeferred(o) /\ ctx.outputs[o].auth \in DOMAIN ctx.inputs
  BY DEF Refuses, RefusesGenesis
<1>2. Listed(path)
  BY DEF ValidContext, ValidOutput, IsGenesis
<1>3. path = <<path[1], path[2]>>
  BY <1>1, <1>2 DEF IsPath, Listed
<1> QED  BY <1>1, <1>3 DEF Slot, SlotOf, Path, KeyOf, Parse

\* Different groups have different slots.
LEMMA SlotsDiffer ==
  ASSUME NEW o, NEW q, Slot(KeyOf(o)) = Slot(KeyOf(q))
  PROVE  KeyOf(o) = KeyOf(q)
BY DEF Slot, KeyOf, Parse, Path

\* Declaring output n adds it at the end of its group.
LEMMA DeclareGroups ==
  ASSUME NEW n \in Nat \ {0}, Grouped(n - 1), UNCHANGED ctx, groups' = Declared(n)
  PROVE  Grouped(n)'
<1>1. CASE ~IsGenesis(n)
  <2>1. \A o \in 1..n : IsGenesis(o) => o \in 1..(n - 1)
    BY <1>1
  <2>2. groups' = groups
    BY <1>1 DEF Declared
  <2>3. {q \in 1..n : IsGenesis(q)} = {q \in 1..(n - 1) : IsGenesis(q)}
    BY <2>1
  <2>4. \A key : GroupOf(key, n) = GroupOf(key, n - 1)
    BY <2>1 DEF GroupOf
  <2>5. Grouped(n)
    <3>1. \A s : s \in Seq(1..(n - 1)) => s \in Seq(1..n)
      OBVIOUS
    <3> QED  BY <2>3, <2>4, <3>1 DEF Grouped
  <2> QED  BY <2>2, <2>5, GroupsFrame
<1>2. CASE IsGenesis(n)
  <2> DEFINE k == KeyOf(n)
             old == IF k \in DOMAIN groups THEN groups[k] ELSE <<>>
  <2>1. /\ DOMAIN groups' = DOMAIN groups \cup {k}
        /\ groups'[k] = Append(old, n)
        /\ \A key \in DOMAIN groups : key # k => groups'[key] = groups[key]
    <3>1. Append(<<>>, n) = <<n>>
      OBVIOUS
    <3>2. groups' = [key \in DOMAIN groups \cup {k} |->
                       IF key # k THEN groups[key] ELSE Append(old, n)]
      <4>1. CASE k \in DOMAIN groups
        BY <1>2, <4>1 DEF Declared
      <4>2. CASE k \notin DOMAIN groups
        BY <1>2, <3>1, <4>2 DEF Declared
      <4> QED  BY <4>1, <4>2
    <3> HIDE DEF k, old
    <3> QED  BY <3>2
  <2>2. /\ old \in Seq(1..(n - 1)) /\ Ascending(old)
        /\ {old[j] : j \in DOMAIN old} = GroupOf(k, n - 1)
    <3>1. CASE k \in DOMAIN groups
      BY <3>1 DEF Grouped
    <3>2. CASE k \notin DOMAIN groups
      BY <3>2 DEF Grouped, GroupOf, Ascending
    <3> QED  BY <3>1, <3>2
  <2>3. DOMAIN groups' = {KeyOf(o) : o \in {q \in 1..n : IsGenesis(q)}}
    BY <1>2, <2>1 DEF Grouped
  <2>4. GroupOf(k, n) = GroupOf(k, n - 1) \cup {n}
    BY <1>2 DEF GroupOf
  <2>5. \A key : key # k => GroupOf(key, n) = GroupOf(key, n - 1)
    BY DEF GroupOf
  <2>6. /\ groups'[k] \in Seq(1..n) /\ Ascending(groups'[k])
        /\ {groups'[k][j] : j \in DOMAIN groups'[k]} = GroupOf(k, n)
    <3> HIDE DEF old
    <3>1. /\ Len(groups'[k]) = Len(old) + 1 /\ DOMAIN groups'[k] = 1..(Len(old) + 1)
          /\ groups'[k][Len(old) + 1] = n
          /\ \A j \in 1..Len(old) : groups'[k][j] = old[j] /\ old[j] \in 1..(n - 1)
          /\ Len(old) \in Nat /\ DOMAIN old = 1..Len(old)
      BY <2>1, <2>2
    <3>2. groups'[k] \in Seq(1..n)
      BY <2>1, <2>2
    <3>3. Ascending(groups'[k])
      <4> DEFINE g == groups'[k]
      <4>1. ASSUME NEW i \in DOMAIN g, NEW j \in DOMAIN g, i < j
            PROVE  g[i] < g[j]
        <5>1. i \in 1..Len(old) /\ i \in Nat /\ j \in Nat
          BY <3>1, <4>1
        <5>2. CASE j = Len(old) + 1
          BY <3>1, <5>1, <5>2
        <5>3. CASE j \in 1..Len(old)
          BY <2>2, <3>1, <4>1, <5>1, <5>3 DEF Ascending
        <5> QED  BY <3>1, <5>2, <5>3
      <4> QED  BY <4>1 DEF Ascending
    <3>4. {groups'[k][j] : j \in DOMAIN groups'[k]} = {old[j] : j \in DOMAIN old} \cup {n}
      <4> DEFINE g == groups'[k]
      <4>1. DOMAIN g = DOMAIN old \cup {Len(old) + 1}
        BY <3>1
      <4>2. g[Len(old) + 1] = n /\ \A j \in DOMAIN old : g[j] = old[j]
        BY <3>1
      <4> HIDE DEF g
      <4>3. {g[j] : j \in DOMAIN g} = {old[j] : j \in DOMAIN old} \cup {n}
        BY <4>1, <4>2
      <4> QED  BY <4>3 DEF g
    <3> QED  BY <2>2, <2>4, <3>2, <3>3, <3>4
  <2>7. ASSUME NEW key \in DOMAIN groups', key # k
        PROVE  /\ groups'[key] \in Seq(1..n) /\ Ascending(groups'[key])
               /\ {groups'[key][j] : j \in DOMAIN groups'[key]} = GroupOf(key, n)
    <3>1. key \in DOMAIN groups /\ groups'[key] = groups[key]
      BY <2>1, <2>7
    <3>2. /\ groups[key] \in Seq(1..(n - 1)) /\ Ascending(groups[key])
          /\ {groups[key][j] : j \in DOMAIN groups[key]} = GroupOf(key, n - 1)
      BY <3>1 DEF Grouped
    <3>3. groups[key] \in Seq(1..n)
      BY <3>2
    <3> QED  BY <2>5, <2>7, <3>1, <3>2, <3>3
  <2>8. /\ \A o : IsGenesis(o)' = IsGenesis(o) /\ KeyOf(o)' = KeyOf(o)
        /\ \A key : GroupOf(key, n)' = GroupOf(key, n)
    BY DEF IsGenesis, KeyOf, GroupOf
  <2> HIDE DEF k
  <2> QED  BY <2>3, <2>6, <2>7, <2>8 DEF Grouped
<1> QED  BY <1>1, <1>2

\* Declaring an output keeps the invariant.
LEMMA DeclareInv == IInv /\ DeclareOutput => IInv'
<1> SUFFICES ASSUME IInv, DeclareOutput PROVE IInv'
  OBVIOUS
<1>1. /\ pass = "declare" /\ pos \in DOMAIN ctx.outputs /\ ~Refuses(pos)
      /\ groups' = Declared(pos) /\ pos' = pos + 1
      /\ UNCHANGED <<ctx, pass, ids, built, found>>
  BY DEF DeclareOutput
<1>2. pos \in 1..Outputs /\ Outputs \in Nat /\ Accepted(pos - 1) /\ Grouped(pos - 1) /\ built = <<>>
  BY <1>1 DEF IInv, Declaring, ValidContext, Listed, Outputs
<1>3. PICK n \in Nat \ {0} : n = pos
  BY <1>2
<1>4. Outputs' = Outputs /\ pos' \in 1..(Outputs + 1) /\ pos' - 1 = n
  BY <1>1, <1>2, <1>3 DEF Outputs
<1>5. Accepted(n)'
  <2>1. \A o : Refuses(o)' = Refuses(o)
    <3>1. \A o : /\ IsGenesis(o)' = IsGenesis(o) /\ IsDeferred(o)' = IsDeferred(o)
                 /\ KeyOf(o)' = KeyOf(o)
      BY <1>1 DEF IsGenesis, IsDeferred, KeyOf
    <3>2. \A o : RefusesGenesis(o)' = RefusesGenesis(o)
      BY <1>1, <3>1 DEF RefusesGenesis
    <3> QED  BY <1>1, <3>1, <3>2 DEF Refuses
  <2>2. \A o \in 1..n : o \in 1..(n - 1) \/ o = n
    OBVIOUS
  <2>3. \A o \in 1..n : ~Refuses(o)
    BY <1>1, <1>2, <1>3, <2>2 DEF Accepted
  <2> QED  BY <2>1, <2>3 DEF Accepted
<1>6. Grouped(n)'
  BY <1>1, <1>2, <1>3, DeclareGroups
<1>7. ValidContext(ctx)' /\ BuiltSoFar'
  BY <1>1, BuiltFrame DEF IInv
<1>8. Declaring'
  BY <1>1, <1>2, <1>4, <1>5, <1>6 DEF Declaring
<1> QED  BY <1>1, <1>7, <1>8 DEF IInv, Deriving, WithIds, Resolving, Spawning, Ended

\* The bounds of the loops.
LEMMA Sizes ==
  ASSUME ValidContext(ctx)
  PROVE  /\ Inputs \in Nat /\ DOMAIN ctx.inputs = 1..Inputs
         /\ Outputs \in Nat /\ DOMAIN ctx.outputs = 1..Outputs
BY DEF ValidContext, Listed, Inputs, Outputs

\* Leaving the declaring pass keeps it.
LEMMA AllDeclaredInv == IInv /\ AllDeclared => IInv'
<1> SUFFICES ASSUME IInv, AllDeclared PROVE IInv'
  OBVIOUS
<1>1. /\ pass = "declare" /\ pos \notin DOMAIN ctx.outputs /\ pass' = "derive" /\ pos' = 1
      /\ UNCHANGED <<ctx, groups, ids, built, found>>
  BY DEF AllDeclared, Enter
<1>2. ValidContext(ctx) /\ pos \in 1..(Outputs + 1) /\ Accepted(pos - 1) /\ Grouped(pos - 1) /\ built = <<>>
  BY <1>1 DEF IInv, Declaring
<1>3. pos - 1 = Outputs
  BY <1>1, <1>2, Sizes
<1>4. Accepted(Outputs) /\ Grouped(Outputs)
  BY <1>2, <1>3
<1>5. PICK n : n = Outputs
  OBVIOUS
<1>6. Accepted(n)' /\ Grouped(n)' /\ Outputs' = n
  BY <1>1, <1>4, <1>5, GroupsFrame
<1>7. Deriving'
  BY <1>1, <1>2, <1>6 DEF Deriving
<1>8. ValidContext(ctx)' /\ BuiltSoFar'
  BY <1>1, BuiltFrame DEF IInv
<1> QED  BY <1>1, <1>7, <1>8 DEF IInv, Declaring, WithIds, Resolving, Spawning, Ended

\* Deriving the id of every group keeps it: every group has its id from here on.
LEMMA DeriveInv == IInv /\ DeriveIds => IInv'
<1> SUFFICES ASSUME IInv, DeriveIds PROVE IInv'
  OBVIOUS
<1>1. /\ pass = "derive" /\ pass' = "resolve" /\ pos' = 1
      /\ ids' = [s \in {Slot(key) : key \in DOMAIN groups} |->
                   Derived(CHOOSE key \in DOMAIN groups : Slot(key) = s)]
      /\ UNCHANGED <<ctx, groups, built, found>>
  BY DEF DeriveIds, Enter
<1>2. ValidContext(ctx) /\ Accepted(Outputs) /\ Grouped(Outputs) /\ built = <<>>
  BY <1>1 DEF IInv, Deriving
<1>3. \A key \in DOMAIN groups : (CHOOSE k \in DOMAIN groups : Slot(k) = Slot(key)) = key
  <2> SUFFICES ASSUME NEW key \in DOMAIN groups, NEW k \in DOMAIN groups, Slot(k) = Slot(key)
               PROVE  k = key
    OBVIOUS
  <2>1. PICK o : key = KeyOf(o)
    BY <1>2 DEF Grouped
  <2>2. PICK q : k = KeyOf(q)
    BY <1>2 DEF Grouped
  <2> QED  BY <2>1, <2>2, SlotsDiffer
<1>4. \A key \in DOMAIN groups : ids'[Slot(key)] = Derived(key)
  BY <1>1, <1>3
<1>5. \A key : Derived(key)' = Derived(key)
  BY <1>1 DEF Derived, ScriptOf
<1>6. Identified'
  BY <1>1, <1>4, <1>5 DEF Identified
<1>7. PICK n : n = Outputs
  OBVIOUS
<1>8. Accepted(n)' /\ Grouped(n)' /\ Outputs' = n
  BY <1>1, <1>2, <1>7, GroupsFrame
<1>9. WithIds'
  BY <1>6, <1>8 DEF WithIds
<1>10. Resolving' /\ BuiltSoFar' /\ ValidContext(ctx)'
  <2>1. Outputs' \in Nat /\ Len(built') = 0 /\ built' = <<>>
    BY <1>1, <1>2, <1>7, <1>8, Sizes
  <2>2. built' = [o \in 1..Len(built') |-> ResolvedOutput(o)']
    BY <2>1
  <2>3. BuiltSoFar'
    BY <2>1, <2>2 DEF BuiltSoFar
  <2>4. Resolving'
    <3>1. 1 \in 1..(n + 1) /\ 1 - 1 = 0
      BY <1>2, <1>7, Sizes
    <3> QED  BY <1>1, <1>8, <2>1, <3>1 DEF Resolving
  <2> QED  BY <1>1, <1>2, <2>3, <2>4
<1> QED  BY <1>1, <1>9, <1>10 DEF IInv, Declaring, Deriving, Spawning, Ended

\* Resolving an output keeps it: the outputs built are one more.
LEMMA ResolveInv == IInv /\ ResolveOutput => IInv'
<1> SUFFICES ASSUME IInv, ResolveOutput PROVE IInv'
  OBVIOUS
<1>1. /\ pass = "resolve" /\ pass' = pass /\ pos \in DOMAIN ctx.outputs /\ pos' = pos + 1
      /\ Resolvable(pos) /\ ~Unreadable(pos)
      /\ built' = Append(built, ResolvedOutput(pos))
      /\ UNCHANGED <<ctx, groups, ids, found>>
  BY DEF ResolveOutput, ResolvedOutput
<1>2. /\ ValidContext(ctx) /\ Accepted(Outputs) /\ Grouped(Outputs) /\ Identified
      /\ pos \in 1..(Outputs + 1) /\ Len(built) = pos - 1
      /\ built = [o \in 1..Len(built) |-> ResolvedOutput(o)]
      /\ \A o \in 1..Len(built) : Resolvable(o) /\ ~Unreadable(o)
  BY <1>1 DEF IInv, WithIds, Resolving, BuiltSoFar
<1>3. PICK n : n = Outputs
  OBVIOUS
<1>4. Accepted(n)' /\ Grouped(n)' /\ Outputs' = n /\ Identified'
  BY <1>1, <1>2, <1>3, GroupsFrame, IdsFrame
<1>5. Outputs \in Nat /\ DOMAIN ctx.outputs = 1..Outputs
  BY <1>2, Sizes
<1>6. /\ built' = [o \in 1..(Len(built) + 1) |-> ResolvedOutput(o)]
      /\ Len(built') = Len(built) + 1 /\ Len(built) + 1 = pos
  <2> DEFINE l == Len(built)
             R == {ResolvedOutput(o) : o \in 1..pos}
  <2>1. l \in Nat /\ l + 1 = pos
    BY <1>1, <1>2, <1>5
  <2>2. built \in Seq(R) /\ DOMAIN built = 1..l /\ \A o \in 1..l : built[o] = ResolvedOutput(o)
    BY <1>2, <2>1
  <2>3. ResolvedOutput(pos) \in R
    <3>1. pos \in 1..pos
      BY <1>2, <1>5
    <3> QED  BY <3>1
  <2>4. /\ built' \in Seq(R) /\ Len(built') = l + 1 /\ built'[l + 1] = ResolvedOutput(pos)
        /\ \A o \in 1..l : built'[o] = built[o]
    <3> HIDE DEF R
    <3> QED  BY <1>1, <2>1, <2>2, <2>3
  <2>5. \A o \in 1..(l + 1) : built'[o] = ResolvedOutput(o)
    <3> HIDE DEF l
    <3> QED  BY <2>1, <2>2, <2>4
  <2> QED
    <3> HIDE DEF l, R
    <3> QED  BY <2>1, <2>4, <2>5 DEF l
<1>7. \A o : /\ ResolvedOutput(o)' = ResolvedOutput(o)
             /\ Resolvable(o)' = Resolvable(o) /\ Unreadable(o)' = Unreadable(o)
  BY <1>1 DEF ResolvedOutput, Resolvable, Unreadable, ScriptOf, StateOf, Binding, SlotOf, IsDeferred,
              IsGenesis
<1>8. BuiltSoFar'
  <2>1. Len(built') \in 0..n /\ 1..Len(built') = 1..Len(built) \cup {pos}
    BY <1>1, <1>2, <1>3, <1>5, <1>6
  <2> QED  BY <1>1, <1>2, <1>4, <1>6, <1>7, <2>1 DEF BuiltSoFar
<1>9. Resolving'
  BY <1>1, <1>3, <1>4, <1>5, <1>6 DEF Resolving
<1>10. WithIds' /\ ValidContext(ctx)'
  BY <1>1, <1>2, <1>4 DEF WithIds
<1> QED  BY <1>1, <1>8, <1>9, <1>10 DEF IInv, Declaring, Deriving, Spawning, Ended

-----------------------------------------------------------------------------
(* The spawn clauses.                                                      *)

\* A step that only moves on to, or within, the spawns keeps what the ids rest on.
LEMMA WithIdsFrame ==
  ASSUME IInv, pass \in {"resolve", "spawns"}, UNCHANGED <<ctx, groups, ids, built>>
  PROVE  /\ ValidContext(ctx)' /\ BuiltSoFar' /\ WithIds'
         /\ Inputs' = Inputs /\ Outputs' = Outputs
<1>1. Accepted(Outputs) /\ Grouped(Outputs) /\ Identified
  BY DEF IInv, WithIds
<1>2. PICK n : n = Outputs
  OBVIOUS
<1>3. Accepted(n)' /\ Grouped(n)' /\ Outputs' = n /\ Identified'
  BY <1>1, <1>2, GroupsFrame, IdsFrame
<1>4. WithIds'
  BY <1>3 DEF WithIds
<1> QED  BY <1>2, <1>3, <1>4, BuiltFrame DEF IInv, Inputs

\* Refusing an output or an input ends the passes.
LEMMA RefuseInv == IInv /\ (RefuseOutput \/ FailCallback \/ RefuseInput) => IInv'
<1> SUFFICES ASSUME IInv, RefuseOutput \/ FailCallback \/ RefuseInput PROVE IInv'
  OBVIOUS
<1>1. pass' \in {"refused_output", "refused_input"} /\ UNCHANGED <<ctx, groups, ids, built, pos, found>>
  BY DEF RefuseOutput, FailCallback, RefuseInput, End
<1>2. ValidContext(ctx)' /\ BuiltSoFar'
  BY <1>1, BuiltFrame DEF IInv
<1> QED  BY <1>1, <1>2 DEF IInv, Declaring, Deriving, WithIds, Resolving, Spawning, Ended

\* The unsigned transaction has every output; no clause has been looked at yet.
LEMMA UnsignedInv == IInv /\ MakeUnsigned => IInv'
<1> SUFFICES ASSUME IInv, MakeUnsigned PROVE IInv'
  OBVIOUS
<1>1. /\ pass = "resolve" /\ pass' = "spawns" /\ pos \notin DOMAIN ctx.outputs /\ pos' = 1
      /\ found' = <<<<>>>>
      /\ UNCHANGED <<ctx, groups, ids, built>>
  BY DEF MakeUnsigned, Enter
<1>2. /\ ValidContext(ctx)' /\ BuiltSoFar' /\ WithIds'
      /\ Inputs' = Inputs /\ Outputs' = Outputs
  BY <1>1, WithIdsFrame
<1>3. Len(built) = Outputs
  <2>1. pos \in 1..(Outputs + 1) /\ Len(built) = pos - 1 /\ ValidContext(ctx)
    BY <1>1 DEF IInv, Resolving
  <2> QED  BY <1>1, <2>1, Sizes
<1>4. Inputs \in Nat
  BY Sizes DEF IInv
<1>5. FoundSoFar'
  <2>1. found' \in Seq(Seq(Seq(Nat))) /\ Len(found') = 1 /\ found'[1] = <<>>
    <3>1. <<>> \in Seq(Seq(Nat))
      OBVIOUS
    <3> QED  BY <1>1, <3>1
  <2> QED  BY <1>1, <2>1 DEF FoundSoFar
<1>6. 1 \in 1..(Inputs + 1)
  BY <1>4
<1>7. Spawning'
  BY <1>1, <1>2, <1>3, <1>5, <1>6 DEF Spawning
<1> QED  BY <1>1, <1>2, <1>7 DEF IInv, Declaring, Deriving, Resolving, Ended

\* The group named for a clause is a sequence of output numbers.
LEMMA NamedGroupType ==
  ASSUME Grouped(Outputs), Outputs \in Nat, NEW i, NEW k
  PROVE  NamedGroup(i, k) \in Seq(Nat)
<1> DEFINE key == [auth |-> i, name |-> [kind |-> "spawn", name |-> k]]
<1>1. CASE key \in DOMAIN groups
  <2>1. groups[key] \in Seq(1..Outputs)
    BY <1>1 DEF Grouped
  <2>2. NamedGroup(i, k) = groups[key]
    BY <1>1 DEF NamedGroup
  <2>3. \A s : s \in Seq(1..Outputs) => s \in Seq(Nat)
    OBVIOUS
  <2> QED  BY <2>1, <2>2, <2>3
<1>2. CASE key \notin DOMAIN groups
  BY <1>2 DEF NamedGroup
<1> QED  BY <1>1, <1>2

\* Finding the group of a clause keeps it: the group is as declared and after the last.
LEMMA SpawnInv == IInv /\ ResolveSpawn => IInv'
<1> SUFFICES ASSUME IInv, ResolveSpawn PROVE IInv'
  OBVIOUS
<1>1. /\ pass = "spawns" /\ pass' = pass /\ pos \in DOMAIN ctx.inputs /\ pos' = pos
      /\ clause \in DOMAIN ctx.inputs[pos].entry.spawns
      /\ GroupFits(pos, clause)
      /\ found' = [found EXCEPT ![pos] = Append(@, NamedGroup(pos, clause))]
      /\ UNCHANGED <<ctx, groups, ids, built>>
  BY DEF ResolveSpawn
<1>2. /\ ValidContext(ctx)' /\ BuiltSoFar' /\ WithIds'
      /\ Inputs' = Inputs /\ Outputs' = Outputs
  BY <1>1, WithIdsFrame
<1>3. /\ pos \in 1..(Inputs + 1) /\ Len(built) = Outputs
      /\ found \in Seq(Seq(Seq(Nat))) /\ Len(found) = pos
      /\ \A i \in 1..pos : \A k \in DOMAIN found[i] :
           /\ k \in DOMAIN ctx.inputs[i].entry.spawns
           /\ found[i][k] = NamedGroup(i, k)
           /\ Follows(i, k)
      /\ \A i \in 1..(pos - 1) : DOMAIN found[i] = DOMAIN ctx.inputs[i].entry.spawns
  BY <1>1 DEF IInv, Spawning, FoundSoFar
<1>4. Inputs \in Nat /\ Outputs \in Nat /\ Grouped(Outputs)
  BY <1>1, Sizes DEF IInv, WithIds
<1> DEFINE n == Len(found[pos])
           g == NamedGroup(pos, clause)
<1>5. /\ pos \in DOMAIN found /\ found[pos] \in Seq(Seq(Nat)) /\ DOMAIN found[pos] = 1..n /\ n \in Nat
      /\ clause = n + 1 /\ g \in Seq(Nat)
  BY <1>3, <1>4, NamedGroupType DEF clause
<1>6. Append(found[pos], g) \in Seq(Seq(Nat))
  <2> HIDE DEF n, g
  <2> QED  BY <1>5
<1>7. found' \in Seq(Seq(Seq(Nat))) /\ Len(found') = pos
  <2> HIDE DEF n, g
  <2>1. found' \in Seq(Seq(Seq(Nat)))
    BY <1>1, <1>3, <1>5, <1>6 DEF g
  <2> QED  BY <1>1, <1>3, <2>1
<1>8. /\ found'[pos] = Append(found[pos], g)
      /\ \A i \in 1..pos : i # pos => found'[i] = found[i]
  BY <1>1, <1>3, <1>5
<1>9. /\ DOMAIN found'[pos] = 1..(n + 1) /\ found'[pos][n + 1] = g
      /\ \A k \in 1..n : found'[pos][k] = found[pos][k]
  <2> HIDE DEF n, g
  <2> QED  BY <1>5, <1>8 DEF n
<1>10. Follows(pos, clause)
  <2>1. clause > 1 => found[pos][clause - 1] = NamedGroup(pos, clause - 1)
    <3>1. ASSUME clause > 1 PROVE clause - 1 \in DOMAIN found[pos]
      <4> HIDE DEF n
      <4> QED  BY <1>5, <3>1
    <3>2. pos \in 1..pos
      BY <1>3, <1>4
    <3> QED  BY <1>3, <3>1, <3>2
  <2> QED  BY <1>1, <2>1 DEF GroupFits, Follows
<1>11. \A i \in 1..pos : \A k \in DOMAIN found'[i] :
         /\ k \in DOMAIN ctx.inputs[i].entry.spawns
         /\ found'[i][k] = NamedGroup(i, k)
         /\ Follows(i, k)
  <2> SUFFICES ASSUME NEW i \in 1..pos, NEW k \in DOMAIN found'[i]
               PROVE  /\ k \in DOMAIN ctx.inputs[i].entry.spawns
                      /\ found'[i][k] = NamedGroup(i, k)
                      /\ Follows(i, k)
    OBVIOUS
  <2>1. CASE i # pos
    BY <1>3, <1>8, <2>1
  <2>2. CASE i = pos /\ k = clause
    BY <1>1, <1>5, <1>9, <1>10, <2>2
  <2>3. CASE i = pos /\ k # clause
    <3>1. k \in 1..n
      <4> HIDE DEF n, g
      <4> QED  BY <1>5, <1>9, <2>3
    <3> QED  BY <1>3, <1>5, <1>9, <2>3, <3>1
  <2> QED  BY <2>1, <2>2, <2>3
<1>12. \A i \in 1..(pos - 1) : DOMAIN found'[i] = DOMAIN ctx.inputs[i].entry.spawns
  <2>1. \A i \in 1..(pos - 1) : i \in 1..pos /\ i # pos
    BY <1>3, <1>4
  <2> QED  BY <1>3, <1>8, <2>1
<1>13. FoundSoFar'
  <2>1. \A i, k : Follows(i, k)' = Follows(i, k) /\ NamedGroup(i, k)' = NamedGroup(i, k)
    BY <1>1 DEF Follows, NamedGroup, IsDeclared
  <2> HIDE DEF n, g
  <2> QED  BY <1>1, <1>7, <1>11, <1>12, <2>1 DEF FoundSoFar
<1>14. Spawning'
  BY <1>1, <1>2, <1>3, <1>13 DEF Spawning
<1> QED  BY <1>1, <1>2, <1>14 DEF IInv, Declaring, Deriving, Resolving, Ended

\* Going to the next input keeps it: every clause of the last one has its group.
LEMMA NextInputInv == IInv /\ NextInput => IInv'
<1> SUFFICES ASSUME IInv, NextInput PROVE IInv'
  OBVIOUS
<1>1. /\ pass = "spawns" /\ pass' = pass /\ pos \in DOMAIN ctx.inputs /\ pos' = pos + 1
      /\ clause \notin DOMAIN ctx.inputs[pos].entry.spawns
      /\ found' = Append(found, <<>>)
      /\ UNCHANGED <<ctx, groups, ids, built>>
  BY DEF NextInput
<1>2. /\ ValidContext(ctx)' /\ BuiltSoFar' /\ WithIds'
      /\ Inputs' = Inputs /\ Outputs' = Outputs
  BY <1>1, WithIdsFrame
<1>3. /\ pos \in 1..(Inputs + 1) /\ Len(built) = Outputs
      /\ found \in Seq(Seq(Seq(Nat))) /\ Len(found) = pos
      /\ \A i \in 1..pos : \A k \in DOMAIN found[i] :
           /\ k \in DOMAIN ctx.inputs[i].entry.spawns
           /\ found[i][k] = NamedGroup(i, k)
           /\ Follows(i, k)
      /\ \A i \in 1..(pos - 1) : DOMAIN found[i] = DOMAIN ctx.inputs[i].entry.spawns
  BY <1>1 DEF IInv, Spawning, FoundSoFar
<1>4. Inputs \in Nat /\ DOMAIN ctx.inputs = 1..Inputs /\ \A i \in 1..Inputs : ValidInput(ctx.inputs[i])
  BY Sizes DEF IInv, ValidContext
<1>5. DOMAIN found[pos] = DOMAIN ctx.inputs[pos].entry.spawns
  <2> DEFINE spawns == ctx.inputs[pos].entry.spawns
             n == Len(found[pos])
  <2>1. spawns \in Seq(Seq(Actor))
    BY <1>1, <1>4 DEF ValidInput
  <2>2. found[pos] \in Seq(Seq(Nat)) /\ DOMAIN found[pos] = 1..n /\ n \in Nat /\ pos \in 1..pos
    BY <1>3, <1>4
  <2>3. DOMAIN spawns = 1..Len(spawns) /\ Len(spawns) \in Nat
    BY <2>1
  <2>4. \A k \in 1..n : k \in 1..Len(spawns)
    BY <1>3, <2>2, <2>3
  <2>5. n + 1 \notin 1..Len(spawns)
    BY <1>1, <2>3 DEF clause
  <2> HIDE DEF n, spawns
  <2>6. n = Len(spawns)
    BY <2>2, <2>3, <2>4, <2>5
  <2> QED  BY <2>2, <2>3, <2>6 DEF spawns
<1>6. /\ found' \in Seq(Seq(Seq(Nat))) /\ Len(found') = pos + 1 /\ found'[pos + 1] = <<>>
      /\ \A i \in 1..pos : found'[i] = found[i]
  <2>1. <<>> \in Seq(Seq(Nat))
    OBVIOUS
  <2> QED  BY <1>1, <1>3, <2>1
<1>7. /\ \A i \in 1..(pos + 1) : i \in 1..pos \/ i = pos + 1
      /\ \A i \in 1..pos : i \in 1..(pos - 1) \/ i = pos
      /\ pos + 1 - 1 = pos /\ pos + 1 \in 1..(Inputs + 1)
  BY <1>1, <1>3, <1>4
<1>8. FoundSoFar'
  <2>1. \A i, k : Follows(i, k)' = Follows(i, k) /\ NamedGroup(i, k)' = NamedGroup(i, k)
    BY <1>1 DEF Follows, NamedGroup, IsDeclared
  <2>2. \A i \in 1..(pos + 1) : \A k \in DOMAIN found'[i] :
           /\ k \in DOMAIN ctx.inputs[i].entry.spawns
           /\ found'[i][k] = NamedGroup(i, k)
           /\ Follows(i, k)
    <3> SUFFICES ASSUME NEW i \in 1..(pos + 1), NEW k \in DOMAIN found'[i]
                 PROVE  /\ k \in DOMAIN ctx.inputs[i].entry.spawns
                        /\ found'[i][k] = NamedGroup(i, k)
                        /\ Follows(i, k)
      OBVIOUS
    <3>1. i \in 1..pos
      <4>1. DOMAIN found'[pos + 1] = {}
        BY <1>6
      <4> QED  BY <1>7, <4>1
    <3> QED  BY <1>3, <1>6, <3>1
  <2>3. \A i \in 1..pos : DOMAIN found'[i] = DOMAIN ctx.inputs[i].entry.spawns
    BY <1>3, <1>5, <1>6, <1>7
  <2>4. pos' = pos + 1 /\ pos' - 1 = pos /\ ctx' = ctx
    BY <1>1, <1>3, <1>4
  <2>5. found' \in Seq(Seq(Seq(Nat))) /\ Len(found') = pos'
    BY <1>6, <2>4
  <2>6. ASSUME NEW i \in 1..pos', NEW k \in DOMAIN found'[i]
        PROVE  /\ k \in DOMAIN ctx'.inputs[i].entry.spawns
               /\ found'[i][k] = NamedGroup(i, k)'
               /\ Follows(i, k)'
    BY <2>1, <2>2, <2>4, <2>6
  <2>7. \A i \in 1..(pos' - 1) : DOMAIN found'[i] = DOMAIN ctx'.inputs[i].entry.spawns
    BY <2>3, <2>4
  <2> QED  BY <2>5, <2>6, <2>7 DEF FoundSoFar
<1>9. Spawning'
  BY <1>1, <1>2, <1>3, <1>7, <1>8 DEF Spawning
<1> QED  BY <1>1, <1>2, <1>9 DEF IInv, Declaring, Deriving, Resolving, Ended

\* Refusing a spawn, or finishing, leaves what was found as it is.
LEMMA EndInv == IInv /\ (RefuseSpawn \/ Finish) => IInv'
<1> SUFFICES ASSUME IInv, RefuseSpawn \/ Finish PROVE IInv'
  OBVIOUS
<1>1. /\ pass = "spawns" /\ pass' \in {"refused_spawn", "built"}
      /\ UNCHANGED <<ctx, groups, ids, built, pos, found>>
  BY DEF RefuseSpawn, Finish, End
<1>2. /\ ValidContext(ctx)' /\ BuiltSoFar' /\ WithIds'
      /\ Inputs' = Inputs /\ Outputs' = Outputs
  BY <1>1, WithIdsFrame
<1>3. Spawning'
  BY <1>1, <1>2, FoundFrame DEF IInv, Spawning
<1>4. Ended'
  <2>1. CASE RefuseSpawn
    <3>1. /\ pass' = "refused_spawn" /\ pos \in DOMAIN ctx.inputs
          /\ clause \in DOMAIN ctx.inputs[pos].entry.spawns /\ ~GroupFits(pos, clause)
      BY <2>1 DEF RefuseSpawn, End
    <3>2. clause' = clause /\ GroupFits(pos, clause)' = GroupFits(pos, clause)
      BY <1>1 DEF clause, GroupFits, NamedGroup, IsDeclared
    <3> QED  BY <1>1, <3>1, <3>2 DEF Ended
  <2>2. CASE Finish
    <3>1. pass' = "built" /\ pos \notin DOMAIN ctx.inputs
      BY <2>2 DEF Finish, End
    <3>2. pos \in 1..(Inputs + 1) /\ ValidContext(ctx)
      BY <1>1 DEF IInv, Spawning
    <3>3. pos = Inputs + 1
      BY <3>1, <3>2, Sizes
    <3> QED  BY <1>1, <1>2, <3>1, <3>3 DEF Ended
  <2> QED  BY <2>1, <2>2, <1>1
<1> QED  BY <1>1, <1>2, <1>3, <1>4 DEF IInv, Declaring, Deriving, Resolving

\* A valid context starts with nothing declared, derived or built.
LEMMA InitInv == BuilderInit => IInv
<1> SUFFICES ASSUME BuilderInit PROVE IInv
  OBVIOUS
<1>1. ctx \in Contexts /\ pass = "declare" /\ groups = NoGroups /\ built = <<>> /\ pos = 1
  BY DEF BuilderInit
<1>2. ValidContext(ctx)
  BY <1>1, ContextsAssumption
<1>3. Outputs \in Nat
  BY <1>2, Sizes
<1>4. Len(built) = 0 /\ 1..0 = {} /\ 0 \in 0..Outputs /\ 1 \in 1..(Outputs + 1)
  BY <1>1, <1>3
<1>5. built = [o \in 1..Len(built) |-> ResolvedOutput(o)]
  BY <1>1, <1>4
<1>6. BuiltSoFar
  BY <1>4, <1>5 DEF BuiltSoFar
<1>7. Accepted(0) /\ Grouped(0)
  BY <1>1, <1>4 DEF Accepted, Grouped, NoGroups
<1>8. Declaring
  BY <1>1, <1>4, <1>7 DEF Declaring
<1> QED  BY <1>1, <1>2, <1>6, <1>8 DEF IInv, Deriving, WithIds, Resolving, Spawning, Ended

\* In every reachable state the passes before the current one have done their work.
THEOREM PassesAreSound == BuilderSpec => []IInv
<1>1. BuilderInit => IInv
  BY InitInv
<1>2. IInv /\ [BuilderNext]_builderVars => IInv'
  <2> SUFFICES ASSUME IInv, [BuilderNext]_builderVars PROVE IInv'
    OBVIOUS
  <2>1. CASE UNCHANGED builderVars
    <3>1. UNCHANGED <<ctx, pass, groups, ids, built, pos, found>>
      BY <2>1 DEF builderVars
    <3>2. PICK n, m : n = Outputs /\ m = pos - 1
      OBVIOUS
    <3>3. /\ Accepted(n)' = Accepted(n) /\ Grouped(n)' = Grouped(n)
          /\ Accepted(m)' = Accepted(m) /\ Grouped(m)' = Grouped(m)
          /\ Outputs' = n /\ Identified' = Identified /\ BuiltSoFar' = BuiltSoFar
          /\ FoundSoFar' = FoundSoFar
      BY <3>1, <3>2, GroupsFrame, IdsFrame, BuiltFrame, FoundFrame
    <3>4. Ended' = Ended
      BY <3>1 DEF Ended, clause, GroupFits, NamedGroup, IsDeclared, Inputs
    <3>5. Declaring' /\ Deriving' /\ WithIds'
      BY <3>1, <3>2, <3>3 DEF IInv, Declaring, Deriving, WithIds
    <3>6. Resolving' /\ Spawning' /\ ValidContext(ctx)'
      BY <3>1, <3>2, <3>3 DEF IInv, Resolving, Spawning, Inputs
    <3> QED  BY <3>3, <3>4, <3>5, <3>6 DEF IInv
  <2> QED  BY <2>1, DeclareInv, AllDeclaredInv, DeriveInv, ResolveInv, RefuseInv, UnsignedInv, SpawnInv,
              NextInputInv, EndInv DEF BuilderNext
<1> QED  BY <1>1, <1>2, PTL DEF BuilderSpec

-----------------------------------------------------------------------------
(* The groups in the finished transaction.                                  *)

\* All outputs are built.
AllBuilt == pass \in {"spawns", "refused_spawn", "built"}

\* An ascending sequence lists the set of its values.
LEMMA AscendingLists ==
  ASSUME NEW w \in Seq(Nat), Ascending(w), NEW S, S = {w[j] : j \in DOMAIN w}
  PROVE  IsFiniteSet(S) /\ Cardinality(S) = Len(w) /\ w \in [1..Cardinality(S) -> S]
<1>1. Len(w) \in Nat /\ DOMAIN w = 1..Len(w) /\ \A j \in 1..Len(w) : w[j] \in Nat
  OBVIOUS
<1>2. w \in [1..Len(w) -> S]
  BY <1>1
<1>3. \A j, k \in 1..Len(w) : w[j] = w[k] => j = k
  <2> SUFFICES ASSUME NEW j \in 1..Len(w), NEW k \in 1..Len(w), w[j] = w[k], j # k
               PROVE  FALSE
    OBVIOUS
  <2>1. j < k \/ k < j
    BY <1>1
  <2>2. w[j] < w[k] \/ w[k] < w[j]
    BY <1>1, <2>1 DEF Ascending
  <2> QED  BY <1>1, <2>2
<1>4. w \in Injection(1..Len(w), S) /\ w \in Surjection(1..Len(w), S)
  BY <1>1, <1>2, <1>3 DEF Injection, IsInjective, Surjection
<1>5. IsFiniteSet(1..Len(w)) /\ Cardinality(1..Len(w)) = Len(w)
  BY <1>1, FS_Interval
<1>6. IsFiniteSet(S) /\ Cardinality(S) = Len(w)
  BY <1>4, <1>5, FS_Surjection
<1> QED  BY <1>2, <1>6

\* The outputs are those of the context.
LEMMA BuiltOutputs ==
  ASSUME IInv, AllBuilt
  PROVE  /\ DOMAIN built = 1..Outputs /\ DOMAIN ctx.outputs = 1..Outputs /\ Outputs \in Nat
         /\ \A o \in 1..Outputs : built[o] = ResolvedOutput(o) /\ Resolvable(o) /\ ~Unreadable(o)
BY Sizes DEF IInv, AllBuilt, Spawning, BuiltSoFar

\* The members of a group.
LEMMA GroupMembers ==
  ASSUME IInv, WithIds, pass \in {"resolve", "spawns", "refused_spawn", "built"},
         NEW key \in DOMAIN groups
  PROVE  /\ groups[key] \in Seq(Nat) /\ Ascending(groups[key]) /\ 1 \in DOMAIN groups[key]
         /\ key.auth \in DOMAIN ctx.inputs
         /\ \A j \in DOMAIN groups[key] :
              /\ groups[key][j] \in 1..Outputs
              /\ IsGenesis(groups[key][j]) /\ KeyOf(groups[key][j]) = key
              /\ SlotOf(groups[key][j]) = Slot(key)
              /\ ~IsDeferred(groups[key][j])
         /\ \A o \in 1..Outputs :
              IsGenesis(o) /\ KeyOf(o) = key => o \in {groups[key][j] : j \in DOMAIN groups[key]}
<1> DEFINE g == groups[key]
           S == {g[j] : j \in DOMAIN g}
<1>1. /\ ValidContext(ctx) /\ Accepted(Outputs) /\ Grouped(Outputs)
      /\ DOMAIN ctx.outputs = 1..Outputs /\ Outputs \in Nat
  BY Sizes DEF IInv, WithIds
<1>2. g \in Seq(1..Outputs) /\ Ascending(g) /\ S = GroupOf(key, Outputs)
  BY <1>1 DEF Grouped
<1>3. PICK q \in 1..Outputs : IsGenesis(q) /\ key = KeyOf(q)
  BY <1>1 DEF Grouped
<1>4. \A o \in 1..Outputs : IsGenesis(o) /\ KeyOf(o) = key => o \in S
  BY <1>2 DEF GroupOf
<1>5. \A o \in S : o \in 1..Outputs /\ IsGenesis(o) /\ KeyOf(o) = key
  <2> HIDE DEF S
  <2> QED  BY <1>2 DEF GroupOf
<1>6. \A o \in S : SlotOf(o) = Slot(key) /\ ~IsDeferred(o) /\ ctx.outputs[o].auth \in DOMAIN ctx.inputs
  <2> HIDE DEF S
  <2> QED  BY <1>1, <1>5, GenesisOutput DEF Accepted
<1>7. g \in Seq(Nat) /\ 1 \in DOMAIN g
  <2>1. DOMAIN g # {}
    BY <1>3, <1>4
  <2> HIDE DEF g
  <2> QED  BY <1>1, <1>2, <2>1
<1>8. key.auth \in DOMAIN ctx.inputs
  <2>1. q \in S
    BY <1>3, <1>4
  <2>2. ctx.outputs[q].auth \in DOMAIN ctx.inputs
    BY <1>6, <2>1
  <2> QED  BY <1>3, <2>2 DEF KeyOf
<1> QED  BY <1>2, <1>4, <1>5, <1>6, <1>7, <1>8

\* An id commits to the outputs of its group as they are built.
LEMMA GroupCommits ==
  ASSUME IInv, AllBuilt, NEW key \in DOMAIN groups
  PROVE  ids[Slot(key)] =
           CovenantId(ctx.inputs[key.auth].coin.outpoint, Commitments(Unsigned, groups[key]))
<1> DEFINE g == groups[key]
<1>1. WithIds /\ pass \in {"resolve", "spawns", "refused_spawn", "built"}
  BY DEF IInv, AllBuilt
<1>2. ids[Slot(key)] = Derived(key)
  BY <1>1 DEF WithIds, Identified
<1>3. \A j \in DOMAIN g : built[g[j]].script = ScriptOf(g[j], Static)
  <2> SUFFICES ASSUME NEW j \in DOMAIN g PROVE built[g[j]].script = ScriptOf(g[j], Static)
    OBVIOUS
  <2>1. g[j] \in 1..Outputs /\ ~IsDeferred(g[j])
    BY <1>1, GroupMembers
  <2>2. built[g[j]] = ResolvedOutput(g[j])
    BY <2>1, BuiltOutputs
  <2> QED  BY <2>1, <2>2 DEF ResolvedOutput, StateOf
<1>4. Commitments(Unsigned, g) = [j \in DOMAIN g |-> <<g[j], ScriptOf(g[j], Static)>>]
  BY <1>3 DEF Commitments, Unsigned
<1> QED  BY <1>2, <1>4 DEF Derived

\* Only groups of the same outputs have the same id.
LEMMA SameIdSameGroup ==
  ASSUME IInv, AllBuilt, NEW key \in DOMAIN groups, NEW k \in DOMAIN groups,
         ids[Slot(key)] = ids[Slot(k)]
  PROVE  key = k
<1>1. WithIds /\ pass \in {"resolve", "spawns", "refused_spawn", "built"}
  BY DEF IInv, AllBuilt
<1>2. Commitments(Unsigned, groups[key]) = Commitments(Unsigned, groups[k])
  <2>1. ids[Slot(key)] = CovenantId(ctx.inputs[key.auth].coin.outpoint, Commitments(Unsigned, groups[key]))
    BY GroupCommits
  <2>2. ids[Slot(k)] = CovenantId(ctx.inputs[k.auth].coin.outpoint, Commitments(Unsigned, groups[k]))
    BY GroupCommits
  <2>3. CovenantId(ctx.inputs[key.auth].coin.outpoint, Commitments(Unsigned, groups[key])) =
          CovenantId(ctx.inputs[k.auth].coin.outpoint, Commitments(Unsigned, groups[k]))
    BY <2>1, <2>2
  <2> QED  BY <2>3 DEF CovenantId
<1>3. 1 \in DOMAIN groups[key] /\ 1 \in DOMAIN groups[k]
  BY <1>1, GroupMembers
<1>4. Commitments(Unsigned, groups[key])[1][1] = groups[key][1]
      /\ Commitments(Unsigned, groups[k])[1][1] = groups[k][1]
  BY <1>3 DEF Commitments
<1>5. groups[key][1] = groups[k][1]
  BY <1>2, <1>4
<1>6. KeyOf(groups[key][1]) = key /\ KeyOf(groups[k][1]) = k
  BY <1>1, <1>3, GroupMembers
<1> QED  BY <1>5, <1>6

\* The outputs that carry the id of a group with its authorizer are its members: an
\* output of another group has another id, and one that continues the covenant of
\* the authorizer has an id no coin of its can found.
LEMMA GroupIsBound ==
  ASSUME IInv, AllBuilt, NEW key \in DOMAIN groups
  PROVE  BindingGroup(Unsigned, key.auth, ids[Slot(key)]) =
           {groups[key][j] : j \in DOMAIN groups[key]}
<1> DEFINE id == ids[Slot(key)]
           S == {groups[key][j] : j \in DOMAIN groups[key]}
<1>1. WithIds /\ pass \in {"resolve", "spawns", "refused_spawn", "built"}
  BY DEF IInv, AllBuilt
<1>2. /\ DOMAIN built = 1..Outputs /\ DOMAIN ctx.outputs = 1..Outputs
      /\ \A o \in 1..Outputs : built[o].auth = Binding(o).auth /\ built[o].id = Binding(o).id
  BY BuiltOutputs DEF ResolvedOutput
<1>3. id.outpoint = ctx.inputs[key.auth].coin.outpoint
  <2>1. id = CovenantId(ctx.inputs[key.auth].coin.outpoint, Commitments(Unsigned, groups[key]))
    BY GroupCommits
  <2> HIDE DEF id
  <2> QED  BY <2>1 DEF CovenantId
<1>4. ValidContext(ctx) /\ DOMAIN ctx.inputs = 1..Inputs /\ key.auth \in 1..Inputs
  BY <1>1, GroupMembers, Sizes DEF IInv
<1>5. ASSUME NEW o \in S
      PROVE  o \in 1..Outputs /\ built[o].auth = key.auth /\ built[o].id = id
  <2>1. o \in 1..Outputs /\ IsGenesis(o) /\ KeyOf(o) = key /\ SlotOf(o) = Slot(key)
    BY <1>1, GroupMembers
  <2>2. Binding(o) = [auth |-> ctx.outputs[o].auth, id |-> ids[SlotOf(o)]]
    BY <2>1 DEF Binding, IsGenesis
  <2>3. key.auth = ctx.outputs[o].auth
    BY <2>1 DEF KeyOf
  <2> QED  BY <1>2, <2>1, <2>2, <2>3
<1>6. ASSUME NEW o \in 1..Outputs, built[o].auth = key.auth, built[o].id = id
      PROVE  o \in S
  <2>1. Binding(o).auth = key.auth /\ Binding(o).id = id
    BY <1>2, <1>6
  <2>2. ValidOutput(ctx.inputs, ctx.outputs[o])
    BY <1>2, <1>4 DEF ValidContext
  <2>3. CASE ctx.outputs[o].covenant = "unbound"
    <3>1. Binding(o).auth = 0
      BY <2>3 DEF Binding
    <3>2. key.auth # 0
      BY <1>4, Sizes
    <3> QED  BY <2>1, <3>1, <3>2
  <2>4. CASE ctx.outputs[o].covenant = "existing"
    <3>1. Binding(o) = [auth |-> ctx.outputs[o].auth, id |-> ctx.inputs[ctx.outputs[o].auth].coin.cov]
      BY <2>4 DEF Binding
    <3>2. id = ctx.inputs[key.auth].coin.cov
      BY <2>1, <3>1
    <3>3. ValidInput(ctx.inputs[key.auth])
      BY <1>4 DEF ValidContext
    <3> QED  BY <1>3, <3>2, <3>3 DEF ValidInput
  <2>5. CASE ctx.outputs[o].covenant = "genesis"
    <3>1. Binding(o) = [auth |-> ctx.outputs[o].auth, id |-> ids[SlotOf(o)]]
      BY <2>5 DEF Binding
    <3>2. IsGenesis(o) /\ KeyOf(o) \in DOMAIN groups
      BY <1>1, <2>5 DEF IsGenesis, WithIds, Grouped
    <3>3. SlotOf(o) = Slot(KeyOf(o))
      BY <1>1, <1>2, <1>4, <3>2, GenesisOutput DEF WithIds, Accepted
    <3>4. KeyOf(o) = key
      BY <2>1, <3>1, <3>2, <3>3, SameIdSameGroup
    <3> QED  BY <1>1, <3>2, <3>4, GroupMembers
  <2> QED  BY <2>2, <2>3, <2>4, <2>5 DEF ValidOutput
<1> QED  BY <1>2, <1>5, <1>6 DEF BindingGroup, Unsigned

\* Consensus derives the id of every group.
LEMMA GroupFounded ==
  ASSUME IInv, AllBuilt, NEW key \in DOMAIN groups
  PROVE  Founds(Unsigned, key.auth, ids[Slot(key)]) /\ ids[Slot(key)] # NoId
<1> DEFINE g == groups[key]
           id == ids[Slot(key)]
           S == BindingGroup(Unsigned, key.auth, id)
<1>1. WithIds /\ pass \in {"resolve", "spawns", "refused_spawn", "built"}
  BY DEF IInv, AllBuilt
<1>2. g \in Seq(Nat) /\ Ascending(g) /\ 1 \in DOMAIN g
  BY <1>1, GroupMembers
<1>3. S = {g[j] : j \in DOMAIN g}
  BY GroupIsBound
<1>4. g \in [1..Cardinality(S) -> S]
  <2> HIDE DEF S, g
  <2> QED  BY <1>2, <1>3, AscendingLists
<1>5. \A o \in S : \E k \in DOMAIN g : g[k] = o
  <2> HIDE DEF g
  <2> QED  BY <1>3
<1>6. id = CovenantId(Unsigned.inputs[key.auth].coin.outpoint, Commitments(Unsigned, g))
  BY GroupCommits DEF Unsigned
<1>7. Founds(Unsigned, key.auth, id)
  <2> HIDE DEF g, id
  <2> QED  BY <1>2, <1>4, <1>5, <1>6 DEF Founds
<1>8. id # NoId
  <2>1. DOMAIN Commitments(Unsigned, g) # DOMAIN <<>>
    BY <1>2 DEF Commitments
  <2> HIDE DEF g, id
  <2> QED  BY <1>6, <2>1 DEF NoId, CovenantId
<1> QED  BY <1>7, <1>8

-----------------------------------------------------------------------------
(* What is built is accepted.                                               *)

\* The expectations a pass has of an earlier one are met.
LEMMA NeverPanicsStep == IInv => NeverPanics
<1> SUFFICES ASSUME IInv PROVE NeverPanics
  OBVIOUS
<1>1. ValidContext(ctx) /\ DOMAIN ctx.outputs = 1..Outputs /\ Outputs \in Nat
  BY Sizes DEF IInv
<1>2. ASSUME pass = "derive"
      PROVE  Derivable
  <2>1. Accepted(Outputs) /\ Grouped(Outputs)
    BY <1>2 DEF IInv, Deriving
  <2>2. ASSUME NEW key \in DOMAIN groups, NEW j \in DOMAIN groups[key]
        PROVE  ~IsDeferred(groups[key][j])
    <3>1. groups[key][j] \in GroupOf(key, Outputs)
      BY <2>1 DEF Grouped
    <3>2. groups[key][j] \in 1..Outputs /\ IsGenesis(groups[key][j])
      BY <3>1 DEF GroupOf
    <3> QED  BY <1>1, <2>1, <3>2, GenesisOutput DEF Accepted
  <2> QED  BY <2>2 DEF Derivable
<1>3. ASSUME pass = "resolve", pos \in DOMAIN ctx.outputs, IsGenesis(pos)
      PROVE  SlotOf(pos) \in DOMAIN ids
  <2>1. Accepted(Outputs) /\ Grouped(Outputs) /\ Identified
    BY <1>3 DEF IInv, WithIds
  <2>2. Slot(KeyOf(pos)) = SlotOf(pos)
    BY <1>1, <1>3, <2>1, GenesisOutput DEF Accepted
  <2>3. KeyOf(pos) \in DOMAIN groups
    BY <1>1, <1>3, <2>1 DEF Grouped
  <2> QED  BY <2>1, <2>2, <2>3 DEF Identified
<1> QED  BY <1>2, <1>3 DEF NeverPanics, Resolvable

\* A state callback reads the ids their groups end up with.
LEMMA ReadsAreFinalStep == IInv => ReadsAreFinal
<1> SUFFICES ASSUME IInv, NEW o \in DOMAIN built, IsDeferred(o)
             PROVE  /\ \A q \in DOMAIN built :
                         IsGenesis(q) /\ SlotOf(q) = ctx.outputs[o].reads =>
                           built[q].id = built[o].script.redeem.state
                    /\ pass = "built" =>
                         Founds(Unsigned, ctx.outputs[o].reads.auth, built[o].script.redeem.state)
  BY DEF ReadsAreFinal
<1> DEFINE slot == ctx.outputs[o].reads
<1>1. /\ DOMAIN built = 1..Len(built)
      /\ \A q \in 1..Len(built) : built[q] = ResolvedOutput(q) /\ ~Unreadable(q)
  BY DEF IInv, BuiltSoFar
<1>2. built[o].script.redeem.state = ids[slot] /\ slot \in DOMAIN ids
  BY <1>1 DEF ResolvedOutput, ScriptOf, StateOf, IsDeferred, Unreadable
<1>3. ASSUME NEW q \in DOMAIN built, IsGenesis(q), SlotOf(q) = slot
      PROVE  built[q].id = ids[slot]
  <2>1. built[q].id = Binding(q).id
    BY <1>1 DEF ResolvedOutput
  <2>2. Binding(q) = [auth |-> ctx.outputs[q].auth, id |-> ids[SlotOf(q)]]
    BY <1>3 DEF Binding, IsGenesis
  <2> QED  BY <1>3, <2>1, <2>2
<1>4. ASSUME pass = "built"
      PROVE  Founds(Unsigned, slot.auth, ids[slot])
  <2>1. AllBuilt /\ Identified
    BY <1>4 DEF AllBuilt, IInv, WithIds
  <2>2. PICK key \in DOMAIN groups : slot = Slot(key)
    BY <1>2, <2>1 DEF Identified
  <2>3. slot.auth = key.auth
    BY <2>2 DEF Slot
  <2> QED  BY <2>1, <2>2, <2>3, GroupFounded
<1> QED  BY <1>2, <1>3, <1>4

\* Consensus accepts every binding: an output is unbound, continues the covenant of
\* its authorizer, or is one of a founded group.
LEMMA BindingsAcceptedStep == IInv /\ AllBuilt => BindingsAccepted(Unsigned)
<1> SUFFICES ASSUME IInv, AllBuilt, NEW o \in 1..Outputs
             PROVE  BindingAccepted(Unsigned, o)
  BY BuiltOutputs DEF BindingsAccepted, Unsigned
<1>1. ValidContext(ctx) /\ DOMAIN ctx.outputs = 1..Outputs /\ built[o] = ResolvedOutput(o)
  BY BuiltOutputs DEF IInv
<1>2. Unsigned.outputs[o].auth = Binding(o).auth /\ Unsigned.outputs[o].id = Binding(o).id
      /\ Unsigned.inputs = ctx.inputs
  BY <1>1 DEF Unsigned, ResolvedOutput
<1>3. ValidOutput(ctx.inputs, ctx.outputs[o])
  BY <1>1 DEF ValidContext
<1>4. CASE ctx.outputs[o].covenant = "unbound"
  <2>1. Binding(o) = [auth |-> 0, id |-> NoId]
    BY <1>4 DEF Binding
  <2> QED  BY <1>2, <2>1 DEF BindingAccepted
<1>5. CASE ctx.outputs[o].covenant = "existing"
  <2>1. Binding(o) = [auth |-> ctx.outputs[o].auth, id |-> ctx.inputs[ctx.outputs[o].auth].coin.cov]
    BY <1>5 DEF Binding
  <2>2. /\ ctx.outputs[o].auth \in DOMAIN ctx.inputs
        /\ ctx.inputs[ctx.outputs[o].auth].coin.cov # NoId
    BY <1>3, <1>5 DEF ValidOutput
  <2>3. /\ Unsigned.outputs[o].auth = ctx.outputs[o].auth
        /\ Unsigned.outputs[o].id = ctx.inputs[ctx.outputs[o].auth].coin.cov
    BY <1>2, <2>1
  <2> QED  BY <1>2, <2>2, <2>3 DEF BindingAccepted
<1>6. CASE ctx.outputs[o].covenant = "genesis"
  <2>1. Binding(o) = [auth |-> ctx.outputs[o].auth, id |-> ids[SlotOf(o)]]
    BY <1>6 DEF Binding
  <2>2. Accepted(Outputs) /\ Grouped(Outputs) /\ IsGenesis(o)
    BY <1>6 DEF IInv, WithIds, AllBuilt, IsGenesis
  <2>3. SlotOf(o) = Slot(KeyOf(o)) /\ ctx.outputs[o].auth \in DOMAIN ctx.inputs
    BY <1>1, <2>2, GenesisOutput DEF Accepted
  <2>4. KeyOf(o) \in DOMAIN groups /\ KeyOf(o).auth = ctx.outputs[o].auth
    BY <2>2 DEF Grouped, KeyOf
  <2>5. Founds(Unsigned, ctx.outputs[o].auth, ids[SlotOf(o)]) /\ ids[SlotOf(o)] # NoId
    BY <2>3, <2>4, GroupFounded
  <2> QED  BY <1>2, <2>1, <2>3, <2>5 DEF BindingAccepted
<1> QED  BY <1>3, <1>4, <1>5, <1>6 DEF ValidOutput

\* The key of the group a clause of an input spawns.
SpawnKey(i, k) == [auth |-> i, name |-> [kind |-> "spawn", name |-> k]]

\* A group named for a clause is a group, or is empty.
LEMMA NamedIsGroup ==
  ASSUME NEW i, NEW k, NamedGroup(i, k) # <<>>
  PROVE  SpawnKey(i, k) \in DOMAIN groups /\ NamedGroup(i, k) = groups[SpawnKey(i, k)]
BY DEF NamedGroup, SpawnKey

\* Only the script of an actor is a P2SH script, and it names its actor.
LEMMA ScriptsNameActors ==
  ASSUME IInv, AllBuilt, NEW o \in 1..Outputs, built[o].script.p2sh
  PROVE  built[o].script.redeem.actor = ctx.outputs[o].owner
<1>1. built[o].script = ScriptOf(o, StateOf(o))
  BY BuiltOutputs DEF ResolvedOutput
<1> QED  BY <1>1 DEF ScriptOf

\* A clause the builder refuses, its script refuses with the same outputs.
LEMMA SpawnRefusalStep == IInv => SpawnRefusalJustified
<1> DEFINE named == [k \in DOMAIN ctx.inputs[pos].entry.spawns |-> NamedGroup(pos, k)]
           spawns == ctx.inputs[pos].entry.spawns
<1> SUFFICES ASSUME IInv, pass = "refused_spawn",
                    named \in Witnesses(Unsigned, ctx.inputs[pos].entry),
                    SpawnScriptSucceeds(Unsigned, pos, named)
             PROVE  FALSE
  BY DEF SpawnRefusalJustified
<1>1. AllBuilt /\ pos \in DOMAIN ctx.inputs /\ clause \in DOMAIN spawns /\ ~GroupFits(pos, clause)
  BY DEF AllBuilt, IInv, Ended
<1>2. FoundSoFar /\ pos \in 1..(Inputs + 1) /\ Inputs \in Nat
  BY <1>1, Sizes DEF IInv, Spawning, AllBuilt
<1> DEFINE g == NamedGroup(pos, clause)
<1>3. named[clause] = g /\ DOMAIN g = DOMAIN spawns[clause]
  BY <1>1 DEF Witnesses
<1>4. g \in UNION {[1..n -> DOMAIN built] : n \in 1..Len(built)}
  <2>1. named[clause] \in UNION {[1..n -> DOMAIN Unsigned.outputs] : n \in 1..Len(Unsigned.outputs)}
    BY <1>1 DEF Witnesses
  <2> QED  BY <1>3, <2>1 DEF Unsigned
<1>5. PICK n \in 1..Len(built) : g \in [1..n -> DOMAIN built]
  BY <1>4
<1>6. /\ Outputs \in Nat /\ DOMAIN built = 1..Outputs /\ Len(built) = Outputs
      /\ Grouped(Outputs) /\ ValidContext(ctx)
  BY <1>1, BuiltOutputs DEF IInv, Spawning, AllBuilt, WithIds
<1>7. g # <<>> /\ Len(g) = n /\ g \in Seq(Nat)
  <2>1. g \in Seq(Nat)
    BY <1>6, NamedGroupType
  <2>2. DOMAIN g = 1..n /\ n \in Nat /\ 1 \in 1..n
    BY <1>5, <1>6
  <2> HIDE DEF g
  <2> QED  BY <2>1, <2>2
<1>8. spawns \in Seq(Seq(Actor))
  BY <1>1, <1>6 DEF ValidContext, ValidInput
<1>9. IsDeclared(pos, clause, g)
  <2>1. spawns[clause] \in Seq(Actor)
    BY <1>1, <1>8
  <2>2. Len(spawns[clause]) = Len(g)
    <3> HIDE DEF g, spawns
    <3> QED  BY <1>3, <1>7, <2>1
  <2>3. ASSUME NEW j \in DOMAIN g
        PROVE  ctx.outputs[g[j]].owner = spawns[clause][j]
    <3>1. g[j] \in 1..Outputs
      BY <1>5, <1>6
    <3>2. \A l \in DOMAIN named[clause] :
            /\ built[named[clause][l]].script.p2sh
            /\ built[named[clause][l]].script.redeem.actor = spawns[clause][l]
      <4>1. Unsigned.outputs = built /\ Unsigned.inputs = ctx.inputs
        BY DEF Unsigned
      <4> HIDE DEF named
      <4> QED  BY <1>1, <4>1 DEF SpawnScriptSucceeds, SpawnRoutes
    <3>3. built[g[j]].script.p2sh /\ built[g[j]].script.redeem.actor = spawns[clause][j]
      <4> HIDE DEF named, g
      <4> QED  BY <1>3, <3>2
    <3> QED  BY <1>1, <3>1, <3>3, ScriptsNameActors
  <2> QED  BY <2>2, <2>3 DEF IsDeclared
<1>10. clause > 1 => found[pos][clause - 1][1] < g[1]
  <2> SUFFICES ASSUME clause > 1 PROVE found[pos][clause - 1][1] < g[1]
    OBVIOUS
  <2>1. DOMAIN found[pos] = 1..Len(found[pos]) /\ Len(found[pos]) \in Nat /\ pos \in 1..pos
    BY <1>2 DEF FoundSoFar
  <2>2. clause - 1 \in DOMAIN found[pos]
    BY <2>1 DEF clause
  <2>3. clause - 1 \in DOMAIN spawns /\ found[pos][clause - 1] = NamedGroup(pos, clause - 1)
    BY <2>1, <2>2 , <1>2 DEF FoundSoFar
  <2>4. named[clause - 1][1] < named[clause][1]
    BY <1>1 DEF SpawnScriptSucceeds, SpawnPrelude, Unsigned
  <2> QED  BY <1>3, <2>3, <2>4
<1>11. GroupFits(pos, clause)
  BY <1>7, <1>9, <1>10 DEF GroupFits
<1> QED  BY <1>1, <1>11

\* The groups found for the clauses of an input are a witness its script accepts.
LEMMA FoundSucceeds ==
  ASSUME IInv, pass = "built", NEW i \in DOMAIN ctx.inputs
  PROVE  /\ found[i] \in Witnesses(Unsigned, ctx.inputs[i].entry)
         /\ SpawnScriptSucceeds(Unsigned, i, found[i])
<1> DEFINE spawns == ctx.inputs[i].entry.spawns
           w == found[i]
<1>1. AllBuilt /\ WithIds /\ ValidContext(ctx) /\ pass \in {"resolve", "spawns", "refused_spawn", "built"}
  BY DEF AllBuilt, IInv
<1>2. /\ Inputs \in Nat /\ DOMAIN ctx.inputs = 1..Inputs /\ pos = Inputs + 1 /\ FoundSoFar
      /\ Outputs \in Nat /\ DOMAIN built = 1..Outputs /\ Len(built) = Outputs
  BY <1>1, Sizes, BuiltOutputs DEF IInv, Spawning, Ended, AllBuilt
<1>3. i \in 1..pos /\ i \in 1..(pos - 1) /\ i \in DOMAIN found
  BY <1>2 DEF FoundSoFar
<1>4. /\ w \in Seq(Seq(Nat)) /\ DOMAIN w = DOMAIN spawns
      /\ \A k \in DOMAIN spawns : w[k] = NamedGroup(i, k) /\ Follows(i, k)
  BY <1>2, <1>3 DEF FoundSoFar
<1>5. spawns \in Seq(Seq(Actor))
  BY <1>1 DEF ValidContext, ValidInput
<1>6. ASSUME NEW k \in DOMAIN spawns
      PROVE  /\ SpawnKey(i, k) \in DOMAIN groups /\ w[k] = groups[SpawnKey(i, k)]
             /\ w[k] \in [1..Len(w[k]) -> 1..Outputs] /\ Len(w[k]) \in 1..Outputs
             /\ DOMAIN w[k] = DOMAIN spawns[k] /\ 1 \in DOMAIN w[k]
             /\ \A j \in DOMAIN w[k] : /\ ~IsDeferred(w[k][j])
                                       /\ ctx.outputs[w[k][j]].owner = spawns[k][j]
                                       /\ spawns[k][j] \in Actor
                                       /\ SlotOf(w[k][j]) = Slot(SpawnKey(i, k))
                                       /\ IsGenesis(w[k][j])
  <2> DEFINE g == w[k]
             key == SpawnKey(i, k)
  <2>1. g # <<>> /\ IsDeclared(i, k, g) /\ g = NamedGroup(i, k)
    BY <1>4 DEF Follows
  <2>2. key \in DOMAIN groups /\ g = groups[key]
    BY <2>1, NamedIsGroup
  <2>3. /\ g \in Seq(Nat) /\ Ascending(g) /\ 1 \in DOMAIN g
        /\ \A j \in DOMAIN g : /\ g[j] \in 1..Outputs /\ ~IsDeferred(g[j])
                               /\ SlotOf(g[j]) = Slot(key) /\ IsGenesis(g[j])
    BY <1>1, <2>2, GroupMembers
  <2>4. g \in [1..Len(g) -> 1..Outputs] /\ Len(g) \in Nat /\ DOMAIN g = 1..Len(g)
    <3>1. g \in Seq(Nat) /\ \A j \in DOMAIN g : g[j] \in 1..Outputs
      BY <2>3
    <3> HIDE DEF g
    <3>2. g \in [1..Len(g) -> Nat] /\ Len(g) \in Nat /\ DOMAIN g = 1..Len(g)
      BY <3>1
    <3> QED  BY <3>1, <3>2
  <2>5. Len(g) \in 1..Outputs
    <3> DEFINE S == {g[j] : j \in DOMAIN g}
    <3>1. S \in SUBSET (1..Outputs)
      BY <2>3
    <3>2. IsFiniteSet(1..Outputs) /\ Cardinality(1..Outputs) = Outputs
      BY <1>2, FS_Interval
    <3>3. Cardinality(S) <= Outputs
      <4> HIDE DEF S
      <4> QED  BY <3>1, <3>2, FS_Subset
    <3>4. Cardinality(S) = Len(g)
      <4> HIDE DEF g
      <4> QED  BY <2>3, AscendingLists
    <3> HIDE DEF S, g
    <3> QED  BY <1>2, <2>3, <2>4, <3>3, <3>4
  <2>6. spawns[k] \in Seq(Actor)
    BY <1>5
  <2>7. DOMAIN g = DOMAIN spawns[k] /\ \A j \in DOMAIN g : ctx.outputs[g[j]].owner = spawns[k][j]
    <3>1. Len(g) = Len(spawns[k]) /\ \A j \in DOMAIN g : ctx.outputs[g[j]].owner = spawns[k][j]
      BY <2>1 DEF IsDeclared
    <3> HIDE DEF g, spawns
    <3> QED  BY <2>4, <2>6, <3>1
  <2>8. \A j \in DOMAIN g : spawns[k][j] \in Actor
    <3> HIDE DEF g, spawns
    <3> QED  BY <2>6, <2>7
  <2> QED  BY <2>2, <2>3, <2>4, <2>5, <2>7, <2>8
<1>7. w \in Witnesses(Unsigned, ctx.inputs[i].entry)
  <2>1. \A k \in DOMAIN spawns : w[k] \in UNION {[1..n -> 1..Outputs] : n \in 1..Outputs}
    <3> SUFFICES ASSUME NEW k \in DOMAIN spawns
                 PROVE  \E n \in 1..Outputs : w[k] \in [1..n -> 1..Outputs]
      OBVIOUS
    <3> HIDE DEF w, spawns
    <3> QED  BY <1>6
  <2>2. w \in [DOMAIN spawns -> UNION {[1..n -> 1..Outputs] : n \in 1..Outputs}]
    <3>1. w = [k \in DOMAIN w |-> w[k]]
      BY <1>4
    <3> HIDE DEF w, spawns
    <3> QED  BY <1>4, <2>1, <3>1
  <2>3. \A k \in DOMAIN spawns : DOMAIN w[k] = DOMAIN spawns[k]
    BY <1>6
  <2>4. DOMAIN Unsigned.outputs = 1..Outputs /\ Len(Unsigned.outputs) = Outputs
    BY <1>2 DEF Unsigned
  <2> HIDE DEF w
  <2> QED  BY <2>2, <2>3, <2>4 DEF Witnesses
<1>8. ASSUME NEW k \in DOMAIN spawns, NEW j \in DOMAIN w[k]
      PROVE  /\ built[w[k][j]].script.p2sh
             /\ built[w[k][j]].script.redeem.actor = spawns[k][j]
             /\ built[w[k][j]].script = [p2sh |-> TRUE, redeem |-> built[w[k][j]].script.redeem]
  <2>1. w[k][j] \in 1..Outputs /\ ~IsDeferred(w[k][j])
        /\ ctx.outputs[w[k][j]].owner = spawns[k][j] /\ spawns[k][j] \in Actor
    BY <1>6
  <2>2. built[w[k][j]].script = ScriptOf(w[k][j], Static)
    BY <1>1, <2>1, BuiltOutputs DEF ResolvedOutput, StateOf
  <2>3. spawns[k][j] # Alien
    BY <2>1, GenesisAssumption
  <2> HIDE DEF w, spawns
  <2> QED  BY <2>1, <2>2, <2>3 DEF ScriptOf
<1>9. SpawnRoutes(Unsigned, i, w)
  <2>1. Unsigned.outputs = built /\ Unsigned.inputs = ctx.inputs
    BY DEF Unsigned
  <2>2. \A k \in DOMAIN spawns : \A j \in DOMAIN w[k] :
          built[w[k][j]].script.p2sh /\ built[w[k][j]].script.redeem.actor = spawns[k][j]
    BY <1>8
  <2> HIDE DEF w
  <2> QED  BY <2>1, <2>2 DEF SpawnRoutes
<1>10. SpawnPrelude(Unsigned, i, w)
  <2> SUFFICES ASSUME NEW k \in DOMAIN spawns
               PROVE  /\ k > 1 => w[k - 1][1] < w[k][1]
                      /\ built[w[k][1]].id = SpawnedId(Unsigned, i, w, k)
    BY DEF SpawnPrelude, Unsigned
  <2>1. k > 1 => w[k - 1][1] < w[k][1]
    <3> SUFFICES ASSUME k > 1 PROVE w[k - 1][1] < w[k][1]
      OBVIOUS
    <3>1. k - 1 \in DOMAIN spawns
      <4> HIDE DEF spawns
      <4> QED  BY <1>5
    <3>2. NamedGroup(i, k - 1)[1] < NamedGroup(i, k)[1]
      BY <1>4 DEF Follows
    <3> QED  BY <1>4, <3>1, <3>2
  <2>2. built[w[k][1]].id = ids[Slot(SpawnKey(i, k))]
    <3>1. w[k][1] \in 1..Outputs /\ IsGenesis(w[k][1]) /\ SlotOf(w[k][1]) = Slot(SpawnKey(i, k))
      BY <1>6
    <3>2. built[w[k][1]].id = Binding(w[k][1]).id
      BY <1>1, <3>1, BuiltOutputs DEF ResolvedOutput
    <3>3. Binding(w[k][1]) = [auth |-> ctx.outputs[w[k][1]].auth, id |-> ids[SlotOf(w[k][1])]]
      BY <3>1 DEF Binding, IsGenesis
    <3> QED  BY <3>1, <3>2, <3>3
  <2>3. ids[Slot(SpawnKey(i, k))] =
          CovenantId(ctx.inputs[i].coin.outpoint, Commitments(Unsigned, w[k]))
    <3>1. SpawnKey(i, k).auth = i
      BY DEF SpawnKey
    <3>2. SpawnKey(i, k) \in DOMAIN groups /\ w[k] = groups[SpawnKey(i, k)]
      BY <1>6
    <3> QED  BY <1>1, <3>1, <3>2, GroupCommits
  <2>4. Commitments(Unsigned, w[k]) = P2SHCommitments(Unsigned, w[k])
    <3>1. Unsigned.outputs = built
      BY DEF Unsigned
    <3> HIDE DEF w, spawns
    <3> QED  BY <1>8, <3>1 DEF Commitments, P2SHCommitments
  <2> QED  BY <2>1, <2>2, <2>3, <2>4 DEF SpawnedId, Unsigned
<1> QED  BY <1>7, <1>9, <1>10 DEF SpawnScriptSucceeds

\* The transaction the builder makes of a context is accepted by consensus and by
\* the spawn checks of every script; a context it refuses for a spawn its script
\* would refuse, and no context makes it panic.
THEOREM BuiltTransactionsAreAccepted == BuilderSpec => []BuiltIsAccepted
<1>1. IInv => BuiltIsAccepted
  <2>1. pass = "built" => AllBuilt /\ Unsigned.inputs = ctx.inputs
    BY DEF AllBuilt, Unsigned
  <2> QED  BY <2>1, NeverPanicsStep, ReadsAreFinalStep, SpawnRefusalStep, BindingsAcceptedStep, FoundSucceeds
           DEF BuiltIsAccepted
<1> QED  BY <1>1, PassesAreSound, PTL

-----------------------------------------------------------------------------
(* Packages.                                                               *)

\* A non-empty set of numbers has a least one.
LEMMA LeastNatural ==
  ASSUME NEW T \in SUBSET Nat, T # {}
  PROVE  \E m \in T : \A n \in T : m <= n
<1> DEFINE R == OpToRel(<, Nat)
<1>1. PICK m \in T : \A n \in T : ~ (<<n, m>> \in R)
  <2> HIDE DEF R
  <2>1. IsWellFoundedOn(R, Nat)
    BY NatLessThanWellFounded DEF R
  <2> QED  BY <2>1, WFMin
<1>2. \A n \in T : n < m => <<n, m>> \in R
  BY DEF OpToRel
<1> HIDE DEF R
<1>3. ASSUME NEW n \in T
      PROVE  m <= n
  <2>1. m \in Nat /\ n \in Nat /\ ~(n < m)
    BY <1>1, <1>2
  <2> QED  BY <2>1
<1> QED  BY <1>3

\* There is one way to list a set in ascending order.
LEMMA OneAscendingList ==
  ASSUME NEW n \in Nat, NEW S \in SUBSET Nat, NEW v \in [1..n -> S], NEW w \in [1..n -> S],
         Ascending(v), Ascending(w),
         \A x \in S : \E j \in 1..n : v[j] = x,
         \A x \in S : \E j \in 1..n : w[j] = x
  PROVE  v = w
<1> DEFINE T == {j \in 1..n : v[j] # w[j]}
<1>1. ASSUME T # {} PROVE FALSE
  <2>1. PICK m \in T : \A j \in T : m <= j
    <3>1. T \in SUBSET Nat
      OBVIOUS
    <3> HIDE DEF T
    <3> QED  BY <1>1, <3>1, LeastNatural
  <2>2. m \in 1..n /\ v[m] # w[m] /\ v[m] \in Nat /\ w[m] \in Nat
    OBVIOUS
  <2>3. \A j \in 1..n : j < m => v[j] = w[j]
    <3> SUFFICES ASSUME NEW j \in 1..n, j < m, v[j] # w[j] PROVE FALSE
      OBVIOUS
    <3>1. m <= j
      BY <2>1
    <3> QED  BY <2>2, <3>1
  <2>4. PICK k \in 1..n : v[k] = w[m]
    BY <2>2
  <2>5. PICK l \in 1..n : w[l] = v[m]
    BY <2>2
  <2> HIDE DEF T
  <2>6. m < k
    <3>1. CASE k < m
      <4>1. w[k] = w[m]
        BY <2>3, <2>4, <3>1
      <4>2. w[k] < w[m]
        BY <2>2, <3>1 DEF Ascending
      <4> QED  BY <2>2, <4>1, <4>2
    <3> QED  BY <2>2, <2>4, <3>1
  <2>7. m < l
    <3>1. CASE l < m
      <4>1. v[l] = v[m]
        BY <2>3, <2>5, <3>1
      <4>2. v[l] < v[m]
        BY <2>2, <3>1 DEF Ascending
      <4> QED  BY <2>2, <4>1, <4>2
    <3> QED  BY <2>2, <2>5, <3>1
  <2>8. v[m] < w[m]
    BY <2>2, <2>4, <2>6 DEF Ascending
  <2>9. w[m] < v[m]
    BY <2>2, <2>5, <2>7 DEF Ascending
  <2> QED  BY <2>2, <2>8, <2>9
<1> QED  BY <1>1

\* The slot of a genesis output is that of one group, which the other outputs of the
\* slot are the members of.
LEMMA SlotGroup ==
  ASSUME IInv, AllBuilt, NEW s \in Slots
  PROVE  \E key \in DOMAIN groups :
           /\ s = Slot(key) /\ s.auth = key.auth
           /\ \A o \in 1..Outputs : InGroup(o, s.auth, s.path) <=> IsGenesis(o) /\ KeyOf(o) = key
<1>1. /\ ValidContext(ctx) /\ Accepted(Outputs) /\ Grouped(Outputs)
      /\ DOMAIN ctx.outputs = 1..Outputs /\ Outputs \in Nat
  BY Sizes DEF IInv, WithIds, AllBuilt
<1>2. PICK q \in 1..Outputs : IsGenesis(q) /\ s = SlotOf(q)
  BY <1>1 DEF Slots
<1> DEFINE key == KeyOf(q)
<1>3. \A o \in 1..Outputs : IsGenesis(o) => SlotOf(o) = Slot(KeyOf(o))
  BY <1>1, GenesisOutput DEF Accepted
<1>4. key \in DOMAIN groups /\ s = Slot(key) /\ s.auth = key.auth
  BY <1>1, <1>2, <1>3 DEF Grouped, Slot
<1>5. ASSUME NEW o \in 1..Outputs
      PROVE  InGroup(o, s.auth, s.path) <=> IsGenesis(o) /\ KeyOf(o) = key
  <2>1. InGroup(o, s.auth, s.path) <=> IsGenesis(o) /\ SlotOf(o) = s
    BY <1>2 DEF InGroup, SlotOf
  <2>2. IsGenesis(o) => (SlotOf(o) = s <=> KeyOf(o) = key)
    BY <1>2, <1>3, SlotsDiffer
  <2> QED  BY <2>1, <2>2
<1> QED  BY <1>4, <1>5

\* What an export lists is the group as it was declared.
LEMMA MembersAreGroup ==
  ASSUME IInv, AllBuilt, NEW s \in Slots, NEW key \in DOMAIN groups,
         \A o \in 1..Outputs : InGroup(o, s.auth, s.path) <=> IsGenesis(o) /\ KeyOf(o) = key
  PROVE  Members(s.auth, s.path) = groups[key]
<1> DEFINE g == groups[key]
           S == {o \in DOMAIN ctx.outputs : InGroup(o, s.auth, s.path)}
           w == Members(s.auth, s.path)
<1>1. /\ g \in Seq(Nat) /\ Ascending(g)
      /\ \A j \in DOMAIN g : g[j] \in 1..Outputs /\ IsGenesis(g[j]) /\ KeyOf(g[j]) = key
      /\ \A o \in 1..Outputs : IsGenesis(o) /\ KeyOf(o) = key => o \in {g[j] : j \in DOMAIN g}
  BY GroupMembers DEF IInv, AllBuilt
<1>2. DOMAIN ctx.outputs = 1..Outputs
  BY BuiltOutputs
<1>3. S = {g[j] : j \in DOMAIN g}
  <2> HIDE DEF g
  <2> QED  BY <1>1, <1>2
<1>4. /\ g \in [1..Cardinality(S) -> S] /\ IsFiniteSet(S)
      /\ Cardinality(S) \in Nat
  <2> HIDE DEF S, g
  <2> QED  BY <1>1, <1>3, AscendingLists, FS_CardinalityType
<1>5. w \in [1..Cardinality(S) -> S] /\ Ascending(w)
  <2>1. w = CHOOSE v \in [1..Cardinality(S) -> S] : Ascending(v)
    BY DEF Members
  <2> HIDE DEF w, S, g
  <2> QED  BY <1>1, <1>4, <2>1
<1>6. S \in SUBSET Nat
  BY <1>2, BuiltOutputs
<1>7. \A x \in S : \E j \in 1..Cardinality(S) : w[j] = x
  <2> HIDE DEF w, S
  <2> DEFINE n == Cardinality(S)
  <2>1. \A j, k \in 1..n : w[j] = w[k] => j = k
    <3> SUFFICES ASSUME NEW j \in 1..n, NEW k \in 1..n, w[j] = w[k], j # k
                 PROVE  FALSE
      OBVIOUS
    <3>1. n \in Nat /\ w \in [1..n -> S] /\ S \in SUBSET Nat
      BY <1>4, <1>5, <1>6
    <3> HIDE DEF n
    <3>2. (j < k \/ k < j) /\ DOMAIN w = 1..n /\ w[j] \in Nat
      <4>1. j < k \/ k < j
        BY <3>1
      <4>2. DOMAIN w = 1..n
        BY <3>1
      <4>3. w[j] \in S
        BY <3>1
      <4> QED  BY <3>1, <4>1, <4>2, <4>3
    <3>3. w[j] < w[k] \/ w[k] < w[j]
      BY <1>5, <3>2 DEF Ascending
    <3> QED  BY <3>2, <3>3
  <2>2. w \in Injection(1..n, S)
    BY <1>5, <2>1 DEF Injection, IsInjective
  <2>3. Cardinality(1..n) = n
    BY <1>4, FS_Interval
  <2>4. w \in Surjection(1..n, S)
    BY <1>4, <2>2, <2>3, FS_Injection
  <2> QED  BY <2>4 DEF Surjection
<1>8. \A x \in S : \E j \in 1..Cardinality(S) : g[j] = x
  <2> HIDE DEF S, g
  <2>1. DOMAIN g = 1..Cardinality(S)
    BY <1>4
  <2> QED  BY <1>3, <2>1
<1> HIDE DEF S, g, w
<1>9. w = g
  BY <1>1, <1>4, <1>5, <1>6, <1>7, <1>8, OneAscendingList
<1> QED  BY <1>9 DEF w, g

\* The scripts of a group, in order, as its id commits to them.
GroupScripts(key) == [j \in DOMAIN groups[key] |-> <<groups[key][j], ScriptOf(groups[key][j], Static)>>]

\* The id of a group commits to its scripts, every one of which is readable.
LEMMA GroupIds ==
  ASSUME IInv, AllBuilt, NEW key \in DOMAIN groups
  PROVE  /\ ids[Slot(key)] = CovenantId(ctx.inputs[key.auth].coin.outpoint, GroupScripts(key))
         /\ \A j \in DOMAIN groups[key] :
              /\ groups[key][j] \in 1..Outputs
              /\ built[groups[key][j]].script = ScriptOf(groups[key][j], Static)
<1>1. WithIds /\ pass \in {"resolve", "spawns", "refused_spawn", "built"}
  BY DEF IInv, AllBuilt
<1>2. ids[Slot(key)] = CovenantId(ctx.inputs[key.auth].coin.outpoint, GroupScripts(key))
  BY <1>1 DEF WithIds, Identified, Derived, GroupScripts
<1>3. ASSUME NEW j \in DOMAIN groups[key]
      PROVE  /\ groups[key][j] \in 1..Outputs
             /\ built[groups[key][j]].script = ScriptOf(groups[key][j], Static)
  <2> DEFINE o == groups[key][j]
  <2>1. o \in 1..Outputs /\ ~IsDeferred(o)
    BY <1>1, GroupMembers
  <2>2. built[o] = ResolvedOutput(o)
    BY <2>1, BuiltOutputs
  <2> QED  BY <2>1, <2>2 DEF ResolvedOutput, StateOf
<1> QED  BY <1>2, <1>3

\* A package that verifies against the id of a group lists its scripts.
LEMMA VerifiedScripts ==
  ASSUME IInv, AllBuilt, NEW key \in DOMAIN groups, NEW p, Verify(p, ids[Slot(key)])
  PROVE  /\ p.outpoint = ctx.inputs[key.auth].coin.outpoint
         /\ Preimage(p) = GroupScripts(key)
<1>1. CovenantId(p.outpoint, Preimage(p)) = ids[Slot(key)]
  BY DEF Verify, IsConsistent
<1>2. CovenantId(p.outpoint, Preimage(p))
        = CovenantId(ctx.inputs[key.auth].coin.outpoint, GroupScripts(key))
  BY <1>1, GroupIds
<1> QED  BY <1>2 DEF CovenantId

\* From the source, the scripts of a group say which actors are at which outputs.
LEMMA ScriptsTellActors ==
  ASSUME IInv, AllBuilt, NEW key \in DOMAIN groups, NEW app, IsSource(app), NEW outputs,
         Materializes(app, outputs), Materialized(app, outputs) = GroupScripts(key)
  PROVE  Told(outputs) = {[index |-> o, actor |-> ctx.outputs[o].owner, state |-> Static] :
                            o \in {groups[key][j] : j \in DOMAIN groups[key]}}
<1> DEFINE g == groups[key]
           row(j) == <<outputs[j].index,
                       [p2sh |-> TRUE,
                        redeem |-> [actor |-> app.actors[outputs[j].actor], state |-> outputs[j].state]]>>
<1>1. DOMAIN outputs = DOMAIN g
  BY DEF Materialized, GroupScripts
<1>2. ASSUME NEW j \in DOMAIN g
      PROVE  /\ outputs[j].index = g[j] /\ outputs[j].actor = ctx.outputs[g[j]].owner
             /\ outputs[j].state = Static
  <2>1. row(j) = <<g[j], ScriptOf(g[j], Static)>>
    <3>1. Materialized(app, outputs)[j] = row(j)
      BY <1>1 DEF Materialized
    <3>2. GroupScripts(key)[j] = <<g[j], ScriptOf(g[j], Static)>>
      BY DEF GroupScripts
    <3> HIDE DEF row
    <3> QED  BY <3>1, <3>2
  <2>2. /\ outputs[j].index = g[j]
        /\ [p2sh |-> TRUE,
            redeem |-> [actor |-> app.actors[outputs[j].actor], state |-> outputs[j].state]]
             = ScriptOf(g[j], Static)
    BY <2>1
  <2>3. app.actors[outputs[j].actor] = outputs[j].actor
    BY <1>1 DEF Materializes, IsSource
  <2>4. ctx.outputs[g[j]].owner # Alien
    BY <2>2 DEF ScriptOf
  <2>5. [p2sh |-> TRUE, redeem |-> [actor |-> outputs[j].actor, state |-> outputs[j].state]]
          = [p2sh |-> TRUE, redeem |-> [actor |-> ctx.outputs[g[j]].owner, state |-> Static]]
    BY <2>2, <2>3, <2>4 DEF ScriptOf
  <2>6. [actor |-> outputs[j].actor, state |-> outputs[j].state]
          = [actor |-> ctx.outputs[g[j]].owner, state |-> Static]
    BY <2>5
  <2> QED  BY <2>2, <2>6
<1>3. Told(outputs) = {[index |-> g[j], actor |-> ctx.outputs[g[j]].owner, state |-> Static] :
                         j \in DOMAIN g}
  <2> HIDE DEF g
  <2> QED  BY <1>1, <1>2 DEF Told
<1> QED  BY <1>3

\* Whatever a package was made of, one that verifies tells the group it names.
LEMMA PackagesTell ==
  ASSUME IInv, AllBuilt, NEW app, IsSource(app), NEW p
  PROVE  TellsGroups(app, p)
<1> SUFFICES ASSUME NEW s \in Slots
             PROVE  /\ Verify(p, ids[s]) =>
                         /\ p.outpoint = ctx.inputs[s.auth].coin.outpoint
                         /\ {Preimage(p)[j] : j \in DOMAIN Preimage(p)}
                              = {<<o, built[o].script>> : o \in Group(s)}
                    /\ VerifyFromSource(app, p, ids[s]) => Told(p.outputs) = Authored(s)
                    /\ p.layer # "consensus"
                         /\ VerifyBootstrap(app, [app |-> p.app.name, outpoint |-> p.outpoint,
                                                  outputs |-> p.outputs], ids[s]) =>
                         Told(p.outputs) = Authored(s)
  BY DEF TellsGroups
<1>1. PICK key \in DOMAIN groups : s = Slot(key) /\ s.auth = key.auth
  BY SlotGroup
<1> DEFINE g == groups[key]
<1>2. Group(s) = {g[j] : j \in DOMAIN g}
  BY <1>1, GroupIsBound DEF Group
<1>3. ASSUME Verify(p, ids[s])
      PROVE  /\ p.outpoint = ctx.inputs[s.auth].coin.outpoint
             /\ {Preimage(p)[j] : j \in DOMAIN Preimage(p)} = {<<o, built[o].script>> : o \in Group(s)}
  <2>1. p.outpoint = ctx.inputs[key.auth].coin.outpoint /\ Preimage(p) = GroupScripts(key)
    BY <1>1, <1>3, VerifiedScripts
  <2>2. {Preimage(p)[j] : j \in DOMAIN Preimage(p)} = {<<g[j], ScriptOf(g[j], Static)>> : j \in DOMAIN g}
    BY <2>1 DEF GroupScripts
  <2>3. \A j \in DOMAIN g : built[g[j]].script = ScriptOf(g[j], Static)
    BY GroupIds
  <2>4. {<<g[j], ScriptOf(g[j], Static)>> : j \in DOMAIN g} = {<<o, built[o].script>> : o \in Group(s)}
    <3> HIDE DEF g
    <3> QED  BY <1>2, <2>3
  <2> QED  BY <1>1, <2>1, <2>2, <2>4
<1>4. ASSUME NEW q, VerifyFromSource(app, q, ids[s])
      PROVE  Told(q.outputs) = Authored(s)
  <2>1. /\ Verify(q, ids[Slot(key)]) /\ q.app = app /\ q.layer = "argent"
        /\ Materializes(app, q.outputs) /\ Preimage(q) = Materialized(app, q.outputs)
    BY <1>1, <1>4 DEF VerifyFromSource, VerifyArgent, Verify, IsConsistent, Preimage
  <2>2. Materialized(app, q.outputs) = GroupScripts(key)
    BY <2>1, VerifiedScripts
  <2>3. Told(q.outputs) = {[index |-> o, actor |-> ctx.outputs[o].owner, state |-> Static] :
                             o \in {groups[key][j] : j \in DOMAIN groups[key]}}
    BY <2>1, <2>2, ScriptsTellActors
  <2> QED  BY <1>2, <2>3 DEF Authored
<1>5. ASSUME VerifyBootstrap(app, [app |-> p.app.name, outpoint |-> p.outpoint,
                                   outputs |-> p.outputs], ids[s])
      PROVE  Told(p.outputs) = Authored(s)
  <2> DEFINE q == Compose(app, [app |-> p.app.name, outpoint |-> p.outpoint, outputs |-> p.outputs])
  <2>1. q.app = app /\ q.layer = "argent" /\ q.outputs = p.outputs
    BY DEF Compose
  <2>2. Verify(q, ids[s])
    BY <1>5 DEF VerifyBootstrap
  <2>3. VerifyFromSource(app, q, ids[s])
    <3> HIDE DEF q
    <3> QED  BY <2>1, <2>2 DEF VerifyFromSource, VerifyArgent
  <2> HIDE DEF q
  <2> QED  BY <1>4, <2>1, <2>3
<1> QED  BY <1>3, <1>4, <1>5

\* The scripts of an export, rebuilt from its actors and states, are the group's.
LEMMA ExportedScripts ==
  ASSUME IInv, AllBuilt, NEW app, IsSource(app), NEW s \in Slots, Exportable(app, s.auth, s.path),
         NEW key \in DOMAIN groups, s = Slot(key), s.auth = key.auth,
         \A o \in 1..Outputs : InGroup(o, s.auth, s.path) <=> IsGenesis(o) /\ KeyOf(o) = key
  PROVE  LET bootstrap == Export(app, s.auth, s.path)
         IN  /\ Materializes(app, bootstrap.outputs)
             /\ Materialized(app, bootstrap.outputs) = GroupScripts(key)
<1> DEFINE g == groups[key]
           outputs == Export(app, s.auth, s.path).outputs
<1>1. Members(s.auth, s.path) = g
  BY MembersAreGroup
<1>2. outputs = [j \in DOMAIN g |-> [index |-> g[j], actor |-> ctx.outputs[g[j]].owner, state |-> Static]]
  BY <1>1 DEF Export
<1>3. /\ \A j \in DOMAIN g : g[j] \in 1..Outputs /\ IsGenesis(g[j]) /\ KeyOf(g[j]) = key
      /\ DOMAIN ctx.outputs = 1..Outputs
  BY GroupMembers, BuiltOutputs DEF IInv, AllBuilt
<1>4. ASSUME NEW j \in DOMAIN g
      PROVE  LET owner == ctx.outputs[g[j]].owner
             IN  owner \in DOMAIN app.actors /\ app.actors[owner] = owner /\ owner # Alien
  <2>1. InGroup(g[j], s.auth, s.path) /\ g[j] \in DOMAIN ctx.outputs
    BY <1>3
  <2> QED  BY <2>1, GenesisAssumption DEF Exportable, IsSource
<1>5. Materializes(app, outputs)
  BY <1>2, <1>4 DEF Materializes
<1>6. Materialized(app, outputs) = GroupScripts(key)
  <2>1. Materialized(app, outputs) =
          [j \in DOMAIN g |-> <<g[j], [p2sh |-> TRUE, redeem |-> [actor |-> app.actors[ctx.outputs[g[j]].owner],
                                                                  state |-> Static]]>>]
    BY <1>2 DEF Materialized
  <2>2. \A j \in DOMAIN g :
          [p2sh |-> TRUE, redeem |-> [actor |-> app.actors[ctx.outputs[g[j]].owner], state |-> Static]]
            = ScriptOf(g[j], Static)
    BY <1>4 DEF ScriptOf
  <2> QED  BY <2>1, <2>2 DEF GroupScripts
<1> QED  BY <1>5, <1>6

\* An exported group composes to a package that verifies at every layer.
LEMMA ExportsVerify ==
  ASSUME IInv, AllBuilt, NEW app, IsSource(app), NEW s \in Slots, Exportable(app, s.auth, s.path)
  PROVE  LET bootstrap == Export(app, s.auth, s.path)
             package == Compose(app, bootstrap)
         IN  /\ Composable(app, bootstrap)
             /\ \A layer \in Layers(package) : Verify(Lowered(package, layer), ids[s])
             /\ VerifyFromSource(app, package, ids[s])
<1>1. PICK key \in DOMAIN groups :
        /\ s = Slot(key) /\ s.auth = key.auth
        /\ \A o \in 1..Outputs : InGroup(o, s.auth, s.path) <=> IsGenesis(o) /\ KeyOf(o) = key
  BY SlotGroup
<1> DEFINE g == groups[key]
           bootstrap == Export(app, s.auth, s.path)
           outputs == bootstrap.outputs
           outpoint == ctx.inputs[s.auth].coin.outpoint
           scripts == GroupScripts(key)
           package == Compose(app, bootstrap)
<1>2. Materializes(app, outputs) /\ Materialized(app, outputs) = scripts
  BY <1>1, ExportedScripts
<1>3. bootstrap.app = app.name /\ bootstrap.outpoint = outpoint
  BY DEF Export
<1>4. ids[s] = CovenantId(outpoint, scripts)
  BY <1>1, GroupIds
<1>5. InOrder(scripts)
  <2>1. g \in Seq(Nat) /\ Ascending(g) /\ 1 \in DOMAIN g
    BY GroupMembers DEF IInv, AllBuilt
  <2>2. DOMAIN scripts = DOMAIN g /\ \A j \in DOMAIN g : scripts[j][1] = g[j]
    BY DEF GroupScripts
  <2>3. scripts = [j \in 1..Len(g) |-> scripts[j]] /\ Len(g) \in Nat /\ DOMAIN g = 1..Len(g)
    BY <2>1 DEF GroupScripts
  <2> HIDE DEF g, scripts
  <2>4. Len(scripts) = Len(g) /\ scripts # <<>>
    BY <2>1, <2>2, <2>3
  <2>5. \A j \in 1..(Len(g) - 1) : g[j] < g[j + 1] /\ j \in DOMAIN g /\ j + 1 \in DOMAIN g
    BY <2>1, <2>3 DEF Ascending
  <2> QED  BY <2>2, <2>4, <2>5 DEF InOrder
<1>6. Composable(app, bootstrap)
  <2> HIDE DEF bootstrap, scripts
  <2> QED  BY <1>2, <1>3, <1>5 DEF Composable
<1>7. package = [layer |-> "argent", app |-> app, outpoint |-> outpoint, claim |-> ids[s],
                 outputs |-> outputs]
  <2> HIDE DEF bootstrap, scripts, outpoint
  <2> QED  BY <1>2, <1>3, <1>4 DEF Compose
<1>8. \A layer \in Layers(package) : Verify(Lowered(package, layer), ids[s])
  <2> SUFFICES ASSUME NEW layer \in Layers(package)
               PROVE  Verify(Lowered(package, layer), ids[s])
    OBVIOUS
  <2> DEFINE low == Lowered(package, layer)
  <2>1. layer \in {"argent", "sil", "consensus"}
    BY DEF Layers
  <2>2. low = [layer |-> layer, app |-> app, outpoint |-> outpoint, claim |-> ids[s],
               outputs |-> IF layer = "consensus" THEN scripts ELSE outputs]
    <3> DEFINE told == IF layer = "consensus" THEN scripts ELSE outputs
    <3> HIDE DEF package, outputs, scripts, outpoint, bootstrap
    <3>1. package.outputs = outputs /\ package.app = app
      BY <1>7
    <3>2. (IF layer = "consensus" THEN Materialized(package.app, package.outputs)
           ELSE package.outputs) = told
      BY <1>2, <3>1
    <3>3. Lowered(package, layer) = [package EXCEPT !.layer = layer, !.outputs = told]
      BY <3>2 DEF Lowered
    <3> HIDE DEF told
    <3>4. Lowered(package, layer) = [layer |-> layer, app |-> app, outpoint |-> outpoint,
                                     claim |-> ids[s], outputs |-> told]
      BY <1>7, <3>3
    <3> QED  BY <3>4 DEF told
  <2>3. Preimage(low) = scripts /\ (layer # "consensus" => Materializes(low.app, low.outputs))
    <3> HIDE DEF package, outputs, scripts, outpoint, low
    <3> QED  BY <1>2, <2>2 DEF Preimage
  <2> HIDE DEF low, package, scripts, outputs, outpoint
  <2> QED  BY <1>4, <1>5, <2>2, <2>3 DEF Verify, IsConsistent, low
<1>9. VerifyFromSource(app, package, ids[s])
  <2>1. Preimage(package) = scripts /\ package.app = app /\ package.layer = "argent"
        /\ package.outputs = outputs /\ package.outpoint = outpoint /\ package.claim = ids[s]
    <3> HIDE DEF package, outputs, scripts, outpoint
    <3> QED  BY <1>2, <1>7 DEF Preimage
  <2> HIDE DEF package, scripts, outputs, outpoint
  <2> QED  BY <1>2, <1>4, <1>5, <2>1 DEF VerifyFromSource, VerifyArgent, Verify, IsConsistent
<1> QED  BY <1>6, <1>8, <1>9

\* A group exported before its transaction exists verifies against the id the chain
\* gives it, and nothing made of it verifies while telling another story.
THEOREM PackagesAreTruthful == BuilderSpec => []PackagesTellGroups
<1>1. IInv => PackagesTellGroups
  <2>1. pass = "built" => AllBuilt
    BY DEF AllBuilt
  <2> QED  BY <2>1, ExportsVerify, PackagesTell DEF PackagesTellGroups
<1> QED  BY <1>1, PassesAreSound, PTL
====
