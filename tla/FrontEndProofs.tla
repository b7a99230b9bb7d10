--------------------------- MODULE FrontEndProofs ---------------------------
(***************************************************************************)
(* Proofs about AppGraph, for every set of programs and of selected apps,   *)
(* and about DeclarationNames, for every set of build units.                *)
(***************************************************************************)
EXTENDS AppGraph, DeclarationNames, FiniteSetTheorems, SequenceTheorems,
        WellFoundedInduction, TLAPS

-----------------------------------------------------------------------------
(* Closures.                                                               *)

\* A non-empty set of numbers has a least one.
LEMMA LeastNatural ==
  ASSUME NEW T \in SUBSET Nat, T # {}
  PROVE  \E m \in T : \A n \in T : m <= n
<1> DEFINE R == OpToRel(<, Nat)
<1>1. PICK m \in T : \A n \in T : ~ (<<n, m>> \in R)
  <2> HIDE DEF R
  <2>1. IsWellFoundedOn(R, Nat)
    BY NatLessThanWellFounded DEF R
  <2> QED  BY <2>1, WFMin
<1>2. \A n \in T : n < m => <<n, m>> \in R
  BY DEF OpToRel
<1> HIDE DEF R
<1>3. ASSUME NEW n \in T
      PROVE  m <= n
  <2>1. m \in Nat /\ n \in Nat /\ ~(n < m)
    BY <1>1, <1>2
  <2> QED  BY <2>1
<1> QED  BY <1>3

\* A step that adds to a set, and more to a larger one; what repeating it gives.
Grows(D, W) ==
  /\ W \in [SUBSET D -> SUBSET D]
  /\ \A S \in SUBSET D : S \subseteq W[S]
  /\ \A S, C \in SUBSET D : S \subseteq C => W[S] \subseteq W[C]

Repeats(f, D, W) == f = [S \in SUBSET D |-> IF W[S] = S THEN S ELSE f[W[S]]]

\* Repeating a growing step is well defined.
LEMMA ClosureExists ==
  ASSUME NEW D, NEW W, Grows(D, W)
  PROVE  \E f : Repeats(f, D, W)
<1> DEFINE Smallest(S) == {d \in D : \A C \in SUBSET D : S \subseteq C /\ W[C] = C => d \in C}
           f == [S \in SUBSET D |-> Smallest(S)]
<1>1. ASSUME NEW S \in SUBSET D
      PROVE  Smallest(S) = IF W[S] = S THEN S ELSE Smallest(W[S])
  <2>1. CASE W[S] = S
    BY <2>1
  <2>2. \A C \in SUBSET D : W[C] = C => (S \subseteq C <=> W[S] \subseteq C)
    BY DEF Grows
  <2> QED  BY <2>1, <2>2
<1>2. \A S \in SUBSET D : f[S] = Smallest(S) /\ W[S] \in SUBSET D
  BY DEF Grows
<1> HIDE DEF Smallest
<1>3. f = [S \in SUBSET D |-> IF W[S] = S THEN S ELSE f[W[S]]]
  BY <1>1, <1>2
<1> QED  BY <1>3 DEF Repeats

\* What it gives is the least closed set that holds the set.
LEMMA ClosureFacts ==
  ASSUME NEW D, IsFiniteSet(D), NEW W, Grows(D, W), NEW f, Repeats(f, D, W),
         NEW R \in SUBSET D
  PROVE  /\ f[R] \in SUBSET D /\ R \subseteq f[R] /\ W[f[R]] = f[R]
         /\ \A C \in SUBSET D : R \subseteq C /\ W[C] = C => f[R] \subseteq C
<1> DEFINE Good(S) == /\ f[S] \in SUBSET D /\ S \subseteq f[S] /\ W[f[S]] = f[S]
                      /\ \A C \in SUBSET D : S \subseteq C /\ W[C] = C => f[S] \subseteq C
           Bad == {S \in SUBSET D : ~Good(S)}
           Size(S) == Cardinality(D \ S)
           Sizes == {Size(S) : S \in Bad}
<1>1. \A S \in SUBSET D : f[S] = IF W[S] = S THEN S ELSE f[W[S]]
  BY DEF Repeats
<1>2. ASSUME NEW S \in SUBSET D
      PROVE  IsFiniteSet(D \ S) /\ Size(S) \in Nat
  <2>1. D \ S \in SUBSET D
    OBVIOUS
  <2> QED  BY <2>1, FS_Subset, FS_CardinalityType
<1>3. \A S \in SUBSET D : W[S] = S => Good(S)
  BY <1>1
<1>4. ASSUME NEW S \in SUBSET D, W[S] # S
      PROVE  /\ W[S] \in SUBSET D /\ Size(W[S]) < Size(S)
             /\ Good(W[S]) => Good(S)
  <2>1. W[S] \in SUBSET D /\ S \subseteq W[S] /\ f[S] = f[W[S]]
    BY <1>1, <1>4 DEF Grows
  <2>2. D \ W[S] \in SUBSET (D \ S) /\ D \ W[S] # D \ S
    BY <1>4, <2>1
  <2>3. Size(W[S]) <= Size(S) /\ Size(W[S]) # Size(S)
    BY <1>2, <2>2, FS_Subset
  <2>4. Size(W[S]) \in Nat /\ Size(S) \in Nat
    BY <1>2, <2>1
  <2>5. \A C \in SUBSET D : S \subseteq C /\ W[C] = C => W[S] \subseteq C
    BY DEF Grows
  <2>6. Good(W[S]) => Good(S)
    BY <2>1, <2>5
  <2> HIDE DEF Size, Good
  <2> QED  BY <2>1, <2>3, <2>4, <2>6
<1> HIDE DEF Size, Good
<1>5. SUFFICES ASSUME Bad # {} PROVE FALSE
  BY <1>5 DEF Good
<1>6. Sizes \in SUBSET Nat /\ Sizes # {}
  BY <1>2, <1>5
<1>7. PICK m \in Sizes : \A n \in Sizes : m <= n
  <2> HIDE DEF Sizes
  <2> QED  BY <1>6, LeastNatural
<1>8. PICK S \in Bad : m = Size(S)
  BY <1>7
<1>9. W[S] # S /\ W[S] \in Bad /\ Size(W[S]) < Size(S)
  BY <1>3, <1>4, <1>8
<1>10. Size(S) <= Size(W[S])
  BY <1>7, <1>8, <1>9
<1>11. Size(S) \in Nat /\ Size(W[S]) \in Nat
  BY <1>2, <1>8, <1>9
<1> QED  BY <1>9, <1>10, <1>11

\* What an app depends on: apps that declarations of the program refer to.
LEMMA DependenciesFacts ==
  ASSUME program \in Programs, NEW app \in DOMAIN program.apps
  PROVE  Dependencies(app) \subseteq UNION {program.members[d] : d \in DOMAIN program.members}
<1> DEFINE D == DOMAIN program.uses
           W == [S \in SUBSET D |-> Used(S)]
           R == program.shared[app[1]] \cup program.apps[app]
<1>1. /\ IsFiniteSet(D) /\ DOMAIN program.members = D /\ R \in SUBSET D
      /\ \A d \in D : program.uses[d] \subseteq D
  BY AppGraphAssumption DEF ValidProgram
<1>2. Grows(D, W) /\ \A S \in SUBSET D : W[S] = Used(S)
  BY <1>1 DEF Used, Grows
<1> HIDE DEF W
<1>3. \E f : Repeats(f, D, W)
  BY <1>2, ClosureExists
<1>4. \E f : f = [S \in SUBSET D |-> IF Used(S) = S THEN S ELSE f[Used(S)]]
  BY <1>2, <1>3 DEF Repeats
<1>5. Closure = [S \in SUBSET D |-> IF Used(S) = S THEN S ELSE Closure[Used(S)]]
  BY <1>4 DEF Closure
<1>6. Repeats(Closure, D, W)
  BY <1>2, <1>5 DEF Repeats
<1>7. Closure[R] \in SUBSET D
  <2> HIDE DEF D, R
  <2> QED  BY <1>1, <1>2, <1>6, ClosureFacts
<1> QED  BY <1>1, <1>7 DEF Dependencies, AppDeclarations

\* What all apps are, and which the selected one needs: the least set that holds it
\* and, of every declared app in it, what that depends on.
LEMMA NeededFacts ==
  ASSUME program \in Programs, root \in Roots
  PROVE  /\ AllApps \subseteq Nat \X Nat /\ DOMAIN program.apps \subseteq AllApps
         /\ root \in Needed /\ Needed \subseteq AllApps
         /\ \A app \in DOMAIN program.apps :
              /\ Dependencies(app) \subseteq AllApps
              /\ app \in Needed => Dependencies(app) \subseteq Needed
         /\ \A C \in SUBSET AllApps :
              root \in C /\ (\A app \in C \cap DOMAIN program.apps : Dependencies(app) \subseteq C)
                => Needed \subseteq C
<1> DEFINE W == [S \in SUBSET AllApps |-> Lead(S)]
           R == {root}
<1>1. /\ AllApps \subseteq Nat \X Nat /\ DOMAIN program.apps \subseteq AllApps /\ R \in SUBSET AllApps
      /\ IsFiniteSet(AllApps)
  <2> DEFINE named == DOMAIN program.apps \cup UNION {program.members[d] : d \in DOMAIN program.members}
  <2>1. ValidProgram(program) /\ root \in Nat \X Nat
    BY AppGraphAssumption
  <2>2. AllApps = named \cup {root}
    BY DEF AllApps
  <2>3. IsFiniteSet(named) /\ named \subseteq Nat \X Nat
    BY <2>1 DEF ValidProgram
  <2>4. DOMAIN program.apps \subseteq named
    OBVIOUS
  <2> HIDE DEF named
  <2> QED  BY <2>1, <2>2, <2>3, <2>4, FS_AddElement
<1>2. \A app \in DOMAIN program.apps : Dependencies(app) \subseteq AllApps
  BY DependenciesFacts DEF AllApps
<1>3. Grows(AllApps, W) /\ \A S \in SUBSET AllApps : W[S] = Lead(S)
  BY <1>2 DEF Lead, Grows
<1> HIDE DEF W
<1>4. \E f : Repeats(f, AllApps, W)
  BY <1>3, ClosureExists
<1>5. \E f : f = [S \in SUBSET AllApps |-> IF Lead(S) = S THEN S ELSE f[Lead(S)]]
  BY <1>3, <1>4 DEF Repeats
<1>6. NeededFrom = [S \in SUBSET AllApps |-> IF Lead(S) = S THEN S ELSE NeededFrom[Lead(S)]]
  BY <1>5 DEF NeededFrom
<1>7. Repeats(NeededFrom, AllApps, W)
  BY <1>3, <1>6 DEF Repeats
<1>8. /\ NeededFrom[R] \in SUBSET AllApps /\ R \subseteq NeededFrom[R]
      /\ W[NeededFrom[R]] = NeededFrom[R]
      /\ \A C \in SUBSET AllApps : R \subseteq C /\ W[C] = C => NeededFrom[R] \subseteq C
  <2> HIDE DEF R
  <2> QED  BY <1>1, <1>3, <1>7, ClosureFacts
<1>9. \A S \in SUBSET AllApps :
        W[S] = S <=> \A app \in S \cap DOMAIN program.apps : Dependencies(app) \subseteq S
  <2> SUFFICES ASSUME NEW S \in SUBSET AllApps
               PROVE  Lead(S) = S <=> \A app \in S \cap DOMAIN program.apps : Dependencies(app) \subseteq S
    BY <1>3
  <2> QED  BY DEF Lead
<1>10. Needed = NeededFrom[R]
  BY DEF Needed
<1> QED  BY <1>1, <1>2, <1>8, <1>9, <1>10

\* A set of apps has a first one, in the order they are visited.
LEMMA LeastApp ==
  ASSUME NEW T \in SUBSET (Nat \X Nat), T # {}
  PROVE  Least(T) \in T
<1> DEFINE sources == {app[1] : app \in T}
<1>1. sources \in SUBSET Nat /\ sources # {}
  OBVIOUS
<1>2. PICK m \in sources : \A n \in sources : m <= n
  <2> HIDE DEF sources
  <2> QED  BY <1>1, LeastNatural
<1> DEFINE named == {app[2] : app \in {b \in T : b[1] = m}}
<1>3. named \in SUBSET Nat /\ named # {}
  BY <1>2
<1>4. PICK k \in named : \A n \in named : k <= n
  <2> HIDE DEF named
  <2> QED  BY <1>3, LeastNatural
<1>5. PICK app \in T : app[1] = m /\ app[2] = k
  BY <1>4
<1>6. \A other \in T : other = app \/ Before(app, other)
  <2> SUFFICES ASSUME NEW other \in T, other # app PROVE Before(app, other)
    OBVIOUS
  <2>1. m <= other[1] /\ m \in Nat /\ k \in Nat /\ other[1] \in Nat /\ other[2] \in Nat
    BY <1>1, <1>2, <1>3
  <2>2. other[1] = m => k <= other[2]
    BY <1>4
  <2>3. other = <<other[1], other[2]>> /\ app = <<m, k>>
    BY <1>5
  <2>4. other[1] # m \/ other[2] # k
    BY <2>3
  <2> HIDE DEF sources, named
  <2>5. m < other[1] \/ (m = other[1] /\ k < other[2])
    BY <2>1, <2>2, <2>4
  <2> QED  BY <1>5, <2>5 DEF Before
<1> QED  BY <1>6 DEF Least

-----------------------------------------------------------------------------
(* The invariant.                                                          *)

Visits == complete \cup Range(Active)

\* The stack is a path from the selected app; the dependencies of an app on it are
\* complete, still to be visited, or the next app on it.
Path ==
  /\ stack \in Seq([app : DOMAIN program.apps, pending : SUBSET AllApps])
  /\ stack # <<>> => stack[1].app = root
  /\ \A i \in DOMAIN stack :
       /\ stack[i].app \notin complete
       /\ stack[i].pending \subseteq Dependencies(stack[i].app)
       /\ \A d \in Dependencies(stack[i].app) :
            d \in complete \cup stack[i].pending \/ (i < Len(stack) /\ stack[i + 1].app = d)
       /\ i < Len(stack) => stack[i + 1].app \in Dependencies(stack[i].app)
       /\ \A j \in DOMAIN stack : stack[i].app = stack[j].app => i = j

\* Complete apps are in order, each after what it depends on.
Ordered ==
  /\ order \in Seq(DOMAIN program.apps) /\ IsInjective(order) /\ Range(order) = complete
  /\ \A i \in DOMAIN order : \A d \in Dependencies(order[i]) :
       \E j \in 1..(i - 1) : order[j] = d

\* Unless a visit was refused, every visited app is needed and the one of its name,
\* and every name is that of a needed app.
OneSource ==
  outcome # "refused" =>
    /\ \A app \in Visits :
         app \in Needed /\ app[2] \in DOMAIN appSources /\ appSources[app[2]] = app[1]
    /\ \A n \in DOMAIN appSources : <<appSources[n], n>> \in Needed

\* The plan ends when the selected app is complete.
Planned ==
  /\ outcome \in {"plan", "build", "built", "refused"}
  /\ outcome = "plan" /\ stack = <<>> => order = <<>>
  /\ outcome \in {"build", "built"} => stack = <<>> /\ root \in complete

\* The first k units are compiled.
BuiltTo(k) ==
  /\ DOMAIN artifacts = {order[j][2] : j \in 1..k}
  /\ \A j \in 1..k : artifacts[order[j][2]] = order[j]

Linking ==
  /\ outcome \in {"plan", "refused"} => artifacts = <<>>
  /\ IsFiniteSet(DOMAIN artifacts) /\ Compiled \in 0..Len(order) /\ BuiltTo(Compiled)
  /\ \A link \in linked : link[3] = link[2]

PlanInv ==
  /\ program \in Programs /\ root \in Roots
  /\ Path /\ Ordered /\ OneSource /\ Planned /\ Linking
  /\ RefusalJustified

-----------------------------------------------------------------------------
(* Steps of the planner.                                                   *)

\* What an app depends on, and what is needed, reads the program and the selected app.
LEMMA ProgramFrame ==
  ASSUME UNCHANGED <<program, root>>
  PROVE  /\ \A app : Dependencies(app)' = Dependencies(app)
         /\ AllApps' = AllApps /\ Needed' = Needed
BY DEF Dependencies, AppDeclarations, Closure, Used, AllApps, Needed, NeededFrom, Lead

\* What is on the stack.
LEMMA StackFacts ==
  ASSUME PlanInv
  PROVE  /\ Len(stack) \in Nat /\ DOMAIN stack = 1..Len(stack)
         /\ stack # <<>> => Len(stack) \in 1..Len(stack)
         /\ \A i \in DOMAIN stack :
              /\ stack[i].app \in DOMAIN program.apps
              /\ stack[i].pending \in SUBSET AllApps
              /\ stack[i].pending \subseteq Dependencies(stack[i].app)
              /\ stack[i].app \in Visits
<1>1. /\ stack \in Seq([app : DOMAIN program.apps, pending : SUBSET AllApps])
      /\ \A i \in DOMAIN stack : stack[i].pending \subseteq Dependencies(stack[i].app)
  BY DEF PlanInv, Path
<1>2. /\ Len(stack) \in Nat /\ DOMAIN stack = 1..Len(stack)
      /\ stack # <<>> => Len(stack) \in 1..Len(stack)
  BY <1>1
<1>3. ASSUME NEW i \in DOMAIN stack
      PROVE  stack[i].app \in DOMAIN program.apps /\ stack[i].pending \in SUBSET AllApps
  <2> DEFINE T == [app : DOMAIN program.apps, pending : SUBSET AllApps]
  <2>1. stack[i] \in T
    <3>1. stack \in Seq(T)
      BY <1>1
    <3> HIDE DEF T
    <3> QED  BY <3>1
  <2> QED  BY <2>1
<1>4. \A i \in DOMAIN stack : stack[i].app \in Visits
  BY DEF Active, Visits, Range
<1> QED  BY <1>1, <1>2, <1>3, <1>4

\* The path, the order and the names read their own variables.
LEMMA PlanFrame ==
  ASSUME UNCHANGED <<program, root>>
  PROVE  /\ UNCHANGED <<complete, stack>> => Path' = Path
         /\ UNCHANGED <<complete, order>> => Ordered' = Ordered
         /\ UNCHANGED <<order, buildVars>> /\ outcome \in {"plan", "refused"}
              => (Linking => Linking')
<1>1. UNCHANGED <<complete, stack>> => Path' = Path
  BY ProgramFrame DEF Path
<1>2. UNCHANGED <<complete, order>> => Ordered' = Ordered
  BY ProgramFrame DEF Ordered
<1>3. ASSUME UNCHANGED <<order, buildVars>>, outcome \in {"plan", "refused"}, Linking
      PROVE  Linking'
  <2>1. UNCHANGED <<order, artifacts, linked>> /\ artifacts = <<>>
    BY <1>3 DEF buildVars, Linking
  <2>2. Compiled' = Compiled
    BY <2>1 DEF Compiled
  <2>3. BuiltTo(Compiled)' = BuiltTo(Compiled)
    BY <2>1, <2>2 DEF BuiltTo
  <2> QED  BY <1>3, <2>1, <2>2, <2>3 DEF Linking
<1> QED  BY <1>1, <1>2, <1>3

\* The app visit is called on is needed; unless it is the selected one, the last app
\* of the stack depends on it.
LEMMA WantedFacts ==
  ASSUME PlanInv, Calling
  PROVE  /\ Wanted \in Needed /\ Wanted \in AllApps /\ Wanted \in Nat \X Nat
         /\ stack = <<>> => Wanted = root
         /\ stack # <<>> =>
              /\ Len(stack) \in DOMAIN stack
              /\ Wanted \in stack[Len(stack)].pending
              /\ Wanted \in Dependencies(stack[Len(stack)].app)
              /\ Wanted = Least(stack[Len(stack)].pending)
<1>1. CASE stack = <<>>
  <2>1. Wanted = root
    BY <1>1 DEF Wanted
  <2> QED  BY <1>1, <2>1, NeededFacts DEF PlanInv
<1>2. CASE stack # <<>>
  <2> DEFINE last == stack[Len(stack)]
  <2>1. /\ Len(stack) \in DOMAIN stack /\ last.app \in DOMAIN program.apps
        /\ last.pending \in SUBSET AllApps /\ last.pending \subseteq Dependencies(last.app)
    BY <1>2, StackFacts
  <2>2. last.pending # {} /\ Wanted = Least(last.pending)
    BY <1>2 DEF Calling, Wanted, Last
  <2>3. last.pending \in SUBSET (Nat \X Nat)
    BY <2>1, NeededFacts DEF PlanInv
  <2>4. Wanted \in last.pending
    <3> HIDE DEF last
    <3> QED  BY <2>2, <2>3, LeastApp
  <2>5. last.app \in Needed
    <3>1. last.app \in Visits
      BY <2>1, StackFacts
    <3> QED  BY <3>1 DEF PlanInv, OneSource, Calling
  <2>6. Wanted \in Needed
    BY <2>1, <2>4, <2>5, NeededFacts DEF PlanInv
  <2> QED  BY <1>2, <2>1, <2>2, <2>3, <2>4, <2>6
<1> QED  BY <1>1, <1>2

\* A refusal that is justified ends the plan.
LEMMA RefusedInv ==
  ASSUME PlanInv, outcome = "plan", outcome' = "refused", RefusalJustified',
         UNCHANGED <<program, root, complete, stack, order, buildVars>>
  PROVE  PlanInv'
<1>1. Path' /\ Ordered' /\ Linking'
  BY PlanFrame DEF PlanInv
<1>2. OneSource' /\ Planned'
  BY DEF OneSource, Planned
<1> QED  BY <1>1, <1>2 DEF PlanInv

\* A conflict is between two needed apps of one name and different sources.
LEMMA ConflictInv == PlanInv /\ RefuseConflict => PlanInv'
<1> SUFFICES ASSUME PlanInv, RefuseConflict PROVE PlanInv'
  OBVIOUS
<1> DEFINE other == <<appSources[Wanted[2]], Wanted[2]>>
<1>1. /\ Calling /\ Wanted[2] \in DOMAIN appSources /\ other[1] # Wanted[1] /\ other[2] = Wanted[2]
      /\ reported' = [conflict |-> {other, Wanted}]
      /\ outcome = "plan" /\ outcome' = "refused"
      /\ UNCHANGED <<program, root, complete, stack, order, buildVars>>
  BY DEF RefuseConflict, Conflicts, Calling
<1>2. Wanted \in Needed /\ other \in Needed
  BY <1>1, WantedFacts DEF PlanInv, OneSource
<1>3. Needed' = Needed
  BY <1>1, ProgramFrame
<1>4. RefusalJustified'
  <2> DEFINE w == Wanted
  <2>1. DOMAIN reported' = {"conflict"} /\ reported'.conflict = {other, w}
    BY <1>1
  <2>2. reported'.conflict \subseteq Needed'
    BY <1>2, <1>3, <2>1
  <2>3. \E a, b \in reported'.conflict : a[1] # b[1] /\ a[2] = b[2]
    BY <1>1, <2>1
  <2>4. "missing" \notin DOMAIN reported' /\ "cycle" \notin DOMAIN reported'
    BY <2>1
  <2>5. "conflict" \in DOMAIN reported'
    BY <2>1
  <2> HIDE DEF other, w
  <2> QED  BY <2>2, <2>3, <2>4, <2>5, Zenon DEF RefusalJustified
<1> QED  BY <1>1, <1>4, RefusedInv

\* An app that is refused as missing is not declared.
LEMMA MissingInv == PlanInv /\ RefuseMissing => PlanInv'
<1> SUFFICES ASSUME PlanInv, RefuseMissing PROVE PlanInv'
  OBVIOUS
<1>1. /\ Wanted \notin DOMAIN program.apps /\ reported' = [missing |-> Wanted]
      /\ outcome = "plan" /\ outcome' = "refused"
      /\ UNCHANGED <<program, root, complete, stack, order, buildVars>>
  BY DEF RefuseMissing, Calling
<1>2. RefusalJustified'
  <2> DEFINE w == Wanted
  <2>1. DOMAIN reported' = {"missing"} /\ reported'.missing = w
    BY <1>1
  <2>2. w \notin DOMAIN program'.apps
    BY <1>1
  <2>3. "missing" \in DOMAIN reported' /\ "cycle" \notin DOMAIN reported' /\ "conflict" \notin DOMAIN reported'
    BY <2>1
  <2> HIDE DEF w
  <2> QED  BY <2>1, <2>2, <2>3, Zenon DEF RefusalJustified
<1> QED  BY <1>1, <1>2, RefusedInv

\* The stack from the app that is met again is a cycle.
LEMMA CycleInv == PlanInv /\ RefuseCycle => PlanInv'
<1> SUFFICES ASSUME PlanInv, RefuseCycle PROVE PlanInv'
  OBVIOUS
<1> DEFINE start == CHOOSE i \in DOMAIN Active : Active[i] = Wanted
           n == Len(stack)
           cycle == SubSeq(Active, start, Len(Active))
<1>1. /\ Calling /\ Wanted \in Range(Active) /\ reported' = [cycle |-> cycle]
      /\ outcome = "plan" /\ outcome' = "refused"
      /\ UNCHANGED <<program, root, complete, stack, order, buildVars>>
  BY DEF RefuseCycle, Calling
<1>2. start \in DOMAIN Active /\ Active[start] = Wanted
  BY <1>1 DEF Range
<1>3. n \in Nat /\ DOMAIN stack = 1..n /\ Active = [i \in 1..n |-> stack[i].app] /\ DOMAIN Active = 1..n
  BY DEF PlanInv, Path, Active
<1>4. Len(Active) = n /\ start \in 1..n
  BY <1>2, <1>3
<1> HIDE DEF start
<1>5. /\ Len(cycle) = n - start + 1 /\ DOMAIN cycle = 1..(n - start + 1)
      /\ \A i \in 1..(n - start + 1) : cycle[i] = stack[start + i - 1].app
  <2> HIDE DEF n
  <2>1. Active \in Seq({stack[i].app : i \in 1..n})
    BY <1>3
  <2>2. cycle = [i \in 1..(n - start + 1) |-> Active[start + i - 1]]
    BY <1>3, <1>4, <2>1
  <2>3. \A i \in 1..(n - start + 1) : start + i - 1 \in 1..n
    BY <1>3, <1>4
  <2> HIDE DEF cycle
  <2> QED  BY <1>3, <1>4, <2>2, <2>3
<1>6. stack # <<>>
  BY <1>3, <1>4
<1>7. Wanted = cycle[1] /\ Wanted \in Dependencies(stack[n].app)
  BY <1>1, <1>2, <1>3, <1>4, <1>5, <1>6, WantedFacts
<1>8. IsCycle(cycle)
  <2> SUFFICES ASSUME NEW i \in 1..(n - start + 1)
               PROVE  cycle[IF i = n - start + 1 THEN 1 ELSE i + 1] \in Dependencies(cycle[i])
    BY <1>5 DEF IsCycle
  <2>1. cycle[i] = stack[start + i - 1].app /\ start + i - 1 \in 1..n
    BY <1>3, <1>4, <1>5
  <2>2. CASE i = n - start + 1
    <3>1. start + i - 1 = n
      BY <1>3, <1>4, <2>2
    <3> QED  BY <1>7, <2>1, <2>2, <3>1
  <2>3. CASE i # n - start + 1
    <3>1. /\ i + 1 \in 1..(n - start + 1) /\ start + (i + 1) - 1 = (start + i - 1) + 1
          /\ start + i - 1 < n
      BY <1>3, <1>4, <2>3
    <3>2. cycle[i + 1] = stack[(start + i - 1) + 1].app
      BY <1>5, <3>1
    <3> DEFINE k == start + i - 1
    <3>3. stack[k + 1].app \in Dependencies(stack[k].app)
      <4>1. k \in DOMAIN stack /\ k < Len(stack)
        BY <1>3, <2>1, <3>1
      <4> HIDE DEF k
      <4> QED  BY <4>1 DEF PlanInv, Path
    <3> QED  BY <2>1, <2>3, <3>2, <3>3
  <2> QED  BY <2>2, <2>3
<1>9. RefusalJustified'
  <2>1. DOMAIN reported' = {"cycle"} /\ reported'.cycle = cycle
    BY <1>1
  <2>2. IsCycle(reported.cycle)'
    BY <1>1, <1>8, <2>1, ProgramFrame DEF IsCycle
  <2>3. cycle # <<>>
    <3> HIDE DEF cycle, n
    <3>1. Len(cycle) # 0
      BY <1>3, <1>4, <1>5
    <3> QED  BY <3>1
  <2>4. "missing" \notin DOMAIN reported' /\ "cycle" \in DOMAIN reported' /\ "conflict" \notin DOMAIN reported'
    BY <2>1
  <2> HIDE DEF cycle
  <2> QED  BY <2>1, <2>2, <2>3, <2>4, Zenon DEF RefusalJustified
<1> QED  BY <1>1, <1>9, RefusedInv

\* The stack once the caller has taken its next dependency.
LEMMA CalledFacts ==
  ASSUME PlanInv, Calling
  PROVE  /\ Len(Called) = Len(stack) /\ DOMAIN Called = DOMAIN stack
         /\ Called \in Seq([app : DOMAIN program.apps, pending : SUBSET AllApps])
         /\ \A i \in DOMAIN stack :
              /\ Called[i].app = stack[i].app
              /\ Called[i].pending =
                   IF i = Len(stack) THEN stack[i].pending \ {Wanted} ELSE stack[i].pending
<1> DEFINE T == [app : DOMAIN program.apps, pending : SUBSET AllApps]
           n == Len(stack)
<1>1. stack \in Seq(T) /\ n \in Nat /\ DOMAIN stack = 1..n
  BY StackFacts DEF PlanInv, Path
<1>2. CASE stack = <<>>
  BY <1>1, <1>2 DEF Called
<1>3. CASE stack # <<>>
  <2>1. n \in 1..n /\ Wanted = Least(stack[n].pending)
    BY <1>3, StackFacts, WantedFacts
  <2>2. Called = [stack EXCEPT ![n].pending = stack[n].pending \ {Wanted}]
    BY <1>3, <2>1 DEF Called
  <2>3. \A i \in 1..n : stack[i] \in T
    <3> HIDE DEF T, n
    <3> QED  BY <1>1
  <2> DEFINE top == [stack[n] EXCEPT !.pending = stack[n].pending \ {Wanted}]
  <2>4. top \in T /\ top.app = stack[n].app /\ top.pending = stack[n].pending \ {Wanted}
    <3>1. stack[n] \in T
      BY <2>1, <2>3
    <3> QED  BY <3>1
  <2>5. Called = [stack EXCEPT ![n] = top]
    BY <2>2
  <2> HIDE DEF T, n, top
  <2>6. Called = [i \in 1..n |-> IF i = n THEN top ELSE stack[i]]
    BY <1>1, <2>1, <2>5
  <2>7. Called \in Seq(T)
    BY <1>1, <2>3, <2>4, <2>6
  <2>8. Len(Called) = n /\ DOMAIN Called = 1..n
    BY <1>1, <2>6
  <2>9. \A i \in 1..n : /\ Called[i].app = stack[i].app
                       /\ Called[i].pending = IF i = n THEN stack[i].pending \ {Wanted} ELSE stack[i].pending
    BY <2>4, <2>6
  <2> QED  BY <1>1, <2>7, <2>8, <2>9 DEF T, n
<1> QED  BY <1>2, <1>3

\* A dependency that is complete already is only taken off the caller's.
LEMMA SkipInv == PlanInv /\ SkipComplete => PlanInv'
<1> SUFFICES ASSUME PlanInv, SkipComplete PROVE PlanInv'
  OBVIOUS
<1>1. /\ Calling /\ Wanted \in complete /\ stack' = Called
      /\ outcome = "plan" /\ outcome' = "plan"
      /\ UNCHANGED <<program, root, appSources, complete, order, reported, buildVars>>
  BY DEF SkipComplete, Calling
<1> DEFINE n == Len(stack)
<1>2. /\ n \in Nat /\ DOMAIN stack = 1..n /\ Len(stack') = n /\ DOMAIN stack' = 1..n
      /\ stack' \in Seq([app : DOMAIN program.apps, pending : SUBSET AllApps])
      /\ \A i \in 1..n : /\ stack'[i].app = stack[i].app
                         /\ stack'[i].pending = IF i = n THEN stack[i].pending \ {Wanted} ELSE stack[i].pending
  BY <1>1, StackFacts, CalledFacts
<1>3. stack # <<>>
  <2>1. stack = <<>> => complete = {}
    BY <1>1 DEF PlanInv, Planned, Ordered, Range
  <2> QED  BY <1>1, <2>1
<1>4. 1 \in 1..n /\ n \in 1..n
  <2>1. n \in 1..n /\ n \in Nat
    BY <1>3, StackFacts
  <2> HIDE DEF n
  <2> QED  BY <2>1
<1> HIDE DEF n
<1>5. Path'
  <2>1. stack'[1].app = root
    BY <1>2, <1>3, <1>4 DEF PlanInv, Path
  <2>2. ASSUME NEW i \in 1..n
        PROVE  /\ stack'[i].app \notin complete
               /\ stack'[i].pending \subseteq Dependencies(stack'[i].app)
               /\ \A d \in Dependencies(stack'[i].app) :
                    d \in complete \cup stack'[i].pending \/ (i < n /\ stack'[i + 1].app = d)
               /\ i < n => stack'[i + 1].app \in Dependencies(stack'[i].app)
               /\ \A j \in 1..n : stack'[i].app = stack'[j].app => i = j
    <3>1. /\ stack[i].app \notin complete
          /\ stack[i].pending \subseteq Dependencies(stack[i].app)
          /\ \A d \in Dependencies(stack[i].app) :
               d \in complete \cup stack[i].pending \/ (i < n /\ stack[i + 1].app = d)
          /\ i < n => stack[i + 1].app \in Dependencies(stack[i].app)
          /\ \A j \in 1..n : stack[i].app = stack[j].app => i = j
      BY <1>2 DEF PlanInv, Path, n
    <3>2. i < n => i + 1 \in 1..n
      BY <1>2
    <3>3. \A j \in 1..n : stack'[j].app = stack[j].app
      BY <1>2
    <3>4. /\ stack'[i].pending \subseteq stack[i].pending
          /\ stack[i].pending \subseteq stack'[i].pending \cup complete
      BY <1>1, <1>2
    <3> QED  BY <3>1, <3>2, <3>3, <3>4
  <2> QED  BY <1>1, <1>2, <2>1, <2>2, ProgramFrame DEF Path
<1>6. Visits' = Visits
  <2>1. Active' = Active
    BY <1>2 DEF Active
  <2> QED  BY <1>1, <2>1 DEF Visits, Range
<1>7. OneSource' /\ Planned' /\ RefusalJustified'
  <2>1. stack' # <<>>
    BY <1>2, <1>4
  <2> QED  BY <1>1, <1>6, <2>1, ProgramFrame DEF PlanInv, OneSource, Planned, RefusalJustified
<1> QED  BY <1>1, <1>5, <1>7, PlanFrame DEF PlanInv

\* An app is entered with all its dependencies to visit.
LEMMA EnterInv == PlanInv /\ Enter => PlanInv'
<1> SUFFICES ASSUME PlanInv, Enter PROVE PlanInv'
  OBVIOUS
<1> DEFINE n == Len(stack)
           w == Wanted
           T == [app : DOMAIN program.apps, pending : SUBSET AllApps]
           top == [app |-> w, pending |-> Dependencies(w)]
<1>1. /\ Calling /\ ~Conflicts(w) /\ w \notin complete /\ w \notin Range(Active)
      /\ w \in DOMAIN program.apps
      /\ appSources' = Visited(w) /\ stack' = Append(Called, top)
      /\ outcome = "plan" /\ outcome' = "plan"
      /\ UNCHANGED <<program, root, complete, order, reported, buildVars>>
  BY DEF Enter, Calling
<1>2. /\ w \in Needed /\ w \in AllApps /\ w \in Nat \X Nat
      /\ stack = <<>> => w = root
      /\ stack # <<>> => w \in Dependencies(stack[n].app)
  BY <1>1, WantedFacts
<1>3. /\ n \in Nat /\ DOMAIN stack = 1..n /\ Len(Called) = n /\ DOMAIN Called = 1..n
      /\ Called \in Seq(T)
      /\ \A i \in 1..n : /\ Called[i].app = stack[i].app
                         /\ Called[i].pending = IF i = n THEN stack[i].pending \ {w} ELSE stack[i].pending
  BY <1>1, StackFacts, CalledFacts
<1>4. /\ \A i \in 1..n : stack[i].app # w
      /\ stack # <<>> => n \in 1..n /\ 1 \in 1..n
      /\ stack = <<>> => n = 0
  <2>1. \A i \in 1..n : Active[i] = stack[i].app /\ i \in DOMAIN Active
    BY <1>3 DEF Active
  <2>2. stack # <<>> => n \in 1..n
    BY StackFacts
  <2>3. stack = <<>> => n = 0
    OBVIOUS
  <2> HIDE DEF n, w
  <2> QED  BY <1>1, <1>3, <2>1, <2>2, <2>3 DEF Range
<1>5. top \in T /\ top.app = w /\ top.pending = Dependencies(w) /\ Dependencies(w) \subseteq AllApps
  <2>1. Dependencies(w) \subseteq AllApps
    BY <1>1, NeededFacts DEF PlanInv
  <2> HIDE DEF w
  <2> QED  BY <1>1, <2>1
<1> HIDE DEF T, top, n, w
<1>6. /\ stack' \in Seq(T) /\ Len(stack') = n + 1 /\ DOMAIN stack' = 1..(n + 1)
      /\ \A i \in 1..n : stack'[i] = Called[i]
      /\ stack'[n + 1] = top
  BY <1>1, <1>3, <1>5
<1>7. Path'
  <2>1. stack'[1].app = root
    <3>1. CASE stack = <<>>
      BY <1>2, <1>4, <1>5, <1>6, <3>1
    <3>2. CASE stack # <<>>
      <4>1. stack[1].app = root
        BY <3>2 DEF PlanInv, Path
      <4> QED  BY <1>3, <1>4, <1>6, <3>2, <4>1
    <3> QED  BY <3>1, <3>2
  <2>2. ASSUME NEW i \in 1..n
        PROVE  /\ stack'[i].app \notin complete
               /\ stack'[i].pending \subseteq Dependencies(stack'[i].app)
               /\ \A d \in Dependencies(stack'[i].app) :
                    d \in complete \cup stack'[i].pending \/ stack'[i + 1].app = d
               /\ stack'[i + 1].app \in Dependencies(stack'[i].app)
               /\ \A j \in 1..n : stack'[i].app = stack'[j].app => i = j
               /\ stack'[i].app # w
    <3>1. /\ stack[i].app \notin complete
          /\ stack[i].pending \subseteq Dependencies(stack[i].app)
          /\ \A d \in Dependencies(stack[i].app) :
               d \in complete \cup stack[i].pending \/ (i < n /\ stack[i + 1].app = d)
          /\ i < n => stack[i + 1].app \in Dependencies(stack[i].app)
          /\ \A j \in 1..n : stack[i].app = stack[j].app => i = j
      BY <1>3 DEF PlanInv, Path, n
    <3>2. stack'[i] = Called[i] /\ i \in Nat /\ i <= n
      BY <1>3, <1>6
    <3>3. \A j \in 1..n : stack'[j].app = stack[j].app
      BY <1>3, <1>6
    <3>4. CASE i < n
      <4>1. i + 1 \in 1..n /\ i # n
        BY <1>3, <3>2, <3>4
      <4>2. stack'[i].pending = stack[i].pending /\ stack'[i + 1].app = stack[i + 1].app
        BY <1>3, <3>2, <3>3, <4>1
      <4> QED  BY <1>4, <3>1, <3>3, <3>4, <4>2
    <3>5. CASE i = n
      <4>1. stack'[i].pending = stack[i].pending \ {w} /\ stack'[i + 1].app = w
        <5>1. stack'[i].pending = stack[i].pending \ {w}
          BY <1>3, <3>2, <3>5
        <5> QED  BY <1>5, <1>6, <3>5, <5>1
      <4>2. stack # <<>>
        BY <1>3, <1>4, <3>2, <3>5
      <4>3. ~(i < n)
        BY <1>3, <3>5
      <4> QED  BY <1>2, <1>4, <3>1, <3>3, <3>5, <4>1, <4>2, <4>3
    <3> QED  BY <1>3, <3>2, <3>4, <3>5
  <2>3. \A i \in 1..(n + 1) : i \in 1..n \/ i = n + 1
    BY <1>3
  <2>4. ASSUME NEW i \in 1..(n + 1)
        PROVE  /\ stack'[i].app \notin complete
               /\ stack'[i].pending \subseteq Dependencies(stack'[i].app)
               /\ \A d \in Dependencies(stack'[i].app) :
                    d \in complete \cup stack'[i].pending \/ (i < n + 1 /\ stack'[i + 1].app = d)
               /\ i < n + 1 => stack'[i + 1].app \in Dependencies(stack'[i].app)
               /\ \A j \in 1..(n + 1) : stack'[i].app = stack'[j].app => i = j
    <3>1. CASE i \in 1..n
      <4>1. i < n + 1
        BY <1>3, <3>1
      <4> QED  BY <1>5, <1>6, <2>2, <2>3, <3>1, <4>1
    <3>2. CASE i = n + 1
      <4>1. stack'[i].app = w /\ stack'[i].pending = Dependencies(w) /\ ~(i < n + 1)
        BY <1>3, <1>5, <1>6, <3>2
      <4>2. \A j \in 1..n : stack'[j].app # w
        BY <2>2
      <4> QED  BY <1>1, <2>3, <3>2, <4>1, <4>2
    <3> QED  BY <2>3, <3>1, <3>2
  <2>5. UNCHANGED <<program, root>>
    BY <1>1
  <2> QED  BY <1>1, <1>6, <2>1, <2>4, <2>5, ProgramFrame DEF Path, T
<1>8. Visits' = Visits \cup {w}
  <2>1. Active' = [i \in 1..(n + 1) |-> stack'[i].app]
    BY <1>6 DEF Active
  <2>2. \A i \in 1..n : stack'[i].app = stack[i].app
    BY <1>3, <1>6
  <2>3. Active = [i \in 1..n |-> stack[i].app]
    BY <1>3 DEF Active
  <2>4. stack'[n + 1].app = w
    BY <1>5, <1>6
  <2>5. \A i : i \in 1..(n + 1) <=> i \in 1..n \/ i = n + 1
    BY <1>3
  <2>6. Range(Active') = Range(Active) \cup {w}
    <3>1. \A a : a \in Range(Active') <=> \E i \in 1..(n + 1) : stack'[i].app = a
      BY <2>1 DEF Range
    <3>2. \A a : a \in Range(Active) <=> \E i \in 1..n : stack[i].app = a
      BY <2>3 DEF Range
    <3> QED  BY <2>2, <2>4, <2>5, <3>1, <3>2
  <2>7. Range(Active)' = Range(Active')
    BY DEF Range
  <2> QED  BY <1>1, <2>6, <2>7 DEF Visits
<1>9. OneSource'
  <2>1. /\ DOMAIN appSources' = DOMAIN appSources \cup {w[2]} /\ appSources'[w[2]] = w[1]
        /\ \A name \in DOMAIN appSources : name # w[2] => appSources'[name] = appSources[name]
        /\ w[2] \in DOMAIN appSources => appSources[w[2]] = w[1]
    BY <1>1 DEF Visited, Conflicts
  <2>2. \A name \in DOMAIN appSources : appSources'[name] = appSources[name]
    BY <2>1
  <2>3. <<w[1], w[2]>> = w
    BY <1>2
  <2>4. /\ \A app \in Visits :
             app \in Needed /\ app[2] \in DOMAIN appSources /\ appSources[app[2]] = app[1]
        /\ \A name \in DOMAIN appSources : <<appSources[name], name>> \in Needed
    BY <1>1 DEF PlanInv, OneSource
  <2>5. Needed' = Needed
    BY <1>1, ProgramFrame
  <2>6. \A app \in Visits' : /\ app \in Needed' /\ app[2] \in DOMAIN appSources'
                            /\ appSources'[app[2]] = app[1]
    BY <1>2, <1>8, <2>1, <2>2, <2>4, <2>5
  <2>7. \A name \in DOMAIN appSources' : <<appSources'[name], name>> \in Needed'
    BY <1>2, <2>1, <2>2, <2>3, <2>4, <2>5
  <2> QED  BY <2>6, <2>7 DEF OneSource
<1>10. Planned' /\ RefusalJustified'
  <2>1. stack' # <<>>
    BY <1>3, <1>6
  <2> QED  BY <1>1, <2>1 DEF PlanInv, Planned, RefusalJustified
<1> QED  BY <1>1, <1>7, <1>9, <1>10, PlanFrame DEF PlanInv

\* An app is left when all its dependencies are complete, and so in order.
LEMMA LeaveInv == PlanInv /\ Leave => PlanInv'
<1> SUFFICES ASSUME PlanInv, Leave PROVE PlanInv'
  OBVIOUS
<1> DEFINE n == Len(stack)
           a == stack[n].app
           m == Len(order)
           T == [app : DOMAIN program.apps, pending : SUBSET AllApps]
<1>1. /\ outcome = "plan" /\ stack # <<>> /\ stack[n].pending = {}
      /\ stack' = SubSeq(stack, 1, n - 1)
      /\ complete' = complete \cup {a} /\ order' = Append(order, a)
      /\ outcome' = IF n = 1 THEN "build" ELSE "plan"
      /\ UNCHANGED <<program, root, appSources, reported, buildVars>>
  BY DEF Leave, Last, Front
<1>2. /\ n \in Nat /\ DOMAIN stack = 1..n /\ n \in 1..n /\ stack \in Seq(T)
      /\ a \in DOMAIN program.apps /\ a \in Visits
  <2>1. n \in 1..n /\ n \in DOMAIN stack /\ n \in Nat /\ DOMAIN stack = 1..n
    BY <1>1, StackFacts
  <2> QED  BY <2>1, StackFacts DEF PlanInv, Path
<1>3. /\ m \in Nat /\ DOMAIN order = 1..m /\ order \in Seq(DOMAIN program.apps)
      /\ \A c : c \in complete <=> \E i \in 1..m : order[i] = c
      /\ \A i, j \in 1..m : order[i] = order[j] => i = j
      /\ \A i \in 1..m : \A d \in Dependencies(order[i]) : \E j \in 1..(i - 1) : order[j] = d
  <2>1. order \in Seq(DOMAIN program.apps) /\ IsInjective(order) /\ Range(order) = complete
    BY DEF PlanInv, Ordered
  <2>2. m \in Nat /\ DOMAIN order = 1..m
    BY <2>1
  <2> QED  BY <2>1, <2>2 DEF PlanInv, Ordered, IsInjective, Range
<1> HIDE DEF n, a, m, T
<1>4. /\ n - 1 \in Nat /\ stack' \in Seq(T) /\ Len(stack') = n - 1 /\ DOMAIN stack' = 1..(n - 1)
      /\ \A i \in 1..(n - 1) : stack'[i] = stack[i] /\ i \in 1..n
  <2>1. n - 1 \in Nat /\ \A i \in 1..(n - 1) : i \in 1..n
    BY <1>2
  <2>2. \A i \in 1..n : stack[i] \in T
    BY <1>2
  <2>3. stack' = [i \in 1..(n - 1) |-> stack[i]]
    BY <1>1, <1>2, <2>1
  <2> QED  BY <2>1, <2>2, <2>3
<1>5. ASSUME NEW i \in 1..n
      PROVE  /\ stack[i].app \notin complete
             /\ stack[i].pending \subseteq Dependencies(stack[i].app)
             /\ \A d \in Dependencies(stack[i].app) :
                  d \in complete \cup stack[i].pending \/ (i < n /\ stack[i + 1].app = d)
             /\ i < n => stack[i + 1].app \in Dependencies(stack[i].app)
             /\ \A j \in 1..n : stack[i].app = stack[j].app => i = j
  BY <1>2 DEF PlanInv, Path, n
<1>6. /\ a \notin complete /\ a = stack[n].app
      /\ \A d \in Dependencies(a) : d \in complete
  <2>1. ~(n < n)
    BY <1>2
  <2> QED  BY <1>1, <1>2, <1>5, <2>1 DEF a
<1>7. Path'
  <2>1. stack' # <<>> => stack'[1].app = root
    <3>1. stack' # <<>> => 1 \in 1..(n - 1)
      BY <1>4
    <3> QED  BY <1>1, <1>4, <3>1 DEF PlanInv, Path
  <2>2. ASSUME NEW i \in 1..(n - 1)
        PROVE  /\ stack'[i].app \notin complete'
               /\ stack'[i].pending \subseteq Dependencies(stack'[i].app)
               /\ \A d \in Dependencies(stack'[i].app) :
                    d \in complete' \cup stack'[i].pending \/ (i < n - 1 /\ stack'[i + 1].app = d)
               /\ i < n - 1 => stack'[i + 1].app \in Dependencies(stack'[i].app)
               /\ \A j \in 1..(n - 1) : stack'[i].app = stack'[j].app => i = j
    <3>1. i \in 1..n /\ i \in Nat /\ i < n /\ i # n /\ stack'[i] = stack[i]
      BY <1>2, <1>4
    <3>2. stack[i].app # a
      BY <1>2, <1>5, <1>6, <3>1
    <3>3. i < n - 1 => i + 1 \in 1..(n - 1)
      BY <1>4, <3>1
    <3>4. ~(i < n - 1) => i + 1 = n
      BY <1>2, <3>1
    <3>5. ASSUME NEW d \in Dependencies(stack[i].app)
          PROVE  d \in complete' \cup stack[i].pending \/ (i < n - 1 /\ stack'[i + 1].app = d)
      <4>1. d \in complete \cup stack[i].pending \/ stack[i + 1].app = d
        BY <1>5, <3>1
      <4>2. CASE d \in complete \cup stack[i].pending
        BY <1>1, <4>2
      <4>3. CASE stack[i + 1].app = d
        BY <1>1, <1>4, <1>6, <3>3, <3>4, <4>3
      <4> QED  BY <4>1, <4>2, <4>3
    <3>6. stack'[i].app \notin complete'
      BY <1>1, <1>5, <3>1, <3>2
    <3>7. i < n - 1 => stack'[i + 1].app \in Dependencies(stack'[i].app)
      BY <1>4, <1>5, <3>1, <3>3
    <3>8. \A j \in 1..(n - 1) : stack'[i].app = stack'[j].app => i = j
      BY <1>4, <1>5, <3>1
    <3> QED  BY <1>5, <3>1, <3>5, <3>6, <3>7, <3>8
  <2>3. UNCHANGED <<program, root>>
    BY <1>1
  <2> QED  BY <1>4, <2>1, <2>2, <2>3, ProgramFrame DEF Path, T
<1>8. /\ order' \in Seq(DOMAIN program.apps) /\ Len(order') = m + 1 /\ DOMAIN order' = 1..(m + 1)
      /\ \A i \in 1..m : order'[i] = order[i]
      /\ order'[m + 1] = a
      /\ \A i : i \in 1..(m + 1) <=> i \in 1..m \/ i = m + 1
      /\ m + 1 \notin 1..m
  BY <1>1, <1>2, <1>3 DEF m
<1>9. Ordered'
  <2>1. IsInjective(order')
    BY <1>3, <1>6, <1>8 DEF IsInjective
  <2>2. Range(order') = complete'
    <3>1. \A c : c \in Range(order') <=> \E i \in 1..(m + 1) : order'[i] = c
      BY <1>8 DEF Range
    <3>2. \A c : c \in Range(order') <=> (\E i \in 1..m : order[i] = c) \/ c = a
      BY <1>8, <3>1
    <3>3. \A c : c \in Range(order') <=> c \in complete \/ c = a
      BY <1>3, <3>2
    <3> QED  BY <1>1, <3>3
  <2>3. ASSUME NEW i \in 1..(m + 1), NEW d \in Dependencies(order'[i])
        PROVE  \E j \in 1..(i - 1) : order'[j] = d
    <3>1. CASE i \in 1..m
      <4>1. PICK j \in 1..(i - 1) : order[j] = d
        BY <1>3, <1>8, <3>1
      <4>2. j \in 1..m
        BY <1>3, <3>1
      <4> QED  BY <1>8, <4>1, <4>2
    <3>2. CASE i = m + 1
      <4>1. PICK j \in 1..m : order[j] = d
        BY <1>3, <1>6, <1>8, <3>2
      <4>2. j \in 1..(i - 1)
        BY <1>3, <3>2
      <4> QED  BY <1>8, <4>1, <4>2
    <3> QED  BY <1>8, <3>1, <3>2
  <2>4. UNCHANGED <<program, root>>
    BY <1>1
  <2>5. IsInjective(order)' = IsInjective(order') /\ Range(order)' = Range(order')
    BY DEF IsInjective, Range
  <2> QED  BY <1>8, <2>1, <2>2, <2>3, <2>4, <2>5, ProgramFrame DEF Ordered
<1>10. Visits' \subseteq Visits
  <2>1. \A i \in 1..(n - 1) : stack'[i].app \in Visits
    BY <1>2, <1>4, StackFacts
  <2>2. \A c \in Range(Active)' : \E i \in 1..(n - 1) : c = stack'[i].app
    BY <1>4 DEF Range, Active
  <2>3. a \in Visits /\ complete \subseteq Visits
    BY <1>2 DEF Visits
  <2>4. Visits' = complete' \cup Range(Active)'
    BY DEF Visits
  <2> QED  BY <1>1, <2>1, <2>2, <2>3, <2>4
<1>11. OneSource'
  <2>1. /\ \A app \in Visits :
             app \in Needed /\ app[2] \in DOMAIN appSources /\ appSources[app[2]] = app[1]
        /\ \A name \in DOMAIN appSources : <<appSources[name], name>> \in Needed
    BY <1>1 DEF PlanInv, OneSource
  <2>2. Needed' = Needed
    BY <1>1, ProgramFrame
  <2> QED  BY <1>1, <1>10, <2>1, <2>2 DEF OneSource
<1>12. Planned' /\ RefusalJustified'
  <2>1. n # 1 => stack' # <<>>
    BY <1>2, <1>4
  <2>2. n = 1 => stack' = <<>> /\ a = root
    BY <1>1, <1>4, <1>6 DEF PlanInv, Path
  <2> QED  BY <1>1, <2>1, <2>2 DEF PlanInv, Planned, RefusalJustified
<1>13. Linking'
  <2>1. artifacts = <<>> /\ linked' = linked /\ artifacts' = <<>> /\ Compiled \in 0..Len(order)
        /\ \A link \in linked : link[3] = link[2]
    BY <1>1 DEF PlanInv, Linking, buildVars
  <2>2. DOMAIN artifacts = {} /\ Compiled = 0 /\ Compiled' = 0
    <3>1. DOMAIN artifacts = {} /\ DOMAIN artifacts' = {}
      BY <2>1
    <3> QED  BY <3>1, FS_EmptySet DEF Compiled
  <2>3. BuiltTo(0)'
    BY <2>1 DEF BuiltTo
  <2>4. BuiltTo(Compiled)'
    BY <2>2, <2>3
  <2>5. Compiled' \in 0..Len(order')
    BY <1>3, <1>8, <2>2
  <2>6. IsFiniteSet(DOMAIN artifacts')
    BY <2>1, FS_EmptySet
  <2> QED  BY <2>1, <2>4, <2>5, <2>6 DEF Linking
<1> QED  BY <1>1, <1>7, <1>9, <1>11, <1>12, <1>13 DEF PlanInv

-----------------------------------------------------------------------------
(* The plan, and the steps of the builder.                                 *)

\* A finished plan holds the complete apps, which are those that are needed: the
\* complete apps are closed, and needed is the least that is.
LEMMA PlanFacts == PlanInv => PlanIsTopological
<1> SUFFICES ASSUME PlanInv, outcome \in {"build", "built"}
             PROVE  /\ IsInjective(order) /\ Range(order) = Needed
                    /\ \A i \in DOMAIN order : \A d \in Dependencies(order[i]) :
                         \E j \in 1..(i - 1) : order[j] = d
                    /\ \A i, j \in DOMAIN order : order[i][2] = order[j][2] => i = j
  BY DEF PlanIsTopological
<1>1. /\ order \in Seq(DOMAIN program.apps) /\ IsInjective(order) /\ Range(order) = complete
      /\ \A i \in DOMAIN order : \A d \in Dependencies(order[i]) : \E j \in 1..(i - 1) : order[j] = d
  BY DEF PlanInv, Ordered
<1>2. DOMAIN order = 1..Len(order) /\ Len(order) \in Nat
  BY <1>1
<1>3. \A app \in complete : \E i \in DOMAIN order : app = order[i]
  BY <1>1 DEF Range
<1>4. \A i \in DOMAIN order : order[i] \in complete /\ order[i] \in DOMAIN program.apps
  BY <1>1 DEF Range
<1>5. \A app \in complete : app \in Needed /\ appSources[app[2]] = app[1]
  BY DEF PlanInv, OneSource, Visits
<1>6. AllApps \subseteq Nat \X Nat /\ DOMAIN program.apps \subseteq AllApps /\ Needed \subseteq AllApps
  BY NeededFacts DEF PlanInv
<1>7. Needed \subseteq complete
  <2>1. complete \in SUBSET AllApps
    BY <1>5, <1>6
  <2>2. root \in complete
    BY DEF PlanInv, Planned
  <2>3. ASSUME NEW app \in complete, NEW d \in Dependencies(app) PROVE d \in complete
    <3>1. PICK i \in DOMAIN order : app = order[i]
      BY <1>3
    <3>2. PICK j \in 1..(i - 1) : order[j] = d
      BY <1>1, <3>1
    <3>3. j \in DOMAIN order
      BY <1>2, <3>1
    <3> QED  BY <1>4, <3>2, <3>3
  <2> QED  BY <2>1, <2>2, <2>3, NeededFacts DEF PlanInv
<1>8. ASSUME NEW i \in DOMAIN order, NEW j \in DOMAIN order, order[i][2] = order[j][2]
      PROVE  i = j
  <2>1. /\ order[i] \in Nat \X Nat /\ order[j] \in Nat \X Nat
        /\ order[i][1] = order[j][1]
    BY <1>4, <1>5, <1>6, <1>8
  <2>2. order[i] = order[j]
    BY <1>8, <2>1
  <2> QED  BY <1>1, <2>2 DEF IsInjective
<1> QED  BY <1>1, <1>5, <1>7, <1>8

\* Every unit of the plan can be linked when its turn comes, each dependency to the
\* artifact of the app it names.
LEMMA LinkFacts ==
  ASSUME PlanInv, outcome = "build", Compiled < Len(order)
  PROVE  /\ Linkable
         /\ \A d \in Dependencies(Unit) : artifacts[d[2]] = d
<1> DEFINE k == Compiled
           m == Len(order)
<1>1. /\ \A i \in 1..m : \A d \in Dependencies(order[i]) : \E j \in 1..(i - 1) : order[j] = d
      /\ \A i, j \in 1..m : order[i][2] = order[j][2] => i = j
      /\ m \in Nat
  BY PlanFacts DEF PlanIsTopological, PlanInv, Ordered
<1>2. /\ k \in 0..m /\ k < m /\ DOMAIN artifacts = {order[j][2] : j \in 1..k}
      /\ \A j \in 1..k : artifacts[order[j][2]] = order[j]
      /\ Unit = order[k + 1]
  BY DEF PlanInv, Linking, BuiltTo, Unit
<1> HIDE DEF k, m
<1>3. k + 1 \in 1..m /\ (k + 1) - 1 = k /\ \A j \in 1..k : j \in 1..m /\ j # k + 1
  BY <1>1, <1>2
<1>4. ASSUME NEW d \in Dependencies(Unit)
      PROVE  d[2] \in DOMAIN artifacts /\ artifacts[d[2]] = d
  <2>1. PICK j \in 1..((k + 1) - 1) : order[j] = d
    BY <1>1, <1>2, <1>3
  <2>2. j \in 1..k
    BY <1>3, <2>1
  <2> QED  BY <1>2, <2>1, <2>2
<1>5. Unit[2] \notin DOMAIN artifacts
  <2>1. ASSUME NEW j \in 1..k PROVE order[j][2] # order[k + 1][2]
    BY <1>1, <1>3
  <2> QED  BY <1>2, <2>1
<1> QED  BY <1>4, <1>5 DEF Linkable

\* The builder leaves the plan alone.
LEMMA BuildFrame ==
  ASSUME PlanInv, UNCHANGED <<program, root, planVars>>, outcome = "build",
         outcome' \in {"build", "built"}
  PROVE  Path' /\ Ordered' /\ OneSource' /\ Planned' /\ RefusalJustified'
<1>1. UNCHANGED <<program, root, complete, stack, order, appSources>> /\ Needed' = Needed
  BY ProgramFrame DEF planVars
<1>2. Path' /\ Ordered'
  BY <1>1, PlanFrame DEF PlanInv
<1>3. Visits' = Visits
  BY <1>1 DEF Visits, Active, Range
<1>4. OneSource' /\ Planned'
  BY <1>1, <1>3 DEF PlanInv, OneSource, Planned
<1>5. RefusalJustified'
  BY DEF RefusalJustified
<1> QED  BY <1>2, <1>4, <1>5

\* The next unit is compiled, and its name held by no unit before it.
LEMMA BuildUnitInv == PlanInv /\ BuildUnit => PlanInv'
<1> SUFFICES ASSUME PlanInv, BuildUnit, NEW k, k = Compiled PROVE PlanInv'
  OBVIOUS
<1> DEFINE m == Len(order)
           u == Unit
<1>1. /\ outcome = "build" /\ outcome' = "build" /\ k < m
      /\ linked' = linked \cup {<<u, d, artifacts[d[2]]>> : d \in Dependencies(u)}
      /\ artifacts' = [name \in DOMAIN artifacts \cup {u[2]} |->
                         IF name = u[2] THEN u ELSE artifacts[name]]
      /\ UNCHANGED <<program, root, planVars>> /\ order' = order
  BY DEF BuildUnit, planVars
<1>2. /\ u[2] \notin DOMAIN artifacts /\ \A d \in Dependencies(u) : artifacts[d[2]] = d
  BY <1>1, LinkFacts DEF Linkable
<1>3. /\ IsFiniteSet(DOMAIN artifacts) /\ k \in 0..m /\ k = Cardinality(DOMAIN artifacts)
      /\ DOMAIN artifacts = {order[j][2] : j \in 1..k}
      /\ \A j \in 1..k : artifacts[order[j][2]] = order[j]
      /\ u = order[k + 1] /\ m \in Nat
      /\ \A link \in linked : link[3] = link[2]
  BY DEF PlanInv, Linking, BuiltTo, Unit, Compiled, Ordered
<1>4. DOMAIN artifacts' = DOMAIN artifacts \cup {u[2]}
  BY <1>1
<1>5. IsFiniteSet(DOMAIN artifacts') /\ Compiled' = k + 1
  <2>1. Compiled' = Cardinality(DOMAIN artifacts')
    BY DEF Compiled
  <2>2. /\ IsFiniteSet(DOMAIN artifacts \cup {u[2]})
        /\ Cardinality(DOMAIN artifacts \cup {u[2]}) = Cardinality(DOMAIN artifacts) + 1
    <3> HIDE DEF u
    <3> QED  BY <1>2, <1>3, FS_AddElement
  <2> QED  BY <1>3, <1>4, <2>1, <2>2
<1>6. \A link \in linked' : link[3] = link[2]
  <2> SUFFICES ASSUME NEW link \in linked' PROVE link[3] = link[2]
    OBVIOUS
  <2>1. CASE link \in linked
    BY <1>3, <2>1
  <2>2. CASE link \notin linked
    <3>1. PICK d \in Dependencies(u) : link = <<u, d, artifacts[d[2]]>>
      BY <1>1, <2>2
    <3> QED  BY <1>2, <3>1
  <2> QED  BY <2>1, <2>2
<1> HIDE DEF m, u
<1>7. \A j : j \in 1..(k + 1) <=> j \in 1..k \/ j = k + 1
  BY <1>3
<1>8. BuiltTo(k + 1)'
  <2>1. DOMAIN artifacts' = {order[j][2] : j \in 1..(k + 1)}
    <3>1. DOMAIN artifacts' = {order[j][2] : j \in 1..k} \cup {order[k + 1][2]}
      BY <1>3, <1>4
    <3> QED  BY <1>7, <3>1
  <2>2. ASSUME NEW j \in 1..(k + 1) PROVE artifacts'[order[j][2]] = order[j]
    <3>1. CASE j = k + 1
      BY <1>1, <1>3, <3>1
    <3>2. CASE j \in 1..k
      <4>1. order[j][2] \in DOMAIN artifacts /\ order[j][2] # u[2]
        BY <1>2, <1>3, <3>2
      <4> QED  BY <1>1, <1>3, <3>2, <4>1
    <3> QED  BY <1>7, <3>1, <3>2
  <2>3. DOMAIN artifacts' = {order'[j][2] : j \in 1..(k + 1)}
        /\ \A j \in 1..(k + 1) : artifacts'[order'[j][2]] = order'[j]
    <3>1. order' = order
      BY <1>1
    <3> QED  BY <2>1, <2>2, <3>1
  <2> QED  BY <2>3 DEF BuiltTo
<1>9. Linking'
  <2>1. Compiled' \in 0..Len(order')
    <3>1. k + 1 \in 0..m
      BY <1>1, <1>3
    <3>2. Len(order') = m
      BY <1>1 DEF m
    <3> QED  BY <1>5, <3>1, <3>2
  <2>2. BuiltTo(Compiled)'
    BY <1>5, <1>8
  <2> QED  BY <1>1, <1>5, <1>6, <2>1, <2>2 DEF Linking
<1> QED  BY <1>1, <1>9, BuildFrame DEF PlanInv

\* Once every unit is compiled the build is done.
LEMMA FinishInv == PlanInv /\ FinishBuild => PlanInv'
<1> SUFFICES ASSUME PlanInv, FinishBuild PROVE PlanInv'
  OBVIOUS
<1>1. /\ outcome = "build" /\ outcome' = "built"
      /\ UNCHANGED <<program, root, planVars, artifacts, linked>> /\ order' = order
  BY DEF FinishBuild, planVars, buildVars
<1>2. Compiled' = Compiled
  BY <1>1 DEF Compiled
<1>3. BuiltTo(Compiled)' = BuiltTo(Compiled)
  BY <1>1, <1>2 DEF BuiltTo
<1>4. Linking'
  BY <1>1, <1>2, <1>3 DEF PlanInv, Linking
<1> QED  BY <1>1, <1>4, BuildFrame DEF PlanInv

\* The planner starts with nothing visited and nothing built.
LEMMA InitInv == Init => PlanInv
<1> SUFFICES ASSUME Init PROVE PlanInv
  OBVIOUS
<1>1. /\ program \in Programs /\ root \in Roots /\ appSources = <<>> /\ complete = {}
      /\ stack = <<>> /\ order = <<>> /\ outcome = "plan" /\ artifacts = <<>> /\ linked = {}
  BY DEF Init
<1>2. DOMAIN artifacts = {} /\ Compiled = 0 /\ Len(order) = 0 /\ IsFiniteSet(DOMAIN artifacts)
  <2>1. DOMAIN artifacts = {}
    BY <1>1
  <2> QED  BY <1>1, <2>1, FS_EmptySet DEF Compiled
<1>3. BuiltTo(0)
  BY <1>2 DEF BuiltTo
<1>4. Linking
  <2>1. BuiltTo(Compiled)
    BY <1>2, <1>3
  <2> QED  BY <1>1, <1>2, <2>1 DEF Linking
<1>5. Path
  BY <1>1 DEF Path
<1>6. Ordered
  BY <1>1 DEF Ordered, IsInjective, Range
<1>7. Visits = {}
  BY <1>1 DEF Visits, Active, Range
<1>8. OneSource /\ Planned
  BY <1>1, <1>7 DEF OneSource, Planned
<1>9. RefusalJustified
  BY <1>1 DEF RefusalJustified
<1> QED  BY <1>1, <1>4, <1>5, <1>6, <1>8, <1>9 DEF PlanInv

\* The invariant reads the variables, and so holds across a step that changes none.
LEMMA StutterInv == PlanInv /\ UNCHANGED vars => PlanInv'
<1> SUFFICES ASSUME PlanInv, UNCHANGED vars PROVE PlanInv'
  OBVIOUS
<1>1. UNCHANGED <<program, root, appSources, complete, stack, order, outcome, reported, artifacts, linked>>
  BY DEF vars, planVars, buildVars
<1>2. Path' /\ Ordered' /\ Needed' = Needed
  BY <1>1, PlanFrame, ProgramFrame DEF PlanInv
<1>3. Visits' = Visits /\ Compiled' = Compiled
  BY <1>1 DEF Visits, Active, Range, Compiled
<1>4. BuiltTo(Compiled)' = BuiltTo(Compiled)
  BY <1>1, <1>3 DEF BuiltTo
<1>5. OneSource' /\ Planned' /\ Linking'
  BY <1>1, <1>2, <1>3, <1>4 DEF PlanInv, OneSource, Planned, Linking
<1>6. RefusalJustified'
  <2>1. RefusalJustified' = RefusalJustified
    BY <1>1, <1>2, ProgramFrame DEF RefusalJustified, IsCycle
  <2> QED  BY <2>1 DEF PlanInv
<1> QED  BY <1>1, <1>2, <1>5, <1>6 DEF PlanInv

-----------------------------------------------------------------------------
\* Along every run of planner and builder the invariant holds.
THEOREM PlanInvariant == Spec => []PlanInv
<1>1. Init => PlanInv
  BY InitInv
<1>2. PlanInv /\ [Next]_vars => PlanInv'
  BY ConflictInv, SkipInv, CycleInv, MissingInv, EnterInv, LeaveInv, BuildUnitInv, FinishInv,
     StutterInv DEF Next
<1> QED  BY <1>1, <1>2, PTL DEF Spec

\* Whatever the source graph: a plan is topological and complete, every unit of it can
\* be linked in its turn, and to the artifacts of the sources its references name.
THEOREM PlansLinkSources == Spec => []LinkedFromSource
<1>1. PlanInv => LinkedFromSource
  <2> SUFFICES ASSUME PlanInv PROVE LinkedFromSource
    OBVIOUS
  <2>1. PlanIsTopological
    BY PlanFacts
  <2>2. \A link \in linked : link[3] = link[2]
    BY DEF PlanInv, Linking
  <2>3. outcome = "build" /\ Compiled < Len(order) => Linkable
    BY LinkFacts
  <2> QED  BY <2>1, <2>2, <2>3 DEF LinkedFromSource
<1> QED  BY <1>1, PlanInvariant, PTL

\* A graph is refused only for a real cycle, a real conflict of names or a missing app.
THEOREM RefusalsAreReal == Spec => []RefusalJustified
<1>1. PlanInv => RefusalJustified
  BY DEF PlanInv
<1> QED  BY <1>1, PlanInvariant, PTL

-----------------------------------------------------------------------------
(* Sequences and free names.                                               *)

\* A sequence, of whatever it holds.
Line(s) == s \in Seq(Range(s))

IsAppended(t, s, v) ==
  /\ Line(t) /\ Len(s) \in Nat /\ DOMAIN s = 1..Len(s)
  /\ Len(t) = Len(s) + 1 /\ DOMAIN t = 1..(Len(s) + 1)
  /\ t[Len(s) + 1] = v /\ \A i \in 1..Len(s) : t[i] = s[i]

IsReplaced(t, s, i, v) ==
  /\ Line(t) /\ Len(t) = Len(s) /\ DOMAIN t = DOMAIN s
  /\ t[i] = v /\ \A j \in DOMAIN s : j # i => t[j] = s[j]

\* A sequence with a value added, or one of its values replaced.
LEMMA AppendedValue ==
  ASSUME NEW s, Line(s), NEW v, NEW t, t = Append(s, v)
  PROVE  IsAppended(t, s, v)
<1> DEFINE n == Len(s)
<1>0. s \in Seq(Range(s))
  BY DEF Line
<1>1. n \in Nat /\ DOMAIN s = 1..n
  BY <1>0
<1>2. Len(t) = n + 1 /\ DOMAIN t = 1..(n + 1) /\ t[n + 1] = v /\ \A i \in 1..n : t[i] = s[i]
  BY <1>0
<1> DEFINE R == Range(t)
<1>3. \A i \in 1..n : s[i] \in R
  BY <1>1, <1>2 DEF Range
<1>4. v \in R
  BY <1>1, <1>2 DEF Range
<1>5. t \in Seq(Range(t))
  <2> HIDE DEF n, R
  <2>1. s = [i \in 1..n |-> s[i]] /\ Len(s) = n
    BY <1>0, <1>1 DEF n
  <2>2. s \in Seq(R)
    BY <1>0, <1>1, <1>3, <2>1
  <2>3. t \in Seq(R)
    BY <1>4, <2>2
  <2> QED  BY <2>3 DEF R
<1> QED  BY <1>1, <1>2, <1>5 DEF Line, IsAppended

\* A function on an initial segment of the positive numbers is a sequence.
LEMMA ListIsSeq ==
  ASSUME NEW R, NEW n \in Nat, NEW t \in [1..n -> R]
  PROVE  t \in Seq(R)
BY SeqDef

\* A line with one place replaced.
LEMMA ReplacedValue ==
  ASSUME NEW s, Line(s), NEW i \in DOMAIN s, NEW v, NEW t, t = [s EXCEPT ![i] = v]
  PROVE  IsReplaced(t, s, i, v)
<1> DEFINE n == Len(s)
           R == Range(t)
<1>1. n \in Nat /\ DOMAIN s = 1..n /\ s \in [1..n -> Range(s)]
  BY LenProperties DEF Line
<1>2. DOMAIN t = 1..n /\ t[i] = v /\ \A j \in 1..n : j # i => t[j] = s[j]
  BY <1>1
<1>3. t = [j \in 1..n |-> IF j = i THEN v ELSE s[j]]
  BY <1>1
<1>4. \A j \in 1..n : (IF j = i THEN v ELSE s[j]) \in R
  BY <1>2 DEF Range
<1> HIDE DEF n, R
<1>5. t \in [1..n -> R]
  BY <1>3, <1>4
<1>6. t \in Seq(R)
  BY <1>1, <1>5, ListIsSeq
<1>7. Len(t) \in Nat /\ DOMAIN t = 1..Len(t)
  BY <1>6, LenProperties
<1>8. Len(t) = n
  BY <1>1, <1>2, <1>7
<1> QED  BY <1>1, <1>2, <1>6, <1>8 DEF n, R, Line, IsReplaced

\* Of more different values than a set has, the first that is not in the set.
LEMMA FirstFree ==
  ASSUME NEW low \in Nat, NEW high \in Nat, NEW T, IsFiniteSet(T),
         Cardinality(T) < high - low + 1, NEW f,
         \A j, k \in low..high : f[j] = f[k] => j = k
  PROVE  \E k \in low..high : f[k] \notin T /\ \A j \in low..(k - 1) : f[j] \in T
<1> DEFINE I == low..high
           Free == {k \in I : f[k] \notin T}
<1>1. IsFiniteSet(I) /\ Cardinality(I) = high - low + 1
  <2>1. Cardinality(T) \in Nat
    BY FS_CardinalityType
  <2>2. low \in Int /\ high \in Int /\ ~(low > high)
    BY <2>1
  <2>3. IsFiniteSet(low..high) /\ Cardinality(low..high) = IF low > high THEN 0 ELSE high - low + 1
    BY <2>2, FS_Interval
  <2> QED  BY <2>2, <2>3
<1>2. Free # {}
  <2> SUFFICES ASSUME Free = {} PROVE FALSE
    OBVIOUS
  <2> DEFINE g == [k \in I |-> f[k]]
  <2>1. g \in [I -> T]
    OBVIOUS
  <2>2. PICK j, k \in I : j # k /\ g[j] = g[k]
    <3> HIDE DEF I, g
    <3> QED  BY <1>1, <2>1, FS_PigeonHole
  <2> QED  BY <2>2
<1>3. Free \in SUBSET Nat
  OBVIOUS
<1>4. PICK k \in Free : \A j \in Free : k <= j
  <2> HIDE DEF Free
  <2> QED  BY <1>2, <1>3, LeastNatural
<1>5. ASSUME NEW j \in low..(k - 1) PROVE f[j] \in T
  <2>1. j \in I /\ ~(k <= j)
    BY <1>3
  <2> QED  BY <1>4, <2>1
<1> QED  BY <1>5

\* The same of the values of the numbers up to the size of the set.
LEMMA FreeValue ==
  ASSUME NEW T, IsFiniteSet(T), NEW f,
         \A j, k \in 0..Cardinality(T) : f[j] = f[k] => j = k
  PROVE  \E k \in 0..Cardinality(T) : f[k] \notin T /\ \A j \in 0..(k - 1) : f[j] \in T
<1> DEFINE low == 0
           high == Cardinality(T)
<1>1. low \in Nat /\ high \in Nat /\ Cardinality(T) < high - low + 1
  BY FS_CardinalityType
<1>2. \A j, k \in low..high : f[j] = f[k] => j = k
  OBVIOUS
<1> HIDE DEF low, high
<1>3. \E k \in low..high : f[k] \notin T /\ \A j \in low..(k - 1) : f[j] \in T
  BY <1>1, <1>2, FirstFree
<1> QED  BY <1>3 DEF low, high

\* A finite function has at most as many values as arguments.
LEMMA ValuesFinite ==
  ASSUME NEW f, f = [z \in DOMAIN f |-> f[z]], IsFiniteSet(DOMAIN f)
  PROVE  IsFiniteSet(Range(f)) /\ Cardinality(Range(f)) <= Cardinality(DOMAIN f)
<1> DEFINE S == DOMAIN f
           T == Range(f)
<1>1. f \in [S -> T] /\ \A v \in T : \E z \in S : f[z] = v
  BY DEF Range
<1>2. f \in Surjection(S, T)
  BY <1>1 DEF Surjection
<1> HIDE DEF S, T
<1>3. IsFiniteSet(S)
  BY DEF S
<1>4. IsFiniteSet(T) /\ Cardinality(T) <= Cardinality(S)
  BY <1>2, <1>3, FS_Surjection
<1> QED  BY <1>4 DEF S, T

-----------------------------------------------------------------------------
(* The invariant of naming and linking.                                    *)

\* While names are given, every one given is that of one declaration, and all
\* actors have one.
Naming ==
  /\ phase \in {"name", "link", "done"}
  /\ names = [d \in DOMAIN names |-> names[d]]
  /\ Actors \subseteq DOMAIN names /\ DOMAIN names \subseteq Decls
  /\ \A d, e \in DOMAIN names : names[d] = names[e] => d = e
  /\ \A d \in DOMAIN names \ Actors : names[d] \notin ForeignLocals(d)
  /\ phase = "name" => origins = <<>> /\ models = <<>> /\ states = <<>>

\* Once linking begins, a name stands for one declaration: the selected ones under the
\* names they were given, the others under names that are no local's.
StandsFor ==
  phase # "name" =>
    /\ DOMAIN names = Decls /\ IsFiniteSet(DOMAIN origins)
    /\ \A d \in Decls : names[d] \in DOMAIN origins /\ origins[names[d]] = d
    /\ \A n, m \in DOMAIN origins : origins[n] = origins[m] => n = m
    /\ \A n \in DOMAIN origins \ Range(names) : n \notin ReservedNames

\* The first types of an artifact have a name that stands for their origin.
Translates(model, types, orgs) ==
  LET k == Cardinality(DOMAIN model)
  IN  /\ IsFiniteSet(DOMAIN model) /\ k \in 0..Len(types)
      /\ DOMAIN model = {types[j].name : j \in 1..k}
      /\ \A j \in 1..k : model[types[j].name] \in DOMAIN orgs
                         /\ orgs[model[types[j].name]] = types[j].origin

\* Artifacts are opened in order, and the types of one named before its states are taken.
Opened ==
  /\ Line(models) /\ Line(states)
  /\ Len(models) <= Len(unit.linked)
  /\ Len(states) <= Len(models) /\ Len(models) <= Len(states) + 1
  /\ \A a \in DOMAIN models : Translates(models[a], Types(a), origins)
  /\ \A a \in DOMAIN states : Cardinality(DOMAIN models[a]) = Len(Types(a))

\* What the names of a set stand for.
Origins(orgs, N) == {orgs[m] : m \in N}

\* A state taken from an artifact refers to what its source refers to.
StatesMean(state, model, types, exported, orgs) ==
  LET taken == ImportedFrom(types, exported)
  IN  /\ DOMAIN state = {model[n] : n \in taken}
      /\ \A n \in taken :
           /\ state[model[n]] \subseteq DOMAIN orgs
           /\ Origins(orgs, state[model[n]]) = RefOrigins(types, TypeIn(types, n))

StatesOf(a) == StatesMean(states[a], models[a], Types(a), unit.exported[a], origins)

NamingInv ==
  /\ unit \in Units
  /\ Naming /\ StandsFor /\ Opened
  /\ \A a \in DOMAIN states : StatesOf(a)

-----------------------------------------------------------------------------
(* The types of an artifact.                                               *)

\* The types of an artifact are told apart by their names, and those its exported
\* states lead to are among them.
LEMMA TypeFacts ==
  ASSUME NEW types, NEW exported, ValidArtifact(types, exported)
  PROVE  /\ Len(types) \in Nat /\ DOMAIN types = 1..Len(types)
         /\ \A i \in 1..Len(types) : types[i] \in Range(types) /\ TypeIn(types, types[i].name) = types[i]
         /\ \A t \in Range(types) :
              /\ TypeIn(types, t.name) = t /\ t.refs \subseteq {o.name : o \in Range(types)}
              /\ RefOrigins(types, t) = {TypeIn(types, r).origin : r \in t.refs}
         /\ exported \subseteq {t.name : t \in Range(types)}
<1>1. types \in Seq(Range(types))
  BY DEF ValidArtifact
<1>2. Len(types) \in Nat /\ DOMAIN types = 1..Len(types)
  BY <1>1, LenProperties
<1>3. \A i \in DOMAIN types : types[i] \in Range(types)
  BY DEF Range
<1>4. \A t \in Range(types) : \E i \in DOMAIN types : types[i] = t
  BY DEF Range
<1>5. \A s, t \in Range(types) : s.name = t.name => s = t
  BY <1>4 DEF ValidArtifact
<1>6. ASSUME NEW t \in Range(types)
      PROVE  TypeIn(types, t.name) = t
  BY <1>5 DEF TypeIn
<1>7. ASSUME NEW t \in Range(types)
      PROVE  /\ t.refs \subseteq {o.name : o \in Range(types)}
             /\ RefOrigins(types, t) = {TypeIn(types, r).origin : r \in t.refs}
  <2>1. t.refs \subseteq {o.name : o \in Range(types)}
    BY DEF ValidArtifact
  <2>2. \A o \in Range(types) : TypeIn(types, o.name) = o
    BY <1>6
  <2>3. \A r \in t.refs : TypeIn(types, r) \in Range(types) /\ TypeIn(types, r).name = r
    BY <2>1, <2>2
  <2> QED  BY <2>1, <2>2, <2>3 DEF RefOrigins
<1>8. exported \subseteq {t.name : t \in Range(types)}
  BY DEF ValidArtifact
<1> QED  BY <1>2, <1>3, <1>6, <1>7, <1>8

\* What is imported from an artifact are types of its own.
LEMMA ImportedTypes ==
  ASSUME NEW types, NEW exported, ValidArtifact(types, exported)
  PROVE  ImportedFrom(types, exported) \subseteq {t.name : t \in Range(types)}
<1> DEFINE D == {t.name : t \in Range(types)}
           W == [S \in SUBSET D |-> S \cup UNION {TypeIn(types, n).refs : n \in S}]
           Step(f) == f = [S \in SUBSET D |->
                             LET wider == S \cup UNION {TypeIn(types, n).refs : n \in S}
                             IN  IF wider = S THEN S ELSE f[wider]]
           step == CHOOSE f : Step(f)
<1>1. \A n \in D : TypeIn(types, n).refs \subseteq D
  BY TypeFacts
<1>2. Grows(D, W)
  <2> DEFINE Refs(S) == UNION {TypeIn(types, n).refs : n \in S}
  <2>1. \A S \in SUBSET D : W[S] = S \cup Refs(S)
    OBVIOUS
  <2>2. \A S \in SUBSET D : Refs(S) \subseteq D
    BY <1>1
  <2>3. \A S, C \in SUBSET D : S \subseteq C => Refs(S) \subseteq Refs(C)
    BY Zenon
  <2> HIDE DEF Refs
  <2>4. \A S \in SUBSET D : W[S] \in SUBSET D
    BY <2>1, <2>2
  <2>5. W \in [SUBSET D -> SUBSET D]
    BY <2>4
  <2>6. \A S \in SUBSET D : S \subseteq W[S]
    BY <2>1
  <2> HIDE DEF W, D
  <2>7. ASSUME NEW S \in SUBSET D, NEW C \in SUBSET D, S \subseteq C
        PROVE  W[S] \subseteq W[C]
    BY <2>1, <2>3, <2>7
  <2> QED  BY <2>5, <2>6, <2>7 DEF Grows
<1>3. IsFiniteSet(D)
  <2> DEFINE named == [i \in DOMAIN types |-> types[i].name]
  <2>1. Len(types) \in Nat /\ DOMAIN types = 1..Len(types)
    BY TypeFacts
  <2>2. IsFiniteSet(DOMAIN named)
    BY <2>1, FS_Interval
  <2>3. Range(named) = D
    BY DEF Range
  <2>4. named = [z \in DOMAIN named |-> named[z]]
    OBVIOUS
  <2> HIDE DEF named, D
  <2>5. IsFiniteSet(Range(named))
    BY <2>2, <2>4, ValuesFinite
  <2> QED  BY <2>3, <2>5
<1>4. exported \in SUBSET D
  BY TypeFacts
<1>5. \A f : Repeats(f, D, W) <=> Step(f)
  BY DEF Repeats
<1>6. ImportedFrom(types, exported) = step[exported]
  BY DEF ImportedFrom
<1> HIDE DEF D, W, Step
<1>7. \E f : Step(f)
  BY <1>2, <1>5, ClosureExists
<1>8. Step(step)
  BY <1>7
<1> HIDE DEF step
<1>9. Repeats(step, D, W)
  BY <1>5, <1>8
<1>10. step[exported] \in SUBSET D
  BY <1>2, <1>3, <1>4, <1>9, ClosureFacts
<1> QED  BY <1>6, <1>10 DEF D

-----------------------------------------------------------------------------
(* Every step keeps the invariant.                                         *)

\* Units are what the front end hands over.
LEMMA UnitFacts ==
  ASSUME unit \in Units
  PROVE  /\ ValidDecls(unit.decls) /\ OfOneSource(unit)
         /\ Len(unit.linked) \in Nat /\ DOMAIN unit.linked = 1..Len(unit.linked)
         /\ \A a \in 1..Len(unit.linked) : ValidArtifact(Types(a), unit.exported[a])
<1>1. ValidUnit(unit)
  BY UnitsAssumption
<1>2. unit.linked \in Seq(Range(unit.linked))
  BY <1>1 DEF ValidUnit
<1>3. Len(unit.linked) \in Nat /\ DOMAIN unit.linked = 1..Len(unit.linked)
  BY <1>2, LenProperties
<1> QED  BY <1>1, <1>3 DEF ValidUnit, Types

\* A declaration is left to name as long as not all are named.
LEMMA NextDeclExists ==
  ASSUME unit \in Units, DOMAIN names \subseteq Decls, Decls # DOMAIN names
  PROVE  NextDecl \in Decls \ DOMAIN names
<1> DEFINE Left == Decls \ DOMAIN names
           FromRoot == {d \in Left : unit.decls[d].root}
           First(d) == \A e \in Left :
                         d = e \/ (unit.decls[d].root /\ ~unit.decls[e].root)
                               \/ (unit.decls[d].root = unit.decls[e].root /\ d < e)
<1>1. Left \in SUBSET Nat /\ Left # {}
  BY UnitFacts DEF ValidDecls, Decls
<1>2. \E d \in Left : First(d)
  <2>1. CASE FromRoot # {}
    <3> FromRoot \in SUBSET Nat
      BY <1>1
    <3>1. PICK m \in FromRoot : \A n \in FromRoot : m <= n
      <4> HIDE DEF FromRoot
      <4> QED  BY <2>1, LeastNatural
    <3>2. m \in Left /\ \A e \in Left : m \in Nat /\ e \in Nat
      BY <1>1
    <3>3. unit.decls[m].root
      OBVIOUS
    <3>4. ASSUME NEW e \in Left, e # m, unit.decls[e].root
          PROVE  m < e
      BY <3>1, <3>2, <3>4
    <3>5. First(m)
      <4> SUFFICES ASSUME NEW e \in Left, e # m
                   PROVE  \/ (unit.decls[m].root /\ ~unit.decls[e].root)
                          \/ (unit.decls[m].root = unit.decls[e].root /\ m < e)
        OBVIOUS
      <4> QED  BY <3>3, <3>4
    <3> QED  BY <3>2, <3>5
  <2>2. CASE FromRoot = {}
    <3>1. PICK m \in Left : \A n \in Left : m <= n
      <4> HIDE DEF Left
      <4> QED  BY <1>1, LeastNatural
    <3>2. \A e \in Left : m \in Nat /\ e \in Nat
      BY <1>1
    <3>3. \A e \in Left : e # m => m < e
      BY <3>1, <3>2
    <3>4. \A e \in Left : unit.decls[e].root = FALSE
      BY <2>2, UnitFacts DEF ValidDecls, Decls
    <3>5. First(m)
      BY <3>1, <3>3, <3>4
    <3> QED  BY <3>1, <3>5
  <2> QED  BY <2>1, <2>2
<1> QED  BY <1>2 DEF NextDecl

\* The generated name is no other name's and no local's.
LEMMA GeneratedIsFree ==
  ASSUME unit \in Units, names = [d \in DOMAIN names |-> names[d]],
         DOMAIN names \subseteq Decls, NEW d \in Decls \ DOMAIN names
  PROVE  GeneratedName(d) \notin Occupied \cup ForeignLocals(d)
<1> DEFINE high == Cardinality(Decls) + 1
           f == [k \in 1..high |-> Generated(unit.decls[d].base, k)]
           Free(k) == Generated(unit.decls[d].base, k) \notin
                        Occupied \cup AuthoredNames \cup ForeignLocals(d)
           First(k) == Free(k) /\ \A j \in 1..(k - 1) : ~Free(j)
<1>1. IsFiniteSet(Decls) /\ Cardinality(Decls) \in Nat
  BY UnitFacts, FS_CardinalityType DEF ValidDecls, Decls
<1>2. IsFiniteSet(Occupied) /\ Cardinality(Occupied) \in Nat /\ Cardinality(Occupied) < high
  <2>1. IsFiniteSet(DOMAIN names) /\ Cardinality(DOMAIN names) <= Cardinality(Decls)
    BY <1>1, FS_Subset
  <2>2. IsFiniteSet(Occupied) /\ Cardinality(Occupied) <= Cardinality(DOMAIN names)
    BY <2>1, ValuesFinite DEF Occupied
  <2>3. Cardinality(DOMAIN names) \in Nat /\ Cardinality(Occupied) \in Nat
    BY <2>1, <2>2, FS_CardinalityType
  <2> QED  BY <1>1, <2>1, <2>2, <2>3
<1>3. \A k \in Nat : /\ Generated(unit.decls[d].base, k).generated = k
                     /\ k # 0 => Generated(unit.decls[d].base, k) \notin AuthoredNames \cup ForeignLocals(d)
  <2>1. \A k \in Nat : Generated(unit.decls[d].base, k).generated = k
    BY DEF Generated, Authored
  <2>2. \A name \in AuthoredNames \cup ForeignLocals(d) : name.generated = 0
    BY DEF AuthoredNames, ForeignLocals, Locals, Authored
  <2> QED  BY <2>1, <2>2
<1>4. 1 \in Nat /\ high \in Nat /\ Cardinality(Occupied) < high - 1 + 1
  BY <1>1, <1>2
<1>5. \A j, k \in 1..high : f[j] = f[k] => j = k
  BY <1>3, <1>4
<1>6. PICK k \in 1..high : f[k] \notin Occupied /\ \A j \in 1..(k - 1) : f[j] \in Occupied
  <2> DEFINE low == 1
             T == Occupied
  <2>1. IsFiniteSet(T) /\ low \in Nat /\ high \in Nat /\ Cardinality(T) < high - low + 1
    BY <1>2, <1>4
  <2>2. \A j, k \in low..high : f[j] = f[k] => j = k
    BY <1>5
  <2> HIDE DEF f, high, low, T
  <2>3. \E k \in low..high : f[k] \notin T /\ \A j \in low..(k - 1) : f[j] \in T
    BY <2>1, <2>2, FirstFree, SMTT(40)
  <2> QED  BY <2>3 DEF low, T
<1>7. First(k)
  <2>1. \A j \in 1..(k - 1) : j \in 1..high
    BY <1>4
  <2>2. \A j \in 1..high : j \in Nat /\ j # 0
    BY <1>4
  <2>3. \A j \in 1..high : Free(j) <=> f[j] \notin Occupied
    BY <1>3, <2>2
  <2> HIDE DEF Free, f, high
  <2> QED  BY <1>6, <2>1, <2>3
<1>8. GeneratedName(d) = Generated(unit.decls[d].base, CHOOSE i \in 1..high : First(i))
  BY DEF GeneratedName
<1>9. First(CHOOSE i \in 1..high : First(i))
  <2> HIDE DEF First, high
  <2> QED  BY <1>7
<1> QED  BY <1>8, <1>9

\* The locals are finitely many.
LEMMA ReservedFinite ==
  ASSUME unit \in Units
  PROVE  IsFiniteSet(ReservedNames)
<1> DEFINE F == [o \in Decls |-> Locals(o)]
<1>1. IsFiniteSet(Decls)
  BY UnitFacts DEF ValidDecls, Decls
<1>2. ASSUME NEW o \in Decls
      PROVE  IsFiniteSet(Locals(o))
  <2> DEFINE g == [base \in unit.decls[o].locals |-> Authored(base)]
  <2>1. IsFiniteSet(DOMAIN g)
    BY UnitFacts DEF ValidDecls, Decls
  <2>2. Range(g) = Locals(o)
    BY DEF Range, Locals
  <2>3. g = [z \in DOMAIN g |-> g[z]]
    OBVIOUS
  <2> HIDE DEF g
  <2> QED  BY <2>1, <2>2, <2>3, ValuesFinite
<1>3. IsFiniteSet(Range(F))
  <2>1. IsFiniteSet(DOMAIN F) /\ F = [z \in DOMAIN F |-> F[z]]
    BY <1>1
  <2> HIDE DEF F
  <2> QED  BY <2>1, ValuesFinite
<1>4. \A T \in Range(F) : IsFiniteSet(T)
  BY <1>2 DEF Range
<1>5. UNION Range(F) = ReservedNames
  BY DEF Range, ReservedNames
<1> HIDE DEF F
<1> QED  BY <1>3, <1>4, <1>5, FS_UNION

\* A fresh name is no other name's and no local's.
LEMMA FreshIsFree ==
  ASSUME unit \in Units, IsFiniteSet(DOMAIN origins), NEW name,
         name = [base |-> name.base, generated |-> name.generated, linked |-> name.linked],
         name.linked \in Seq(Nat)
  PROVE  FreshName(name) \notin DOMAIN origins \cup ReservedNames
<1> DEFINE taken == DOMAIN origins \cup ReservedNames
           Try(k) == IF k = 0 THEN name ELSE LinkedName(name, k)
           high == Cardinality(taken)
           f == [k \in 0..high |-> Try(k)]
           First(k) == Try(k) \notin taken /\ \A j \in 0..(k - 1) : Try(j) \in taken
<1>1. IsFiniteSet(taken) /\ high \in Nat
  BY ReservedFinite, FS_Union, FS_CardinalityType
<1>2. \A j, k \in 0..high : f[j] = f[k] => j = k
  <2>1. Len(name.linked) \in Nat
    BY LenProperties
  <2>2. ASSUME NEW k \in Nat, k # 0
        PROVE  Try(k).linked = <<k>> \o name.linked
    BY <2>2 DEF LinkedName
  <2>3. ASSUME NEW k \in Nat, k # 0
        PROVE  /\ Len(Try(k).linked) = Len(name.linked) + 1
               /\ Try(k).linked[1] = k
    <3> HIDE DEF Try
    <3> DEFINE s1 == <<k>>
               s2 == name.linked
    <3>1. s1 \in Seq(Nat) /\ Len(s1) = 1 /\ s1[1] = k
      OBVIOUS
    <3>2. s2 \in Seq(Nat)
      OBVIOUS
    <3> HIDE DEF s1, s2
    <3>3. /\ Len(s1 \o s2) = Len(s1) + Len(s2)
          /\ \A i \in 1..(Len(s1) + Len(s2)) : (s1 \o s2)[i] =
                 IF i <= Len(s1) THEN s1[i] ELSE s2[i - Len(s1)]
      BY <3>1, <3>2, ConcatProperties
    <3>4. Len(s2) \in Nat
      BY <3>2, LenProperties
    <3>5. Len(s1 \o s2) = Len(s2) + 1 /\ (s1 \o s2)[1] = k
      BY <3>1, <3>3, <3>4
    <3> QED  BY <2>2, <2>3, <3>5 DEF s1, s2
  <2>4. Try(0).linked = name.linked
    OBVIOUS
  <2>5. \A k \in 0..high : k \in Nat
    BY <1>1
  <2> HIDE DEF Try, high
  <2>6. \A j, k \in 0..high : Try(j) = Try(k) => j = k
    BY <2>1, <2>3, <2>4, <2>5
  <2> QED  BY <2>6
<1>3. \E k \in 0..high : f[k] \notin taken /\ \A j \in 0..(k - 1) : f[j] \in taken
  <2> HIDE DEF f, taken
  <2> QED  BY <1>1, <1>2, FreeValue
<1>4. \E k \in 0..high : First(k)
  <2>1. \A k \in 0..high : \A j \in 0..(k - 1) : j \in 0..high
    BY <1>1
  <2>2. \A k \in 0..high : f[k] = Try(k)
    OBVIOUS
  <2> HIDE DEF f, high, taken, Try
  <2>3. PICK k \in 0..high : f[k] \notin taken /\ \A j \in 0..(k - 1) : f[j] \in taken
    BY <1>3
  <2>4. Try(k) \notin taken
    BY <2>2, <2>3
  <2>5. \A j \in 0..(k - 1) : Try(j) \in taken
    BY <2>1, <2>2, <2>3
  <2> QED  BY <2>4, <2>5
<1>5. FreshName(name) = Try(CHOOSE k \in 0..high : First(k))
  BY DEF FreshName
<1> HIDE DEF Try, taken, high
<1> QED  BY <1>4, <1>5 DEF taken

\* At the start the actors have the names they were given in their sources.
LEMMA StartNamed == NamingInit => NamingInv
<1> SUFFICES ASSUME NamingInit PROVE NamingInv
  OBVIOUS
<1> USE DEF NamingInit
<1>1. unit \in Units
  OBVIOUS
<1>2. Naming
  <2>1. DOMAIN names = Actors /\ Actors \subseteq Decls
    BY DEF Actors
  <2>2. \A d \in DOMAIN names : names[d].base = unit.decls[d].base
    BY DEF Authored
  <2>3. \A d, e \in Actors : unit.decls[d].base = unit.decls[e].base => d = e
    BY <1>1, UnitFacts DEF ValidDecls, Actors, Decls
  <2> QED  BY <2>1, <2>2, <2>3 DEF Naming
<1>3. StandsFor
  BY DEF StandsFor
<1>4. DOMAIN models = {} /\ DOMAIN states = {}
  OBVIOUS
<1>5. Opened
  <2>1. Line(models) /\ Line(states) /\ Len(models) = 0 /\ Len(states) = 0
    BY EmptySeq DEF Line
  <2>2. Len(unit.linked) \in Nat
    BY <1>1, UnitFacts
  <2> QED  BY <1>4, <2>1, <2>2 DEF Opened
<1> QED  BY <1>1, <1>2, <1>3, <1>4, <1>5 DEF NamingInv

\* A declaration that is named gets a name of its own, and none of another file's locals.
LEMMA NamedKeeps == NamingInv /\ NameDeclaration => NamingInv'
<1> SUFFICES ASSUME NamingInv, NameDeclaration PROVE NamingInv'
  OBVIOUS
<1> DEFINE d == NextDecl
           name == IF Taken(d) THEN GeneratedName(d) ELSE Authored(unit.decls[d].base)
<1>1. /\ unit \in Units /\ Naming /\ phase = "name" /\ Decls # DOMAIN names
      /\ names' = Extended(names, d, name)
      /\ unit' = unit /\ phase' = phase /\ models' = models /\ states' = states /\ origins' = origins
  BY DEF NamingInv, NameDeclaration
<1>2. d \in Decls \ DOMAIN names
  BY <1>1, NextDeclExists DEF Naming
<1>3. name \notin Occupied \cup ForeignLocals(d)
  <2>1. GeneratedName(d) \notin Occupied \cup ForeignLocals(d)
    BY <1>1, <1>2, GeneratedIsFree DEF Naming
  <2>2. ~Taken(d) => Authored(unit.decls[d].base) \notin Occupied \cup ForeignLocals(d)
    BY DEF Taken
  <2> QED  BY <2>1, <2>2
<1> HIDE DEF d, name
<1>4. /\ DOMAIN names' = DOMAIN names \cup {d} /\ names'[d] = name
      /\ \A e \in DOMAIN names : names'[e] = names[e]
      /\ names' = [e \in DOMAIN names' |-> names'[e]]
  BY <1>1, <1>2 DEF Extended
<1>5. /\ Decls' = Decls /\ Actors' = Actors
      /\ \A e : ForeignLocals(e)' = ForeignLocals(e)
  BY <1>1 DEF Decls, Actors, ForeignLocals, Locals
<1>6. Naming'
  <2>1. \A e \in DOMAIN names : names[e] \in Occupied
    BY DEF Occupied, Range
  <2>2. \A e, f \in DOMAIN names' : names'[e] = names'[f] => e = f
    BY <1>1, <1>3, <1>4, <2>1 DEF Naming
  <2>3. \A e \in DOMAIN names' \ Actors : names'[e] \notin ForeignLocals(e)
    BY <1>1, <1>3, <1>4 DEF Naming
  <2>4. Actors \subseteq DOMAIN names' /\ DOMAIN names' \subseteq Decls
    BY <1>1, <1>2, <1>4 DEF Naming
  <2>5. \A e, f \in DOMAIN names' : (names[e])' = (names[f])' => e = f
    BY <2>2
  <2>6. \A e \in DOMAIN names' \ Actors' : names'[e] \notin ForeignLocals(e)'
    BY <1>5, <2>3
  <2>7. Actors' \subseteq DOMAIN names' /\ DOMAIN names' \subseteq Decls'
    BY <1>5, <2>4
  <2>8. phase' \in {"name", "link", "done"} /\ origins' = <<>> /\ models' = <<>> /\ states' = <<>>
    BY <1>1 DEF Naming
  <2> QED  BY <1>4, <2>5, <2>6, <2>7, <2>8 DEF Naming
<1>7. StandsFor'
  BY <1>1 DEF StandsFor
<1>8. Opened' /\ \A a \in DOMAIN states' : StatesOf(a)'
  <2>1. models' = <<>> /\ states' = <<>>
    BY <1>1 DEF Naming
  <2>2. Line(models') /\ Line(states') /\ Len(models') = 0 /\ Len(states') = 0
    BY <2>1, EmptySeq DEF Line
  <2>3. Len(unit'.linked) \in Nat /\ DOMAIN models' = {} /\ DOMAIN states' = {}
    BY <1>1, <2>1, UnitFacts
  <2> QED  BY <2>2, <2>3 DEF Opened
<1> QED  BY <1>1, <1>6, <1>7, <1>8 DEF NamingInv

\* Once all are named, every name stands for what has it.
LEMMA BegunKeeps == NamingInv /\ BeginLinking => NamingInv'
<1> SUFFICES ASSUME NamingInv, BeginLinking PROVE NamingInv'
  OBVIOUS
<1>1. /\ unit \in Units /\ Naming /\ phase = "name" /\ Decls = DOMAIN names
      /\ origins' = [name \in Range(names) |-> CHOOSE d \in Decls : names[d] = name]
      /\ unit' = unit /\ phase' = "link" /\ models' = models /\ states' = states /\ names' = names
  BY DEF NamingInv, BeginLinking
<1>2. /\ Decls' = Decls /\ Actors' = Actors /\ ReservedNames' = ReservedNames
      /\ \A e : ForeignLocals(e)' = ForeignLocals(e)
  BY <1>1 DEF Decls, Actors, ForeignLocals, Locals, ReservedNames
<1>3. Naming'
  <2>1. \A e \in DOMAIN names \ Actors : names[e] \notin ForeignLocals(e)'
    BY <1>1, <1>2 DEF Naming
  <2> QED  BY <1>1, <1>2, <2>1 DEF Naming
<1>4. StandsFor'
  <2>1. \A d, e \in Decls : names[d] = names[e] => d = e
    BY <1>1 DEF Naming
  <2>2. DOMAIN origins' = Range(names) /\ \A d \in Decls : names[d] \in Range(names)
    BY <1>1 DEF Range
  <2>3. \A d \in Decls : origins'[names[d]] = d
    BY <1>1, <2>1, <2>2
  <2>4. \A name \in Range(names) : \E d \in Decls : names[d] = name
    BY <1>1 DEF Range
  <2>5. \A n, m \in DOMAIN origins' : origins'[n] = origins'[m] => n = m
    BY <2>2, <2>3, <2>4
  <2>6. IsFiniteSet(DOMAIN origins')
    <3>1. IsFiniteSet(DOMAIN names) /\ names = [e \in DOMAIN names |-> names[e]]
      BY <1>1, UnitFacts DEF ValidDecls, Decls, Naming
    <3> QED  BY <2>2, <3>1, ValuesFinite
  <2> QED  BY <1>1, <1>2, <2>2, <2>3, <2>5, <2>6 DEF StandsFor
<1>5. Opened' /\ \A a \in DOMAIN states' : StatesOf(a)'
  <2>1. models' = <<>> /\ states' = <<>>
    BY <1>1 DEF Naming
  <2>2. Line(models') /\ Line(states') /\ Len(models') = 0 /\ Len(states') = 0
    BY <2>1, EmptySeq DEF Line
  <2>3. Len(unit'.linked) \in Nat /\ DOMAIN models' = {} /\ DOMAIN states' = {}
    BY <1>1, <2>1, UnitFacts
  <2> QED  BY <2>2, <2>3 DEF Opened
<1> QED  BY <1>1, <1>3, <1>4, <1>5 DEF NamingInv

\* An artifact is opened with none of its types named.
LEMMA OpenedKeeps == NamingInv /\ OpenArtifact => NamingInv'
<1> SUFFICES ASSUME NamingInv, OpenArtifact PROVE NamingInv'
  OBVIOUS
<1> DEFINE l == Len(models)
<1>1. /\ unit \in Units /\ Naming /\ StandsFor /\ Opened
      /\ phase = "link" /\ Len(states) = l /\ l < Len(unit.linked)
      /\ models' = Append(models, <<>>)
      /\ unit' = unit /\ phase' = phase /\ states' = states /\ origins' = origins /\ names' = names
      /\ \A a \in DOMAIN states : StatesOf(a)
  BY DEF NamingInv, OpenArtifact, Artifact
<1>2. /\ l \in Nat /\ DOMAIN models = 1..l /\ DOMAIN states = 1..l
      /\ Len(models') = l + 1 /\ DOMAIN models' = 1..(l + 1)
      /\ models'[l + 1] = <<>> /\ \A a \in 1..l : models'[a] = models[a]
      /\ Line(models')
  <2>1. Line(models) /\ Line(states)
    BY <1>1 DEF Opened
  <2>2. DOMAIN states = 1..l
    BY <1>1, <2>1, LenProperties DEF Line
  <2>3. IsAppended(models', models, <<>>)
    BY <1>1, <2>1, AppendedValue
  <2> QED  BY <2>2, <2>3 DEF IsAppended
<1> HIDE DEF l
<1>3. Naming' /\ StandsFor'
  BY <1>1 DEF Naming, StandsFor, Decls, Actors, ForeignLocals, Locals, ReservedNames
<1>4. Opened'
  <2>1. Translates(<<>>, Types(l + 1), origins)
    <3>1. DOMAIN <<>> = {}
      OBVIOUS
    <3>2. Len(unit.linked) \in Nat /\ l + 1 \in 1..Len(unit.linked)
      BY <1>1, <1>2, UnitFacts
    <3>3. Len(Types(l + 1)) \in Nat
      BY <1>1, <3>2, UnitFacts, TypeFacts
    <3>4. IsFiniteSet({}) /\ Cardinality({}) = 0
      BY FS_EmptySet
    <3> QED  BY <3>1, <3>3, <3>4 DEF Translates
  <2>2. \A a \in 1..l : Translates(models[a], Types(a), origins)
    BY <1>1, <1>2 DEF Opened
  <2>3. \A a \in 1..(l + 1) : a = l + 1 \/ a \in 1..l
    BY <1>2
  <2>4. \A a \in DOMAIN models' : Translates(models'[a], Types(a), origins)
    BY <1>2, <2>1, <2>2, <2>3
  <2>5. \A a : Types(a)' = Types(a)
    BY <1>1 DEF Types
  <2>6. \A a \in DOMAIN states : Cardinality(DOMAIN models'[a]) = Len(Types(a))
    BY <1>1, <1>2 DEF Opened
  <2>7. Len(models') <= Len(unit.linked)
    BY <1>1, <1>2, UnitFacts
  <2> QED  BY <1>1, <1>2, <2>4, <2>5, <2>6, <2>7 DEF Opened
<1>5. \A a \in DOMAIN states' : StatesOf(a)'
  BY <1>1, <1>2 DEF StatesOf, Types
<1> QED  BY <1>1, <1>3, <1>4, <1>5 DEF NamingInv

\* Nothing changes at the end but the phase.
LEMMA FinishKeeps == NamingInv /\ Finish => NamingInv'
<1> SUFFICES ASSUME NamingInv, Finish PROVE NamingInv'
  OBVIOUS
<1> USE DEF NamingInv, Finish
<1>1. Naming'
  BY DEF Naming, Decls, Actors, ForeignLocals, Locals
<1>2. StandsFor'
  BY DEF StandsFor, Decls, ReservedNames, Locals
<1>3. Opened' /\ \A a \in DOMAIN states' : StatesOf(a)'
  BY DEF Opened, StatesOf, Types
<1> QED  BY <1>1, <1>2, <1>3

\* What names stood for they still stand for.
Extends(more, orgs) ==
  DOMAIN orgs \subseteq DOMAIN more /\ \A n \in DOMAIN orgs : more[n] = orgs[n]

\* Names that are added change nothing of what was named before.
LEMMA NamedStays ==
  ASSUME NEW orgs, NEW more, Extends(more, orgs), NEW model, NEW types
  PROVE  /\ Translates(model, types, orgs) => Translates(model, types, more)
         /\ \A state, exported : StatesMean(state, model, types, exported, orgs) =>
                                   StatesMean(state, model, types, exported, more)
<1>1. Translates(model, types, orgs) => Translates(model, types, more)
  BY DEF Translates, Extends
<1>2. ASSUME NEW state, NEW exported, StatesMean(state, model, types, exported, orgs)
      PROVE  StatesMean(state, model, types, exported, more)
  <2> DEFINE taken == ImportedFrom(types, exported)
  <2>1. /\ DOMAIN state = {model[n] : n \in taken}
        /\ \A n \in taken :
           /\ state[model[n]] \subseteq DOMAIN orgs
           /\ Origins(orgs, state[model[n]]) = RefOrigins(types, TypeIn(types, n))
    BY <1>2 DEF StatesMean
  <2>2. ASSUME NEW n \in taken
        PROVE  /\ state[model[n]] \subseteq DOMAIN more
               /\ Origins(more, state[model[n]]) = RefOrigins(types, TypeIn(types, n))
    <3>1. \A m \in state[model[n]] : m \in DOMAIN orgs /\ m \in DOMAIN more /\ more[m] = orgs[m]
      BY <2>1 DEF Extends
    <3>2. Origins(more, state[model[n]]) = Origins(orgs, state[model[n]])
      BY <3>1 DEF Origins
    <3> QED  BY <2>1, <3>1, <3>2
  <2> QED  BY <2>1, <2>2 DEF StatesMean
<1> QED  BY <1>1, <1>2

\* The next type of an artifact is named for what it stands for.
LEMMA NextTranslates ==
  ASSUME NEW types, NEW exported, ValidArtifact(types, exported), NEW orgs, NEW model,
         Translates(model, types, orgs), NEW k, k = Cardinality(DOMAIN model), k < Len(types),
         NEW name, name \in DOMAIN orgs, orgs[name] = types[k + 1].origin
  PROVE  /\ k \in Nat /\ k + 1 \in 1..Len(types)
         /\ Translates(Extended(model, types[k + 1].name, name), types, orgs)
<1> DEFINE more == Extended(model, types[k + 1].name, name)
           named(j) == types[j].name
<1>1. /\ Len(types) \in Nat /\ k \in 0..Len(types) /\ IsFiniteSet(DOMAIN model)
      /\ DOMAIN model = {named(j) : j \in 1..k}
      /\ \A j \in 1..k : model[named(j)] \in DOMAIN orgs /\ orgs[model[named(j)]] = types[j].origin
  BY TypeFacts DEF Translates
<1>2. k \in Nat /\ k + 1 \in 1..Len(types) /\ k + 1 \in 0..Len(types)
  BY <1>1
<1>3. \A i, j \in 1..Len(types) : named(i) = named(j) => i = j
  BY TypeFacts DEF ValidArtifact
<1>4. \A j \in 1..(k + 1) : j \in 1..Len(types) /\ (j = k + 1 \/ j \in 1..k) /\ (j \in 1..k => j # k + 1)
  BY <1>1, <1>2
<1>5. \A j \in 1..k : j \in 1..(k + 1)
  BY <1>2
<1>6. k + 1 \in 1..(k + 1)
  BY <1>2
<1>7. named(k + 1) \notin DOMAIN model
  BY <1>1, <1>3, <1>4, <1>5, <1>6
<1>8. /\ DOMAIN more = DOMAIN model \cup {named(k + 1)}
      /\ more[named(k + 1)] = name /\ \A n \in DOMAIN model : more[n] = model[n]
  BY <1>7 DEF Extended
<1>9. IsFiniteSet(DOMAIN more) /\ Cardinality(DOMAIN more) = k + 1
  <2> DEFINE D == DOMAIN model
             n == named(k + 1)
  <2>1. IsFiniteSet(D) /\ n \notin D /\ Cardinality(D) = k
    BY <1>1, <1>7
  <2>2. DOMAIN more = D \cup {n}
    BY <1>8
  <2> HIDE DEF D, n, named, more
  <2>3. IsFiniteSet(D \cup {n}) /\ Cardinality(D \cup {n}) = k + 1
    BY <2>1, FS_AddElement
  <2> QED  BY <2>2, <2>3
<1> HIDE DEF more
<1>10. DOMAIN more = {named(j) : j \in 1..(k + 1)}
  <2>1. DOMAIN more = {named(j) : j \in 1..k} \cup {named(k + 1)}
    BY <1>1, <1>8
  <2> HIDE DEF named
  <2> QED  BY <1>4, <1>5, <1>6, <2>1
<1>11. \A j \in 1..(k + 1) : more[named(j)] \in DOMAIN orgs /\ orgs[more[named(j)]] = types[j].origin
  BY <1>1, <1>4, <1>8
<1> QED  BY <1>2, <1>9, <1>10, <1>11 DEF Translates, more

\* A type of an artifact is named for its declaration: by the name that stands for it,
\* or by one that stands for nothing yet.
LEMMA LinkedKeeps == NamingInv /\ LinkName => NamingInv'
<1> SUFFICES ASSUME NamingInv, LinkName PROVE NamingInv'
  OBVIOUS
<1> DEFINE l == Len(models)
           k == Cardinality(DOMAIN models[l])
           type == Types(l)[k + 1]
           name == ModelName(type)
           model == Extended(models[l], type.name, name)
<1>1. /\ unit \in Units /\ Naming /\ StandsFor /\ Opened
      /\ phase = "link" /\ Len(states) < l /\ k < Len(Types(l))
      /\ models' = [models EXCEPT ![l] = model]
      /\ origins' = IF name \in DOMAIN origins THEN origins ELSE Extended(origins, name, type.origin)
      /\ unit' = unit /\ phase' = phase /\ states' = states /\ names' = names
      /\ \A a \in DOMAIN states : StatesOf(a)
  BY DEF NamingInv, LinkName, Artifact, Linked
<1>2. /\ Line(models) /\ Line(states) /\ l \in Nat /\ l \in 1..Len(unit.linked)
      /\ DOMAIN models = 1..l /\ DOMAIN states = 1..Len(states) /\ l \in DOMAIN models
      /\ DOMAIN states \subseteq DOMAIN models /\ l \notin DOMAIN states
  <2>1. Line(models) /\ Line(states) /\ l <= Len(unit.linked)
    BY <1>1 DEF Opened
  <2>2. l \in Nat /\ Len(states) \in Nat /\ DOMAIN models = 1..l /\ DOMAIN states = 1..Len(states)
    BY <2>1, LenProperties DEF Line
  <2> QED  BY <1>1, <2>1, <2>2, UnitFacts
<1>3. ValidArtifact(Types(l), unit.exported[l]) /\ Translates(models[l], Types(l), origins)
  BY <1>1, <1>2, UnitFacts DEF Opened
<1>4. k \in Nat /\ k + 1 \in 1..Len(Types(l)) /\ type \in Range(Types(l))
  <2>1. k \in 0..Len(Types(l)) /\ Len(Types(l)) \in Nat
    BY <1>3, TypeFacts DEF Translates
  <2>2. k \in Nat /\ k + 1 \in 1..Len(Types(l))
    BY <1>1, <2>1
  <2> QED  BY <1>3, <2>2, TypeFacts
<1> HIDE DEF l, k, type, model
<1>5. \/ name \in DOMAIN origins /\ origins[name] = type.origin
      \/ /\ name \notin DOMAIN origins \cup ReservedNames
         /\ \A n \in DOMAIN origins : origins[n] # type.origin
  <2>1. CASE Named(type.origin)
    BY <2>1 DEF ModelName, Named, NameOf
  <2>2. CASE ~Named(type.origin)
    <3>1. /\ type.name = [base |-> type.name.base, generated |-> type.name.generated,
                          linked |-> type.name.linked]
          /\ type.name.linked \in Seq(Nat)
      BY <1>3, <1>4 DEF ValidArtifact
    <3>2. IsFiniteSet(DOMAIN origins)
      BY <1>1 DEF StandsFor
    <3>3. FreshName(type.name) \notin DOMAIN origins \cup ReservedNames
      BY <1>1, <3>1, <3>2, FreshIsFree
    <3> QED  BY <2>2, <3>3 DEF ModelName, Named
  <2> QED  BY <2>1, <2>2
<1> HIDE DEF name
<1>6. /\ Extends(origins', origins) /\ name \in DOMAIN origins' /\ origins'[name] = type.origin
      /\ DOMAIN origins' = DOMAIN origins \cup {name}
  BY <1>1, <1>5 DEF Extends, Extended
<1>7. /\ Decls' = Decls /\ Actors' = Actors /\ ReservedNames' = ReservedNames
      /\ \A e : ForeignLocals(e)' = ForeignLocals(e)
      /\ \A a : Types(a)' = Types(a)
  BY <1>1 DEF Decls, Actors, ForeignLocals, Locals, ReservedNames, Types
<1>8. Naming'
  <2>1. \A e \in DOMAIN names \ Actors : names[e] \notin ForeignLocals(e)'
    BY <1>1, <1>7 DEF Naming
  <2> QED  BY <1>1, <1>7, <2>1 DEF Naming
<1>9. StandsFor'
  <2>1. /\ DOMAIN names = Decls /\ IsFiniteSet(DOMAIN origins)
        /\ \A d \in Decls : names[d] \in DOMAIN origins /\ origins[names[d]] = d
        /\ \A n, m \in DOMAIN origins : origins[n] = origins[m] => n = m
        /\ \A n \in DOMAIN origins \ Range(names) : n \notin ReservedNames
    BY <1>1 DEF StandsFor
  <2>2. \A n \in DOMAIN origins : origins'[n] = origins[n]
    BY <1>6 DEF Extends
  <2>3. IsFiniteSet(DOMAIN origins')
    BY <1>6, <2>1, FS_AddElement
  <2>4. \A d \in Decls : names[d] \in DOMAIN origins' /\ origins'[names[d]] = d
    BY <1>6, <2>1, <2>2
  <2>5. \A n, m \in DOMAIN origins' : origins'[n] = origins'[m] => n = m
    BY <1>5, <1>6, <2>1, <2>2
  <2>6. \A n \in DOMAIN origins' \ Range(names) : n \notin ReservedNames
    BY <1>5, <1>6, <2>1
  <2> QED  BY <1>1, <1>7, <2>1, <2>3, <2>4, <2>5, <2>6 DEF StandsFor
<1>10. /\ Line(models') /\ Len(models') = l /\ DOMAIN models' = DOMAIN models
       /\ models'[l] = model /\ \A a \in DOMAIN models : a # l => models'[a] = models[a]
  <2>1. IsReplaced(models', models, l, model)
    BY <1>1, <1>2, ReplacedValue
  <2> QED  BY <2>1 DEF IsReplaced, l
<1>11. Opened'
  <2>1. Translates(model, Types(l), origins')
    <3> DEFINE orgs == origins'
               types == Types(l)
    <3>1. Translates(models[l], types, orgs)
      BY <1>3, <1>6, NamedStays
    <3>2. k = Cardinality(DOMAIN models[l]) /\ k < Len(types) /\ name \in DOMAIN orgs
          /\ orgs[name] = types[k + 1].origin /\ ValidArtifact(types, unit.exported[l])
      BY <1>1, <1>3, <1>6 DEF k, type
    <3> HIDE DEF orgs, types
    <3>3. Translates(Extended(models[l], types[k + 1].name, name), types, orgs)
      BY <3>1, <3>2, NextTranslates
    <3> QED  BY <3>3 DEF orgs, types, model, type
  <2>2. \A a \in DOMAIN models : Translates(models[a], Types(a), origins')
    BY <1>1, <1>6, NamedStays DEF Opened
  <2>3. \A a \in DOMAIN models' : Translates(models'[a], Types(a), origins')
    BY <1>10, <2>1, <2>2
  <2>4. \A a \in DOMAIN states : Cardinality(DOMAIN models'[a]) = Len(Types(a))
    BY <1>1, <1>2, <1>10 DEF Opened
  <2> QED  BY <1>1, <1>2, <1>7, <1>10, <2>3, <2>4 DEF Opened, l
<1>12. \A a \in DOMAIN states' : StatesOf(a)'
  <2>1. \A a \in DOMAIN states : models'[a] = models[a]
    BY <1>2, <1>10
  <2>2. ASSUME NEW a \in DOMAIN states
        PROVE  StatesMean(states[a], models[a], Types(a), unit.exported[a], origins')
    <3>1. StatesMean(states[a], models[a], Types(a), unit.exported[a], origins)
      BY <1>1 DEF StatesOf
    <3>2. Extends(origins', origins)
      BY <1>6
    <3>3. \A state, exported : StatesMean(state, models[a], Types(a), exported, origins) =>
                                StatesMean(state, models[a], Types(a), exported, origins')
      BY <3>2, NamedStays, Zenon
    <3> QED  BY <3>1, <3>3
  <2> QED  BY <1>1, <1>7, <2>1, <2>2 DEF StatesOf
<1> QED  BY <1>1, <1>8, <1>9, <1>11, <1>12 DEF NamingInv

\* Sets of names that stand for the same declarations are the same.
LEMMA SameMeaning ==
  ASSUME NEW orgs, \A n, m \in DOMAIN orgs : orgs[n] = orgs[m] => n = m,
         NEW P, NEW Q, P \subseteq DOMAIN orgs, Q \subseteq DOMAIN orgs,
         Origins(orgs, P) = Origins(orgs, Q)
  PROVE  P = Q
<1>1. ASSUME NEW m \in P PROVE m \in Q
  <2>1. PICK n \in Q : orgs[n] = orgs[m]
    BY DEF Origins
  <2> QED  BY <2>1
<1>2. ASSUME NEW m \in Q PROVE m \in P
  <2>1. PICK n \in P : orgs[n] = orgs[m]
    BY DEF Origins
  <2> QED  BY <2>1
<1> QED  BY <1>1, <1>2

\* What a type refers to, in the names given here.
Renamed(model, t) == {model[r] : r \in t.refs}

\* Once all types of an artifact are named, what they refer to there and here is the same.
LEMMA TranslatedMeaning ==
  ASSUME NEW types, NEW exported, ValidArtifact(types, exported), NEW orgs, NEW model,
         Translates(model, types, orgs), Cardinality(DOMAIN model) = Len(types),
         NEW n \in {t.name : t \in Range(types)}
  PROVE  LET t == TypeIn(types, n)
         IN  /\ t \in Range(types) /\ t.name = n
             /\ model[n] \in DOMAIN orgs /\ orgs[model[n]] = t.origin
             /\ Renamed(model, t) \subseteq DOMAIN orgs
             /\ Origins(orgs, Renamed(model, t)) = RefOrigins(types, t)
<1> DEFINE t == TypeIn(types, n)
<1>1. t \in Range(types) /\ t.name = n
  BY TypeFacts
<1>2. \A o \in Range(types) : model[o.name] \in DOMAIN orgs /\ orgs[model[o.name]] = o.origin
  <2>1. \A o \in Range(types) : \E j \in 1..Len(types) : o = types[j]
    BY TypeFacts DEF Range
  <2>2. \A j \in 1..Len(types) : model[types[j].name] \in DOMAIN orgs
                                 /\ orgs[model[types[j].name]] = types[j].origin
    BY DEF Translates
  <2> QED  BY <2>1, <2>2
<1>3. /\ t.refs \subseteq {o.name : o \in Range(types)}
      /\ RefOrigins(types, t) = {TypeIn(types, r).origin : r \in t.refs}
      /\ \A o \in Range(types) : TypeIn(types, o.name) = o
  BY <1>1, TypeFacts
<1> HIDE DEF t
<1>4. \A r \in t.refs : model[r] \in DOMAIN orgs /\ orgs[model[r]] = TypeIn(types, r).origin
  BY <1>2, <1>3
<1>5. Origins(orgs, Renamed(model, t)) = RefOrigins(types, t)
  BY <1>3, <1>4 DEF Origins, Renamed
<1> QED  BY <1>1, <1>2, <1>4, <1>5 DEF t, Renamed

\* What an artifact says a type refers to, in the names given here.
LEMMA MeaningFacts ==
  ASSUME NamingInv, phase # "name", NEW a \in DOMAIN models,
         Cardinality(DOMAIN models[a]) = Len(Types(a)), NEW n \in Imported(a)
  PROVE  LET t == TypeNamed(a, n)
         IN  /\ a \in DOMAIN unit.linked /\ t \in Range(unit.linked[a])
             /\ models[a][n] \in DOMAIN origins /\ origins[models[a][n]] = t.origin
             /\ Meaning(a, n) \subseteq DOMAIN origins
             /\ Origins(origins, Meaning(a, n)) = RefOrigins(Types(a), t)
<1>1. unit \in Units /\ Translates(models[a], Types(a), origins)
  BY DEF NamingInv, Opened
<1>2. a \in DOMAIN unit.linked /\ ValidArtifact(Types(a), unit.exported[a])
  <2>1. Line(models) /\ Len(models) <= Len(unit.linked)
    BY DEF NamingInv, Opened
  <2>2. Len(models) \in Nat /\ DOMAIN models = 1..Len(models)
    BY <2>1, LenProperties DEF Line
  <2>3. Len(unit.linked) \in Nat /\ DOMAIN unit.linked = 1..Len(unit.linked)
    BY <1>1, UnitFacts
  <2>4. a \in 1..Len(unit.linked)
    BY <2>1, <2>2, <2>3
  <2> QED  BY <1>1, <2>3, <2>4, UnitFacts
<1>3. n \in {t.name : t \in Range(Types(a))}
  BY <1>2, ImportedTypes DEF Imported
<1> DEFINE types == Types(a)
           exported == unit.exported[a]
           model == models[a]
           t == TypeIn(types, n)
<1>4. /\ ValidArtifact(types, exported) /\ Translates(model, types, origins)
      /\ Cardinality(DOMAIN model) = Len(types) /\ n \in {o.name : o \in Range(types)}
  BY <1>1, <1>2, <1>3
<1> HIDE DEF types, exported, model
<1>5. /\ t \in Range(types)
      /\ model[n] \in DOMAIN origins /\ origins[model[n]] = t.origin
      /\ Renamed(model, t) \subseteq DOMAIN origins
      /\ Origins(origins, Renamed(model, t)) = RefOrigins(types, t)
  BY <1>4, TranslatedMeaning
<1>6. TypeNamed(a, n) = t /\ Types(a) = types /\ models[a] = model /\ unit.linked[a] = types
  BY DEF TypeNamed, types, model, Types
<1>7. Meaning(a, n) = Renamed(model, t)
  BY <1>6 DEF Meaning, Renamed
<1> QED  BY <1>2, <1>5, <1>6, <1>7

\* Types of one declaration refer to the same ones, in artifacts and in the sources.
LEMMA OneSourceFacts ==
  ASSUME unit \in Units, NEW a \in DOMAIN unit.linked, NEW t \in Range(unit.linked[a])
  PROVE  /\ t.origin \in Decls => RefOrigins(Types(a), t) = unit.decls[t.origin].refs
         /\ \A b \in DOMAIN unit.linked : \A s \in Range(unit.linked[b]) :
              t.origin = s.origin => RefOrigins(Types(a), t) = RefOrigins(Types(b), s)
BY UnitFacts DEF OfOneSource, Types, Decls

\* What is known of an imported type is what the artifact says of it.
LEMMA KnownAgrees ==
  ASSUME NamingInv, phase # "name", NEW a \in DOMAIN models,
         Cardinality(DOMAIN models[a]) = Len(Types(a)), NEW n \in Imported(a)
  PROVE  Known(models[a][n]) \subseteq {Meaning(a, n)}
<1> DEFINE t == TypeNamed(a, n)
           name == models[a][n]
<1>1. /\ a \in DOMAIN unit.linked /\ t \in Range(unit.linked[a])
      /\ name \in DOMAIN origins /\ origins[name] = t.origin
      /\ Meaning(a, n) \subseteq DOMAIN origins
      /\ Origins(origins, Meaning(a, n)) = RefOrigins(Types(a), t)
  BY MeaningFacts
<1>2. unit \in Units /\ StandsFor /\ Opened /\ \A b \in DOMAIN states : StatesOf(b)
  BY DEF NamingInv
<1>3. /\ \A d \in Decls : names[d] \in DOMAIN origins /\ origins[names[d]] = d
      /\ \A m, p \in DOMAIN origins : origins[m] = origins[p] => m = p
  BY <1>2 DEF StandsFor
<1> HIDE DEF t, name
<1>4. CASE \E d \in Decls : names[d] = name
  <2> DEFINE d == CHOOSE e \in Decls : names[e] = name
             P == {names[r] : r \in unit.decls[d].refs}
  <2>1. d \in Decls /\ names[d] = name
    BY <1>4
  <2>2. d = t.origin
    BY <1>1, <1>3, <2>1
  <2>3. Known(name) = {P}
    BY <1>4 DEF Known
  <2> HIDE DEF d
  <2>4. unit.decls[d].refs \subseteq Decls
    BY <1>2, <2>1, UnitFacts DEF ValidDecls, Decls
  <2>5. P \subseteq DOMAIN origins /\ Origins(origins, P) = unit.decls[d].refs
    BY <1>3, <2>4 DEF Origins
  <2>6. RefOrigins(Types(a), t) = unit.decls[d].refs
    BY <1>1, <1>2, <2>1, <2>2, OneSourceFacts
  <2> HIDE DEF P
  <2>7. P = Meaning(a, n)
    BY <1>1, <1>3, <2>5, <2>6, SameMeaning
  <2> QED  BY <2>3, <2>7 DEF name
<1>5. CASE ~\E d \in Decls : names[d] = name
  <2>1. Known(name) = {states[b][name] : b \in {c \in DOMAIN states : name \in DOMAIN states[c]}}
    BY <1>5 DEF Known
  <2>2. ASSUME NEW b \in DOMAIN states, name \in DOMAIN states[b]
        PROVE  states[b][name] = Meaning(a, n)
    <3>1. StatesMean(states[b], models[b], Types(b), unit.exported[b], origins)
      BY <1>2 DEF StatesOf
    <3>2. PICK m \in Imported(b) : name = models[b][m]
      BY <2>2, <3>1 DEF StatesMean, Imported
    <3>3. /\ states[b][name] \subseteq DOMAIN origins
          /\ Origins(origins, states[b][name]) = RefOrigins(Types(b), TypeNamed(b, m))
      BY <3>1, <3>2 DEF StatesMean, Imported, TypeNamed
    <3>4. b \in DOMAIN models /\ Cardinality(DOMAIN models[b]) = Len(Types(b))
      <4>1. Line(models) /\ Line(states) /\ Len(states) <= Len(models)
        BY <1>2 DEF Opened
      <4>2. /\ Len(models) \in Nat /\ DOMAIN models = 1..Len(models)
            /\ Len(states) \in Nat /\ DOMAIN states = 1..Len(states)
        BY <4>1, LenProperties DEF Line
      <4>3. b \in DOMAIN models
        BY <4>1, <4>2
      <4> QED  BY <1>2, <4>3 DEF Opened
    <3>5. /\ b \in DOMAIN unit.linked /\ TypeNamed(b, m) \in Range(unit.linked[b])
          /\ origins[name] = TypeNamed(b, m).origin
      BY <3>2, <3>4, MeaningFacts
    <3>6. RefOrigins(Types(b), TypeNamed(b, m)) = RefOrigins(Types(a), t)
      <4> DEFINE s == TypeNamed(b, m)
      <4>1. b \in DOMAIN unit.linked /\ s \in Range(unit.linked[b]) /\ t.origin = s.origin
        BY <1>1, <3>5
      <4> HIDE DEF s
      <4>2. RefOrigins(Types(a), t) = RefOrigins(Types(b), s)
        BY <1>1, <1>2, <4>1, OneSourceFacts
      <4> QED  BY <4>2 DEF s
    <3> DEFINE P == states[b][name]
    <3>7. P \subseteq DOMAIN origins /\ Origins(origins, P) = RefOrigins(Types(a), t)
      BY <3>3, <3>6
    <3> HIDE DEF P
    <3>8. P = Meaning(a, n)
      BY <1>1, <1>3, <3>7, SameMeaning
    <3> QED  BY <3>8 DEF P
  <2> QED  BY <2>1, <2>2 DEF name
<1> QED  BY <1>4, <1>5

\* The states an artifact exports are taken: no known one disagrees.
LEMMA ImportedKeeps == NamingInv /\ ImportStates => NamingInv'
<1> SUFFICES ASSUME NamingInv, ImportStates PROVE NamingInv'
  OBVIOUS
<1> DEFINE l == Len(models)
           taken == Imported(l)
           model == models[l]
           Chosen(name) == CHOOSE n \in taken : model[n] = name
           state == [name \in {model[n] : n \in taken} |-> Meaning(l, Chosen(name))]
<1>1. /\ unit \in Units /\ Naming /\ StandsFor /\ Opened
      /\ phase = "link" /\ Len(states) < l /\ Cardinality(DOMAIN model) = Len(Types(l))
      /\ IF \A n \in taken : Known(model[n]) \subseteq {Meaning(l, n)}
           THEN states' = Append(states, state) /\ phase' = phase
           ELSE phase' = "refused" /\ states' = states
      /\ unit' = unit /\ names' = names /\ origins' = origins /\ models' = models
      /\ \A a \in DOMAIN states : StatesOf(a)
  BY DEF NamingInv, ImportStates, Artifact, Linked
<1>2. /\ Line(models) /\ Line(states) /\ l \in Nat /\ DOMAIN models = 1..l /\ l \in DOMAIN models
      /\ Len(states) \in Nat /\ Len(states) + 1 = l
  <2>1. Line(models) /\ Line(states) /\ l <= Len(states) + 1
    BY <1>1 DEF Opened
  <2>2. l \in Nat /\ Len(states) \in Nat /\ DOMAIN models = 1..l
    BY <2>1, LenProperties DEF Line
  <2>3. Len(states) < l
    BY <1>1
  <2> HIDE DEF l
  <2> QED  BY <2>1, <2>2, <2>3
<1>3. \A n \in taken : Known(model[n]) \subseteq {Meaning(l, n)}
  BY <1>1, <1>2, KnownAgrees
<1>4. states' = Append(states, state) /\ phase' = phase
  BY <1>1, <1>3
<1>5. StatesMean(state, model, Types(l), unit.exported[l], origins)
  <2>1. /\ DOMAIN state = {model[n] : n \in taken}
        /\ \A n \in taken : state[model[n]] = Meaning(l, Chosen(model[n]))
    OBVIOUS
  <2>2. ASSUME NEW n \in taken
        PROVE  /\ state[model[n]] \subseteq DOMAIN origins
               /\ Origins(origins, state[model[n]]) = RefOrigins(Types(l), TypeNamed(l, n))
    <3> DEFINE m == Chosen(model[n])
               t == TypeNamed(l, n)
               s == TypeNamed(l, m)
    <3>1. m \in taken /\ model[m] = model[n]
      OBVIOUS
    <3>2. state[model[n]] = Meaning(l, m)
      BY <2>1
    <3> HIDE DEF m, state, Chosen
    <3>3. /\ l \in DOMAIN unit.linked /\ t \in Range(unit.linked[l]) /\ origins[model[n]] = t.origin
      BY <1>1, <1>2, MeaningFacts
    <3>4. /\ s \in Range(unit.linked[l]) /\ origins[model[m]] = s.origin
          /\ Meaning(l, m) \subseteq DOMAIN origins
          /\ Origins(origins, Meaning(l, m)) = RefOrigins(Types(l), s)
      BY <1>1, <1>2, <3>1, MeaningFacts
    <3>5. s.origin = t.origin
      BY <3>1, <3>3, <3>4
    <3> HIDE DEF s, t
    <3>6. RefOrigins(Types(l), s) = RefOrigins(Types(l), t)
      BY <1>1, <3>3, <3>4, <3>5, OneSourceFacts
    <3> QED  BY <3>2, <3>4, <3>6 DEF t
  <2> HIDE DEF state
  <2> QED  BY <2>1, <2>2 DEF StatesMean, Imported, TypeNamed
<1> HIDE DEF state, taken, Chosen
<1>6. /\ Line(states') /\ Len(states') = l /\ DOMAIN states' = 1..l /\ states'[l] = state
      /\ DOMAIN states = 1..Len(states) /\ \A a \in DOMAIN states : states'[a] = states[a]
      /\ \A a \in 1..l : a \in DOMAIN states \/ a = l
  <2>1. IsAppended(states', states, state)
    BY <1>2, <1>4, AppendedValue
  <2>2. \A a \in 1..(Len(states) + 1) : a \in 1..Len(states) \/ a = Len(states) + 1
    BY <1>2
  <2> QED  BY <1>2, <2>1, <2>2 DEF IsAppended
<1>7. /\ Decls' = Decls /\ Actors' = Actors /\ ReservedNames' = ReservedNames
      /\ \A e : ForeignLocals(e)' = ForeignLocals(e)
      /\ \A a : Types(a)' = Types(a)
  BY <1>1 DEF Decls, Actors, ForeignLocals, Locals, ReservedNames, Types
<1>8. Naming' /\ StandsFor'
  <2>1. \A e \in DOMAIN names \ Actors : names[e] \notin ForeignLocals(e)'
    BY <1>1, <1>7 DEF Naming
  <2> QED  BY <1>1, <1>4, <1>7, <2>1 DEF Naming, StandsFor
<1>9. Opened'
  <2>1. \A a \in DOMAIN models : Translates(models[a], Types(a), origins)
    BY <1>1 DEF Opened
  <2>2. \A a \in DOMAIN states' : Cardinality(DOMAIN models[a]) = Len(Types(a))
    BY <1>1, <1>6 DEF Opened
  <2>3. l <= Len(unit.linked) /\ l <= l /\ l <= l + 1
    BY <1>1, <1>2 DEF Opened
  <2> QED  BY <1>1, <1>2, <1>6, <1>7, <2>1, <2>2, <2>3 DEF Opened, l
<1>10. \A a \in DOMAIN states' : StatesOf(a)'
  <2>1. \A a \in DOMAIN states : StatesMean(states[a], models[a], Types(a), unit.exported[a], origins)
    BY <1>1 DEF StatesOf
  <2>2. \A a \in 1..l : StatesMean(states'[a], models[a], Types(a), unit.exported[a], origins)
    BY <1>5, <1>6, <2>1
  <2> QED  BY <1>1, <1>6, <1>7, <2>2 DEF StatesOf
<1> QED  BY <1>1, <1>8, <1>9, <1>10 DEF NamingInv

\* Every reachable state of the naming and linking of a unit satisfies the invariant (resolve/mod.rs,
\* link.rs).
THEOREM NamingInvariant == NamingSpec => []NamingInv
<1>1. NamingInit => NamingInv
  BY StartNamed
<1>2. NamingInv /\ [NamingNext]_namingVars => NamingInv'
  <2> SUFFICES ASSUME NamingInv, [NamingNext]_namingVars PROVE NamingInv'
    OBVIOUS
  <2>1. CASE NameDeclaration
    BY <2>1, NamedKeeps
  <2>2. CASE BeginLinking
    BY <2>2, BegunKeeps
  <2>3. CASE OpenArtifact
    BY <2>3, OpenedKeeps
  <2>4. CASE LinkName
    BY <2>4, LinkedKeeps
  <2>5. CASE ImportStates
    BY <2>5, ImportedKeeps
  <2>6. CASE Finish
    BY <2>6, FinishKeeps
  <2>7. CASE UNCHANGED namingVars
    <3> USE <2>7 DEF namingVars, NamingInv
    <3>1. Naming'
      BY DEF Naming, Decls, Actors, ForeignLocals, Locals
    <3>2. StandsFor'
      BY DEF StandsFor, Decls, ReservedNames, Locals
    <3>3. Opened' /\ \A a \in DOMAIN states' : StatesOf(a)'
      BY DEF Opened, StatesOf, Types
    <3> QED  BY <3>1, <3>2, <3>3
  <2> QED  BY <2>1, <2>2, <2>3, <2>4, <2>5, <2>6, <2>7 DEF NamingNext
<1> QED  BY <1>1, <1>2, PTL DEF NamingSpec

\* Whatever the declarations of a unit are called, and whatever the apps it links called
\* them, a name stands for one declaration, no local of another file is captured, and
\* linking is never refused nor gives a state other fields (resolve/mod.rs, link.rs).
THEOREM NamingAgrees == NamingSpec => []NamesAgree
<1>1. NamingInv => NamesAgree
  <2> SUFFICES ASSUME NamingInv PROVE NamesAgree
    OBVIOUS
  <2>1. unit \in Units /\ Naming /\ StandsFor /\ Opened /\ \A a \in DOMAIN states : StatesOf(a)
    BY DEF NamingInv
  <2>2. NamesOneToOne
    <3>1. phase = "name" => DOMAIN origins = {} /\ DOMAIN models = {}
      BY <2>1 DEF Naming
    <3>2. \A n, m \in DOMAIN origins : origins[n] = origins[m] => n = m
      BY <2>1, <3>1 DEF StandsFor
    <3>3. \A n \in DOMAIN origins \ Range(names) : n \notin ReservedNames
      BY <2>1, <3>1 DEF StandsFor
    <3>4. ASSUME NEW a \in DOMAIN models, NEW n \in DOMAIN models[a]
          PROVE  \E t \in Range(Types(a)) : t.name = n /\ origins[models[a][n]] = t.origin
      <4>1. a \in 1..Len(unit.linked)
        <5>1. Line(models) /\ Len(models) <= Len(unit.linked)
          BY <2>1 DEF Opened
        <5>2. Len(models) \in Nat /\ DOMAIN models = 1..Len(models)
          BY <5>1, LenProperties DEF Line
        <5> QED  BY <2>1, <5>1, <5>2, UnitFacts
      <4>2. ValidArtifact(Types(a), unit.exported[a])
        BY <2>1, <4>1, UnitFacts
      <4>3. Len(Types(a)) \in Nat /\ \A i \in 1..Len(Types(a)) : Types(a)[i] \in Range(Types(a))
        BY <4>2, TypeFacts
      <4> DEFINE k == Cardinality(DOMAIN models[a])
      <4>4. /\ k \in 0..Len(Types(a)) /\ DOMAIN models[a] = {Types(a)[j].name : j \in 1..k}
            /\ \A j \in 1..k : origins[models[a][Types(a)[j].name]] = Types(a)[j].origin
        BY <2>1 DEF Opened, Translates
      <4>5. PICK j \in 1..k : n = Types(a)[j].name
        BY <4>4
      <4>6. j \in 1..Len(Types(a))
        BY <4>3, <4>4
      <4> QED  BY <4>3, <4>4, <4>5, <4>6
    <3> QED  BY <2>1, <3>2, <3>3, <3>4 DEF NamesOneToOne, Naming
  <2>3. LinkedAgree
    <3>1. phase # "refused"
      BY <2>1 DEF Naming
    <3>2. ASSUME NEW a \in DOMAIN states, NEW n \in Imported(a)
          PROVE  {origins[m] : m \in states[a][models[a][n]]} =
                   {TypeNamed(a, r).origin : r \in TypeNamed(a, n).refs}
      <4>1. StatesMean(states[a], models[a], Types(a), unit.exported[a], origins)
        BY <2>1 DEF StatesOf
      <4>2. Origins(origins, states[a][models[a][n]]) = RefOrigins(Types(a), TypeNamed(a, n))
        BY <4>1 DEF StatesMean, Imported, TypeNamed
      <4>3. a \in 1..Len(unit.linked)
        <5>1. Line(models) /\ Line(states) /\ Len(models) <= Len(unit.linked) /\ Len(states) <= Len(models)
          BY <2>1 DEF Opened
        <5>2. Len(models) \in Nat /\ Len(states) \in Nat /\ DOMAIN states = 1..Len(states)
          BY <5>1, LenProperties DEF Line
        <5> QED  BY <2>1, <5>1, <5>2, UnitFacts
      <4>4. ValidArtifact(Types(a), unit.exported[a])
        BY <2>1, <4>3, UnitFacts
      <4>5. TypeNamed(a, n) \in Range(Types(a))
        <5>1. n \in {t.name : t \in Range(Types(a))}
          BY <4>4, ImportedTypes DEF Imported
        <5> QED  BY <4>4, <5>1, TypeFacts DEF TypeNamed
      <4>6. RefOrigins(Types(a), TypeNamed(a, n)) = {TypeNamed(a, r).origin : r \in TypeNamed(a, n).refs}
        BY <4>4, <4>5, TypeFacts DEF TypeNamed
      <4> QED  BY <4>2, <4>6 DEF Origins
    <3> QED  BY <3>1, <3>2 DEF LinkedAgree
  <2> QED  BY <2>2, <2>3 DEF NamesAgree
<1> QED  BY <1>1, NamingInvariant, PTL
=============================================================================
