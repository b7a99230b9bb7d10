----------------------------- MODULE CovenantApp ----------------------------
(***************************************************************************)
(* What an app promises about the coins of its covenants, without inputs,   *)
(* scripts, positions or authorizers: in one step, each covenant makes      *)
(* either one coordinated move, in which a leader entry spends its own coin *)
(* and the coins it declares, or a batch of independent moves, each of      *)
(* which spends one coin; a move creates exactly what its entry declares.   *)
(***************************************************************************)
EXTENDS EntryPlan

CONSTANTS
  Apps, Actor, Cov,
  MaxMoves          \* bound on the moves one covenant makes in one step

VARIABLES
  app,
  coins             \* the number of live coins of each actor in each covenant

avars == <<app, coins>>

-----------------------------------------------------------------------------
(* The items of a section once its range has taken n items.                *)
SectionItems(section, n) ==
  [p \in 1..(SingletonCount(section) + n) |->
     IF ~HasRange(section) \/ p < RangeIndex(section) THEN section[p]
     ELSE IF p < RangeIndex(section) + n THEN section[RangeIndex(section)]
     ELSE section[p - n + 1]]

ItemCounts(section) ==
  IF HasRange(section)
    THEN section[RangeIndex(section)].min .. section[RangeIndex(section)].max
    ELSE {0}

\* The sequences of actors a section permits.
ActorLists(section) ==
  UNION {{list \in [DOMAIN SectionItems(section, n) -> UNION {section[j].targets : j \in DOMAIN section}] :
            \A p \in DOMAIN list : list[p] \in SectionItems(section, n)[p].targets} :
         n \in ItemCounts(section)}

\* A move: an ordinary entry, the coins it spends besides its own, the coins
\* it creates.
Moves(a) ==
  UNION {[entry : {e}, spends : ActorLists(e.consumes), creates : ActorLists(e.emits)] :
         e \in {e \in a.entries : e.kind = "leader"}}

\* Several moves share a step only if each of them is independent.
MayShareStep(a, batch) ==
  Len(batch) > 1 => \A i \in DOMAIN batch : AllowsCovenantBatching(a, batch[i].entry)

TotalSpent(batch, x) ==
  Cardinality({i \in DOMAIN batch : batch[i].entry.actor = x})
    + Cardinality(UNION {{<<i, p>> : p \in {p \in DOMAIN batch[i].spends :
                                              batch[i].spends[p] = x}} :
                         i \in DOMAIN batch})

TotalCreated(batch, x) ==
  Cardinality(UNION {{<<i, p>> : p \in {p \in DOMAIN batch[i].creates :
                                          batch[i].creates[p] = x}} :
                     i \in DOMAIN batch})

\* A batch takes the coins of one covenant from "before" to "after".
Moved(before, batch, after) ==
  \A x \in Actor :
    /\ TotalSpent(batch, x) <= before[x]
    /\ after[x] = before[x] - TotalSpent(batch, x) + TotalCreated(batch, x)

-----------------------------------------------------------------------------
Init ==
  /\ app \in Apps
  /\ coins \in [Cov -> [Actor -> Nat]]

Step ==
  /\ \A c \in Cov :
       \E k \in 0..MaxMoves : \E batch \in [1..k -> Moves(app)] :
         MayShareStep(app, batch) /\ Moved(coins[c], batch, coins'[c])
  /\ UNCHANGED app

Spec == Init /\ [][Step]_avars
=============================================================================
