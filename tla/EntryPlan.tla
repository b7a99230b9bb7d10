------------------------------ MODULE EntryPlan ------------------------------
(***************************************************************************)
(* What the compiler fixes about one entry before any transaction exists:   *)
(* the shape of its `consumes` and `emits` sections, the location of every  *)
(* clause in them, the input group policy the entry is compiled under, and  *)
(* the checks its prelude contains.                                         *)
(*                                                                         *)
(* An app is a record                                                       *)
(*     [actors  : a set of actors,                                          *)
(*      entries : a set of entries]                                         *)
(* an entry is a record                                                     *)
(*     [actor, kind, consumes, emits]                                       *)
(* and a section (`consumes` or `emits`) is a sequence of clauses           *)
(*     [targets : the actors the clause permits,                            *)
(*      range   : whether the clause has a cardinality suffix,              *)
(*      min, max: its bounds, both 1 for a singleton].                      *)
(* Handles, states, route expressions and entry bodies are not represented. *)
(***************************************************************************)
EXTENDS Integers, Sequences, FiniteSets

CONSTANT
  MaxCardinality   \* MAX_ENTRY_RANGE_CARDINALITY, the largest range maximum

ASSUME MaxCardinalityAssumption == MaxCardinality \in Nat

-----------------------------------------------------------------------------
(* Sections.                                                               *)

One(targets) == [targets |-> targets, range |-> FALSE, min |-> 1, max |-> 1]

Ranged(targets, min, max) ==
  [targets |-> targets, range |-> TRUE, min |-> min, max |-> max]

RangeIndexes(section) == {j \in DOMAIN section : section[j].range}

HasRange(section) == RangeIndexes(section) # {}

RangeIndex(section) == CHOOSE j \in RangeIndexes(section) : TRUE

\* The number of singletons in a section.
SingletonCount(section) ==
  IF HasRange(section) THEN Len(section) - 1 ELSE Len(section)

ResolvedCardinality(clause) ==
  /\ clause.range \in BOOLEAN
  /\ clause.min \in Nat /\ clause.max \in Nat
  /\ IF clause.range
       THEN clause.min <= clause.max /\ clause.max <= MaxCardinality
       ELSE clause.min = 1 /\ clause.max = 1

\* Section positions are 0-based, as in the code; clause indexes are 1-based.
Location(section, j) ==
  IF ~HasRange(section) \/ j < RangeIndex(section)
    THEN [kind |-> "FromStart", index |-> j - 1]
    ELSE IF j = RangeIndex(section)
           THEN [kind |-> "Range", index |-> j - 1]
           ELSE [kind |-> "FromEnd", index |-> Len(section) - j + 1]

\* Mutant of RangeCount: counts the entry's own input twice.
RangeCountOffByOne(section, offset, count) ==
  count - (offset + SingletonCount(section)) - 1

\* How many items of a group of "count" the range of a section takes, when the
\* group's first "offset" members lie outside the section.
RangeCount(section, offset, count) ==
  count - (offset + SingletonCount(section))

\* The group positions that clause j of a section stands for.
Positions(section, j, offset, count) ==
  LET location == Location(section, j)
  IN  CASE location.kind = "FromStart" -> {offset + location.index}
        [] location.kind = "FromEnd"   -> {count - location.index}
        [] location.kind = "Range"     ->
             (offset + location.index) ..
               (offset + location.index + RangeCount(section, offset, count) - 1)

\* Mutant of RangeCountInBounds: forgets the maximum.
RangeCountAboveMinimum(section, offset, count) ==
  \A j \in RangeIndexes(section) :
    RangeCount(section, offset, count) >= section[j].min

\* The bounds check of the range of a section; TRUE for a section without one.
RangeCountInBounds(section, offset, count) ==
  \A j \in RangeIndexes(section) :
    /\ RangeCount(section, offset, count) >= section[j].min
    /\ RangeCount(section, offset, count) <= section[j].max

-----------------------------------------------------------------------------
(* The declarations the compiler accepts.                                  *)

ValidSection(section, actors) ==
  /\ section \in Seq([targets : SUBSET actors, range : BOOLEAN,
                      min : Nat, max : Nat])
  /\ \A j \in DOMAIN section :
       section[j].targets # {} /\ ResolvedCardinality(section[j])
  /\ \A j, k \in RangeIndexes(section) : j = k

SingleTarget(clause) == \E a \in clause.targets : clause.targets = {a}

ValidEntry(app, e) ==
  /\ e.actor \in app.actors
  /\ e.kind \in {"leader", "delegate"}
  /\ ValidSection(e.consumes, app.actors)
  /\ ValidSection(e.emits, app.actors)
  /\ \A j \in DOMAIN e.consumes : SingleTarget(e.consumes[j])
  /\ \A j \in RangeIndexes(e.emits) : SingleTarget(e.emits[j])
  /\ e.kind = "delegate" =>
       /\ e.consumes # <<>>
       /\ ~HasRange(e.consumes)
       /\ e.emits = <<>>

ValidApp(app) ==
  /\ app.actors # {}
  /\ \A e \in app.entries : ValidEntry(app, e)

-----------------------------------------------------------------------------
(* The plan of an entry.                                                   *)

\* The delegate entries that name actor a as their leader.
LeaderFor(app, a) ==
  {e \in app.entries : e.kind = "delegate" /\ e.consumes[1].targets = {a}}

IsLeaderActor(app, a) == LeaderFor(app, a) # {}

DelegateCapable(app, a) ==
  \E e \in app.entries : e.actor = a /\ e.kind = "delegate"

\* Mutant of AllowsCovenantBatching: a leader actor's consume-free entries too.
BatchesLeaderActors(app, e) == e.kind = "leader" /\ e.consumes = <<>>

AllowsCovenantBatching(app, e) ==
  /\ e.kind = "leader"
  /\ e.consumes = <<>>
  /\ ~IsLeaderActor(app, e.actor)

\* CurrentInputGroupPolicy, without its counts.
GroupPolicy(app, e) ==
  IF AllowsCovenantBatching(app, e) THEN "Batchable"
  ELSE IF e.kind = "delegate" THEN "Delegate"
  ELSE IF HasRange(e.consumes) THEN "LeaderRanged"
  ELSE "LeaderFixed"

\* LeaderFixed.count and Delegate.minimum_count
GroupCount(e) == Len(e.consumes) + 1

SlotOffset(e) == IF e.kind = "delegate" THEN 0 ELSE 1

\* Mutants of RequiresOptionalDelegateGuard: an `emits` whose range may be empty
\* is taken to continue; every entry of a delegate-capable actor is guarded.
GuardsEmptyEmitsOnly(app, e) ==
  /\ AllowsCovenantBatching(app, e)
  /\ DelegateCapable(app, e.actor)
  /\ e.emits = <<>>

GuardsEveryEntry(app, e) ==
  AllowsCovenantBatching(app, e) /\ DelegateCapable(app, e.actor)

RequiresOptionalDelegateGuard(app, e) ==
  /\ AllowsCovenantBatching(app, e)
  /\ DelegateCapable(app, e.actor)
  /\ \A j \in DOMAIN e.emits : e.emits[j].range /\ e.emits[j].min = 0

\* A consumed input of a singleton app's own actor is read without a template
\* proof: the covenant domain stands for it.
CovenantDomainRead(app, e, clause) ==
  app.actors = {e.actor} /\ clause.targets = {e.actor}

CoordinatesCurrentOutputs(e) == e.kind = "leader" /\ e.consumes # <<>>
=============================================================================
