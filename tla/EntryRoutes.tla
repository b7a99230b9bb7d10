---------------------------- MODULE EntryRoutes ----------------------------
(***************************************************************************)
(* The outputs an entry's body checks.  The compiler follows the body's      *)
(* control flow to its terminal `become`s, holds each of them, and each      *)
(* `require g.outputs become`, against the declared outputs, and emits the   *)
(* checks in place; the script then runs down one path of the body.  A       *)
(* route's successor may be a local that selects an actor: the script takes  *)
(* the template from a table by the local's number.                          *)
(*                                                                         *)
(* A statement is ["let", local, enum, value] and ["set", local, value] of   *)
(* an actor enum, ["use", path] and ["unrestricted", path] of an output      *)
(* value, ["other"], ["block", statements], ["if", then, else] where an else *)
(* may be ["absent"], ["become", routes] or ["foreign", group, routes].      *)
(* A value is ["variant", enum, actor], ["local", name], ["index", enum]     *)
(* (enum[i] for any i), ["expression"] or the ["handle"] of an actor of      *)
(* another app; a route is [output, target, many], whose target is ["self"], *)
(* ["actor", a] or one of the first three values.                            *)
(* The states of routes, and literal indices into ranges, are left out.      *)
(***************************************************************************)
EXTENDS Integers, Sequences, SequencesExt, FiniteSets, Functions

CONSTANTS
  Entries,   \* what is compiled: see below
  Variants,  \* of an actor enum, in order
  StateOf,   \* an actor's state
  Indices    \* the numbers a caller or an index may give for an actor

\* entry.actor; entry.params, [name, enum], those of an actor enum;
\* entry.outputs: per handle [targets, range, sizes], sizes being {1} but in a range;
\* entry.groups: per name [spawn, outputs], the target of each handle;
\* entry.body: a block
VARIABLES
  entry,     \* never changes
  verdict,   \* "source", "running", "accepted", "aborted", "refused" or "undefined"
  todo,      \* what is left to run
  locals,    \* each local's number, all that the script has, and the enum it was taken from
  selected,  \* the templates taken so far, by local, in the scope
  checks     \* the outputs checked: [group, output, position, size, target, against]

vars == <<entry, verdict, todo, locals, selected, checks>>

Current == "current"
CountOf(seq, Test(_)) == Cardinality({n \in DOMAIN seq : Test(seq[n])})

-----------------------------------------------------------------------------
(* Control flow.  What is known of a statement: whether it contains a        *)
(* become, whether all its paths end in one, and the routes of each.         *)

Flow(contains, terminal, sets, refused) ==
  [contains |-> contains, terminal |-> terminal, sets |-> sets, refused |-> refused]
NoRoutes == Flow(FALSE, FALSE, <<>>, FALSE)
\* Mutant of Absent: taken for a way that is done.
AbsentAsTerminal == [NoRoutes EXCEPT !.terminal = TRUE]
Absent == NoRoutes

InBranches(then, else) ==
  Flow(then.contains \/ else.contains, then.terminal /\ else.terminal,
       then.sets \o else.sets, then.refused \/ else.refused)

RECURSIVE Analyzed(_), AnalyzedSequence(_)

\* terminal_result.
Analyzed(s) ==
  CASE s[1] = "become" -> Flow(TRUE, TRUE, <<s[2]>>, FALSE)
    [] s[1] = "if" -> InBranches(Analyzed(s[2]), Analyzed(s[3]))
    [] s[1] = "block" -> AnalyzedSequence(s[2])
    [] s[1] = "absent" -> Absent
    [] OTHER -> NoRoutes

\* analyze_authored_sequence: nothing after a terminal statement, and no become in
\* one that is not.
AnalyzedSequence(statements) ==
  IF statements = <<>> THEN NoRoutes
  ELSE LET first == Analyzed(Head(statements))
       IN  IF first.terminal THEN [first EXCEPT !.refused = @ \/ Len(statements) > 1]
           ELSE IF first.contains \/ first.refused THEN [first EXCEPT !.refused = TRUE]
           ELSE AnalyzedSequence(Tail(statements))

\* The statements in the order the visitors meet them, each with whether it always runs.
RECURSIVE Leaves(_, _)
Leaves(s, always) ==
  CASE s[1] = "block" -> FlattenSeq([n \in DOMAIN s[2] |-> Leaves(s[2][n], always)])
    [] s[1] = "if" -> Leaves(s[2], FALSE) \o Leaves(s[3], FALSE)
    [] OTHER -> <<[statement |-> s, always |-> always]>>

All(e, kind) == SelectSeq(Leaves(e.body, TRUE), LAMBDA leaf : leaf.statement[1] = kind)

-----------------------------------------------------------------------------
(* Selectors.                                                               *)

NotFixed == -1
Ordinal(enum, a) == CHOOSE i \in 0..(Len(Variants[enum]) - 1) : Variants[enum][i + 1] = a

\* Entry parameters, then the locals; a parameter holds any number.
Declared(e) ==
  [n \in DOMAIN e.params |-> <<"let", e.params[n].name, e.params[n].enum, <<"index", e.params[n].enum>>>>]
    \o [n \in DOMAIN All(e, "let") |-> All(e, "let")[n].statement]

AssignedLocals(e) == {leaf.statement[2] : leaf \in Range(All(e, "set"))}

\* Also a mutant of FixedIndex: the assignments are not looked at.
FixedByInitializer(e, d) == IF d[4][1] = "variant" THEN Ordinal(d[4][2], d[4][3]) ELSE NotFixed
\* A local that is never assigned is fixed by its initializer.
FixedIndex(e, d) == IF d[2] \in AssignedLocals(e) THEN NotFixed ELSE FixedByInitializer(e, d)

InitializerEnum(table, value) ==
  CASE value[1] \in {"variant", "index"} -> value[2]
    [] value[1] = "local" /\ value[2] \in DOMAIN table -> table[value[2]].enum
    [] OTHER -> "none"

TemplateSelectors(e) ==
  FoldLeft(LAMBDA table, d :
             [h \in DOMAIN table \cup {d[2]} |->
                IF h = d[2] THEN [enum |-> InitializerEnum(table, d[4]), fixed |-> FixedIndex(e, d)] ELSE table[h]],
           <<>>, Declared(e))

\* bound_selector and insert_template_selector.
SelectorsRefused(e) ==
  \/ ~IsInjective([n \in DOMAIN Declared(e) |-> Declared(e)[n][2]])
  \/ \E d \in Range(Declared(e)) :
       \/ TemplateSelectors(e)[d[2]].enum # d[3]
       \/ \E a \in Range(Variants[d[3]]) : StateOf[a] # StateOf[e.actor]

\* check_known: a local of an enum takes no handle, and a value of any enum.
AssignmentsRefused(e) == \E leaf \in Range(All(e, "set")) : leaf.statement[3][1] = "handle"

-----------------------------------------------------------------------------
(* Routes.                                                                  *)

\* route_target_ids_by_id.
RouteTargets(e, target) ==
  CASE target[1] = "self" -> {e.actor}
    [] target[1] = "actor" -> {target[2]}
    [] target[1] = "variant" -> {target[3]}
    [] target[1] = "index" -> Range(Variants[target[2]])
    [] target[1] = "local" ->
         IF target[2] \in DOMAIN TemplateSelectors(e) THEN Range(Variants[TemplateSelectors(e)[target[2]].enum]) ELSE {}

\* validate_route_allowed; `emits none` is no outputs.  A choice by an index has to
\* be given to a local first.
RouteRefused(e, r) ==
  \/ r.output \notin DOMAIN e.outputs \/ r.target[1] = "index"
  \/ LET o == e.outputs[r.output]
     IN  \/ r.many # o.range
         \/ RouteTargets(e, r.target) = {}
         \/ ~(RouteTargets(e, r.target) \subseteq o.targets)

\* Mutant of CoveredOnce: what earlier paths checked is not forgotten.
CoveredOverall(sets, n, o) == CountOf(FlattenSeq(SubSeq(sets, 1, n)), LAMBDA r : r.output = o) = 1
\* Whether a terminal path checks an output once.
CoveredOnce(sets, n, o) == CountOf(sets[n], LAMBDA r : r.output = o) = 1

CoverageRefused(e) ==
  LET sets == Analyzed(e.body).sets
  IN  /\ DOMAIN e.outputs # {}
      /\ sets = <<>> \/ \E n \in DOMAIN sets, o \in DOMAIN e.outputs : ~CoveredOnce(sets, n, o)

SameTarget(expected, target) ==
  \/ target = expected
  \/ expected[1] = "actor" /\ target[1] = "variant" /\ target[3] = expected[2]

\* bind_foreign_routes and validate_foreign_route_coverage, of one statement.
ForeignFits(e, s) ==
  /\ s[2] \in DOMAIN e.groups
  /\ LET outputs == e.groups[s[2]].outputs
     IN  /\ {r.output : r \in Range(s[3])} = DOMAIN outputs
         /\ IsInjective([n \in DOMAIN s[3] |-> s[3][n].output])
         /\ \A r \in Range(s[3]) : ~r.many /\ SameTarget(outputs[r.output], r.target)

Spawns(e) == {g \in DOMAIN e.groups : e.groups[g].spawn}

\* The outputs of a spawn are checked once, whatever path is taken.
SpawnsRefused(e) ==
  \E g \in Spawns(e) :
    LET of == SelectSeq(All(e, "foreign"), LAMBDA leaf : leaf.statement[2] = g)
    IN  Len(of) # 1 \/ ~of[1].always

ForeignRefused(e) ==
  \/ SpawnsRefused(e)
  \/ \E leaf \in Range(All(e, "foreign")) : ~ForeignFits(e, leaf.statement)

\* validate_value_uses: the value of every output that the entry creates.
RequiredValues(e) ==
  {<<o>> : o \in {x \in DOMAIN e.outputs : e.outputs[x].sizes # {0}}}
    \cup UNION {{<<g, o>> : o \in DOMAIN e.groups[g].outputs} : g \in Spawns(e)}

UsedValues(e) == {leaf.statement[2] : leaf \in Range(All(e, "use") \o All(e, "unrestricted"))}

ValuesRefused(e) ==
  /\ RequiredValues(e) # {}
  /\ \/ ~(RequiredValues(e) \subseteq UsedValues(e))
     \/ \E leaf \in Range(All(e, "unrestricted")) : leaf.statement[2] \notin RequiredValues(e)

-----------------------------------------------------------------------------
(* The script.                                                              *)

RECURSIVE Braced(_)
Braced(s) ==
  CASE s[1] = "block" -> \A n \in DOMAIN s[2] : Braced(s[2][n])
    [] s[1] = "if" -> s[2][1] = "block" /\ s[3][1] \in {"block", "if", "absent"} /\ Braced(s[2]) /\ Braced(s[3])
    [] OTHER -> TRUE

\* What direct_authored_statements cannot emit.
LoweringRefused(e) ==
  \/ ~Braced(e.body)
  \/ \E leaf \in Range(All(e, "become")) : \E r \in Range(leaf.statement[2]) :
       r.many /\ r.target[1] \notin {"actor", "variant"}

Static(e, target) == CHOOSE a \in RouteTargets(e, target) : TRUE

Selection(e, h) ==
  IF TemplateSelectors(e)[h].fixed # NotFixed THEN <<"ordinal", TemplateSelectors(e)[h].fixed>> ELSE <<"local", h>>

\* The first route through a local takes its template, which the others use.
RouteScript(e, routes, n) ==
  LET r == routes[n]
      again == \E m \in 1..(n - 1) : routes[m].target = r.target
  IN  CASE r.many -> <<<<"loop", r, Static(e, r.target)>>>>
        [] ~r.many /\ r.target[1] = "local" ->
             (IF again THEN <<>> ELSE <<<<"select", r.target[2], Selection(e, r.target[2])>>>>)
               \o <<<<"check", Current, r, <<"selected", r.target[2]>>>>>>
        [] OTHER -> <<<<"check", Current, r, <<"template", Static(e, r.target)>>>>>>

\* covenant_output_route_ast: the template of the declared target.
ForeignScript(e, s) ==
  [n \in DOMAIN s[3] |-> <<"check", s[2], s[3][n], <<"template", e.groups[s[2]].outputs[s[3][n].output][2]>>>>]

RECURSIVE Script(_, _)
Script(e, s) ==
  CASE s[1] = "block" -> <<<<"block", FlattenSeq([n \in DOMAIN s[2] |-> Script(e, s[2][n])])>>>>
    [] s[1] = "if" -> <<<<"if", Script(e, s[2]), Script(e, s[3])>>>>
    [] s[1] = "become" -> FlattenSeq([n \in DOMAIN s[2] |-> RouteScript(e, s[2], n)])
    [] s[1] = "foreign" -> ForeignScript(e, s)
    [] s[1] \in {"absent", "unrestricted"} -> <<>>
    [] OTHER -> <<s>>

-----------------------------------------------------------------------------
Refused(e) ==
  \/ Analyzed(e.body).refused \/ SelectorsRefused(e) \/ AssignmentsRefused(e)
  \/ \E leaf \in Range(All(e, "become")) : \E r \in Range(leaf.statement[2]) : RouteRefused(e, r)
  \/ CoverageRefused(e) \/ ForeignRefused(e) \/ ValuesRefused(e) \/ LoweringRefused(e)

Stored(f, x, v) == [y \in DOMAIN f \cup {x} |-> IF y = x THEN v ELSE f[y]]

Init ==
  /\ entry \in Entries
  /\ verdict = "source" /\ todo = <<>> /\ selected = <<>> /\ checks = <<>>
  /\ \E given \in [Range(entry.params) -> Indices] :
       locals = FoldLeft(LAMBDA f, p : Stored(f, p.name, [number |-> given[p], enum |-> p.enum]), <<>>, entry.params)

Compile ==
  /\ verdict = "source"
  /\ LET refused == Refused(entry)
     IN  /\ verdict' = IF refused THEN "refused" ELSE "running"
         /\ todo' = IF refused THEN <<>> ELSE Script(entry, entry.body)
  /\ UNCHANGED <<entry, locals, selected, checks>>

At(kind) == verdict = "running" /\ todo # <<>> /\ Head(todo)[1] = kind
Now == Head(todo)
Goes == todo' = Tail(todo) /\ UNCHANGED <<entry, verdict>>
Stops(how) == verdict' = how /\ UNCHANGED <<entry, todo, locals, selected, checks>>

\* What a value of an enum may be.
Values(value) ==
  CASE value[1] = "variant" -> {[number |-> Ordinal(value[2], value[3]), enum |-> value[2]]}
    [] value[1] = "local" -> {locals[value[2]]}
    [] value[1] = "index" -> [number : Indices, enum : {value[2]}]

Store ==
  /\ At("let") \/ At("set")
  /\ \E v \in Values(Last(Now)) : locals' = Stored(locals, Now[2], v)
  /\ Goes /\ UNCHANGED <<selected, checks>>

Pass == (At("use") \/ At("other")) /\ Goes /\ UNCHANGED <<locals, selected, checks>>

\* Conditions are over data that is left out: either branch.
Branch ==
  /\ At("if")
  /\ \E taken \in {Now[2], Now[3]} : todo' = taken \o Tail(todo)
  /\ UNCHANGED <<entry, verdict, locals, selected, checks>>

\* What a block defines is gone after it.
Enter ==
  /\ At("block")
  /\ todo' = Now[2] \o <<<<"leave", DOMAIN selected>>>> \o Tail(todo)
  /\ UNCHANGED <<entry, verdict, locals, selected, checks>>

Leave ==
  /\ At("leave")
  /\ selected' = [h \in Now[2] |-> selected[h]]
  /\ Goes /\ UNCHANGED <<locals, checks>>

\* selector_template_ast: the number, within the enum, and its slice of the table.
Select ==
  /\ At("select")
  /\ LET variants == Variants[TemplateSelectors(entry)[Now[2]].enum]
         i == IF Now[3][1] = "ordinal" THEN Now[3][2] ELSE locals[Now[3][2]].number
     IN  IF 0 <= i /\ i < Len(variants)
         THEN selected' = Stored(selected, Now[2], variants[i + 1]) /\ Goes /\ UNCHANGED <<locals, checks>>
         ELSE Stops("aborted")

CheckOf(group, r, position, size, against) ==
  [group |-> group, output |-> r.output, position |-> position, size |-> size, target |-> r.target, against |-> against]

Check ==
  /\ At("check")
  /\ IF Now[4][1] = "selected" /\ Now[4][2] \notin DOMAIN selected THEN Stops("undefined")
     ELSE /\ checks' = Append(checks, CheckOf(Now[2], Now[3], 0, 1,
                                 IF Now[4][1] = "selected" THEN selected[Now[4][2]] ELSE Now[4][2]))
          /\ Goes /\ UNCHANGED <<locals, selected>>

\* As many states as there are outputs in the range, and a check of each.
CheckRange ==
  /\ At("loop")
  /\ LET sizes == entry.outputs[Now[2].output].sizes
     IN  \E count \in sizes, given \in sizes :
           IF given # count THEN Stops("aborted")
           ELSE /\ checks' = checks \o [n \in 1..count |-> CheckOf(Current, Now[2], n - 1, count, Now[3])]
                /\ Goes /\ UNCHANGED <<locals, selected>>

Finish == verdict = "running" /\ todo = <<>> /\ Stops("accepted")

Next == Compile \/ Store \/ Pass \/ Branch \/ Enter \/ Leave \/ Select \/ Check \/ CheckRange \/ Finish

Spec == Init /\ [][Next]_vars

-----------------------------------------------------------------------------
(* Properties.                                                              *)

ChecksOf(group, o) == SelectSeq(checks, LAMBDA c : c.group = group /\ c.output = o)

\* A spend that an accepted entry lets through has checked every output that the
\* entry emits or spawns, each position once, against an actor the declaration
\* allows, whichever branches it took, and no output besides; what it says of an
\* observed covenant's outputs it says of each once per statement.
\* (validate_named_output_coverage, validate_foreign_route_coverage; docs/argent-design.md)
OutputsCheckedOnce ==
  verdict = "accepted" =>
    /\ \A o \in DOMAIN entry.outputs :
         LET of == ChecksOf(Current, o)
         IN  /\ Len(of) \in entry.outputs[o].sizes
             /\ {of[n].position : n \in DOMAIN of} = 0..(Len(of) - 1)
             /\ \A n \in DOMAIN of : of[n].size = Len(of) /\ of[n].against \in entry.outputs[o].targets
    /\ \A g \in DOMAIN entry.groups : \A o, x \in DOMAIN entry.groups[g].outputs :
         /\ Len(ChecksOf(g, o)) = Len(ChecksOf(g, x))
         /\ entry.groups[g].spawn => Len(ChecksOf(g, o)) = 1
         /\ \A c \in Range(ChecksOf(g, o)) : c.against = entry.groups[g].outputs[o][2]
    /\ \A c \in Range(checks) :
         c.output \in DOMAIN (IF c.group = Current THEN entry.outputs ELSE entry.groups[c.group].outputs)

\* The enum a local is declared with, and the actor that the value it was last
\* given denotes, if any.
DeclaredEnum(h) == (CHOOSE d \in Range(Declared(entry)) : d[2] = h)[3]
Denoted(h) ==
  LET variants == Variants[locals[h].enum]
      i == locals[h].number + 1
  IN  IF i \in DOMAIN variants THEN variants[i] ELSE "none"

\* The template that a route checks is that of the actor its successor denotes
\* when the become runs, after every assignment, copy and branch on the way, and
\* the script defines a template before it uses it; given that the value comes
\* from the enum that the local is declared with.
\* (entry.rs:234, "routes through its current value, not its initializer")
TargetsAreCurrent ==
  /\ verdict # "undefined"
  /\ verdict = "accepted" =>
       \A c \in Range(checks) :
         CASE c.target[1] = "local" ->
                locals[c.target[2]].enum = DeclaredEnum(c.target[2]) => c.against = Denoted(c.target[2])
           [] c.target[1] = "self" -> c.against = entry.actor
           [] OTHER -> c.against = Last(c.target)

\* A route through a local is to the actor that was assigned to it, whatever enum
\* the assignment named it by.
\* (entry.rs:234, "A reassigned enum local routes through its current value")
RoutesFollowAssignments ==
  verdict = "accepted" =>
    \A c \in Range(checks) : c.target[1] = "local" => c.against = Denoted(c.target[2])

\* The statements on each way through a statement.
RECURSIVE Paths(_)
Paths(s) ==
  CASE s[1] = "if" -> Paths(s[2]) \cup Paths(s[3])
    [] s[1] = "absent" -> {<<>>}
    [] s[1] = "block" ->
         FoldLeft(LAMBDA before, t : {p \o q : p \in before, q \in Paths(t)}, {<<>>}, s[2])
    [] OTHER -> {<<s>>}

Becomes(path) == SelectSeq(path, LAMBDA s : s[1] = "become")

\* What a path owes: one become, if any path has one, and last; a route to each
\* output that allows it; and one statement for each spawn.
Fulfils(e, path) ==
  /\ \A n \in DOMAIN path : path[n][1] = "become" => n = Len(path)
  /\ Becomes(path) # <<>> \/ (DOMAIN e.outputs = {} /\ \A p \in Paths(e.body) : Becomes(p) = <<>>)
  /\ \A s \in Range(Becomes(path)) :
       /\ {r.output : r \in Range(s[2])} = DOMAIN e.outputs /\ Len(s[2]) = Cardinality(DOMAIN e.outputs)
       /\ \A r \in Range(s[2]) : ~RouteRefused(e, r)
  /\ \A s \in Range(path) : s[1] = "foreign" => ForeignFits(e, s)
  /\ \A g \in Spawns(e) : CountOf(path, LAMBDA s : s[1] = "foreign" /\ s[2] = g) = 1

\* An entry is refused for its routes only when some way through its body breaks
\* what it declares: an output left out, named twice or sent to an actor it does
\* not allow, a statement after a become, a spawn left out or repeated.  Besides,
\* a spawn may not be in a branch even when every branch has it.
\* (syntax/body/routes.rs, model/validate.rs)
EntryRefusalJustified ==
  verdict = "refused" =>
    \/ SelectorsRefused(entry) \/ AssignmentsRefused(entry) \/ ValuesRefused(entry) \/ LoweringRefused(entry)
    \/ \E path \in Paths(entry.body) : ~Fulfils(entry, path)
    \/ \E leaf \in Range(All(entry, "foreign")) : leaf.statement[2] \in Spawns(entry) /\ ~leaf.always
=============================================================================
