------------------------------- MODULE Scopes -------------------------------
(***************************************************************************)
(* What the names in the body of a function, an actor's helper or an entry   *)
(* stand for, from the authored statements to the script.  Three parts agree *)
(* on it: the binder (resolve/bindings.rs), the checks of an entry's names   *)
(* (model/validate.rs) and the names given in the script (sil/names.rs),     *)
(* which leave it to Silverscript to refuse a binding that hides another.    *)
(*                                                                         *)
(* A body is a sequence of tokens in the order the binder visits them: uses, *)
(* bindings, and the opening and closing of a block (a branch or a loop too, *)
(* whose variable is bound in it).  Types are only told apart where a route   *)
(* selects an actor.  An entry's open actors and covenants are left out.     *)
(***************************************************************************)
EXTENDS Naturals, Sequences, SequencesExt, FiniteSets, FiniteSetsExt, Functions

CONSTANTS
  Tasks,     \* what is compiled: see below
  Reserved   \* the names of the runtime: State, this, tx

\* task.root:  "function", "helper" or "entry", in the first of two files
\* task.world: what is around it: decls, [name, kind, file] with kind "const",
\*             "function" or "actor", no two of one name; elsewhere, the names of
\*             the locals of the second file; fields and helpers, those of the
\*             actor whose contract it is compiled into
\* task.head:  params and handles, [name, actor], the handles being those of an
\*             entry's clauses; labels, the names of observed and spawned outputs
\* task.body:  tokens ["use", how, name], ["bind", name, type], ["open"],
\*             ["close"]; a use is of a "value", a "call", an own "field"
\*             (self.name) or a "route"; a type is "actor", "value" or, for the
\*             names of a destructuring, "part"
VARIABLES
  task,      \* never changes
  stage,     \* "bind", "check", "name", "emit", "accepted" or "refused"
  pos,       \* the next token
  scopes,    \* the binder's scopes, innermost last: what each name is bound to
  locals,    \* the names bound so far; the place of one is its id
  selectors, \* per scope, the names that may select an actor
  sites,     \* what each use is bound to, and what each binding introduces
  spelled,   \* the name of each local in the script
  visible,   \* the script's scopes, innermost last
  emitted    \* what each use denotes in the script

bodyVars == <<task, stage, pos, scopes, locals, selectors, sites, spelled, visible, emitted>>

Items == DOMAIN task.world.decls
OfActor == task.root # "function"
Params == [n \in DOMAIN task.head.params |-> task.head.params[n].name]
Handles == [n \in DOMAIN task.head.handles |-> task.head.handles[n].name]
Token == task.body[pos]
AtToken(kind) == pos <= Len(task.body) /\ Token[1] = kind

\* What the parser leaves of a task, and what is refused before: blocks are closed
\* once; two declarations of a unit differ in name; and nothing of a contract has
\* the name of a field or of a helper, except a declaration that is renamed.
Lines(u) == {u.body, u.head.params, u.head.handles, u.world.decls}
Begun(u, kind, p) == Cardinality({q \in 1..p : u.body[q][1] = kind})
RenamedIn(u, d) == IF d.file = 1 THEN d.name \in u.world.elsewhere ELSE u.root # "function"
WellFormed(u) ==
  /\ u.root \in {"function", "helper", "entry"}
  /\ \A list \in Lines(u) : list \in Seq(Range(list))
  /\ IsFiniteSet(u.world.fields) /\ IsFiniteSet(u.world.helpers)
  /\ \A param \in Range(u.head.params) : param.actor \in BOOLEAN
  /\ u.root # "entry" => u.head.handles = <<>>
  /\ \A p \in DOMAIN u.body :
       /\ u.body[p][1] \in {"use", "bind", "open", "close"}
       /\ u.body[p][1] = "use" => u.body[p][2] \in {"value", "call", "field", "route"}
       /\ Begun(u, "close", p) <= Begun(u, "open", p)
  /\ \A d, e \in DOMAIN u.world.decls : u.world.decls[d].name = u.world.decls[e].name => d = e
  /\ \A d \in Range(u.world.decls) :
       /\ d.kind = "const" /\ d.name \in u.world.fields => RenamedIn(u, d)
       /\ d.kind = "function" /\ d.name \in u.world.helpers => RenamedIn(u, d)
TasksWellFormed == IsFiniteSet(Reserved) /\ \A u \in Tasks : WellFormed(u)

\* Names in the script: as authored, with the prefix of a function's locals, with
\* that of a renamed declaration, or with numbers after them.
Verbatim(n) == [base |-> n, mark |-> "none", suffix |-> <<>>]
Marked(name, mark) == [name EXCEPT !.mark = mark]
Numbered(name, i) == [name EXCEPT !.suffix = Append(@, i)]

-----------------------------------------------------------------------------
(* Binding.                                                                 *)

Put(f, x, v) == [y \in DOMAIN f \cup {x} |-> IF y = x THEN v ELSE f[y]]
InTop(stack, x, v) == [stack EXCEPT ![Len(stack)] = Put(@, x, v)]

\* A block works on a copy of the scope it is in.
Scope == Last(scopes)
Over(inner, outer) ==
  [n \in DOMAIN inner \cup DOMAIN outer |-> IF n \in DOMAIN inner THEN inner[n] ELSE outer[n]]
Begin(names) ==
  [n \in Range(names) |-> <<"local", CHOOSE i \in DOMAIN names :
     names[i] = n /\ \A j \in (i + 1)..Len(names) : names[j] # n>>]
OuterScope == IF OfActor THEN [f \in task.world.fields |-> <<"field", f>>] ELSE <<>>

BodyInit ==
  /\ task \in Tasks
  /\ stage = "bind" /\ pos = 1
  /\ locals = Params \o Handles
  /\ scopes = <<Over(Begin(locals), OuterScope)>>
  /\ selectors = <<{param.name : param \in {q \in Range(task.head.params) : q.actor}}>>
  /\ sites = <<>> /\ spelled = <<>> /\ visible = <<>> /\ emitted = <<>>

Refuse == stage' = "refused" /\ UNCHANGED <<task, pos, scopes, locals, selectors, sites, spelled, visible, emitted>>

Declaring(n) == {d \in Items : task.world.decls[d].name = n}

\* reference: calls have a namespace of their own.
LocalMeaning(how, n) ==
  CASE how = "call" -> IF n \in task.world.helpers THEN {<<"helper", n>>} ELSE {}
    [] how = "field" -> IF OfActor /\ n \in task.world.fields THEN {<<"field", n>>} ELSE {}
    [] OTHER -> IF n \in DOMAIN Scope THEN {Scope[n]} ELSE {}

Meanings(how, n) ==
  IF LocalMeaning(how, n) # {} \/ how = "field" THEN LocalMeaning(how, n)
  ELSE {<<"decl", d>> : d \in Declaring(n)}

\* A route's actor may not be a local that is no selector.
Selectable(how, n) == how = "route" => (n \in Last(selectors) \/ n \notin DOMAIN Scope)

BindUse ==
  /\ stage = "bind" /\ AtToken("use")
  /\ IF Meanings(Token[2], Token[3]) = {} \/ ~Selectable(Token[2], Token[3]) THEN Refuse
     ELSE /\ sites' = Put(sites, pos, CHOOSE m \in Meanings(Token[2], Token[3]) : TRUE)
          /\ pos' = pos + 1
          /\ UNCHANGED <<task, stage, scopes, locals, selectors, spelled, visible, emitted>>

BindLocal ==
  /\ stage = "bind" /\ AtToken("bind")
  /\ locals' = Append(locals, Token[2])
  /\ scopes' = InTop(scopes, Token[2], <<"local", Len(locals) + 1>>)
  /\ selectors' = [selectors EXCEPT ![Len(selectors)] =
                     CASE Token[3] = "actor" -> @ \cup {Token[2]}
                       [] Token[3] = "value" -> @ \ {Token[2]}
                       [] OTHER -> @]
  /\ sites' = Put(sites, pos, <<"local", Len(locals) + 1>>)
  /\ pos' = pos + 1
  /\ UNCHANGED <<task, stage, spelled, visible, emitted>>

OpenBlock ==
  /\ stage = "bind" /\ AtToken("open")
  /\ scopes' = Append(scopes, Scope) /\ selectors' = Append(selectors, Last(selectors))
  /\ pos' = pos + 1
  /\ UNCHANGED <<task, stage, locals, sites, spelled, visible, emitted>>

CloseBlock ==
  /\ stage = "bind" /\ AtToken("close")
  /\ scopes' = Front(scopes) /\ selectors' = Front(selectors)
  /\ pos' = pos + 1
  /\ UNCHANGED <<task, stage, locals, sites, spelled, visible, emitted>>

AllBound ==
  /\ stage = "bind" /\ pos > Len(task.body)
  /\ stage' = "check"
  /\ UNCHANGED <<task, pos, scopes, locals, selectors, sites, spelled, visible, emitted>>

-----------------------------------------------------------------------------
(* Checks of the names of an entry, and of the kinds of what is referred to. *)

BoundInBody == {task.body[p][2] : p \in {q \in DOMAIN task.body : task.body[q][1] = "bind"}}

\* ReservedEntryNames: each is used once, labels may repeat, and no statement,
\* in whatever block, binds one.
EntryNamesDistinct ==
  /\ IsInjective(Handles \o Params)
  /\ Range(Handles \o Params) \cap task.head.labels = {}
  /\ BoundInBody \cap (Range(Handles \o Params) \cup task.head.labels) = {}

KindFor == [value |-> {"const"}, call |-> {"function"}, route |-> {"actor"}, field |-> {}]
KindsFit ==
  \A p \in DOMAIN sites : sites[p][1] = "decl" =>
    task.world.decls[sites[p][2]].kind \in KindFor[task.body[p][2]]

Check ==
  /\ stage = "check"
  /\ IF KindsFit /\ (task.root = "entry" => EntryNamesDistinct)
       THEN /\ stage' = "name"
            /\ UNCHANGED <<task, pos, scopes, locals, selectors, sites, spelled, visible, emitted>>
       ELSE Refuse

-----------------------------------------------------------------------------
(* The names in the script.                                                 *)

\* reserved_local_names of this file, and of the other.
OwnLocals == Range(locals) \cup IF OfActor THEN task.world.fields \cup task.world.helpers ELSE {}
OutsideLocals(d) == IF task.world.decls[d].file = 1 THEN task.world.elsewhere ELSE OwnLocals

\* selected_declaration_names, as DeclarationNames has it for any number.
Display(d) ==
  LET name == Verbatim(task.world.decls[d].name)
  IN  IF task.world.decls[d].kind # "actor" /\ task.world.decls[d].name \in OutsideLocals(d)
        THEN Marked(name, "module") ELSE name
Displays == {Display(d) : d \in Items}
Constants == {d \in Items : task.world.decls[d].kind = "const"}
ConstantNames == {Display(d) : d \in Constants}

Plain(S) == {Verbatim(n) : n \in S}
Base(n) == IF task.root = "function" THEN Marked(Verbatim(n), "glob") ELSE Verbatim(n)

\* A constant's name in the script and a field's keep their spelling.
Kept == ConstantNames \cup IF OfActor THEN Plain(task.world.fields) ELSE {}
Excluded ==
  Range(spelled) \cup Displays \cup Plain(Reserved)
    \cup IF OfActor THEN Plain(task.world.helpers \cup task.world.fields) ELSE {}
AuthoredLocals == {Base(n) : n \in Range(locals)}

FreeName(base, i, occupied) ==
  LET Free(name) == name \notin occupied /\ (name = base \/ name \notin AuthoredLocals)
      Try(k) == Numbered(base, i + k)
  IN  IF Free(base) THEN base
      ELSE Try(CHOOSE k \in 0..Cardinality(occupied \cup AuthoredLocals) :
                 Free(Try(k)) /\ \A j \in 0..(k - 1) : ~Free(Try(j)))

\* A plausible bug, for the mutation runs: a local that is bound again is named
\* again.
SpellAnew(n, i) ==
  IF Verbatim(n) \in Kept THEN Verbatim(n)
  ELSE IF task.root = "entry" THEN Base(n)
  ELSE FreeName(Base(n), i, Excluded)

\* The locals of a name that have their spelling.
Spelled(n) == {j \in DOMAIN spelled : locals[j] = n}

\* A local, the i-th from 0: one spelling for all of the same authored name.  An
\* entry renames nothing.
Spell(n, i) ==
  IF Verbatim(n) \in Kept THEN Verbatim(n)
  ELSE IF Spelled(n) # {} THEN spelled[CHOOSE j \in Spelled(n) : TRUE]
  ELSE IF task.root = "entry" THEN Base(n)
  ELSE FreeName(Base(n), i, Excluded)

NameLocal ==
  /\ stage = "name" /\ Len(spelled) < Len(locals)
  /\ spelled' = Append(spelled, Spell(locals[Len(spelled) + 1], Len(spelled)))
  /\ UNCHANGED <<task, stage, pos, scopes, locals, selectors, sites, visible, emitted>>

\* A function may not bind the name of a shared constant.
ShadowsShared == task.root = "function" /\ \E n \in Range(locals) : Verbatim(n) \in ConstantNames

\* External: a contract's fields and constants, and a function's parameters, share
\* one namespace, in which nothing is defined twice.
ContractScope ==
  [name \in Plain(task.world.fields) \cup ConstantNames |->
     IF name \in ConstantNames THEN <<"decl", CHOOSE d \in Constants : Display(d) = name>>
     ELSE <<"field", name.base>>]
ParamNames == [i \in DOMAIN task.head.params |-> spelled[i]]
ParamsAccepted == IsInjective(ParamNames) /\ Range(ParamNames) \cap DOMAIN ContractScope = {}
ParamScope ==
  [name \in Range(ParamNames) |-> <<"local", CHOOSE i \in DOMAIN ParamNames : ParamNames[i] = name>>]

AllNamed ==
  /\ stage = "name" /\ Len(spelled) = Len(locals)
  /\ IF ShadowsShared \/ ~ParamsAccepted THEN Refuse
     ELSE /\ visible' = <<Over(ParamScope, ContractScope)>>
          /\ stage' = "emit" /\ pos' = 1
          /\ UNCHANGED <<task, scopes, locals, selectors, sites, spelled, emitted>>

-----------------------------------------------------------------------------
(* The script, and how Silverscript reads it.                               *)

\* A plausible bug, for the mutation runs: only locals are renamed.
WrittenAsAuthored(p, meant) ==
  IF meant[1] = "local" THEN spelled[meant[2]] ELSE Verbatim(task.body[p][3])

\* name: by what the use is bound to.
Written(p, meant) ==
  CASE meant[1] = "local" -> spelled[meant[2]]
    [] meant[1] = "decl" -> Display(meant[2])
    [] OTHER -> Verbatim(meant[2])

\* External: the functions of the contract.
Functions0 ==
  LET shared == {d \in Items : task.world.decls[d].kind = "function"}
  IN  [name \in Plain(task.world.helpers) \cup {Display(d) : d \in shared} |->
         IF name \in Plain(task.world.helpers) THEN <<"helper", name.base>>
         ELSE <<"decl", CHOOSE d \in shared : Display(d) = name>>]

IsHandle(meant) == meant[1] = "local" /\ meant[2] \in (Len(Params) + 1)..Len(Params \o Handles)
IsActor(meant) == meant[1] = "decl" /\ task.world.decls[meant[2]].kind = "actor"

\* A handle and an actor are lowered from what they are bound to: places in the
\* transaction, templates.  Anything else is a name in the script.
Reads(p) ==
  LET meant == sites[p]
      scope == IF task.body[p][2] = "call" THEN Functions0 ELSE Last(visible)
      name == Written(p, meant)
  IN  IF IsHandle(meant) \/ IsActor(meant) THEN {meant}
      ELSE IF name \in DOMAIN scope THEN {scope[name]} ELSE {}

EmitUse ==
  /\ stage = "emit" /\ AtToken("use")
  /\ IF Reads(pos) = {} THEN Refuse
     ELSE /\ emitted' = Put(emitted, pos, CHOOSE m \in Reads(pos) : TRUE)
          /\ pos' = pos + 1
          /\ UNCHANGED <<task, stage, scopes, locals, selectors, sites, spelled, visible>>

\* External: "variable is already defined".
EmitLocal ==
  /\ stage = "emit" /\ AtToken("bind")
  /\ LET i == sites[pos][2]
     IN  IF spelled[i] \in DOMAIN Last(visible) THEN Refuse
         ELSE /\ visible' = InTop(visible, spelled[i], <<"local", i>>)
              /\ pos' = pos + 1
              /\ UNCHANGED <<task, stage, scopes, locals, selectors, sites, spelled, emitted>>

EmitBlock ==
  /\ stage = "emit"
  /\ \/ AtToken("open") /\ visible' = Append(visible, Last(visible))
     \/ AtToken("close") /\ visible' = Front(visible)
  /\ pos' = pos + 1
  /\ UNCHANGED <<task, stage, scopes, locals, selectors, sites, spelled, emitted>>

Accept ==
  /\ stage = "emit" /\ pos > Len(task.body)
  /\ stage' = "accepted"
  /\ UNCHANGED <<task, pos, scopes, locals, selectors, sites, spelled, visible, emitted>>

BodyNext ==
  \/ BindUse \/ BindLocal \/ OpenBlock \/ CloseBlock \/ AllBound \/ Check
  \/ NameLocal \/ AllNamed \/ EmitUse \/ EmitLocal \/ EmitBlock \/ Accept

BodySpec == BodyInit /\ [][BodyNext]_bodyVars

-----------------------------------------------------------------------------
(* What the source means, told from the tokens alone.                       *)

Depth(p) == Begun(task, "open", p - 1) - Begun(task, "close", p - 1)

\* The block of q is still open at p.
InBlockOf(p, q) == q < p /\ \A r \in q..p : Depth(r) >= Depth(q)

BindingsOf(n, p) ==
  {q \in 1..(p - 1) : task.body[q][1] = "bind" /\ task.body[q][2] = n /\ InBlockOf(p, q)}

HeadNames == Params \o Handles

\* The id of what token q binds.
LocalId(q) == Len(HeadNames) + Begun(task, "bind", q)

InHead(n) == n \in Range(HeadNames)

\* A name of a value, at token p: the innermost binding, the head's, a field, a
\* declaration.
ValueMeant(n, p) ==
  CASE BindingsOf(n, p) # {} -> {<<"local", LocalId(Max(BindingsOf(n, p)))>>}
    [] BindingsOf(n, p) = {} /\ InHead(n) -> {<<"local", Max({i \in DOMAIN HeadNames : HeadNames[i] = n})>>}
    [] BindingsOf(n, p) = {} /\ ~InHead(n) /\ OfActor /\ n \in task.world.fields -> {<<"field", n>>}
    [] OTHER -> {<<"decl", d>> : d \in Declaring(n)}

IsSelector(m) ==
  CASE m[1] = "decl" -> task.world.decls[m[2]].kind = "actor"
    [] m[1] = "field" -> FALSE
    [] OTHER -> IF m[2] \in DOMAIN task.head.params THEN task.head.params[m[2]].actor
                ELSE \E q \in DOMAIN task.body :
                       task.body[q][1] = "bind" /\ LocalId(q) = m[2] /\ task.body[q][3] = "actor"

OfKind(S, kind) == {m \in S : m[1] = "decl" => task.world.decls[m[2]].kind = kind}

Meant(p) ==
  LET how == task.body[p][2]
      n == task.body[p][3]
  IN  CASE how = "call" -> IF n \in task.world.helpers THEN {<<"helper", n>>}
                           ELSE OfKind({<<"decl", d>> : d \in Declaring(n)}, "function")
        [] how = "field" -> IF OfActor /\ n \in task.world.fields THEN {<<"field", n>>} ELSE {}
        [] how = "route" -> {m \in ValueMeant(n, p) : IsSelector(m)}
        [] OTHER -> OfKind(ValueMeant(n, p), "const")

Uses == {p \in DOMAIN task.body : task.body[p][1] = "use"}
Binds == {p \in DOMAIN task.body : task.body[p][1] = "bind"}

\* A binding that hides another of the callable, a field or the name of a clause.
Hides ==
  \/ ~IsInjective(HeadNames)
  \/ task.root = "entry" /\ Range(HeadNames) \cap task.head.labels # {}
  \/ OfActor /\ Range(Params) \cap task.world.fields # {}
  \/ \E p \in Binds :
       LET n == task.body[p][2]
       IN  \/ InHead(n) \/ BindingsOf(n, p) # {}
           \/ OfActor /\ n \in task.world.fields
           \/ task.root = "entry" /\ n \in task.head.labels

\* ... or a constant of its own file.
HidesConstant ==
  \E n \in Range(Params) \cup BoundInBody : \E d \in Declaring(n) :
    task.world.decls[d].kind = "const" /\ task.world.decls[d].file = 1

-----------------------------------------------------------------------------
\* Whatever is renamed, in the script each use denotes what it denotes in the
\* source: no use is captured, by a local, a field of the contract a function is
\* compiled into, or a declaration of another file.
UsesKeepMeaning ==
  stage = "accepted" => \A p \in Uses : {emitted[p]} = Meant(p)

\* The names given keep what Silverscript is left to refuse, and add nothing to
\* it: a body in which every use means something is refused if and only if a
\* binding hides what it may not.
HidingRefused ==
  /\ stage = "accepted" => ~Hides
  /\ stage = "refused" => (Hides \/ HidesConstant \/ \E p \in Uses : Meant(p) = {})

\* names.rs: "keep track of constant declared name, which will detects shadowing".
\* No accepted body hides a constant of its file.
ConstantsNeverHidden == stage = "accepted" => ~HidesConstant
=============================================================================
