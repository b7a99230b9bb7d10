------------------------------ MODULE MCScopes ------------------------------
(***************************************************************************)
(* Bodies of a few tokens over two names, one of which is also the runtime's, *)
(* in the places a name can come from.                                       *)
(***************************************************************************)
EXTENDS Naturals, Sequences, FiniteSets

CONSTANTS x, y  \* names in a body

Use(how, n) == <<"use", how, n>>
Bind(n, type) == <<"bind", n, type>>
Open == <<"open">>
Close == <<"close">>

Bindings(root) ==
  IF root = "entry" THEN {Bind(x, "actor"), Bind(x, "part"), Bind(y, "part")}
  ELSE {Bind(x, "value"), Bind(y, "value")}
References(root) ==
  {Use("value", x), Use("value", y), Use("call", x)}
    \cup (IF root = "function" THEN {} ELSE {Use("field", x)})
    \cup (IF root = "entry" THEN {Use("route", x)} ELSE {})

\* What may come before the binding that is followed by a reference.
EarlyUses(root) == {r \in References(root) : r[2] \in {"value", "route"}}

\* In a row, in a block and after it, in two branches.
Bodies(root) ==
  UNION {{<<t, b, u>>, <<t, Open, b, Close, u>>} :
           t \in Bindings(root) \cup EarlyUses(root), b \in Bindings(root), u \in References(root)}
  \cup {<<Open, t, Close, Open, b, u, Close>> :
           t \in Bindings(root), b \in Bindings(root), u \in References(root)}

World(decls, elsewhere, fields, helpers) ==
  [decls |-> decls, elsewhere |-> elsewhere, fields |-> fields, helpers |-> helpers]
Decl(kind, file) == <<[name |-> x, kind |-> kind, file |-> file]>>

\* What x can be besides a local.  Nothing else of a contract has the name a field
\* or a helper has: a constant of that name is renamed, which takes a local of it
\* in the other file, or the actor to be in the other file.
Worlds(root) ==
  {World(<<>>, {}, F, H) : F \in SUBSET {x}, H \in SUBSET {x}}
    \cup {World(Decl("function", 1), {}, F, {}) : F \in SUBSET {x}}
    \cup {World(Decl("const", 1), E, F, {}) : E \in {{x}}, F \in SUBSET {x}}
    \cup {World(Decl("const", f), {}, {}, {}) : f \in {1, 2}}
    \cup (IF root = "function" THEN {} ELSE {World(Decl("const", 2), {}, {x}, {})})
    \cup (IF root = "entry" THEN {World(Decl("actor", 1), {}, {}, {})} ELSE {})

List(names, actor) == [n \in DOMAIN names |-> [name |-> names[n], actor |-> actor]]

HeadOf(params, handles, labels) == [params |-> params, handles |-> handles, labels |-> labels]
Heads(root) ==
  CASE root = "entry" ->
         {HeadOf(List(<<>>, FALSE), List(<<>>, FALSE), L) : L \in SUBSET {x}}
           \cup {HeadOf(List(<<x>>, actor), <<>>, {}) : actor \in BOOLEAN}
           \cup {HeadOf(List(<<x>>, TRUE), List(<<y>>, FALSE), {})}
           \cup {HeadOf(List(<<>>, FALSE), List(<<x>>, FALSE), L) : L \in SUBSET {x}}
    [] OTHER -> {HeadOf(List(p, FALSE), <<>>, {}) : p \in {<<>>, <<x>>, <<y>>, <<x, x>>}}

TasksOf(root) == [root : {root}, world : Worlds(root), head : Heads(root), body : Bodies(root)]
MCTasks == TasksOf("function") \cup TasksOf("helper") \cup TasksOf("entry")

\* One that a program may not take for a local without a new name.
MCReserved == {y}
=============================================================================
