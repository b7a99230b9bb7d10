----------------------------- MODULE MCNamespaces -----------------------------
(* An app that lists an actor through itself, one through another app that    *)
(* lists an actor through it, and a legal one.                               *)
EXTENDS Namespaces

CONSTANTS X, A, B  \* an actor and two apps

Actor == [name |-> X, kind |-> "actor"]
App(name, actors) == [name |-> name, kind |-> "app", actors |-> actors]
Import(m) == [target |-> m, alias |-> NoAlias]

Lists(S) == {l \in SeqOf(S, 2) : Len(l) = 2 => l[1] # l[2]}

MCSelfReferences ==
  {[decls |-> <<<<Actor, App(A, list)>>, <<App(B, <<<<A, X>>>>)>>>>,
    imports |-> <<<<Import(2)>>, <<Import(1)>>>>] :
     list \in Lists({<<X>>, <<A, X>>, <<B, X>>})}
MCSelfQuestions == {[module |-> 1, path |-> p, kinds |-> {"actor"}] : p \in {<<X>>, <<A, X>>, <<B, X>>}}
=============================================================================
