----------------------------- MODULE Namespaces -----------------------------
(***************************************************************************)
(* Name resolution between modules.  An import without an alias makes the   *)
(* names of the imported module names of the importing one, and the names   *)
(* that one imports in turn; the table is closed by rounds until nothing    *)
(* changes.  An import with an alias adds the alias alone.  A reference is  *)
(* a path of names; its last two may name an app and one of its actors, for *)
(* which every reference in the app's actor list is resolved in turn.       *)
(***************************************************************************)
EXTENDS Naturals, Sequences, SequencesExt, FiniteSets, Functions

CONSTANTS
  Programs,   \* loaded programs under study: decls[m], imports[m] of each module m
  Questions,  \* references under study: the module, the path, the kinds allowed
  NoAlias,
  MaxDepth    \* bound on the lookups nested in one another

VARIABLES
  program,     \* never changes
  candidates,  \* candidates[m][name]: what the name may be in module m
  exports,     \* exports[m]: the names of module m
  phase,       \* "load", "close", "ready", "lookup", "answered" or "refused"
  question,
  lookups,     \* the app members being looked up, outermost first
  answer

vars == <<program, candidates, exports, phase, question, lookups, answer>>

Modules == DOMAIN program.decls
Declared(d) == program.decls[d.module][d.index]

ModuleTarget(m) == [type |-> "module", module |-> m]
Declaration(m, i) == [type |-> "declaration", module |-> m, index |-> i]
Member(app, actor) == [type |-> "member", app |-> app, actor |-> actor]
Nothing == [type |-> "nothing"]

Aliased(m) == {i \in Range(program.imports[m]) : i.alias # NoAlias}
Plain(m) == Range(program.imports[m]) \ Aliased(m)

\* A module's own declarations and aliases, by name.
OwnTargets(m, name) ==
  {Declaration(m, i) : i \in {j \in DOMAIN program.decls[m] : program.decls[m][j].name = name}}
  \cup {ModuleTarget(i.target) : i \in {j \in Aliased(m) : j.alias = name}}

Names == UNION {{d.name : d \in Range(program.decls[m])} \cup {i.alias : i \in Aliased(m)} : m \in Modules}

AliasesDistinct ==
  \A m \in Modules : \A i, j \in DOMAIN program.imports[m] :
    i # j /\ program.imports[m][i].alias # NoAlias =>
      program.imports[m][i].alias # program.imports[m][j].alias

Init ==
  /\ program \in Programs
  /\ candidates = <<>> /\ exports = <<>> /\ lookups = <<>>
  /\ phase = "load" /\ question = Nothing /\ answer = Nothing

Collect ==
  /\ phase = "load"
  /\ IF AliasesDistinct
       THEN /\ candidates' = [m \in Modules |-> [name \in Names |-> OwnTargets(m, name)]]
            /\ phase' = "close"
       ELSE phase' = "refused" /\ UNCHANGED candidates
  /\ UNCHANGED <<program, exports, question, lookups, answer>>

NextCandidates ==
  [m \in Modules |-> [name \in Names |->
     candidates[m][name] \cup UNION {candidates[i.target][name] : i \in Plain(m)}]]

Round ==
  /\ phase = "close" /\ NextCandidates # candidates
  /\ candidates' = NextCandidates
  /\ UNCHANGED <<program, exports, phase, question, lookups, answer>>

Ambiguous == \E m \in Modules, name \in Names : Cardinality(candidates[m][name]) > 1

Close ==
  /\ phase = "close" /\ NextCandidates = candidates
  /\ IF Ambiguous THEN phase' = "refused" /\ UNCHANGED exports
     ELSE /\ exports' = [m \in Modules |->
               [name \in {n \in Names : candidates[m][n] # {}} |->
                  CHOOSE target \in candidates[m][name] : TRUE]]
          /\ phase' = "ready"
  /\ UNCHANGED <<program, candidates, question, lookups, answer>>

-----------------------------------------------------------------------------
IsApp(target) == target.type = "declaration" /\ Declared(target).kind = "app"

\* bind_export_path up to the lookup of an app member, which it leaves to do.
RECURSIVE Walk(_, _)
Walk(m, path) ==
  IF Head(path) \notin DOMAIN exports[m] THEN Nothing
  ELSE LET target == exports[m][Head(path)]
       IN  IF Len(path) = 1 THEN target
           ELSE IF target.type = "module" THEN Walk(target.module, Tail(path))
           ELSE IF IsApp(target) /\ Len(path) = 2
                  THEN [type |-> "lookup", app |-> target, name |-> path[2]]
           ELSE Nothing

Lookup(walked) == [app |-> walked.app, name |-> walked.name, next |-> 1, found |-> Nothing]

Refused == phase' = "refused" /\ UNCHANGED <<lookups, answer>>

\* DeclarationBinder::required: a declaration of a kind the site allows.
Ask ==
  /\ phase = "ready"
  /\ \E q \in Questions :
       LET walked == Walk(q.module, q.path)
       IN  /\ question' = q
           /\ \/ walked.type = "lookup" /\ lookups' = <<Lookup(walked)>>
                 /\ phase' = "lookup" /\ UNCHANGED answer
              \/ /\ walked.type = "declaration" /\ Declared(walked).kind \in q.kinds
                 /\ answer' = walked /\ phase' = "answered" /\ UNCHANGED lookups
              \/ /\ walked.type # "lookup"
                 /\ walked.type = "declaration" => Declared(walked).kind \notin q.kinds
                 /\ Refused
  /\ UNCHANGED <<program, candidates, exports>>

Current == Last(lookups)
ActorList(app) == Declared(app).actors
Looking == phase = "lookup" /\ Current.next <= Len(ActorList(Current.app))
\* A plausible bug, for the mutation runs: an actor list read where the question
\* is asked.
HereAsked == Walk(question.module, ActorList(Current.app)[Current.next])
Here == Walk(Current.app.module, ActorList(Current.app)[Current.next])
NamesWanted(d) == Declared(d).kind = "actor" /\ Declared(d).name = Current.name

Advance(found) ==
  /\ lookups' = [lookups EXCEPT ![Len(lookups)] = [@ EXCEPT !.next = @ + 1, !.found = found]]
  /\ UNCHANGED <<phase, answer>>

\* One reference of the app's actor list.
Examine ==
  /\ Looking /\ Here.type # "lookup"
  /\ \/ Here.type # "declaration" /\ Refused
     \/ Here.type = "declaration" /\ ~NamesWanted(Here) /\ Advance(Current.found)
     \/ Here.type = "declaration" /\ NamesWanted(Here)
        /\ IF Current.found = Nothing THEN Advance(Here) ELSE Refused
  /\ UNCHANGED <<program, candidates, exports, question>>

\* A reference of the list that names a member of an app is looked up too.
Nest ==
  /\ Looking /\ Here.type = "lookup" /\ Len(lookups) < MaxDepth
  /\ lookups' = Append(lookups, Lookup(Here))
  /\ UNCHANGED <<program, candidates, exports, phase, question, answer>>

\* The end of a lookup.  A nested one refuses the outer one whatever it found:
\* an app member is not a local actor.
Finish ==
  /\ phase = "lookup" /\ Current.next > Len(ActorList(Current.app))
  /\ IF Len(lookups) = 1 /\ Current.found # Nothing
       THEN /\ answer' = Member(Current.app, Current.found)
            /\ phase' = "answered" /\ UNCHANGED lookups
       ELSE Refused
  /\ UNCHANGED <<program, candidates, exports, question>>

Next == Collect \/ Round \/ Close \/ Ask \/ Examine \/ Nest \/ Finish

Spec == Init /\ [][Next]_vars /\ WF_vars(Next)

-----------------------------------------------------------------------------
\* The modules a module takes names from: those its plain imports lead to.
Sources(m) ==
  LET step[S \in SUBSET Modules] ==
        LET wider == S \cup {i.target : i \in UNION {Plain(k) : k \in S}}
        IN  IF wider = S THEN S ELSE step[wider]
  IN  step[{m}]

Meanings(m, name) == UNION {OwnTargets(k, name) : k \in Sources(m)}

\* Once the table is closed, a module exports exactly the names its sources
\* declare or alias, each with its one meaning, through cycles and diamonds of
\* imports; the table is refused only over a repeated alias or a name with two
\* meanings.  A round too few or an alias that leaks would show here.
ExportsMeanImports ==
  /\ phase \in {"ready", "lookup", "answered"} => \A m \in Modules, name \in Names :
       LET meant == Meanings(m, name)
       IN  /\ Cardinality(meant) <= 1
           /\ name \in DOMAIN exports[m] <=> meant # {}
           /\ name \in DOMAIN exports[m] => meant = {exports[m][name]}
  /\ phase = "refused" /\ question = Nothing =>
       ~AliasesDistinct \/ \E m \in Modules, name \in Names : Cardinality(Meanings(m, name)) > 1

\* What a path means: aliases lead from module to module, names to meanings.
RECURSIVE Denoted(_, _)
Denoted(m, path) ==
  IF Len(path) = 1 THEN Meanings(m, path[1])
  ELSE UNION {Denoted(t.module, Tail(path)) : t \in {u \in Meanings(m, path[1]) : u.type = "module"}}

\* An answer is what the path means where it is written; a member of an app
\* stands for one actor, the only one of its list of that name, and the list
\* means what it does where the app is declared, not where it is referred to.
\* A list that names two actors alike gives no answer, by whatever paths.
AnswerMeansPath ==
  \/ answer.type = "declaration" /\ Denoted(question.module, question.path) = {answer}
  \/ /\ answer.type = "member"
     /\ Denoted(question.module, Front(question.path)) = {answer.app}
     /\ LET list == ActorList(answer.app)
            Same(i) == {d \in Denoted(answer.app.module, list[i]) :
                          d.type = "declaration" /\ Declared(d).kind = "actor"
                          /\ Declared(d).name = Last(question.path)}
            named == {i \in DOMAIN list : Same(i) # {}}
        IN  Cardinality(named) = 1 /\ \A i \in named : Same(i) = {answer.actor}

\* The tables mean what the imports say, and every answer what its path does.
NamesMeanSources == ExportsMeanImports /\ (phase = "answered" => AnswerMeansPath)

\* A lookup is never begun while one in the same app is going on: it would
\* begin by the same references and never end.
LookupsEnd == \A i, j \in DOMAIN lookups : lookups[i].app = lookups[j].app => i = j
=============================================================================
