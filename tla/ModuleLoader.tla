---------------------------- MODULE ModuleLoader ----------------------------
(***************************************************************************)
(* Source discovery: a depth-first walk from the root source that gives     *)
(* each source an identity, inserts it before it looks at its imports (so   *)
(* files may import each other), and records each import as an edge once    *)
(* the imported source and all it imports are loaded.                       *)
(***************************************************************************)
EXTENDS Naturals, Sequences, SequencesExt, FiniteSets

CONSTANTS
  File,        \* what a path can canonicalize to
  StdPath,     \* paths that begin with std::
  KnownStd,    \* those of them the compiler bundles
  FilePath,    \* every other path
  Inline,      \* identity of source text that comes from no file
  Missing,     \* canonicalize fails
  Disks,       \* functions from FilePath to File \cup {Missing} under study
  Texts        \* functions from identities to their text under study

Identity == File \cup KnownStd \cup {Inline}

VARIABLES
  disk, text,  \* never change; text[i].lexes, text[i].imports
  sources,     \* SourceSet::files, by identity, in order of insertion
  edges,       \* edges[s]: the targets of the imports of source s, so far
  frames,      \* the sources whose imports are being loaded, outermost first
  outcome      \* "loading", "done" or "refused"

vars == <<disk, text, sources, edges, frames, outcome>>

\* What a path imported by the source of identity i names.  Only a file may
\* import a file.
Target(i, p) ==
  IF p \in StdPath THEN IF p \in KnownStd THEN p ELSE Missing
  ELSE IF i \in File THEN disk[p] ELSE Missing

Loads(i) == i # Missing /\ text[i].lexes

Position(i) == CHOOSE s \in DOMAIN sources : sources[s] = i

Imports(s) == text[sources[s]].imports

Init ==
  /\ disk \in Disks /\ text \in Texts
  /\ sources = <<>> /\ edges = <<>> /\ frames = <<>>
  /\ outcome = "loading"

Inserted(i) ==
  /\ sources' = Append(sources, i)
  /\ edges' = Append(edges, <<>>)
  /\ frames' = Append(frames, Len(sources) + 1)

\* discover_file and discover_inline: the root is a file or inline text.
LoadRoot ==
  /\ outcome = "loading" /\ sources = <<>>
  /\ \E i \in {Inline} \cup {disk[p] : p \in FilePath} :
       \/ Loads(i) /\ Inserted(i) /\ UNCHANGED outcome
       \/ ~Loads(i) /\ outcome' = "refused" /\ UNCHANGED <<sources, edges, frames>>
  /\ UNCHANGED <<disk, text>>

\* The source on top of the stack, and the import it is at.
Current == Last(frames)
AtImport == outcome = "loading" /\ frames # <<>> /\ Len(edges[Current]) < Len(Imports(Current))
Wanted == Target(sources[Current], Imports(Current)[Len(edges[Current]) + 1])

Enter ==
  /\ AtImport /\ Wanted \notin Range(sources) /\ Loads(Wanted)
  /\ Inserted(Wanted)
  /\ UNCHANGED <<disk, text, outcome>>

AlreadyLoaded ==
  /\ AtImport /\ Wanted \in Range(sources)
  /\ edges' = [edges EXCEPT ![Current] = Append(@, Position(Wanted))]
  /\ UNCHANGED <<disk, text, sources, frames, outcome>>

Refuse ==
  /\ AtImport /\ Wanted \notin Range(sources) /\ ~Loads(Wanted)
  /\ outcome' = "refused"
  /\ UNCHANGED <<disk, text, sources, edges, frames>>

\* A plausible bug, for the mutation runs.
ReturnLastId ==      \* the id of the source inserted last, not of the one loaded
  /\ outcome = "loading" /\ frames # <<>>
  /\ Len(edges[Current]) = Len(Imports(Current))
  /\ frames' = Front(frames)
  /\ IF Len(frames) = 1 THEN outcome' = "done" /\ UNCHANGED edges
     ELSE /\ edges' = [edges EXCEPT ![frames[Len(frames) - 1]] = Append(@, Len(sources))]
          /\ UNCHANGED outcome
  /\ UNCHANGED <<disk, text, sources>>

\* The load of a source returns its id to the source that imported it.
Return ==
  /\ outcome = "loading" /\ frames # <<>>
  /\ Len(edges[Current]) = Len(Imports(Current))
  /\ frames' = Front(frames)
  /\ IF Len(frames) = 1 THEN outcome' = "done" /\ UNCHANGED edges
     ELSE /\ edges' = [edges EXCEPT ![frames[Len(frames) - 1]] = Append(@, Current)]
          /\ UNCHANGED outcome
  /\ UNCHANGED <<disk, text, sources>>

Next == LoadRoot \/ Enter \/ AlreadyLoaded \/ Refuse \/ Return

Spec == Init /\ [][Next]_vars /\ WF_vars(Next)

-----------------------------------------------------------------------------
\* The identities an identity leads to through imports, itself included.
RECURSIVE Closure(_)
Closure(S) ==
  LET wider == S \cup UNION {{Target(i, p) : p \in Range(text[i].imports)}
                               : i \in {j \in S : Loads(j)}}
  IN  IF wider = S THEN S ELSE Closure(wider)

\* Every source of the graph is loaded once, nothing else is, and its edges
\* name the sources its imports name, in their order; a load is refused only
\* when some import of the graph cannot be loaded.  Import cycles and diamonds
\* are where a depth-first loader goes wrong (load_file, load_standard).
GraphIsImports ==
  /\ IsInjective(sources)
  /\ \A s \in DOMAIN sources : \A k \in DOMAIN edges[s] :
       sources[edges[s][k]] = Target(sources[s], Imports(s)[k])
  /\ outcome = "done" =>
       /\ Range(sources) = Closure({sources[1]})
       /\ \A s \in DOMAIN sources : Len(edges[s]) = Len(Imports(s))
  /\ outcome = "refused" /\ sources # <<>> =>
       \E i \in Closure({sources[1]}) : ~Loads(i)

\* Discovery ends, whatever imports whatever, and what it retains is that graph.
GraphDiscovered == []GraphIsImports /\ <>(outcome # "loading")

=============================================================================
