-------------------------- MODULE MCTemplateFrames --------------------------
(***************************************************************************)
(* Three parts in one run: the frames that the compiled templates are        *)
(* verified by, the templates that the bodies of entries check outputs       *)
(* against, and what an artifact says of entries.  The initial state chooses *)
(* which; the variables of the other parts stay as they are.                 *)
(***************************************************************************)
EXTENDS TemplateFrames

CONSTANT MaxBytecode  \* bound on the length of a contract's bytecode

VARIABLES
  study,                                          \* "frames", "body" or "metadata"
  entry, verdict, todo, locals, selected, checks, \* of a body
  app, artifact, outcome                          \* of the metadata

body == <<entry, verdict, todo, locals, selected, checks>>
metadata == <<app, artifact, outcome>>

Bytecodes == UNION {[1..n -> Byte] : n \in 0..MaxBytecode}

\* Every span, those that end past the bytecode and those whose sum overflows
\* included.
MCContracts ==
  {[bytecode |-> b, offset |-> offset, len |-> len] :
     b \in Bytecodes, offset \in 0..(MaxBytecode + 1) , len \in 0..MaxBytecode}
  \cup {[bytecode |-> b, offset |-> MaxUsize, len |-> 1] : b \in Bytecodes}

\* Valid spans only.
ValidContracts == {c \in MCContracts : ValidSpan(c)}

C == INSTANCE MCEntryRoutes

R == INSTANCE EntryRoutes WITH
       Entries <- C!MCEntries, Variants <- C!MCVariants, StateOf <- C!MCStateOf, Indices <- C!MCIndices

U == INSTANCE MCEntries WITH Self <- "S", Linked <- <<"L">>, S <- "S", A <- "A", L <- "L"

M == INSTANCE EntryMetadata WITH
       Self <- "S", Linked <- <<"L">>, Apps <- U!MCMetadataApps, MaxRange <- 2, verdict <- outcome

NoFrames ==
  /\ contract = [a \in Actor |-> Missing] /\ phase = "none" /\ error = "none"
  /\ frames = <<>> /\ first = 1 /\ second = 2
NoBody ==
  /\ entry = <<>> /\ verdict = "none" /\ todo = <<>>
  /\ locals = <<>> /\ selected = <<>> /\ checks = <<>>

NoMetadata == app = <<>> /\ artifact = <<>> /\ outcome = <<>>

TemplatesInit ==
  \/ study = "frames" /\ Init /\ NoBody /\ NoMetadata
  \/ study = "body" /\ R!Init /\ NoFrames /\ NoMetadata
  \/ study = "metadata" /\ M!Init /\ NoFrames /\ NoBody

TemplatesNext ==
  \/ study = "frames" /\ Next /\ UNCHANGED <<study, body, metadata>>
  \/ study = "body" /\ R!Next /\ UNCHANGED <<study, vars, metadata>>
  \/ study = "metadata" /\ M!Next /\ UNCHANGED <<study, vars, body>>

TemplatesSpec == TemplatesInit /\ [][TemplatesNext]_<<study, vars, body, metadata>>

-----------------------------------------------------------------------------
(* The properties of a body.                                                *)

OutputsCheckedOnce == R!OutputsCheckedOnce
TargetsAreCurrent == R!TargetsAreCurrent
RoutesFollowAssignments == R!RoutesFollowAssignments
EntryRefusalJustified == R!EntryRefusalJustified

-----------------------------------------------------------------------------
(* The properties of the metadata.                                          *)

OwnArtifactVerifies == study = "metadata" => M!OwnArtifactVerifies

\* A verified artifact can be read in one way: each spawned actor's template comes
\* from one place that the entry has, and each section has one range at most.
\* (verify_entry_spawns, check_cardinality_consistency)
VerifiedReadsOneWay == study = "metadata" => M!VerifiedSpawnsResolve /\ M!RangesUnambiguous
=============================================================================
