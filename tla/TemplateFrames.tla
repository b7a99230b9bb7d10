--------------------------- MODULE TemplateFrames ---------------------------
(***************************************************************************)
(* Verification of the template frames of an app's actors                   *)
(* (crates/argent-artifact/src/template_frames.rs).                         *)
(*                                                                         *)
(* An actor's contract is compiled bytecode with the span of its state.     *)
(* What lies before and after the span is the actor's identity: any script  *)
(* with that prefix, that suffix and that length is one of the actor's.     *)
(* The verifier extracts a frame per actor and then compares every pair.    *)
(***************************************************************************)
EXTENDS Integers, Sequences

CONSTANTS
  ActorCount,  \* the actors, numbered in the order of their names
  Byte,        \* the alphabet of the bytecode
  Contracts,   \* the embedded contracts an actor may refer to
  Missing,     \* a reference to a contract that is not embedded
  MaxUsize     \* the largest usize

Actor == 1..ActorCount

IsContract(c) ==
  /\ c.bytecode \in Seq(Byte)
  /\ c.offset \in 0..MaxUsize /\ c.len \in 0..MaxUsize
  /\ Len(c.bytecode) <= MaxUsize

ASSUME TemplateFramesAssumption ==
  /\ ActorCount \in Nat /\ MaxUsize \in Nat
  /\ \A c \in Contracts : IsContract(c)
  /\ Missing \notin Contracts

VARIABLES
  contract,  \* the contract of each actor; never changes
  phase,     \* "extract", "compare", "verified", "rejected" or "panicked"
  error,     \* why it was rejected, or "none"
  frames,    \* the frames extracted so far, in actor order
  first,     \* the pair of actors to compare next
  second

vars == <<contract, phase, error, frames, first, second>>

\* Mutant of StateEnd: the sum wraps around.
WrappingStateEnd(c) == (c.offset + c.len) % (MaxUsize + 1)

\* offset.checked_add(state_len); a sum that overflows ends past any bytecode.
StateEnd(c) == c.offset + c.len

ValidSpan(c) == StateEnd(c) <= MaxUsize /\ StateEnd(c) <= Len(c.bytecode)

\* Slicing outside the bytecode panics.
Sliceable(c) == c.offset <= Len(c.bytecode) /\ StateEnd(c) <= Len(c.bytecode)

FrameOf(c) ==
  [prefix   |-> SubSeq(c.bytecode, 1, c.offset),
   stateLen |-> c.len,
   suffix   |-> SubSeq(c.bytecode, StateEnd(c) + 1, Len(c.bytecode)),
   total    |-> Len(c.bytecode)]

StartsWith(s, t) == Len(t) <= Len(s) /\ \A n \in 1..Len(t) : s[n] = t[n]

EndsWith(s, t) ==
  Len(t) <= Len(s) /\ \A n \in 1..Len(t) : s[Len(s) - Len(t) + n] = t[n]

\* Mutant of ConflictsWith: the suffixes are ignored.
ConflictsByPrefix(f, g) ==
  /\ f.total = g.total
  /\ StartsWith(f.prefix, g.prefix) \/ StartsWith(g.prefix, f.prefix)

ConflictsWith(f, g) ==
  /\ f.total = g.total
  /\ StartsWith(f.prefix, g.prefix) \/ StartsWith(g.prefix, f.prefix)
  /\ EndsWith(f.suffix, g.suffix) \/ EndsWith(g.suffix, f.suffix)

-----------------------------------------------------------------------------
Init ==
  /\ contract \in [Actor -> Contracts \cup {Missing}]
  /\ phase = "extract" /\ error = "none"
  /\ frames = <<>>
  /\ first = 1 /\ second = 2

\* The actor whose frame is extracted next.
Extracting == phase = "extract" /\ Len(frames) < ActorCount

Extracted == contract[Len(frames) + 1]

Fail(why) ==
  /\ phase' = "rejected" /\ error' = why
  /\ UNCHANGED <<contract, frames, first, second>>

MissingContract == Extracting /\ Extracted = Missing /\ Fail("MissingContract")

InvalidStateSpan ==
  /\ Extracting /\ Extracted # Missing
  /\ ~ValidSpan(Extracted)
  /\ Fail("InvalidStateSpan")

ExtractFrame ==
  /\ Extracting /\ Extracted # Missing
  /\ ValidSpan(Extracted)
  /\ IF Sliceable(Extracted)
       THEN frames' = Append(frames, FrameOf(Extracted)) /\ UNCHANGED phase
       ELSE phase' = "panicked" /\ UNCHANGED frames
  /\ UNCHANGED <<contract, error, first, second>>

AllExtracted ==
  /\ phase = "extract" /\ Len(frames) = ActorCount
  /\ phase' = "compare"
  /\ UNCHANGED <<contract, error, frames, first, second>>

Ambiguous ==
  /\ phase = "compare" /\ first <= ActorCount /\ second <= ActorCount
  /\ ConflictsWith(frames[first], frames[second])
  /\ Fail("Ambiguous")

\* Mutant of ComparePair: only neighbors are compared.
CompareNeighbors ==
  /\ phase = "compare" /\ first <= ActorCount /\ second <= ActorCount
  /\ ~ConflictsWith(frames[first], frames[second])
  /\ first' = second /\ second' = second + 1
  /\ UNCHANGED <<contract, phase, error, frames>>

ComparePair ==
  /\ phase = "compare" /\ first <= ActorCount /\ second <= ActorCount
  /\ ~ConflictsWith(frames[first], frames[second])
  /\ IF second < ActorCount THEN second' = second + 1 /\ UNCHANGED first
     ELSE first' = first + 1 /\ second' = first + 2
  /\ UNCHANGED <<contract, phase, error, frames>>

\* No pair is left.
Verify ==
  /\ phase = "compare" /\ (first > ActorCount \/ second > ActorCount)
  /\ phase' = "verified"
  /\ UNCHANGED <<contract, error, frames, first, second>>

Next ==
  \/ MissingContract \/ InvalidStateSpan \/ ExtractFrame \/ AllExtracted
  \/ Ambiguous \/ ComparePair \/ Verify

Spec == Init /\ [][Next]_vars

-----------------------------------------------------------------------------
(* Reference meanings, over contracts and whole scripts.                   *)

\* R is a script of the actor compiled to c: they agree outside c's state.
IsScriptOf(R, c) ==
  /\ Len(R) = Len(c.bytecode)
  /\ \A n \in DOMAIN R : R[n] = c.bytecode[n] \/ n \in (c.offset + 1)..(c.offset + c.len)

ScriptsOfLength(n) == [1..n -> Byte]

ShareAScript(c, d) ==
  \E R \in ScriptsOfLength(Len(c.bytecode)) : IsScriptOf(R, c) /\ IsScriptOf(R, d)

\* The state of each lies clear of the other's: no prefix of one reaches past the
\* state of the other into its suffix.
Uncrossed(c, d) == c.offset <= d.offset + d.len /\ d.offset <= c.offset + c.len

-----------------------------------------------------------------------------
(* Properties.                                                             *)

\* The partition of template-frame-identity.md: once the frames are verified, no
\* byte string is a script of two actors, wherever the states of the two lie.
FramesDisjoint ==
  phase = "verified" =>
    \A a, b \in Actor : a # b => ~ShareAScript(contract[a], contract[b])

\* No span makes the verifier slice outside the bytecode, those whose end
\* overflows included.
NeverPanics == phase # "panicked"

\* The conservative false positive: a rejected pair shares a script unless the
\* fixed bytes of one lie across the whole state of the other.
FalsePositivesCross ==
  error = "Ambiguous" =>
    LET c == contract[first]
        d == contract[second]
    IN  Uncrossed(c, d) => ShareAScript(c, d)
=============================================================================
