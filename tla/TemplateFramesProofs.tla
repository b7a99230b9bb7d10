------------------------ MODULE TemplateFramesProofs ------------------------
(***************************************************************************)
(* Proofs about TemplateFrames, for every alphabet, every set of embedded   *)
(* contracts, every size and every number of actors.                        *)
(***************************************************************************)
EXTENDS TemplateFrames, TLAPS

\* A contract whose state lies within its bytecode.
IsCompiled(c) == IsContract(c) /\ ValidSpan(c)

-----------------------------------------------------------------------------
(* Frames and scripts.                                                     *)

\* A compiled contract has a length and a span in numbers.
LEMMA CompiledFacts ==
  ASSUME NEW c, IsCompiled(c)
  PROVE  /\ c.bytecode \in Seq(Byte) /\ Len(c.bytecode) \in Nat
         /\ c.offset \in Nat /\ c.len \in Nat
         /\ StateEnd(c) = c.offset + c.len /\ StateEnd(c) <= Len(c.bytecode)
         /\ \A n \in 1..Len(c.bytecode) : c.bytecode[n] \in Byte
BY TemplateFramesAssumption DEF IsCompiled, IsContract, ValidSpan, StateEnd

\* A frame holds the bytes before and after the state.
LEMMA FrameFacts ==
  ASSUME NEW c, IsCompiled(c)
  PROVE  /\ FrameOf(c).total = Len(c.bytecode)
         /\ FrameOf(c).stateLen = c.len
         /\ FrameOf(c).prefix \in Seq(Byte) /\ Len(FrameOf(c).prefix) = c.offset
         /\ \A n \in 1..c.offset : FrameOf(c).prefix[n] = c.bytecode[n]
         /\ FrameOf(c).suffix \in Seq(Byte)
         /\ Len(FrameOf(c).suffix) = Len(c.bytecode) - StateEnd(c)
         /\ \A n \in 1..(Len(c.bytecode) - StateEnd(c)) :
              FrameOf(c).suffix[n] = c.bytecode[StateEnd(c) + n]
<1> DEFINE b == c.bytecode
           e == StateEnd(c)
<1>1. b \in Seq(Byte) /\ Len(b) \in Nat /\ c.offset \in 0..Len(b) /\ e \in 0..Len(b)
  BY CompiledFacts
<1> HIDE DEF b, e
<1>2. /\ SubSeq(b, 1, c.offset) \in Seq(Byte) /\ Len(SubSeq(b, 1, c.offset)) = c.offset
      /\ \A n \in 1..c.offset : SubSeq(b, 1, c.offset)[n] = b[n]
  BY <1>1
<1>3. /\ SubSeq(b, e + 1, Len(b)) \in Seq(Byte)
      /\ Len(SubSeq(b, e + 1, Len(b))) = Len(b) - e
      /\ \A n \in 1..(Len(b) - e) : SubSeq(b, e + 1, Len(b))[n] = b[e + n]
  BY <1>1
<1> QED  BY <1>1, <1>2, <1>3 DEF FrameOf, b, e

\* Two frames conflict whichever is named first.
LEMMA ConflictsSymmetric ==
  ASSUME NEW f, NEW g
  PROVE  ConflictsWith(f, g) <=> ConflictsWith(g, f)
BY DEF ConflictsWith

\* The safety proof of template-frame-identity.md: contracts with a common script
\* have equal lengths, and of their prefixes, and of their suffixes, the shorter
\* is part of the longer.
LEMMA SharedScriptConflicts ==
  ASSUME NEW c, NEW d, IsCompiled(c), IsCompiled(d), ShareAScript(c, d)
  PROVE  ConflictsWith(FrameOf(c), FrameOf(d))
<1>1. PICK R \in ScriptsOfLength(Len(c.bytecode)) : IsScriptOf(R, c) /\ IsScriptOf(R, d)
  BY DEF ShareAScript
<1> DEFINE T == Len(c.bytecode)
           b == c.bytecode
           g == d.bytecode
           oc == c.offset
           od == d.offset
           ec == StateEnd(c)
           ed == StateEnd(d)
<1>2. /\ T \in Nat /\ T = Len(b) /\ T = Len(g)
      /\ oc \in Nat /\ ec \in Nat /\ oc <= ec /\ ec <= T
      /\ od \in Nat /\ ed \in Nat /\ od <= ed /\ ed <= T
  <2>1. Len(d.bytecode) = Len(R) /\ Len(c.bytecode) = Len(R)
    BY <1>1 DEF IsScriptOf
  <2> QED  BY <2>1, CompiledFacts
<1>3. /\ \A n \in 1..T : n <= oc \/ n > ec => R[n] = b[n]
      /\ \A n \in 1..T : n <= od \/ n > ed => R[n] = g[n]
  <2>1. DOMAIN R = 1..T
    BY DEF ScriptsOfLength
  <2>2. /\ \A n \in 1..T : R[n] = b[n] \/ n \in (c.offset + 1)..(c.offset + c.len)
        /\ \A n \in 1..T : R[n] = g[n] \/ n \in (d.offset + 1)..(d.offset + d.len)
    BY <1>1, <2>1 DEF IsScriptOf
  <2>3. c.offset + c.len = ec /\ d.offset + d.len = ed
    BY DEF StateEnd
  <2> HIDE DEF b, g, ec, ed, T
  <2>4. /\ \A n \in 1..T : R[n] = b[n] \/ n \in (oc + 1)..ec
        /\ \A n \in 1..T : R[n] = g[n] \/ n \in (od + 1)..ed
    BY <2>2, <2>3
  <2> HIDE DEF oc, od
  <2> QED  BY <1>2, <2>4
<1>4. FrameOf(c).total = FrameOf(d).total
  BY <1>2, FrameFacts
<1> DEFINE pc == FrameOf(c).prefix
           pd == FrameOf(d).prefix
           sc == FrameOf(c).suffix
           sd == FrameOf(d).suffix
<1>5. /\ Len(pc) = oc /\ \A n \in 1..oc : pc[n] = b[n]
      /\ Len(pd) = od /\ \A n \in 1..od : pd[n] = g[n]
      /\ Len(sc) = T - ec /\ \A n \in 1..(T - ec) : sc[n] = b[ec + n]
      /\ Len(sd) = T - ed /\ \A n \in 1..(T - ed) : sd[n] = g[ed + n]
  BY <1>2, FrameFacts
<1> HIDE DEF T, b, g, oc, od, ec, ed, pc, pd, sc, sd
<1>6. StartsWith(pc, pd) \/ StartsWith(pd, pc)
  <2>1. CASE od <= oc
    <3>1. \A n \in 1..od : b[n] = g[n]
      BY <1>2, <1>3, <2>1
    <3>2. \A n \in 1..Len(pd) : pc[n] = pd[n]
      BY <1>2, <1>5, <2>1, <3>1
    <3> QED  BY <1>5, <2>1, <3>2 DEF StartsWith
  <2>2. CASE oc <= od
    <3>1. \A n \in 1..oc : b[n] = g[n]
      BY <1>2, <1>3, <2>2
    <3>2. \A n \in 1..Len(pc) : pd[n] = pc[n]
      BY <1>2, <1>5, <2>2, <3>1
    <3> QED  BY <1>5, <2>2, <3>2 DEF StartsWith
  <2> QED  BY <1>2, <2>1, <2>2
<1>7. EndsWith(sc, sd) \/ EndsWith(sd, sc)
  <2>1. CASE ec <= ed
    <3>1. Len(sd) <= Len(sc) /\ Len(sc) - Len(sd) = ed - ec
      BY <1>2, <1>5, <2>1
    <3>2. \A n \in 1..Len(sd) : sc[(ed - ec) + n] = sd[n]
      <4> TAKE n \in 1..Len(sd)
      <4>1. /\ n \in 1..(T - ed) /\ (ed - ec) + n \in 1..(T - ec)
            /\ ec + ((ed - ec) + n) = ed + n
            /\ ed + n \in 1..T /\ ed + n > ec /\ ed + n > ed
        BY <1>2, <1>5, <2>1
      <4>2. sc[(ed - ec) + n] = b[ed + n] /\ sd[n] = g[ed + n]
        BY <1>5, <4>1
      <4>3. b[ed + n] = g[ed + n]
        BY <1>3, <4>1
      <4> QED  BY <4>2, <4>3
    <3> QED  BY <3>1, <3>2 DEF EndsWith
  <2>2. CASE ed <= ec
    <3>1. Len(sc) <= Len(sd) /\ Len(sd) - Len(sc) = ec - ed
      BY <1>2, <1>5, <2>2
    <3>2. \A n \in 1..Len(sc) : sd[(ec - ed) + n] = sc[n]
      <4> TAKE n \in 1..Len(sc)
      <4>1. /\ n \in 1..(T - ec) /\ (ec - ed) + n \in 1..(T - ed)
            /\ ed + ((ec - ed) + n) = ec + n
            /\ ec + n \in 1..T /\ ec + n > ec /\ ec + n > ed
        BY <1>2, <1>5, <2>2
      <4>2. sd[(ec - ed) + n] = g[ec + n] /\ sc[n] = b[ec + n]
        BY <1>5, <4>1
      <4>3. b[ec + n] = g[ec + n]
        BY <1>3, <4>1
      <4> QED  BY <4>2, <4>3
    <3> QED  BY <3>1, <3>2 DEF EndsWith
  <2> QED  BY <1>2, <2>1, <2>2
<1> QED  BY <1>4, <1>6, <1>7 DEF ConflictsWith, pc, pd, sc, sd

\* The other way, where the fixed bytes of neither cross the state of the other:
\* taking the fixed bytes of c, and those of d elsewhere, gives a common script.
LEMMA UncrossedConflictShares ==
  ASSUME NEW c, NEW d, IsCompiled(c), IsCompiled(d),
         ConflictsWith(FrameOf(c), FrameOf(d)), Uncrossed(c, d)
  PROVE  ShareAScript(c, d)
<1> DEFINE T == Len(c.bytecode)
           R == [n \in 1..T |-> IF n \in (c.offset + 1)..(c.offset + c.len)
                                THEN d.bytecode[n] ELSE c.bytecode[n]]
<1>1. /\ T \in Nat /\ T = Len(d.bytecode)
      /\ c.offset \in Nat /\ c.len \in Nat /\ c.offset + c.len <= T
      /\ d.offset \in Nat /\ d.len \in Nat /\ d.offset + d.len <= T
      /\ StateEnd(c) = c.offset + c.len /\ StateEnd(d) = d.offset + d.len
      /\ c.offset <= d.offset + d.len /\ d.offset <= c.offset + c.len
  BY CompiledFacts, FrameFacts DEF ConflictsWith, Uncrossed
<1>2. R \in ScriptsOfLength(T)
  BY <1>1, CompiledFacts DEF ScriptsOfLength
<1>3. R \in Seq(Byte) /\ Len(R) = T /\ DOMAIN R = 1..T
  BY <1>1, <1>2 DEF ScriptsOfLength
<1>4. \A n \in 1..T : n <= c.offset /\ n <= d.offset => c.bytecode[n] = d.bytecode[n]
  <2> SUFFICES ASSUME NEW n \in 1..T, n <= c.offset, n <= d.offset
               PROVE  c.bytecode[n] = d.bytecode[n]
    OBVIOUS
  <2>1. FrameOf(c).prefix[n] = c.bytecode[n] /\ FrameOf(d).prefix[n] = d.bytecode[n]
    BY <1>1, FrameFacts
  <2>2. Len(FrameOf(c).prefix) = c.offset /\ Len(FrameOf(d).prefix) = d.offset
    BY FrameFacts
  <2>3. FrameOf(c).prefix[n] = FrameOf(d).prefix[n]
    BY <1>1, <2>2 DEF ConflictsWith, StartsWith
  <2> QED  BY <2>1, <2>3
<1>5. \A n \in 1..T : n > StateEnd(c) /\ n > StateEnd(d) => c.bytecode[n] = d.bytecode[n]
  <2> SUFFICES ASSUME NEW n \in 1..T, n > StateEnd(c), n > StateEnd(d)
               PROVE  c.bytecode[n] = d.bytecode[n]
    OBVIOUS
  <2> DEFINE lc == T - StateEnd(c)
             ld == T - StateEnd(d)
             mc == n - StateEnd(c)
             md == n - StateEnd(d)
  <2> DEFINE ec == StateEnd(c)
             ed == StateEnd(d)
             sc == FrameOf(c).suffix
             sd == FrameOf(d).suffix
             t == T
  <2>0. /\ ec \in Nat /\ ed \in Nat /\ t \in Nat /\ n \in 1..t /\ n > ec /\ n > ed
        /\ ec <= t /\ ed <= t
        /\ lc = t - ec /\ ld = t - ed /\ mc = n - ec /\ md = n - ed
    BY <1>1
  <2>2. /\ Len(sc) = lc /\ \A m \in 1..lc : sc[m] = c.bytecode[ec + m]
        /\ Len(sd) = ld /\ \A m \in 1..ld : sd[m] = d.bytecode[ed + m]
    BY <1>1, FrameFacts
  <2> HIDE DEF lc, ld, mc, md, ec, ed, sc, sd, t
  <2>1. /\ lc \in Nat /\ ld \in Nat /\ mc \in 1..lc /\ md \in 1..ld
        /\ mc = lc - ld + md /\ md = ld - lc + mc
        /\ ec + mc = n /\ ed + md = n
    BY <2>0
  <2>3. sc[mc] = c.bytecode[n] /\ sd[md] = d.bytecode[n]
    BY <2>1, <2>2
  <2>4. sc[mc] = sd[md]
    <3>1. EndsWith(sc, sd) \/ EndsWith(sd, sc)
      BY DEF ConflictsWith, sc, sd
    <3>2. CASE EndsWith(sc, sd)
      BY <2>1, <2>2, <3>2 DEF EndsWith
    <3>3. CASE EndsWith(sd, sc)
      BY <2>1, <2>2, <3>3 DEF EndsWith
    <3> QED  BY <3>1, <3>2, <3>3
  <2> QED  BY <2>3, <2>4
<1>6. IsScriptOf(R, c)
  BY <1>1, <1>3 DEF IsScriptOf
<1>7. IsScriptOf(R, d)
  <2> SUFFICES ASSUME NEW n \in 1..T, n \notin (d.offset + 1)..(d.offset + d.len)
               PROVE  R[n] = d.bytecode[n]
    BY <1>1, <1>3 DEF IsScriptOf
  <2>1. CASE n \in (c.offset + 1)..(c.offset + c.len)
    BY <2>1
  <2>2. CASE n <= c.offset
    BY <1>1, <1>4, <2>2
  <2>3. CASE n > c.offset + c.len
    BY <1>1, <1>5, <2>3
  <2> QED  BY <1>1, <2>1, <2>2, <2>3
<1> QED  BY <1>2, <1>6, <1>7 DEF ShareAScript

-----------------------------------------------------------------------------
(* The inductive invariant.                                                *)

\* The frames extracted so far are those of the first actors' contracts.
FramesExtracted ==
  /\ contract \in [Actor -> Contracts \cup {Missing}]
  /\ Len(frames) \in 0..ActorCount
  /\ \A a \in 1..Len(frames) : /\ IsCompiled(contract[a])
                               /\ frames[a] = FrameOf(contract[a])
  /\ phase \in {"compare", "verified"} => Len(frames) = ActorCount

\* The pairs before (first, second) have been compared.
PairsCompared ==
  /\ first \in Nat \ {0} /\ second \in Nat /\ first < second
  /\ second > ActorCount => first >= ActorCount
  /\ \A a, b \in Actor :
       a < b /\ (a < first \/ (a = first /\ b < second))
         => /\ a \in 1..Len(frames) /\ b \in 1..Len(frames)
            /\ ~ConflictsWith(frames[a], frames[b])

\* A verdict says what was found.
VerdictFound ==
  /\ phase \in {"extract", "compare", "verified", "rejected"}
  /\ phase # "rejected" => error = "none"
  /\ phase = "verified" => first >= ActorCount
  /\ error = "Ambiguous" => /\ first \in 1..Len(frames) /\ second \in 1..Len(frames)
                            /\ ConflictsWith(frames[first], frames[second])

FramesInv == frames \in Seq({FrameOf(c) : c \in Contracts}) 
               /\ FramesExtracted /\ PairsCompared /\ VerdictFound

LEMMA InitFramesInv == Init => FramesInv
<1> SUFFICES ASSUME Init PROVE FramesInv
  OBVIOUS
<1>1. frames \in Seq({FrameOf(c) : c \in Contracts}) /\ Len(frames) = 0
  BY DEF Init
<1>2. FramesExtracted
  BY <1>1, TemplateFramesAssumption DEF Init, FramesExtracted
<1>3. PairsCompared
  BY TemplateFramesAssumption DEF Init, PairsCompared, Actor
<1>4. VerdictFound
  BY DEF Init, VerdictFound
<1> QED  BY <1>1, <1>2, <1>3, <1>4 DEF FramesInv

LEMMA StepFramesInv == FramesInv /\ [Next]_vars => FramesInv'
<1> SUFFICES ASSUME FramesInv, [Next]_vars PROVE FramesInv'
  OBVIOUS
<1> DEFINE F == {FrameOf(c) : c \in Contracts}
<1>0. /\ ActorCount \in Nat /\ frames \in Seq(F) /\ Len(frames) \in 0..ActorCount
      /\ contract \in [Actor -> Contracts \cup {Missing}]
      /\ Actor = 1..ActorCount
      /\ first \in Nat /\ second \in Nat /\ first < second /\ first # 0
  BY TemplateFramesAssumption DEF FramesInv, FramesExtracted, PairsCompared, Actor
<1> HIDE DEF F
<1>1. CASE MissingContract \/ InvalidStateSpan
  <2>1. /\ UNCHANGED <<contract, frames, first, second>> /\ phase' = "rejected"
        /\ error' \in {"MissingContract", "InvalidStateSpan"}
    BY <1>1 DEF MissingContract, InvalidStateSpan, Fail
  <2> QED  BY <2>1 DEF FramesInv, FramesExtracted, PairsCompared, VerdictFound
<1>2. CASE ExtractFrame
  <2> DEFINE k == Len(frames) + 1
             c == contract[k]
  <2>1. /\ k \in Actor /\ c \in Contracts /\ ValidSpan(c) /\ phase = "extract"
        /\ UNCHANGED <<contract, error, first, second>>
    BY <1>0, <1>2 DEF ExtractFrame, Extracting, Extracted
  <2>2. IsCompiled(c)
    BY <2>1, TemplateFramesAssumption DEF IsCompiled
  <2>3. Sliceable(c)
    BY <2>2, CompiledFacts DEF Sliceable
  <2>4. frames' = Append(frames, FrameOf(c)) /\ phase' = phase
    BY <1>2, <2>3 DEF ExtractFrame, Extracted
  <2>5. FrameOf(c) \in F
    BY <2>1 DEF F
  <2> HIDE DEF c
  <2>6. /\ frames' \in Seq(F) /\ Len(frames') = k /\ frames'[k] = FrameOf(c)
        /\ \A a \in 1..Len(frames) : frames'[a] = frames[a]
    BY <1>0, <2>4, <2>5
  <2>7. FramesExtracted'
    <3>1. \A a \in 1..k : a = k \/ a \in 1..Len(frames)
      BY <1>0
    <3> QED  BY <1>0, <2>1, <2>2, <2>4, <2>6, <3>1 DEF FramesInv, FramesExtracted, c
  <2>8. PairsCompared'
    BY <1>0, <2>1, <2>6 DEF FramesInv, PairsCompared
  <2>9. VerdictFound'
    BY <2>1, <2>4 DEF FramesInv, VerdictFound
  <2> QED  BY <2>6, <2>7, <2>8, <2>9 DEF FramesInv, F
<1>3. CASE AllExtracted
  BY <1>3 DEF AllExtracted, FramesInv, FramesExtracted, PairsCompared, VerdictFound
<1>4. CASE Ambiguous
  <2>1. /\ UNCHANGED <<contract, frames, first, second>> /\ phase' = "rejected"
        /\ error' = "Ambiguous" /\ phase = "compare"
        /\ first <= ActorCount /\ second <= ActorCount
        /\ ConflictsWith(frames[first], frames[second])
    BY <1>4 DEF Ambiguous, Fail
  <2>2. first \in 1..Len(frames) /\ second \in 1..Len(frames)
    BY <1>0, <2>1 DEF FramesInv, FramesExtracted
  <2> QED  BY <2>1, <2>2 DEF FramesInv, FramesExtracted, PairsCompared, VerdictFound
<1>5. CASE ComparePair
  <2>1. /\ UNCHANGED <<contract, phase, error, frames>> /\ phase = "compare"
        /\ first <= ActorCount /\ second <= ActorCount
        /\ ~ConflictsWith(frames[first], frames[second])
        /\ Len(frames) = ActorCount
    BY <1>5 DEF ComparePair, FramesInv, FramesExtracted
  <2>2. PairsCompared'
    <3>1. CASE second < ActorCount
      <4>1. second' = second + 1 /\ first' = first
        BY <1>5, <3>1 DEF ComparePair
      <4> QED  BY <1>0, <2>1, <3>1, <4>1 DEF FramesInv, PairsCompared
    <3>2. CASE second = ActorCount
      <4>1. second' = first + 2 /\ first' = first + 1
        BY <1>0, <1>5, <3>2 DEF ComparePair
      <4> QED  BY <1>0, <2>1, <3>2, <4>1 DEF FramesInv, PairsCompared
    <3> QED  BY <1>0, <2>1, <3>1, <3>2
  <2>3. FramesExtracted' /\ VerdictFound'
    BY <2>1 DEF FramesInv, FramesExtracted, VerdictFound
  <2> QED  BY <2>1, <2>2, <2>3 DEF FramesInv
<1>6. CASE Verify
  BY <1>0, <1>6 DEF Verify, FramesInv, FramesExtracted, PairsCompared, VerdictFound
<1>7. CASE UNCHANGED vars
  BY <1>7 DEF vars, FramesInv, FramesExtracted, PairsCompared, VerdictFound
<1> QED  BY <1>1, <1>2, <1>3, <1>4, <1>5, <1>6, <1>7 DEF Next

LEMMA FramesInvariant == Spec => []FramesInv
BY InitFramesInv, StepFramesInv, PTL DEF Spec

-----------------------------------------------------------------------------
\* Once verified, no byte string is a script of two actors of the app.
THEOREM VerifiedFramesDisjoint == Spec => []FramesDisjoint
<1>1. FramesInv => FramesDisjoint
  <2> SUFFICES ASSUME FramesInv, phase = "verified",
                      NEW a \in Actor, NEW b \in Actor, a # b,
                      ShareAScript(contract[a], contract[b])
               PROVE  FALSE
    BY DEF FramesDisjoint
  <2>1. /\ Actor = 1..ActorCount /\ ActorCount \in Nat /\ first \in Nat
        /\ Len(frames) = ActorCount /\ first >= ActorCount
    BY TemplateFramesAssumption
       DEF FramesInv, FramesExtracted, PairsCompared, VerdictFound, Actor
  <2>2. \A x, y \in Actor : x < y => ~ConflictsWith(frames[x], frames[y])
    BY <2>1 DEF FramesInv, PairsCompared
  <2>3. ~ConflictsWith(frames[a], frames[b])
    BY <2>1, <2>2, ConflictsSymmetric
  <2>4. /\ IsCompiled(contract[a]) /\ IsCompiled(contract[b])
        /\ frames[a] = FrameOf(contract[a]) /\ frames[b] = FrameOf(contract[b])
    BY <2>1 DEF FramesInv, FramesExtracted
  <2> QED  BY <2>3, <2>4, SharedScriptConflicts
<1> QED  BY <1>1, FramesInvariant, PTL

\* No state span makes the verifier panic.
THEOREM VerifierNeverPanics == Spec => []NeverPanics
<1>1. FramesInv => NeverPanics
  BY DEF FramesInv, VerdictFound, NeverPanics
<1> QED  BY <1>1, FramesInvariant, PTL

\* A pair is rejected without sharing a script only where fixed bytes cross.
THEOREM FalsePositivesOnlyCross == Spec => []FalsePositivesCross
<1>1. FramesInv => FalsePositivesCross
  <2> SUFFICES ASSUME FramesInv, error = "Ambiguous",
                      Uncrossed(contract[first], contract[second])
               PROVE  ShareAScript(contract[first], contract[second])
    BY DEF FalsePositivesCross
  <2>1. /\ first \in 1..Len(frames) /\ second \in 1..Len(frames)
        /\ ConflictsWith(frames[first], frames[second])
    BY DEF FramesInv, VerdictFound
  <2>2. /\ IsCompiled(contract[first]) /\ IsCompiled(contract[second])
        /\ frames[first] = FrameOf(contract[first])
        /\ frames[second] = FrameOf(contract[second])
    BY <2>1 DEF FramesInv, FramesExtracted
  <2> QED  BY <2>1, <2>2, UncrossedConflictShares
<1> QED  BY <1>1, FramesInvariant, PTL
=============================================================================
