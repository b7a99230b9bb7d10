----------------------------- MODULE CutForest ------------------------------
(***************************************************************************)
(* Commitment forests, their cuts, and the transition from one cut to       *)
(* another (src/routing/commitment.rs).  A forest is its set of node paths  *)
(* and the set of those that are branches; a leaf is any other node.        *)
(***************************************************************************)
EXTENDS Integers, Sequences, FiniteSets

-----------------------------------------------------------------------------
(* Paths.                                                                  *)

StartsWith(p, q) == Len(q) <= Len(p) /\ SubSeq(p, 1, Len(q)) = q

\* The derived (lexicographic) order of NodePath.
Before(p, q) ==
  \/ StartsWith(q, p) /\ p # q
  \/ \E n \in DOMAIN p \cap DOMAIN q : p[n] < q[n] /\ \A m \in 1..(n - 1) : p[m] = q[m]

Children(forest, p) ==
  {c \in forest.nodes : Len(c) = Len(p) + 1 /\ StartsWith(c, p)}

IsForest(forest) ==
  /\ forest.branches \subseteq forest.nodes
  /\ \A p \in forest.nodes :
       /\ p \in Seq(Nat) /\ p # <<>>
       /\ Len(p) > 1 => SubSeq(p, 1, Len(p) - 1) \in forest.branches
       /\ p[Len(p)] > 0 => [p EXCEPT ![Len(p)] = @ - 1] \in forest.nodes

-----------------------------------------------------------------------------
(* Cuts.                                                                   *)

\* Every path exists and none starts with the one just before it.
IsValidCut(forest, cut) ==
  \A p \in cut :
    /\ p \in forest.nodes
    /\ \A q \in cut :
         Before(q, p) /\ (\A r \in cut : Before(r, p) => r = q \/ Before(r, q))
           => ~StartsWith(p, q)

Openable(forest, cut, b) ==
  /\ IsValidCut(forest, cut)
  /\ b \in cut /\ b \in forest.branches /\ Children(forest, b) # {}

Opened(forest, cut, b) == (cut \ {b}) \cup Children(forest, b)

Packable(forest, cut, b) ==
  /\ IsValidCut(forest, cut)
  /\ b \in forest.branches
  /\ Children(forest, b) # {} /\ Children(forest, b) \subseteq cut

Packed(forest, cut, b) == (cut \ Children(forest, b)) \cup {b}

-----------------------------------------------------------------------------
(* The transition between two cuts.                                        *)

\* The branches above t to open, from the selected node s above it.
OpenPaths(s, t) == {SubSeq(t, 1, depth) : depth \in Len(s)..(Len(t) - 1)}

OpensTo(forest, source, t) ==
  \E s \in source : StartsWith(t, s) /\ OpenPaths(s, t) \subseteq forest.branches

\* collect_pack_paths: t can be put together from selected nodes below it.
CollectsPack(forest, source, t) ==
  LET Collect[p \in forest.nodes] ==
        \/ p \in source
        \/ /\ p \in forest.branches /\ Children(forest, p) # {}
           /\ \A c \in Children(forest, p) : Collect[c]
  IN  Collect[t]

PackPaths(forest, source, t) ==
  {p \in forest.nodes \ source : StartsWith(p, t) /\ CollectsPack(forest, source, p)}

\* A selected node above t decides alone; packing is tried only without one.
Above(source, t) == \E s \in source : StartsWith(t, s)

DerivablePath(forest, source, t) ==
  \/ t \in source
  \/ OpensTo(forest, source, t)
  \/ ~Above(source, t) /\ CollectsPack(forest, source, t)

HasTransition(forest, source, target) ==
  \A t \in target : DerivablePath(forest, source, t)

Transition(forest, source, target) ==
  LET opened == {st \in source \X (target \ source) : StartsWith(st[2], st[1])}
      packed == {t \in target \ source : ~Above(source, t)}
  IN  [retained |-> source \cap target,
       open     |-> UNION {OpenPaths(st[1], st[2]) : st \in opened},
       pack     |-> UNION {PackPaths(forest, source, t) : t \in packed}]

\* Mutant of OpensBefore: children first.
OpensChildFirst(a, b) == Len(a) > Len(b) \/ (Len(a) = Len(b) /\ Before(a, b))

\* Opens are ordered parent-first, packs child-first.
OpensBefore(a, b) == Len(a) < Len(b) \/ (Len(a) = Len(b) /\ Before(a, b))
PacksBefore(a, b) == Len(a) > Len(b) \/ (Len(a) = Len(b) /\ Before(a, b))

=============================================================================
