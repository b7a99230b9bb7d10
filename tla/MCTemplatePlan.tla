--------------------------- MODULE MCTemplatePlan ---------------------------
EXTENDS MCRoutePlan, TemplatePlan

CONSTANT MaxMixedEdges  \* bound on the edges of an app whose plans are mixed

(* One part of the plan comes from another build of the app, in which the   *)
(* order of the actors, their code or the routes differed.                  *)

\* Every exchange of two items of a sequence, and the sequence without its last.
Reordered(s) ==
  {[s EXCEPT ![mn[1]] = s[mn[2]], ![mn[2]] = s[mn[1]]] : mn \in {d \in (DOMAIN s) \X (DOMAIN s) : d[1] < d[2]}}
  \cup {SubSeq(s, 1, n) : n \in {Len(s) - 1} \cap Nat}

Replaced(s, x) == {[s EXCEPT ![n] = x] : n \in DOMAIN s}

HandleVariants(h, a) ==
  {[h EXCEPT !.base = a, !.hash = HandleHash(a, h.context)], [h EXCEPT !.hash = HashWord(a)]}
  \cup {[h EXCEPT !.fields = s] : s \in Reordered(h.fields)}
  \cup {[h EXCEPT !.context = c, !.hash = HandleHash(h.base, c)] :
          c \in Reordered(h.context) \cup Replaced(h.context, Words(a))}

ReceiptVariants(r, a) ==
  {[r EXCEPT !.hash = HashWord(a)], [r EXCEPT !.actor = a, !.contract = a],
   [r EXCEPT !.handle.state = IF @ = 1 THEN 2 ELSE 1]}
  \cup {[r EXCEPT !.handle = h] : h \in HandleVariants(r.handle, a)}

FamilyVariants(f, a) ==
  {[f EXCEPT !.rep = a], [f EXCEPT !.state = IF @ = 1 THEN 2 ELSE 1],
   [f EXCEPT !.entry = Append(@, a)], [f EXCEPT !.actors = Append(@, a)]}
  \cup {[f EXCEPT !.actors = s] : s \in Reordered(f.actors)}
  \cup {[f EXCEPT !.entry = s] : s \in Reordered(f.entry)}

RoleVariants(s, a) ==
  {[s EXCEPT !.contract = a]}
  \cup {[s EXCEPT !.roles = r] : r \in Reordered(s.roles)}
  \cup {[s EXCEPT !.roles[n].role = <<"template", a>>] : n \in DOMAIN s.roles}
  \cup {[s EXCEPT !.roles[nt[1]].role = <<"table", nt[2]>>] :
          nt \in UNION {{n} \X Reordered(s.roles[n].role[2]) :
                          n \in {m \in DOMAIN s.roles : s.roles[m].role[1] = "table"}}}

Renumbered(entries) ==
  [n \in DOMAIN entries |-> [entries[n] EXCEPT !.index = n, !.offset = n]]

TableVariants(t, a) ==
  {[t EXCEPT !.entries = e] : e \in Reordered(t.entries)}
  \cup {[t EXCEPT !.entries = Renumbered(e), !.size = Len(e)] : e \in Reordered(t.entries)}
  \cup {[t EXCEPT !.entries[n].actor = a] : n \in DOMAIN t.entries}

ProofVariants(q, a) ==
  {[q EXCEPT !.root = HashWord(a)]}
  \cup {[q EXCEPT !.leaves = s] : s \in Reordered(q.leaves)}
  \cup {[q EXCEPT !.leaves[n].hash = HashWord(a)] : n \in DOMAIN q.leaves}
  \cup {[q EXCEPT !.leaves[n].steps[1].side = IF @ = "left" THEN "right" ELSE "left"] :
          n \in DOMAIN q.leaves}
  \cup {[q EXCEPT !.leaves[n].steps = s] : n \in DOMAIN q.leaves, s \in {<<>>}}

\* Each part in turn: dropped, or exchanged for one of its variants with actor 2.
WithPart(S, V(_, _)) ==
  {S \ {x} : x \in S} \cup
  {(S \ {vx[2]}) \cup {vx[1]} : vx \in UNION {V(x, 2) \X {x} : x \in S}}

EmitCount(a) == Cardinality({e \in Edges : e[2] \in a.outputs[e[1]]})
ConsumeCount(a) == Cardinality({e \in Actor \X Actor : e[2] \in a.inputs[e[1]]})

\* Few edges, and a consume edge only as the one edge there is.
Mixed(a) ==
  /\ EmitCount(a) + ConsumeCount(a) <= MaxMixedEdges
  /\ ConsumeCount(a) = 0 \/ EmitCount(a) = 0

MCVariants(a, p) ==
  IF ~Mixed(a) THEN {}
  ELSE {[p EXCEPT !.receipts = S] : S \in WithPart(p.receipts, ReceiptVariants)}
         \cup {[p EXCEPT !.families = S] : S \in WithPart(p.families, FamilyVariants)}
         \cup {[p EXCEPT !.states = S] : S \in WithPart(p.states, RoleVariants)}
         \cup {[p EXCEPT !.tables = S] : S \in WithPart(p.tables, TableVariants)}
         \cup {[p EXCEPT !.proofs = S] : S \in WithPart(p.proofs, ProofVariants)}
=============================================================================
