----------------------------- MODULE SparseMap -----------------------------
(***************************************************************************)
(* The map of kt/lib/smt.js: a sparse Merkle tree over all labels, kept    *)
(* compactly, with its proofs of presence and absence and its buckets.  A  *)
(* label is its bits; a hash is the term it is the hash of.                *)
(***************************************************************************)
EXTENDS Naturals, Sequences, FiniteSets

CONSTANT DEPTH \* bits in a label

\* An empty subtree; no leaf; no bucket.
Null == <<>>

mapLeafHash(l) == <<"leaf", l.label, l.index, l.version>>

mapNodeHash(left, right) == <<"node", left, right>>

EMPTY[d \in 0 .. DEPTH] == IF d = DEPTH THEN <<"empty">> ELSE mapNodeHash(EMPTY[d + 1], EMPTY[d + 1])

\* The bit of a label at depth d, from 0.
bit(label, d) == label[d + 1]

\* h, on the label's side at depth d, and its sibling.
Join(label, d, h, sibling) ==
  IF bit(label, d) = 0 THEN mapNodeHash(h, sibling) ELSE mapNodeHash(sibling, h)

\* The hashes on a label's way, up from h at the depth of `foot`.
Folded(label, foot, h, siblings) ==
  LET up[d \in 0 .. foot] == IF d = foot THEN h ELSE Join(label, d, up[d + 1], siblings[d])
  IN up

\* Siblings by depth, where those that are not given are empty.
Filled(siblings, depth) == [d \in 0 .. depth - 1 |-> IF d \in DOMAIN siblings THEN siblings[d] ELSE EMPTY[d + 1]]

\* The hash at a depth of a subtree with this leaf alone.
chainHash(l, depth) == Folded(l.label, DEPTH, mapLeafHash(l), Filled(<<>>, DEPTH))[depth]

Single(l, depth) == [leaf |-> l, hash |-> chainHash(l, depth)]

IsSingle(node) == "leaf" \in DOMAIN node

HashOf(node, depth) == IF node = Null THEN EMPTY[depth] ELSE node.hash

Internal(left, right, depth) ==
  [left |-> left, right |-> right, hash |-> mapNodeHash(HashOf(left, depth + 1), HashOf(right, depth + 1))]

\* The internal node at depth d with a subtree on the label's side.
Side(label, d, sub, other) ==
  IF bit(label, d) = 0 THEN Internal(sub, other, d) ELSE Internal(other, sub, d)

\* Two labels part at the first bit they differ in.
Part(a, b, from) == CHOOSE d \in from .. DEPTH - 1 :
                      bit(a, d) # bit(b, d) /\ \A e \in from .. d - 1 : bit(a, e) = bit(b, e)

\* New internal nodes on a label's way, up from a subtree at the depth of `foot`.
Rebuilt(label, foot, sub, others) ==
  LET up[d \in 0 .. foot] == IF d = foot THEN sub ELSE Side(label, d, up[d + 1], others[d])
  IN up

\* Mutant: the displaced leaf keeps the hash it had higher up.
InsertKeepsHash(node, depth, l) ==
  LET d == Part(l.label, node.leaf.label, depth)
  IN Rebuilt(l.label, d, Side(l.label, d, Single(l, d + 1), node), [k \in 0 .. d |-> Null])[depth]

\* A leaf beside another where there was one: internal nodes down to where
\* they part.
InsertBeside(node, depth, l) ==
  LET d == Part(l.label, node.leaf.label, depth)
  IN Rebuilt(l.label, d, Side(l.label, d, Single(l, d + 1), Single(node.leaf, d + 1)), [k \in 0 .. d |-> Null])[depth]

\* It has nothing below it.
IsEnd(node) == node = Null \/ IsSingle(node)

\* The subtree of an internal node on a label's side, and the other.
Near(node, label, d) == IF bit(label, d) = 0 THEN node.left ELSE node.right
Far(node, label, d)  == IF bit(label, d) = 0 THEN node.right ELSE node.left

\* The subtrees a label is in, by depth, and the depth of the last there is:
\* empty, or a leaf alone.
Way(root, label) ==
  LET down[d \in 0 .. DEPTH] ==
        IF d = 0 THEN root
        ELSE IF IsEnd(down[d - 1]) THEN down[d - 1] ELSE Near(down[d - 1], label, d - 1)
  IN down

Foot(way) == CHOOSE d \in 0 .. DEPTH : IsEnd(way[d]) /\ \A e \in 0 .. d - 1 : ~IsEnd(way[e])

\* Down the label's way, and up again with new internal nodes.
insert(root, l) ==
  LET way == Way(root, l.label)
      foot == Foot(way)
      sub == IF way[foot] = Null \/ way[foot].leaf.label = l.label THEN Single(l, foot)
             ELSE InsertBeside(way[foot], foot, l)
  IN Rebuilt(l.label, foot, sub, [d \in 0 .. foot - 1 |-> Far(way[d], l.label, d)])[0]

-----------------------------------------------------------------------------
At(d, h) == [e \in {d} |-> h]

And(f, g) == [d \in DOMAIN f \cup DOMAIN g |-> IF d \in DOMAIN f THEN f[d] ELSE g[d]]

\* The siblings of a label's path that are not empty, by depth: the proof's
\* bitmap is the domain.
pathOf(root, label) ==
  LET way == Way(root, label)
      foot == Foot(way)
      end == way[foot]
      met == [d \in {d \in 0 .. foot - 1 : Far(way[d], label, d) # Null} |-> Far(way[d], label, d).hash]
      part == Part(label, end.leaf.label, foot)
  IN IF end = Null \/ end.leaf.label = label THEN met ELSE And(met, At(part, chainHash(end.leaf, part + 1)))

\* A leaf is Null for absence.
verifyMapProof(root, label, leaf, siblings) ==
  LET h == IF leaf = Null THEN EMPTY[DEPTH] ELSE mapLeafHash(leaf)
  IN Folded(label, DEPTH, h, Filled(siblings, DEPTH))[0] = root

hasPrefix(label, prefix, bits) == \A d \in 0 .. bits - 1 : bit(label, d) = bit(prefix, d)

\* The leaves under a node, in label order.  No node is below DEPTH.
collect(node) ==
  LET level[d \in 0 .. DEPTH + 1] ==
        IF d = 0 THEN {node} ELSE UNION {{n.left, n.right} : n \in {m \in level[d - 1] : ~IsEnd(m)}}
      out[d \in 0 .. DEPTH + 1] ==
        [n \in level[d] |->
           IF d > DEPTH \/ n = Null THEN <<>>
           ELSE IF IsSingle(n) THEN <<n.leaf>> ELSE out[d + 1][n.left] \o out[d + 1][n.right]]
  IN out[0][node]

\* Down to depth `bits`: the siblings met, every depth having one, and the
\* node that holds the bucket.
descend(root, prefix, bits) ==
  LET way == Way(root, prefix)
      foot == Foot(way)
      end == way[foot]
      in == end = Null \/ hasPrefix(end.leaf.label, prefix, bits)
      part == Part(prefix, end.leaf.label, foot)
  IN [siblings |-> [d \in 0 .. bits - 1 |->
                      IF d < foot THEN HashOf(Far(way[d], prefix, d), d + 1)
                      ELSE IF ~in /\ d = part THEN chainHash(end.leaf, d + 1) ELSE EMPTY[d + 1]],
      node |-> IF bits <= foot THEN way[bits] ELSE IF in THEN end ELSE Null]

\* Mutant: a bucket that is too large is cut short.
bucketCut(root, prefix, bits, max) ==
  LET at == descend(root, prefix, bits)
      leaves == collect(at.node)
  IN [leaves |-> SubSeq(leaves, 1, IF Len(leaves) > max THEN max ELSE Len(leaves)), siblings |-> at.siblings]

\* Every label with a prefix, or Null when there are more than max of them.
bucket(root, prefix, bits, max) ==
  LET at == descend(root, prefix, bits)
      leaves == collect(at.node)
  IN IF Len(leaves) > max THEN Null ELSE [leaves |-> leaves, siblings |-> at.siblings]

\* The hash at a depth of the subtree with these leaves and no others: of those
\* from lo to hi, which part at the next bit.  Two leaves of one label have none.
bucketRoot(leaves, depth) ==
  LET hash[d \in 0 .. DEPTH] ==
        [r \in (1 .. Len(leaves) + 1) \X (0 .. Len(leaves)) |->
          LET lo == r[1]
              hi == r[2]
              split == Cardinality({i \in lo .. hi : bit(leaves[i].label, d) = 0})
          IN IF hi < lo THEN EMPTY[d]
             ELSE IF hi = lo THEN chainHash(leaves[lo], d)
             ELSE IF d = DEPTH THEN Null
             ELSE mapNodeHash(hash[d + 1][<<lo, lo + split - 1>>], hash[d + 1][<<lo + split, hi>>])]
  IN hash[depth][<<1, Len(leaves)>>]

Below(a, b) == \E d \in 0 .. DEPTH - 1 : bit(a, d) < bit(b, d) /\ \A e \in 0 .. d - 1 : bit(a, e) = bit(b, e)

verifyBucket(root, prefix, bits, leaves, siblings) ==
  /\ DOMAIN siblings = 0 .. bits - 1
  /\ \A i \in DOMAIN leaves : hasPrefix(leaves[i].label, prefix, bits)
  /\ \A i \in 1 .. Len(leaves) - 1 : Below(leaves[i].label, leaves[i + 1].label)
  /\ Folded(prefix, bits, bucketRoot(leaves, bits), siblings)[0] = root
=============================================================================
