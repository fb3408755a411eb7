------------------------------ MODULE KtServe ------------------------------
(***************************************************************************)
(* What the log answers its readers (kt/lib/log.js, and the GET and        *)
(* reading POST routes of kt/server.js): the two trees as publishes build  *)
(* them, the proofs over them, buckets, and a label's history in pages     *)
(* that are asked for one after another while the log grows.               *)
(*                                                                         *)
(* An answer is built in one step.  A root is what it commits to, so that  *)
(* a head is its tree.                                                     *)
(***************************************************************************)
EXTENDS SparseMap, MerkleLog

CONSTANTS
  Labels,      \* as bits
  Size,        \* how many bytes each version of a label weighs
  MaxLeaves,   \* MAX_BUCKET_LEAVES
  MaxPage,     \* MAX_PAGE
  PageBytes,   \* MAX_HISTORY_PAGE_BYTES
  MaxEntries   \* a bound

ASSUME ServeAssumption ==
  /\ DEPTH \in Nat \ {0} /\ Labels \subseteq [1 .. DEPTH -> {0, 1}]
  /\ MaxEntries \in Nat \ {0} /\ Size \in [1 .. MaxEntries -> Nat \ {0}]
  /\ {MaxLeaves, MaxPage, PageBytes} \subseteq Nat \ {0}

VARIABLES
  entries, \* the log: label and version of each
  byLabel, \* where each label's entries are, oldest first
  values,  \* the map's table: label -> its latest index and version
  root,    \* the map's tree
  walk     \* a reader of one label's history

serveVars == <<entries, byLabel, values, root, walk>>

Indexes(l) == {i \in DOMAIN entries : entries[i].label = l}

LeafHash(l, v) == <<"leaf", l, v>>

LogLeaves(f) == [i \in DOMAIN f |-> LeafHash(f[i].label, f[i].version)]

MapLeaf(l) == [label |-> l, index |-> values[l].index, version |-> values[l].version]

-----------------------------------------------------------------------------
\* Mutant: what does not fit is left out of the page.
FitSkips(idx) == SelectSeq(idx, LAMBDA i : Size[entries[i].version] <= PageBytes)

\* How many of them, from the front, fit in a page: at least one.
Fit(idx) ==
  LET Sum[n \in 0 .. Len(idx)] == IF n = 0 THEN 0 ELSE Sum[n - 1] + Size[entries[idx[n]].version]
      over == {n \in 1 .. Len(idx) : Sum[n] > PageBytes}
      most == IF over = {} THEN Len(idx) ELSE (CHOOSE n \in over : \A k \in over : n <= k) - 1
  IN SubSeq(idx, 1, IF most = 0 /\ idx # <<>> THEN 1 ELSE most)

Smaller(m, n) == IF m < n THEN m ELSE n

\* A page of a label's history; of all entries.
history(l, start) ==
  LET all == byLabel[l] IN Fit(SubSeq(all, start + 1, Smaller(Len(all), start + MaxPage)))

\* verifyBucketAnswer, for one bucket of an answer with its audit paths.
verifyAnswer(q, leaves, siblings, head, map) ==
  /\ verifyBucket(map, q.prefix, q.bits, leaves, siblings)
  /\ Len(leaves) <= MaxLeaves
  /\ \A i \in DOMAIN leaves :
       verifyInclusion(LeafHash(leaves[i].label, leaves[i].version), leaves[i].index, Len(entries), head,
                       inclusionProof(LogLeaves(entries), leaves[i].index, Len(entries)))

-----------------------------------------------------------------------------
NoWalk == [label |-> Null, got |-> <<>>, total |-> 0, size |-> 0]

ServeInit ==
  /\ entries = <<>> /\ byLabel = [l \in Labels |-> <<>>]
  /\ values = [l \in Labels |-> Null] /\ root = Null
  /\ walk = NoWalk

NextOf(l) == [label |-> l, index |-> Len(entries), version |-> Len(byLabel[l]) + 1]

\* _apply: the entry is the label's next, and both trees are told.
ApplyNext(l) ==
  LET leaf == NextOf(l) IN
  /\ Len(entries) < MaxEntries
  /\ entries' = Append(entries, [label |-> l, version |-> leaf.version])
  /\ values' = [values EXCEPT ![l] = [index |-> leaf.index, version |-> leaf.version]]
  /\ byLabel' = [byLabel EXCEPT ![l] = Append(@, Len(entries) + 1)]
  /\ root' = insert(root, leaf)
  /\ UNCHANGED walk

\* A reader asks for the next page of a history, from the first: with it come
\* how many the label has, and the head.
Walk(l) ==
  /\ walk.label \in {Null, l} /\ (walk.label = l => Len(walk.got) < walk.total)
  /\ walk' = [label |-> l, got |-> walk.got \o history(l, Len(walk.got)),
              total |-> Len(byLabel[l]), size |-> Len(entries)]
  /\ UNCHANGED <<entries, byLabel, values, root>>

\* A reader that has what there was starts again.
Done ==
  /\ walk.label # Null /\ Len(walk.got) >= walk.total /\ walk' = NoWalk
  /\ UNCHANGED <<entries, byLabel, values, root>>

ServeNext ==
  \/ \E l \in Labels : ApplyNext(l) \/ Walk(l)
  \/ Done

ServeSpec == ServeInit /\ [][ServeNext]_serveVars

-----------------------------------------------------------------------------
\* A log that told somebody else another history of the first m entries.
Forked(f, i) == [f EXCEPT ![i].version = @ + MaxEntries]

\* The head is shown to extend every earlier head, and no head of another
\* history can be: not by this log's proof, and not by that history's.
HeadsAgree ==
  LET n == Len(entries)
      told == LogLeaves(entries)
      head == rootAt(told, n)
  IN \A m \in 0 .. n :
       /\ verifyConsistency(m, n, rootAt(told, m), head, consistencyProof(told, m, n))
       /\ \A i \in 1 .. m :
            LET fork == LogLeaves(Forked(entries, i))
            IN \A proof \in {consistencyProof(told, m, n), consistencyProof(fork, m, n)} :
                 ~ verifyConsistency(m, n, rootAt(fork, m), head, proof)

\* An audit path shows the entry at its index, and nothing anywhere else.
AuditsExact ==
  LET told == LogLeaves(entries)
      n == Len(entries)
      head == rootAt(told, n)
  IN \A i \in 1 .. n :
       LET path == inclusionProof(told, i - 1, n)
       IN \A j, k \in 1 .. n : verifyInclusion(told[j], k - 1, n, head, path) <=> (i = j /\ i = k)

\* The hash of the full tree with these leaves.
TreeOf(all) ==
  LET tree[d \in 0 .. DEPTH] ==
        [has \in SUBSET all |->
           IF has = {} THEN EMPTY[d]
           ELSE IF d = DEPTH THEN mapLeafHash(CHOOSE l \in has : TRUE)
           ELSE mapNodeHash(tree[d + 1][{l \in has : bit(l.label, d) = 0}],
                            tree[d + 1][{l \in has : bit(l.label, d) = 1}])]
  IN tree[0][all]

\* Whatever order labels came and were updated in, the tree is that of their
\* latest entries; and it shows of each label, those that are absent too, its
\* latest entry and no other.
MapTrue ==
  LET Version(i) == [label |-> entries[i].label, index |-> i - 1, version |-> entries[i].version]
      Current(i) == \A j \in DOMAIN entries : entries[j].label = entries[i].label => j <= i
      map == HashOf(root, 0)
  IN
  /\ map = TreeOf({Version(i) : i \in {i \in DOMAIN entries : Current(i)}})
  /\ \A l \in Labels :
       LET path == pathOf(root, l) IN
       /\ verifyMapProof(map, l, IF values[l] = Null THEN Null ELSE MapLeaf(l), path)
       /\ verifyMapProof(map, l, Null, path) <=> (Indexes(l) = {})
       /\ \A i \in Indexes(l) : verifyMapProof(map, l, Version(i), path) <=> Current(i)

Prefix(l, bits) == [d \in 1 .. DEPTH |-> IF d <= bits THEN l[d] ELSE 0]

Queries == {[prefix |-> Prefix(l, bits), bits |-> bits] : l \in Labels, bits \in 0 .. DEPTH}

Without(s, i) == SubSeq(s, 1, i - 1) \o SubSeq(s, i + 1, Len(s))

\* A bucket is every label that has its prefix or it is refused, and an answer
\* with a label left out, or one of its versions changed, does not verify.
BucketsWhole ==
  LET map == HashOf(root, 0)
      head == rootAt(LogLeaves(entries), Len(entries))
  IN
  \A q \in Queries :
    LET b == bucket(root, q.prefix, q.bits, MaxLeaves)
        has == {l \in Labels : values[l] # Null /\ hasPrefix(l, q.prefix, q.bits)}
    IN
    /\ (b = Null) <=> (Cardinality(has) > MaxLeaves)
    /\ b # Null =>
         /\ {b.leaves[i].label : i \in DOMAIN b.leaves} = has
         /\ verifyAnswer(q, b.leaves, b.siblings, head, map)
         /\ \A i \in DOMAIN b.leaves :
              /\ ~ verifyBucket(map, q.prefix, q.bits, Without(b.leaves, i), b.siblings)
              /\ ~ verifyBucket(map, q.prefix, q.bits, [b.leaves EXCEPT ![i].version = @ + 1], b.siblings)

\* What a reader has of a history is in its order and has no hole, whatever was
\* published between its pages, and when it has as many entries as it was told
\* there are, it has all there were under the last page's head.
WalksWhole ==
  walk.label # Null =>
    LET has == {walk.got[i] : i \in DOMAIN walk.got}
        due == {p \in Indexes(walk.label) : p <= walk.size}
    IN
    /\ \A i, j \in DOMAIN walk.got : i < j => walk.got[i] < walk.got[j]
    /\ has \subseteq due
    /\ \A p \in due, q \in has : p <= q => p \in has
    /\ Len(walk.got) <= walk.total
    /\ Len(walk.got) = walk.total => has = due

=============================================================================
