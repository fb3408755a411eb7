----------------------------- MODULE MerkleLog -----------------------------
(***************************************************************************)
(* The log tree of kt/lib/merkle.js: RFC 9162 roots, audit paths and       *)
(* consistency proofs over a sequence of leaf hashes, and the verifiers.   *)
(* A hash is the term it is the hash of, so that two are equal only if     *)
(* what was hashed is.  The memo of hashRange, which leaves are never      *)
(* rewritten under, is left out.                                           *)
(***************************************************************************)
EXTENDS Naturals, Sequences

hashNode(left, right) == <<"node", left, right>>

\* 2 to the power h.
two(h) == LET t[i \in 0 .. h] == IF i = 0 THEN 1 ELSE 2 * t[i - 1] IN t[h]

\* For n > 1: the first power that cannot be doubled and stay below n.
largestPowerOfTwoBelow(n) ==
  two(CHOOSE h \in 0 .. n : 2 * two(h) >= n /\ \A i \in 0 .. h - 1 : 2 * two(i) < n)

\* The hash of leaves lo .. hi - 1, counted from 0.
hashRange(leaves, lo, hi) ==
  LET hash[r \in (0 .. hi) \X (0 .. hi)] ==
        LET n == r[2] - r[1]
            cut == r[1] + largestPowerOfTwoBelow(n)
        IN IF n <= 0 THEN <<"none">>
           ELSE IF n = 1 THEN leaves[r[2]]
           ELSE hashNode(hash[<<r[1], cut>>], hash[<<cut, r[2]>>])
  IN hash[<<lo, hi>>]

rootAt(leaves, n) == hashRange(leaves, 0, n)

\* The audit path of leaf idx of lo .. hi - 1, counted from lo.
auditPath(leaves, lo, hi, idx) ==
  LET path[r \in (0 .. hi) \X (0 .. hi) \X (0 .. hi)] ==
        LET n == r[2] - r[1]
            k == largestPowerOfTwoBelow(n)
            cut == r[1] + k
        IN IF n <= 1 THEN <<>>
           ELSE IF r[3] < k THEN Append(path[<<r[1], cut, r[3]>>], hashRange(leaves, cut, r[2]))
           ELSE Append(path[<<cut, r[2], r[3] - k>>], hashRange(leaves, r[1], cut))
  IN path[<<lo, hi, idx>>]

inclusionProof(leaves, m, n) == auditPath(leaves, 0, n, m)

subproof(leaves, lo, hi, m, whole) ==
  LET sub[r \in (0 .. hi) \X (0 .. hi) \X (0 .. hi) \X BOOLEAN] ==
        LET n == r[2] - r[1]
            k == largestPowerOfTwoBelow(n)
            cut == r[1] + k
        IN IF r[3] = n THEN IF r[4] THEN <<>> ELSE <<hashRange(leaves, r[1], r[2])>>
           ELSE IF n <= 1 THEN <<>>
           ELSE IF r[3] <= k THEN Append(sub[<<r[1], cut, r[3], r[4]>>], hashRange(leaves, cut, r[2]))
           ELSE Append(sub[<<cut, r[2], r[3] - k, FALSE>>], hashRange(leaves, r[1], cut))
  IN sub[<<lo, hi, m, whole>>]

consistencyProof(leaves, m, n) ==
  IF m = 0 \/ m = n THEN <<>> ELSE subproof(leaves, 0, n, m, TRUE)

-----------------------------------------------------------------------------
Odd(n) == n % 2 = 1

\* x, halved t times.
Halved(x, t) == x \div two(t)

\* Up t levels.
Shift(c, t) == [c EXCEPT !.fn = Halved(@, t), !.sn = Halved(@, t)]

\* How often a loop that halves x turns, until x is odd, or is not.
Turns(x, odd) == CHOOSE t \in 0 .. x : Odd(Halved(x, t)) = odd /\ \A s \in 0 .. t - 1 : Odd(Halved(x, s)) # odd

WhileEven(c) == IF c.fn = 0 THEN c ELSE Shift(c, Turns(c.fn, TRUE))

WhileOdd(c) == Shift(c, Turns(c.fn, FALSE))

\* Mutant: the ragged right edge of a tree that is not full is climbed as if
\* it were.
ClimbFull(c, p) ==
  IF c.sn = 0 THEN [c EXCEPT !.ok = FALSE]
  ELSE IF Odd(c.fn)
  THEN Shift([c EXCEPT !.r = hashNode(p, @), !.fr = hashNode(p, @)], 1)
  ELSE Shift([c EXCEPT !.r = hashNode(@, p)], 1)

\* One hash p of a proof, against the path's hash r and the old tree's, fr,
\* if there is one: p goes to the left of both, or to the right of r alone.
Climb(c, p) ==
  IF c.sn = 0 THEN [c EXCEPT !.ok = FALSE]
  ELSE IF Odd(c.fn) \/ c.fn = c.sn
  THEN Shift(WhileEven([c EXCEPT !.r = hashNode(p, @), !.fr = hashNode(p, @)]), 1)
  ELSE Shift([c EXCEPT !.r = hashNode(@, p)], 1)

ClimbAll(c, path) ==
  LET at[i \in 0 .. Len(path)] == IF i = 0 THEN c ELSE Climb(at[i - 1], path[i])
  IN at[Len(path)]

From(fn, sn, h) == [fn |-> fn, sn |-> sn, r |-> h, fr |-> h, ok |-> TRUE]

verifyInclusion(leafHash, index, size, root, path) ==
  /\ index < size
  /\ LET c == ClimbAll(From(index, size - 1, leafHash), path)
     IN c.ok /\ c.sn = 0 /\ c.r = root

PowerOfTwo(n) == \E h \in 0 .. n : n = two(h)

\* Mutant: only the new root is compared.
ConsistencyNewOnly(first, second, firstRoot, secondRoot, proof) ==
  IF first = second THEN proof = <<>> /\ firstRoot = secondRoot
  ELSE IF first = 0 THEN proof = <<>>
  ELSE /\ first < second /\ proof # <<>>
       /\ LET p == IF PowerOfTwo(first) THEN <<firstRoot>> \o proof ELSE proof
              c == ClimbAll(WhileOdd(From(first - 1, second - 1, p[1])), Tail(p))
          IN c.ok /\ c.sn = 0 /\ c.r = secondRoot

verifyConsistency(first, second, firstRoot, secondRoot, proof) ==
  IF first = second THEN proof = <<>> /\ firstRoot = secondRoot
  ELSE IF first = 0 THEN proof = <<>>
  ELSE /\ first < second /\ proof # <<>>
       /\ LET p == IF PowerOfTwo(first) THEN <<firstRoot>> \o proof ELSE proof
              c == ClimbAll(WhileOdd(From(first - 1, second - 1, p[1])), Tail(p))
          IN c.ok /\ c.sn = 0 /\ c.r = secondRoot /\ c.fr = firstRoot
=============================================================================
