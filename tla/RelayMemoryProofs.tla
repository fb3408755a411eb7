-------------------------- MODULE RelayMemoryProofs --------------------------
(***************************************************************************)
(* Proofs about the relay in memory.  The calls are operators from record  *)
(* to record, so each has a lemma: what it does to a coordinator that is   *)
(* Sound, and that its totals stay Balanced.  Adding and subtracting       *)
(* totals needs sums over finite sets; SumPick unfolds the library's and   *)
(* what follows proves the rest by least counterexample.  The invariant    *)
(* Inv says of each mailbox what its entries are, where each is on its way *)
(* and what is known of its envelope; InvHolds proves it, one lemma for    *)
(* each action, and the properties follow.                                 *)
(***************************************************************************)
EXTENDS RelayMemory, FiniteSetTheorems, SequenceTheorems, WellFoundedInduction, TLAPS

-----------------------------------------------------------------------------
\* A non-empty set of naturals has a least member.
LEMMA Smallest ==
  ASSUME NEW T, T \subseteq Nat, T # {}
  PROVE  \E x \in T : \A y \in T : x <= y
<1> DEFINE R == {p \in Nat \X Nat : p[1] < p[2]}
<1>1. IsWellFoundedOn(OpToRel(<, Nat), Nat)
  BY NatLessThanWellFounded
<1>2. OpToRel(<, Nat) = R
  BY DEF OpToRel
<1>3. IsWellFoundedOn(R, Nat)
  BY <1>1, <1>2
<1>4. \A x, y \in Nat : x < y => <<x, y>> \in R
  OBVIOUS
<1> HIDE DEF R
<1>5. PICK x \in T : \A y \in T : ~ (<<y, x>> \in R)
  BY <1>3, WFMin, Zenon
<1>6. \A y \in T : ~(y < x)
  BY <1>4, <1>5, Zenon
<1> QED
  BY <1>5, <1>6

\* A non-empty finite set of naturals has a greatest one, and Max is it.
LEMMA Greatest ==
  ASSUME NEW n \in Nat, NEW T, T \subseteq 1 .. n, T # {}
  PROVE  /\ Max(T) \in T
         /\ \A x \in T : x <= Max(T)
<1> DEFINE B == {k \in Nat : \A x \in T : x <= k}
<1>1. n \in B
  OBVIOUS
<1>2. PICK k \in B : \A y \in B : k <= y
  <2>1. B \subseteq Nat /\ B # {}
    BY <1>1
  <2> HIDE DEF B
  <2> QED
    BY <2>1, Smallest, Zenon
<1>3. k \in T
  <2>1. SUFFICES ASSUME k \notin T PROVE FALSE
    OBVIOUS
  <2>2. PICK x \in T : TRUE
    OBVIOUS
  <2>3. k \in Nat /\ x \in Nat /\ 1 <= x /\ x <= k
    BY <1>2, <2>2
  <2>4. \A y \in T : y \in Nat /\ y <= k /\ y # k
    BY <1>2, <2>1
  <2>5. k - 1 \in B
    BY <2>3, <2>4
  <2> QED
    BY <1>2, <2>3, <2>5
<1>4. \E x \in T : \A y \in T : x >= y
  <2>1. \A y \in T : y \in Nat /\ k \in Nat /\ y <= k
    BY <1>2
  <2> QED
    BY <1>3, <2>1
<1>5. Max(T) \in T /\ \A y \in T : Max(T) >= y
  BY <1>4, Zenon DEF Max
<1> QED
  <2>1. \A y \in T : y \in Nat
    OBVIOUS
  <2>2. Max(T) \in Nat
    BY <1>5, <2>1
  <2> QED
    BY <1>5, <2>1, <2>2

-----------------------------------------------------------------------------
\* How many of these places come no later than n.
Rank(places, n) == Cardinality({m \in places : m <= n})

\* Places of a sequence have ranks from one up, one each, in their order.
LEMMA Ranks ==
  ASSUME NEW len \in Nat, NEW T, T \subseteq 1 .. len
  PROVE  /\ IsFiniteSet(T) /\ Cardinality(T) \in 0 .. len
         /\ \A n \in T : Rank(T, n) \in 1 .. Cardinality(T)
         /\ \A j, n \in T : j < n => Rank(T, j) < Rank(T, n)
<1> DEFINE Upto(n) == {m \in T : m <= n}
<1>1. IsFiniteSet(1 .. len) /\ Cardinality(1 .. len) = len
  BY FS_Interval
<1>2. IsFiniteSet(T) /\ Cardinality(T) <= len
  BY <1>1, FS_Subset
<1>3. Cardinality(T) \in Nat
  BY <1>2, FS_CardinalityType
<1>4. ASSUME NEW n \in T
      PROVE  Rank(T, n) \in 1 .. Cardinality(T)
  <2>1. Upto(n) \subseteq T /\ n \in Upto(n)
    OBVIOUS
  <2>2. IsFiniteSet(Upto(n)) /\ Cardinality(Upto(n)) <= Cardinality(T)
    BY <1>2, <2>1, FS_Subset
  <2>3. Cardinality(Upto(n)) \in Nat /\ Cardinality(Upto(n)) # 0
    BY <2>1, <2>2, FS_CardinalityType, FS_EmptySet
  <2> QED
    BY <1>3, <2>2, <2>3 DEF Rank
<1>5. ASSUME NEW j \in T, NEW n \in T, j < n
      PROVE  Rank(T, j) < Rank(T, n)
  <2>0. \A m \in T : m \in Nat
    OBVIOUS
  <2>1. Upto(j) \subseteq Upto(n) /\ n \in Upto(n) /\ n \notin Upto(j) /\ Upto(n) \subseteq T
    <3>1. \A m \in T : m <= j => m <= n
      BY <1>5, <2>0
    <3>2. n <= n /\ ~(n <= j)
      BY <1>5, <2>0
    <3> QED
      BY <3>1, <3>2
  <2>2. IsFiniteSet(Upto(n))
    BY <1>2, <2>1, FS_Subset
  <2>3. /\ Cardinality(Upto(j)) <= Cardinality(Upto(n))
        /\ Cardinality(Upto(n)) = Cardinality(Upto(j)) => Upto(n) = Upto(j)
    BY <2>1, <2>2, FS_Subset
  <2>4. Rank(T, j) \in Nat /\ Rank(T, n) \in Nat
    BY <1>3, <1>4
  <2> QED
    BY <2>1, <2>3, <2>4 DEF Rank
<1> QED
  BY <1>2, <1>3, <1>4, <1>5

\* And every rank is taken: Place is the way back.
LEMMA Places ==
  ASSUME NEW len \in Nat, NEW T, T \subseteq 1 .. len,
         NEW k \in 1 .. Cardinality(T)
  PROVE  Place(T, k) \in T /\ Rank(T, Place(T, k)) = k
<1> DEFINE C == 1 .. Cardinality(T)
           f == [n \in T |-> Rank(T, n)]
<1>1. /\ IsFiniteSet(T) /\ Cardinality(T) \in Nat
      /\ \A n \in T : n \in Nat /\ Rank(T, n) \in C
      /\ \A j, n \in T : j < n => Rank(T, j) < Rank(T, n)
  <2>1. \A n \in T : n \in Nat
    OBVIOUS
  <2>2. /\ IsFiniteSet(T) /\ Cardinality(T) \in 0 .. len
        /\ \A n \in T : Rank(T, n) \in C
        /\ \A j, n \in T : j < n => Rank(T, j) < Rank(T, n)
    BY Ranks
  <2> QED
    BY <2>1, <2>2
<1>2. \E n \in T : Rank(T, n) = k
  <2>1. SUFFICES ASSUME \A n \in T : Rank(T, n) # k PROVE FALSE
    OBVIOUS
  <2>2. IsFiniteSet(C) /\ Cardinality(C) = Cardinality(T)
    BY <1>1, FS_Interval
  <2>3. IsFiniteSet(C \ {k}) /\ Cardinality(C \ {k}) = Cardinality(T) - 1
    BY <2>2, FS_RemoveElement
  <2>4. Cardinality(C \ {k}) < Cardinality(T)
    BY <1>1, <2>3
  <2>5. f \in [T -> C \ {k}]
    BY <1>1, <2>1
  <2> HIDE DEF C
  <2>6. PICK i, j \in T : i # j /\ f[i] = f[j]
    <3> HIDE DEF f
    <3> QED
      BY <1>1, <2>3, <2>4, <2>5, FS_PigeonHole
  <2>7. Rank(T, i) = Rank(T, j) /\ Rank(T, i) \in Nat /\ (i < j \/ j < i)
    BY <1>1, <2>6 DEF C
  <2> QED
    BY <1>1, <2>7
<1> QED
  BY <1>2, Zenon DEF Place, Rank

\* The k-th place comes before the next one, and each place is the one of its
\* rank.
LEMMA PlacesOrdered ==
  ASSUME NEW len \in Nat, NEW T, T \subseteq 1 .. len
  PROVE  /\ \A j, k \in 1 .. Cardinality(T) : j < k => Place(T, j) < Place(T, k)
         /\ \A n \in T : Place(T, Rank(T, n)) = n
<1>1. /\ Cardinality(T) \in Nat
      /\ \A n \in T : n \in Nat /\ Rank(T, n) \in 1 .. Cardinality(T)
      /\ \A j, n \in T : j < n => Rank(T, j) < Rank(T, n)
  <2>1. \A n \in T : n \in Nat
    OBVIOUS
  <2>2. /\ Cardinality(T) \in 0 .. len
        /\ \A n \in T : Rank(T, n) \in 1 .. Cardinality(T)
        /\ \A j, n \in T : j < n => Rank(T, j) < Rank(T, n)
    BY Ranks
  <2> QED
    BY <2>1, <2>2
<1>2. \A k \in 1 .. Cardinality(T) : Place(T, k) \in T /\ Rank(T, Place(T, k)) = k
  BY Places
<1>3. ASSUME NEW j \in 1 .. Cardinality(T), NEW k \in 1 .. Cardinality(T), j < k
      PROVE  Place(T, j) < Place(T, k)
  <2>1. Place(T, j) \in T /\ Place(T, k) \in T /\ Rank(T, Place(T, j)) = j /\ Rank(T, Place(T, k)) = k
    BY <1>2
  <2>2. Place(T, j) \in Nat /\ Place(T, k) \in Nat
    BY <1>1, <2>1
  <2>3. Place(T, k) # Place(T, j) /\ ~(Place(T, k) < Place(T, j))
    <3>1. PICK p, q : p = Place(T, j) /\ q = Place(T, k)
      OBVIOUS
    <3>2. p \in T /\ q \in T /\ Rank(T, p) < Rank(T, q) /\ Rank(T, p) \in Nat /\ Rank(T, q) \in Nat
      BY <1>1, <1>3, <2>1, <3>1
    <3>3. p # q /\ ~(q < p)
      BY <1>1, <3>2
    <3> QED
      BY <3>1, <3>3
  <2> QED
    BY <2>2, <2>3
<1>4. ASSUME NEW n \in T
      PROVE  Place(T, Rank(T, n)) = n
  <2>1. PICK p : p = Place(T, Rank(T, n))
    OBVIOUS
  <2>2. p \in T /\ Rank(T, p) = Rank(T, n) /\ p \in Nat /\ n \in Nat
    BY <1>1, <1>2, <2>1
  <2>3. ~(p < n) /\ ~(n < p)
    BY <1>1, <2>2
  <2> QED
    BY <2>1, <2>2, <2>3
<1> QED
  BY <1>3, <1>4

\* What a sequence keeps: those places, in their order.
LEMMA OnlyKeeps ==
  ASSUME NEW S, NEW list \in Seq(S), NEW T, T \subseteq DOMAIN list
  PROVE  /\ Only(list, T) \in Seq(S)
         /\ Len(Only(list, T)) = Cardinality(T) /\ Cardinality(T) \in 0 .. Len(list)
         /\ \A k \in 1 .. Cardinality(T) : Place(T, k) \in T /\ Only(list, T)[k] = list[Place(T, k)]
         /\ \A n \in T : \E k \in 1 .. Cardinality(T) : Place(T, k) = n
<1>1. Len(list) \in Nat /\ DOMAIN list = 1 .. Len(list) /\ \A n \in 1 .. Len(list) : list[n] \in S
  BY LenProperties, ElementOfSeq
<1>2. Cardinality(T) \in 0 .. Len(list) /\ \A n \in T : Rank(T, n) \in 1 .. Cardinality(T)
  BY <1>1, Ranks
<1>3. \A k \in 1 .. Cardinality(T) : Place(T, k) \in T
  BY <1>1, Places
<1>4. \A n \in T : Place(T, Rank(T, n)) = n
  BY <1>1, PlacesOrdered
<1>5. Only(list, T) \in [1 .. Cardinality(T) -> S]
  BY <1>1, <1>3 DEF Only
<1>6. Only(list, T) \in Seq(S) /\ Len(Only(list, T)) = Cardinality(T)
  <2>1. Cardinality(T) \in Nat
    BY <1>1, <1>2
  <2> QED
    BY <1>5, <2>1, SeqDef
<1>7. \A k \in 1 .. Cardinality(T) : Only(list, T)[k] = list[Place(T, k)]
  BY DEF Only
<1> QED
  BY <1>2, <1>3, <1>4, <1>6, <1>7

\* The members of what is kept.
LEMMA OnlyMembers ==
  ASSUME NEW S, NEW list \in Seq(S), NEW T, T \subseteq DOMAIN list
  PROVE  ToSet(Only(list, T)) = {list[n] : n \in T}
<1>1. /\ Only(list, T) \in Seq(S) /\ Len(Only(list, T)) = Cardinality(T)
      /\ \A k \in 1 .. Cardinality(T) : Place(T, k) \in T /\ Only(list, T)[k] = list[Place(T, k)]
      /\ \A n \in T : \E k \in 1 .. Cardinality(T) : Place(T, k) = n
  BY OnlyKeeps
<1>2. DOMAIN Only(list, T) = 1 .. Cardinality(T)
  BY <1>1, LenProperties
<1>3. \A k \in 1 .. Cardinality(T) : Only(list, T)[k] \in {list[n] : n \in T}
  BY <1>1
<1>4. \A n \in T : list[n] \in ToSet(Only(list, T))
  BY <1>1, <1>2 DEF ToSet
<1> QED
  BY <1>2, <1>3, <1>4 DEF ToSet

-----------------------------------------------------------------------------
\* A family of subsets of a finite set that has each one all of whose smaller
\* ones it has is all of them.
LEMMA ByCardinality ==
  ASSUME NEW S, IsFiniteSet(S), NEW F,
         \A T \in SUBSET S :
           (\A U \in SUBSET S : Cardinality(U) < Cardinality(T) => U \in F) => T \in F
  PROVE  \A T \in SUBSET S : T \in F
<1> DEFINE Bad == {Cardinality(T) : T \in (SUBSET S) \ F}
<1>1. \A T \in SUBSET S : Cardinality(T) \in Nat
  BY FS_Subset, FS_CardinalityType
<1>2. SUFFICES ASSUME Bad # {} PROVE FALSE
  OBVIOUS
<1>3. PICK n \in Bad : \A m \in Bad : n <= m
  <2>1. Bad \subseteq Nat
    BY <1>1
  <2> HIDE DEF Bad
  <2> QED
    BY <1>2, <2>1, Smallest, Zenon
<1>4. PICK T \in (SUBSET S) \ F : n = Cardinality(T)
  BY <1>3
<1>5. PICK U \in SUBSET S : Cardinality(U) < Cardinality(T) /\ U \notin F
  BY <1>4
<1>6. n <= Cardinality(U)
  BY <1>3, <1>5
<1>7. Cardinality(U) \in Nat /\ Cardinality(T) \in Nat
  BY <1>1
<1> HIDE DEF Bad
<1> QED
  BY <1>4, <1>5, <1>6, <1>7

\* A subset without one of its members is smaller.
LEMMA Fewer ==
  ASSUME NEW S, IsFiniteSet(S), NEW T \in SUBSET S, NEW x \in T
  PROVE  Cardinality(T \ {x}) < Cardinality(T) /\ T \ {x} \in SUBSET S
<1>1. IsFiniteSet(T)
  BY FS_Subset
<1>2. Cardinality(T \ {x}) = Cardinality(T) - 1 /\ Cardinality(T) \in Nat
  BY <1>1, FS_RemoveElement, FS_CardinalityType
<1> QED
  BY <1>2

Pick(s) == CHOOSE x \in s : TRUE

\* What the library's sums are computed by.
IsIter(g, f, S) ==
  g = [s \in SUBSET S |-> IF s = {} THEN 0 ELSE f[Pick(s)] + g[s \ {Pick(s)}]]

Numbers(f, S) == IsFiniteSet(S) /\ \A x \in S : f[x] \in Nat

LEMMA SumUnfolds ==
  ASSUME NEW f, NEW S
  PROVE  SumFunctionOnSet(f, S) = (CHOOSE g : IsIter(g, f, S))[S]
BY DEF SumFunctionOnSet, FoldFunctionOnSet, MapThenFoldSet, IsIter, Pick

LEMMA Picked ==
  ASSUME NEW s, s # {}
  PROVE  Pick(s) \in s
BY DEF Pick

\* Each member of the table follows from the smaller ones, up to size n.
Upto(g, f, S, n) ==
  \A s \in SUBSET S : Cardinality(s) <= n =>
    g[s] = IF s = {} THEN 0 ELSE f[Pick(s)] + g[s \ {Pick(s)}]

\* A table for one size more.
LEMMA UptoNext ==
  ASSUME NEW f, NEW S, Numbers(f, S), NEW n \in Nat,
         NEW g \in [SUBSET S -> Nat], Upto(g, f, S, n)
  PROVE  \E h \in [SUBSET S -> Nat] : Upto(h, f, S, n + 1)
<1> DEFINE h == [s \in SUBSET S |-> IF s = {} THEN 0 ELSE f[Pick(s)] + g[s \ {Pick(s)}]]
<1>1. \A s \in SUBSET S : s # {} => Pick(s) \in s /\ f[Pick(s)] \in Nat /\ s \ {Pick(s)} \in SUBSET S
  BY Picked DEF Numbers
<1>2. h \in [SUBSET S -> Nat]
  <2>1. ASSUME NEW s \in SUBSET S
        PROVE  (IF s = {} THEN 0 ELSE f[Pick(s)] + g[s \ {Pick(s)}]) \in Nat
    <3>1. CASE s = {}
      BY <3>1
    <3>2. CASE s # {}
      <4>1. f[Pick(s)] \in Nat /\ g[s \ {Pick(s)}] \in Nat
        BY <1>1, <3>2
      <4> QED
        BY <3>2, <4>1
    <3> QED
      BY <3>1, <3>2
  <2> QED
    BY <2>1
<1>3. ASSUME NEW s \in SUBSET S, Cardinality(s) <= n + 1
      PROVE  h[s] = IF s = {} THEN 0 ELSE f[Pick(s)] + h[s \ {Pick(s)}]
  <2>1. CASE s = {}
    BY <2>1
  <2>2. CASE s # {}
    <3>1. PICK u : u = s \ {Pick(s)}
      OBVIOUS
    <3>2. u \in SUBSET S /\ Cardinality(u) < Cardinality(s)
      BY <1>1, <2>2, <3>1, Fewer DEF Numbers
    <3>3. Cardinality(u) \in Nat /\ Cardinality(s) \in Nat
      BY <3>2, FS_Subset, FS_CardinalityType DEF Numbers
    <3>4. Cardinality(u) <= n
      BY <1>3, <3>2, <3>3
    <3>5. h[u] = g[u]
      BY <3>2, <3>4 DEF Upto
    <3>6. h[s] = f[Pick(s)] + g[u]
      BY <2>2, <3>1
    <3> HIDE DEF h
    <3> QED
      BY <2>2, <3>1, <3>5, <3>6
  <2> QED
    BY <2>1, <2>2
<1> HIDE DEF h
<1> QED
  BY <1>2, <1>3 DEF Upto

Tabled(f, S, n) == \E g \in [SUBSET S -> Nat] : Upto(g, f, S, n)

LEMMA IterExists ==
  ASSUME NEW f, NEW S, Numbers(f, S)
  PROVE  \E g \in [SUBSET S -> Nat] : IsIter(g, f, S)
<1> DEFINE Bad == {n \in Nat : ~Tabled(f, S, n)}
<1>1. \A s \in SUBSET S : IsFiniteSet(s) /\ Cardinality(s) \in Nat
  BY FS_Subset, FS_CardinalityType DEF Numbers
<1>2. Bad = {}
  <2>1. SUFFICES ASSUME Bad # {} PROVE FALSE
    OBVIOUS
  <2>2. PICK n \in Bad : \A m \in Bad : n <= m
    <3>1. Bad \subseteq Nat
      OBVIOUS
    <3> HIDE DEF Bad
    <3> QED
      BY <2>1, <3>1, Smallest, Zenon
  <2>3. CASE n = 0
    <3>1. PICK g : g = [s \in SUBSET S |-> 0]
      OBVIOUS
    <3>2. \A s \in SUBSET S : Cardinality(s) <= 0 => s = {}
      BY <1>1, FS_EmptySet
    <3>3. g \in [SUBSET S -> Nat] /\ Upto(g, f, S, 0)
      BY <3>1, <3>2 DEF Upto
    <3>4. Tabled(f, S, 0)
      BY <3>3 DEF Tabled
    <3> QED
      BY <2>2, <2>3, <3>4
  <2>4. CASE n # 0
    <3>1. n - 1 \in Nat /\ n - 1 \notin Bad /\ (n - 1) + 1 = n
      BY <2>2, <2>4
    <3>2. PICK g \in [SUBSET S -> Nat] : Upto(g, f, S, n - 1)
      BY <3>1, Zenon DEF Tabled
    <3>3. \E h \in [SUBSET S -> Nat] : Upto(h, f, S, (n - 1) + 1)
      BY <3>1, <3>2, UptoNext, Zenon
    <3>4. Tabled(f, S, n)
      BY <3>1, <3>3, Zenon DEF Tabled
    <3> QED
      BY <2>2, <3>4
  <2> QED
    BY <2>3, <2>4
<1>3. Cardinality(S) \in Nat
  BY <1>1
<1>4. PICK g \in [SUBSET S -> Nat] : Upto(g, f, S, Cardinality(S))
  BY <1>2, <1>3 DEF Tabled
<1>5. \A s \in SUBSET S : Cardinality(s) <= Cardinality(S)
  BY FS_Subset DEF Numbers
<1>6. IsIter(g, f, S)
  BY <1>4, <1>5 DEF Upto, IsIter
<1> QED
  BY <1>4, <1>6

LEMMA IterUnique ==
  ASSUME NEW f, NEW S, Numbers(f, S), NEW g, IsIter(g, f, S), NEW h, IsIter(h, f, S)
  PROVE  g[S] = h[S]
<1> DEFINE F == {s \in SUBSET S : g[s] = h[s]}
<1>1. ASSUME NEW s \in SUBSET S, \A u \in SUBSET S : Cardinality(u) < Cardinality(s) => u \in F
      PROVE  s \in F
  <2>1. /\ g[s] = IF s = {} THEN 0 ELSE f[Pick(s)] + g[s \ {Pick(s)}]
        /\ h[s] = IF s = {} THEN 0 ELSE f[Pick(s)] + h[s \ {Pick(s)}]
    BY DEF IsIter
  <2>2. CASE s = {}
    BY <2>1, <2>2
  <2>3. CASE s # {}
    <3>1. PICK u : u = s \ {Pick(s)}
      OBVIOUS
    <3>2. u \in SUBSET S /\ Cardinality(u) < Cardinality(s)
      BY <2>3, <3>1, Picked, Fewer DEF Numbers
    <3>3. g[u] = h[u]
      BY <1>1, <3>2
    <3> QED
      BY <2>1, <2>3, <3>1, <3>3
  <2> QED
    BY <2>2, <2>3
<1>2. \A s \in SUBSET S : s \in F
  <2> HIDE DEF F
  <2> QED
    BY <1>1, ByCardinality DEF Numbers
<1> QED
  BY <1>2

LEMMA SumIs ==
  ASSUME NEW f, NEW S, Numbers(f, S), NEW g, IsIter(g, f, S)
  PROVE  SumFunctionOnSet(f, S) = g[S]
<1>1. PICK h : h = CHOOSE i : IsIter(i, f, S)
  OBVIOUS
<1>2. IsIter(h, f, S)
  BY <1>1, Zenon
<1>3. SumFunctionOnSet(f, S) = h[S]
  BY <1>1, SumUnfolds, Zenon
<1> QED
  BY <1>2, <1>3, IterUnique, Zenon

\* A sum is the one of the picked member and the sum of the rest.
LEMMA SumPick ==
  ASSUME NEW f, NEW S, Numbers(f, S)
  PROVE  /\ SumFunctionOnSet(f, S) \in Nat
         /\ S = {} => SumFunctionOnSet(f, S) = 0
         /\ S # {} => SumFunctionOnSet(f, S) = f[Pick(S)] + SumFunctionOnSet(f, S \ {Pick(S)})
<1>1. PICK g \in [SUBSET S -> Nat] : IsIter(g, f, S)
  BY IterExists
<1>2. SumFunctionOnSet(f, S) = g[S]
  BY <1>1, SumIs
<1>3. g[S] = IF S = {} THEN 0 ELSE f[Pick(S)] + g[S \ {Pick(S)}]
  BY <1>1 DEF IsIter
<1>4. ASSUME S # {}
      PROVE  SumFunctionOnSet(f, S \ {Pick(S)}) = g[S \ {Pick(S)}]
  <2>1. PICK R : R = S \ {Pick(S)}
    OBVIOUS
  <2>2. R \in SUBSET S /\ Numbers(f, R)
    BY <2>1, FS_Subset DEF Numbers
  <2>3. PICK h : h = [s \in SUBSET R |-> g[s]]
    OBVIOUS
  <2>4. \A s \in SUBSET R : s \in SUBSET S /\ s \ {Pick(s)} \in SUBSET R
    BY <2>2
  <2>5. \A s \in SUBSET R : h[s] = g[s] /\ h[s \ {Pick(s)}] = g[s \ {Pick(s)}]
    BY <2>3, <2>4
  <2>6. \A s \in SUBSET R : g[s] = IF s = {} THEN 0 ELSE f[Pick(s)] + g[s \ {Pick(s)}]
    BY <1>1, <2>4 DEF IsIter
  <2>7. \A s \in SUBSET R : g[s] = IF s = {} THEN 0 ELSE f[Pick(s)] + h[s \ {Pick(s)}]
    BY <2>5, <2>6
  <2>8. IsIter(h, f, R)
    BY <2>3, <2>7 DEF IsIter
  <2>9. SumFunctionOnSet(f, R) = h[R] /\ h[R] = g[R]
    BY <2>2, <2>3, <2>8, SumIs
  <2> QED
    BY <2>1, <2>9
<1> QED
  BY <1>1, <1>2, <1>3, <1>4

\* Subsets of numbers are numbers.
LEMMA NumbersPart ==
  ASSUME NEW f, NEW S, Numbers(f, S), NEW T \in SUBSET S
  PROVE  Numbers(f, T) /\ SumFunctionOnSet(f, T) \in Nat
BY FS_Subset, SumPick DEF Numbers

\* Any member can be taken out first.
LEMMA SumRemove ==
  ASSUME NEW f, NEW S, Numbers(f, S), NEW e \in S
  PROVE  SumFunctionOnSet(f, S) = f[e] + SumFunctionOnSet(f, S \ {e})
<1> DEFINE F == {T \in SUBSET S : \A x \in T : SumFunctionOnSet(f, T) = f[x] + SumFunctionOnSet(f, T \ {x})}
<1>1. ASSUME NEW T \in SUBSET S, \A U \in SUBSET S : Cardinality(U) < Cardinality(T) => U \in F
      PROVE  T \in F
  <2>1. SUFFICES ASSUME NEW x \in T
                 PROVE  SumFunctionOnSet(f, T) = f[x] + SumFunctionOnSet(f, T \ {x})
    OBVIOUS
  <2>2. PICK p : p = Pick(T)
    OBVIOUS
  <2>3. p \in T /\ SumFunctionOnSet(f, T) = f[p] + SumFunctionOnSet(f, T \ {p})
    BY <2>1, <2>2, Picked, SumPick, NumbersPart
  <2>4. CASE x = p
    BY <2>3, <2>4
  <2>5. CASE x # p
    <3>1. T \ {p} \in F /\ T \ {x} \in F /\ x \in T \ {p} /\ p \in T \ {x}
      BY <1>1, <2>3, <2>5, Fewer DEF Numbers
    <3>2. (T \ {p}) \ {x} = (T \ {x}) \ {p}
      OBVIOUS
    <3>3. PICK R : R = (T \ {x}) \ {p}
      OBVIOUS
    <3>4. /\ SumFunctionOnSet(f, T \ {p}) = f[x] + SumFunctionOnSet(f, R)
          /\ SumFunctionOnSet(f, T \ {x}) = f[p] + SumFunctionOnSet(f, R)
      BY <3>1, <3>2, <3>3
    <3>5. SumFunctionOnSet(f, R) \in Nat /\ f[x] \in Nat /\ f[p] \in Nat
      BY <2>3, <3>3, NumbersPart DEF Numbers
    <3> QED
      BY <2>3, <3>4, <3>5
  <2> QED
    BY <2>4, <2>5
<1>2. \A T \in SUBSET S : T \in F
  <2> HIDE DEF F
  <2> QED
    BY <1>1, ByCardinality DEF Numbers
<1> QED
  BY <1>2

\* Only the values on the set count.
LEMMA SumEqual ==
  ASSUME NEW f, NEW g, NEW S, Numbers(f, S), \A x \in S : f[x] = g[x]
  PROVE  SumFunctionOnSet(f, S) = SumFunctionOnSet(g, S)
<1> DEFINE F == {T \in SUBSET S : SumFunctionOnSet(f, T) = SumFunctionOnSet(g, T)}
<1>0. Numbers(g, S)
  BY DEF Numbers
<1>1. ASSUME NEW T \in SUBSET S, \A U \in SUBSET S : Cardinality(U) < Cardinality(T) => U \in F
      PROVE  T \in F
  <2>1. Numbers(f, T) /\ Numbers(g, T)
    BY <1>0, NumbersPart
  <2>2. CASE T = {}
    BY <2>1, <2>2, SumPick
  <2>3. CASE T # {}
    <3>1. PICK x \in T : TRUE
      BY <2>3
    <3>2. SumFunctionOnSet(f, T \ {x}) = SumFunctionOnSet(g, T \ {x})
      BY <1>1, <3>1, Fewer DEF Numbers
    <3>3. /\ SumFunctionOnSet(f, T) = f[x] + SumFunctionOnSet(f, T \ {x})
          /\ SumFunctionOnSet(g, T) = g[x] + SumFunctionOnSet(g, T \ {x})
          /\ f[x] = g[x]
      BY <2>1, <3>1, SumRemove
    <3> QED
      BY <3>2, <3>3
  <2> QED
    BY <2>2, <2>3
<1>2. \A T \in SUBSET S : T \in F
  <2> HIDE DEF F
  <2> QED
    BY <1>1, ByCardinality DEF Numbers
<1> QED
  BY <1>2

\* A sum of sums.
LEMMA SumAdd ==
  ASSUME NEW f, NEW g, NEW h, NEW S, Numbers(f, S), Numbers(g, S),
         \A x \in S : h[x] = f[x] + g[x]
  PROVE  SumFunctionOnSet(h, S) = SumFunctionOnSet(f, S) + SumFunctionOnSet(g, S)
<1> DEFINE F == {T \in SUBSET S : SumFunctionOnSet(h, T) = SumFunctionOnSet(f, T) + SumFunctionOnSet(g, T)}
<1>0. Numbers(h, S)
  BY DEF Numbers
<1>1. ASSUME NEW T \in SUBSET S, \A U \in SUBSET S : Cardinality(U) < Cardinality(T) => U \in F
      PROVE  T \in F
  <2>1. Numbers(f, T) /\ Numbers(g, T) /\ Numbers(h, T)
    BY <1>0, NumbersPart
  <2>2. CASE T = {}
    <3>1. SumFunctionOnSet(f, T) = 0 /\ SumFunctionOnSet(g, T) = 0 /\ SumFunctionOnSet(h, T) = 0
      BY <2>1, <2>2, SumPick
    <3> QED
      BY <3>1
  <2>3. CASE T # {}
    <3>1. PICK x \in T : TRUE
      BY <2>3
    <3>2. PICK R : R = T \ {x}
      OBVIOUS
    <3>3. SumFunctionOnSet(h, R) = SumFunctionOnSet(f, R) + SumFunctionOnSet(g, R)
      BY <1>1, <3>1, <3>2, Fewer DEF Numbers
    <3>4. /\ SumFunctionOnSet(f, T) = f[x] + SumFunctionOnSet(f, R)
          /\ SumFunctionOnSet(g, T) = g[x] + SumFunctionOnSet(g, R)
          /\ SumFunctionOnSet(h, T) = h[x] + SumFunctionOnSet(h, R)
          /\ h[x] = f[x] + g[x]
      BY <2>1, <3>1, <3>2, SumRemove
    <3>5. /\ SumFunctionOnSet(f, R) \in Nat /\ SumFunctionOnSet(g, R) \in Nat
          /\ f[x] \in Nat /\ g[x] \in Nat
      BY <3>1, <3>2, NumbersPart DEF Numbers
    <3> QED
      BY <3>3, <3>4, <3>5
  <2> QED
    BY <2>2, <2>3
<1>2. \A T \in SUBSET S : T \in F
  <2> HIDE DEF F
  <2> QED
    BY <1>1, ByCardinality DEF Numbers
<1> QED
  BY <1>2

\* A part of the set and the rest.
LEMMA SumParts ==
  ASSUME NEW f, NEW S, Numbers(f, S), NEW P \in SUBSET S
  PROVE  SumFunctionOnSet(f, S) = SumFunctionOnSet(f, P) + SumFunctionOnSet(f, S \ P)
<1> DEFINE F == {T \in SUBSET S : SumFunctionOnSet(f, S) = SumFunctionOnSet(f, T) + SumFunctionOnSet(f, S \ T)}
<1>1. ASSUME NEW T \in SUBSET S, \A U \in SUBSET S : Cardinality(U) < Cardinality(T) => U \in F
      PROVE  T \in F
  <2>1. CASE T = {}
    <3>1. SumFunctionOnSet(f, T) = 0 /\ SumFunctionOnSet(f, S \ T) = SumFunctionOnSet(f, S)
      <4>1. S \ T = S /\ Numbers(f, T)
        BY <2>1, NumbersPart
      <4> QED
        BY <2>1, <4>1, SumPick
    <3>2. SumFunctionOnSet(f, S) \in Nat
      BY SumPick
    <3> QED
      BY <3>1, <3>2
  <2>2. CASE T # {}
    <3>1. PICK x \in T : TRUE
      BY <2>2
    <3>2. PICK R, O : R = T \ {x} /\ O = S \ T
      OBVIOUS
    <3>3. S \ R = O \cup {x} /\ x \notin O /\ (O \cup {x}) \ {x} = O
      BY <3>1, <3>2
    <3>4. SumFunctionOnSet(f, S) = SumFunctionOnSet(f, R) + SumFunctionOnSet(f, O \cup {x})
      BY <1>1, <3>1, <3>2, <3>3, Fewer DEF Numbers
    <3>5. Numbers(f, T) /\ Numbers(f, O \cup {x}) /\ Numbers(f, R) /\ Numbers(f, O)
      BY <3>1, <3>2, <3>3, NumbersPart
    <3>6. SumFunctionOnSet(f, T) = f[x] + SumFunctionOnSet(f, R)
      BY <3>1, <3>2, <3>5, SumRemove
    <3>7. SumFunctionOnSet(f, O \cup {x}) = f[x] + SumFunctionOnSet(f, O)
      <4>1. x \in O \cup {x}
        OBVIOUS
      <4> QED
        BY <3>3, <3>5, <4>1, SumRemove
    <3>8. SumFunctionOnSet(f, R) \in Nat /\ SumFunctionOnSet(f, O) \in Nat /\ f[x] \in Nat
      BY <3>1, <3>5, SumPick DEF Numbers
    <3> QED
      BY <3>2, <3>4, <3>6, <3>7, <3>8
  <2> QED
    BY <2>1, <2>2
<1>2. \A T \in SUBSET S : T \in F
  <2> HIDE DEF F
  <2> QED
    BY <1>1, ByCardinality DEF Numbers
<1> QED
  BY <1>2

\* The same values under other names.
LEMMA SumMoved ==
  ASSUME NEW f, NEW S, Numbers(f, S), NEW A, IsFiniteSet(A), NEW p \in [A -> S],
         \A j, k \in A : p[j] = p[k] => j = k,
         NEW g, \A k \in A : g[k] = f[p[k]]
  PROVE  SumFunctionOnSet(g, A) = SumFunctionOnSet(f, {p[k] : k \in A})
<1> DEFINE F == {T \in SUBSET A : SumFunctionOnSet(g, T) = SumFunctionOnSet(f, {p[k] : k \in T})}
<1>0. Numbers(g, A)
  BY DEF Numbers
<1>1. ASSUME NEW T \in SUBSET A, \A U \in SUBSET A : Cardinality(U) < Cardinality(T) => U \in F
      PROVE  T \in F
  <2>1. PICK I : I = {p[k] : k \in T}
    OBVIOUS
  <2>2. Numbers(g, T) /\ I \in SUBSET S
    BY <1>0, <2>1, NumbersPart
  <2>3. CASE T = {}
    <3>1. I = {}
      BY <2>1, <2>3
    <3> QED
      BY <2>1, <2>2, <2>3, <3>1, NumbersPart, SumPick
  <2>4. CASE T # {}
    <3>1. PICK x \in T : TRUE
      BY <2>4
    <3>2. p[x] \in I /\ {p[k] : k \in T \ {x}} = I \ {p[x]}
      BY <2>1, <3>1
    <3>3. SumFunctionOnSet(g, T \ {x}) = SumFunctionOnSet(f, I \ {p[x]})
      <4>1. T \ {x} \in F
        BY <1>1, <3>1, Fewer
      <4> QED
        BY <3>2, <4>1
    <3>4. SumFunctionOnSet(g, T) = g[x] + SumFunctionOnSet(g, T \ {x})
      BY <2>2, <3>1, SumRemove
    <3>5. SumFunctionOnSet(f, I) = f[p[x]] + SumFunctionOnSet(f, I \ {p[x]})
      BY <2>2, <3>2, NumbersPart, SumRemove
    <3> QED
      BY <2>1, <3>1, <3>3, <3>4, <3>5
  <2> QED
    BY <2>3, <2>4
<1>2. \A T \in SUBSET A : T \in F
  <2> HIDE DEF F
  <2> QED
    BY <1>1, ByCardinality
<1> QED
  BY <1>2

-----------------------------------------------------------------------------
\* What an entry weighs, and a mailbox.
LEMMA SizeNat ==
  ASSUME NEW x \in Entry
  PROVE  Size(x) \in Nat
<1>1. x.env \in Env
  BY DEF Entry
<1>2. x.env.size \in Nat
  BY <1>1, ParamAssumption
<1> QED
  BY <1>2 DEF Size

LEMMA SizesNumbers ==
  ASSUME NEW q \in Seq(Entry)
  PROVE  Numbers([n \in DOMAIN q |-> Size(q[n])], DOMAIN q)
<1>1. DOMAIN q = 1 .. Len(q) /\ Len(q) \in Nat /\ \A n \in DOMAIN q : q[n] \in Entry
  BY LenProperties, ElementOfSeq
<1>2. IsFiniteSet(DOMAIN q)
  BY <1>1, FS_Interval
<1>3. \A n \in DOMAIN q : Size(q[n]) \in Nat
  BY <1>1, SizeNat
<1> QED
  BY <1>2, <1>3 DEF Numbers

LEMMA QBytesIs ==
  ASSUME NEW q \in Seq(Entry)
  PROVE  QBytes(q) = SumFunctionOnSet([n \in DOMAIN q |-> Size(q[n])], DOMAIN q)
<1>1. DOMAIN [n \in DOMAIN q |-> Size(q[n])] = DOMAIN q
  OBVIOUS
<1> QED
  BY <1>1, Zenon DEF QBytes, SumFunction

LEMMA QBytesNat ==
  ASSUME NEW q \in Seq(Entry)
  PROVE  QBytes(q) \in Nat
BY SizesNumbers, QBytesIs, SumPick

LEMMA QBytesEmpty ==
  QBytes(<<>>) = 0
<1>1. <<>> \in Seq(Entry) /\ DOMAIN <<>> = {}
  <2>1. <<>> \in Seq(Entry) /\ Len(<<>>) = 0
    BY EmptySeq
  <2>2. DOMAIN <<>> = 1 .. Len(<<>>)
    BY <2>1, LenProperties
  <2> QED
    BY <2>1, <2>2
<1>2. PICK f : f = [n \in DOMAIN <<>> |-> Size(<<>>[n])]
  OBVIOUS
<1>3. Numbers(f, DOMAIN <<>>) /\ QBytes(<<>>) = SumFunctionOnSet(f, DOMAIN <<>>)
  BY <1>1, <1>2, SizesNumbers, QBytesIs
<1> QED
  BY <1>1, <1>3, SumPick

\* One entry more weighs its size.
LEMMA QBytesAppend ==
  ASSUME NEW q \in Seq(Entry), NEW x \in Entry
  PROVE  QBytes(Append(q, x)) = QBytes(q) + Size(x)
<1>1. PICK a, l : a = Append(q, x) /\ l = Len(q) + 1
  OBVIOUS
<1>2. /\ a \in Seq(Entry) /\ Len(a) = l /\ DOMAIN a = 1 .. l /\ l \in Nat /\ l \in DOMAIN a
      /\ DOMAIN q = 1 .. l - 1 /\ Len(q) = l - 1
      /\ \A n \in DOMAIN q : a[n] = q[n]
      /\ a[l] = x
  <2>1. /\ a \in Seq(Entry) /\ Len(a) = Len(q) + 1 /\ Len(q) \in Nat /\ DOMAIN q = 1 .. Len(q)
        /\ \A n \in 1 .. Len(q) : a[n] = q[n]
        /\ a[Len(q) + 1] = x
    BY <1>1, AppendProperties, LenProperties
  <2>2. DOMAIN a = 1 .. Len(a)
    BY <2>1, LenProperties
  <2> QED
    BY <1>1, <2>1, <2>2
<1>3. PICK f, g : f = [n \in DOMAIN a |-> Size(a[n])] /\ g = [n \in DOMAIN q |-> Size(q[n])]
  OBVIOUS
<1>4. /\ Numbers(f, DOMAIN a) /\ QBytes(a) = SumFunctionOnSet(f, DOMAIN a)
      /\ Numbers(g, DOMAIN q) /\ QBytes(q) = SumFunctionOnSet(g, DOMAIN q)
  BY <1>2, <1>3, SizesNumbers, QBytesIs
<1>5. DOMAIN a \ {l} = DOMAIN q
  BY <1>2
<1>6. SumFunctionOnSet(f, DOMAIN a) = f[l] + SumFunctionOnSet(f, DOMAIN q)
  BY <1>2, <1>4, <1>5, SumRemove
<1>7. SumFunctionOnSet(g, DOMAIN q) = SumFunctionOnSet(f, DOMAIN q)
  <2>1. \A n \in DOMAIN q : n \in DOMAIN a
    BY <1>5
  <2>2. \A n \in DOMAIN q : g[n] = f[n]
    BY <1>2, <1>3, <2>1
  <2> QED
    BY <1>4, <2>2, SumEqual
<1>8. f[l] = Size(x)
  BY <1>2, <1>3
<1>9. SumFunctionOnSet(f, DOMAIN q) \in Nat /\ Size(x) \in Nat
  BY <1>4, <1>7, SumPick, SizeNat
<1> QED
  BY <1>1, <1>4, <1>6, <1>7, <1>8, <1>9

\* Some of the entries weigh no more.
LEMMA QBytesOnly ==
  ASSUME NEW q \in Seq(Entry), NEW T, T \subseteq DOMAIN q
  PROVE  QBytes(Only(q, T)) <= QBytes(q)
<1>1. PICK o, c : o = Only(q, T) /\ c = 1 .. Cardinality(T)
  OBVIOUS
<1>2. /\ o \in Seq(Entry) /\ Len(o) = Cardinality(T)
      /\ \A k \in c : Place(T, k) \in T /\ o[k] = q[Place(T, k)]
      /\ \A n \in T : \E k \in c : Place(T, k) = n
  BY <1>1, OnlyKeeps
<1>3. DOMAIN o = c
  BY <1>1, <1>2, LenProperties
<1>4. \A j, k \in c : Place(T, j) = Place(T, k) => j = k
  <2>1. Len(q) \in Nat /\ DOMAIN q = 1 .. Len(q)
    BY LenProperties
  <2>2. \A j, k \in c : j < k => Place(T, j) < Place(T, k)
    BY <1>1, <2>1, PlacesOrdered
  <2>3. \A k \in c : k \in Nat /\ Place(T, k) \in Nat
    <3>1. \A k \in c : Place(T, k) \in 1 .. Len(q)
      BY <1>2, <2>1
    <3>2. \A k \in c : k \in Nat
      BY <1>1
    <3> QED
      BY <2>1, <3>1, <3>2
  <2>4. SUFFICES ASSUME NEW j \in c, NEW k \in c, Place(T, j) = Place(T, k), j # k PROVE FALSE
    OBVIOUS
  <2>5. j < k \/ k < j
    BY <2>3, <2>4
  <2> QED
    BY <2>2, <2>3, <2>4, <2>5
<1>5. PICK f, g, p : /\ f = [n \in DOMAIN q |-> Size(q[n])]
                     /\ g = [n \in DOMAIN o |-> Size(o[n])]
                     /\ p = [k \in c |-> Place(T, k)]
  OBVIOUS
<1>6. /\ Numbers(f, DOMAIN q) /\ QBytes(q) = SumFunctionOnSet(f, DOMAIN q)
      /\ Numbers(g, c) /\ QBytes(o) = SumFunctionOnSet(g, c)
  BY <1>2, <1>3, <1>5, SizesNumbers, QBytesIs
<1>7. p \in [c -> DOMAIN q] /\ (\A j, k \in c : p[j] = p[k] => j = k) /\ {p[k] : k \in c} = T
  BY <1>2, <1>4, <1>5
<1>8. \A k \in c : g[k] = f[p[k]]
  BY <1>2, <1>3, <1>5, <1>7
<1>9. SumFunctionOnSet(g, c) = SumFunctionOnSet(f, T)
  <2>1. IsFiniteSet(c)
    BY <1>6 DEF Numbers
  <2>2. SumFunctionOnSet(g, c) = SumFunctionOnSet(f, {p[k] : k \in c})
    BY <1>6, <1>7, <1>8, <2>1, SumMoved
  <2> QED
    BY <1>7, <2>2
<1>10. /\ SumFunctionOnSet(f, DOMAIN q) = SumFunctionOnSet(f, T) + SumFunctionOnSet(f, DOMAIN q \ T)
       /\ SumFunctionOnSet(f, T) \in Nat /\ SumFunctionOnSet(f, DOMAIN q \ T) \in Nat
  BY <1>6, SumParts, NumbersPart
<1> QED
  BY <1>1, <1>6, <1>9, <1>10

-----------------------------------------------------------------------------
\* The coordinator's record.
Owner == [rid: Rid, at: 0 .. MaxTime]

Flag == [rid: Rid, at: 0 .. MaxTime, bits: Bits, shadow: BOOLEAN]

Book == [queue: [Rid -> Seq(Entry)], bytes: Nat, count: Nat, unowned: Nat,
         owned: Seq(Owner), intro: Seq(Flag), seen: Seq(Owner),
         tokens: Nat, ip: Nat, push: SUBSET Rid, paid: SUBSET Rid]

Types ==
  /\ this \in Book
  /\ now \in 0 .. MaxTime
  /\ online \subseteq Rid
  /\ flush \in [Rid -> Seq(Entry)] /\ wire \in [Rid -> Seq(Entry)] /\ acks \in [Rid -> Seq(Env)]
  /\ sent \cup got \cup lapsed \subseteq Env

\* A list the walks can be trusted with: no older after a newer, none later
\* than t, no mailbox twice.
Orderly(list, t) ==
  /\ Aged(list)
  /\ \A n \in DOMAIN list : list[n].at <= t
  /\ \A j, n \in DOMAIN list : list[j].rid = list[n].rid => j = n

Kept(m, t) == Orderly(m.owned, t) /\ Orderly(m.intro, t) /\ Orderly(m.seen, t)

Lists == Kept(this, now)

\* An envelope is at its recipient's, a receipt at its sender's.
Mail(x, r) == IF x.kind = "msg" THEN x.env.to = r ELSE x.env.from = r /\ ~x.ph

Addressed ==
  \A r \in Rid : \A x \in ToSet(this.queue[r]) \cup ToSet(wire[r]) \cup ToSet(flush[r]) : Mail(x, r)

\* What an app acknowledges is its own and persisted.
AcksTrue == \A r \in Rid : \A e \in ToSet(acks[r]) : e.to = r /\ e \in got

ReceiptsTrue ==
  \A r \in Rid : \A x \in ToSet(this.queue[r]) \cup ToSet(wire[r]) \cup ToSet(flush[r]) :
    x.kind = "receipt" => x.env \in got

\* What is queued for an open socket is to come in its flush, or is an envelope
\* in a frame or persisted.
Carried ==
  \A r \in online : \A x \in ToSet(this.queue[r]) :
    \/ x \in ToSet(flush[r])
    \/ /\ x.kind = "msg"
       /\ x.env \in got \/ \E y \in ToSet(wire[r]) : y.kind = "msg" /\ y.env = x.env

\* No flag or shadow of r counts at t.
Unflagged(m, r, t) == \A n \in DOMAIN m.intro : m.intro[n].rid = r => t - m.intro[n].at > 2 * OwnedTtl

Quiet(m, t) == \A r \in m.push : Unflagged(m, r, t)

\* An id names one envelope of a sender to a mailbox (docs/PROTOCOL.md 2922 is
\* about those that name two).
OwnIds == \A e, f \in Env : e.id = f.id /\ e.to = f.to /\ e.from = f.from => e = f

Earned == OwnIds => ReceiptsTrue

Secured == OwnIds => HeldUntilGot

Paid(m) == \A r \in Rid : m.queue[r] # <<>> \/ r \in Rids(m.seen) => r \in m.paid

Inv ==
  /\ Types /\ Lists /\ Addressed /\ AcksTrue /\ Carried /\ Earned /\ Secured
  /\ Paid(this) /\ Quiet(this, now) /\ Accounted

-----------------------------------------------------------------------------
\* The lists in the order of their last use.
Stamped(S) == \A e \in S : e.at \in Nat

\* s is list without its first k.
Beyond(s, list, k) ==
  /\ Len(s) = Len(list) - k
  /\ \A i \in DOMAIN s : i + k \in DOMAIN list /\ s[i] = list[i + k]
  /\ \A n \in DOMAIN list : n > k => \E i \in DOMAIN s : i + k = n

LEMMA SuffixIs ==
  ASSUME NEW S, NEW list \in Seq(S), NEW k \in 0 .. Len(list)
  PROVE  /\ SubSeq(list, k + 1, Len(list)) \in Seq(S)
         /\ Beyond(SubSeq(list, k + 1, Len(list)), list, k)
<1>1. PICK s : s = SubSeq(list, k + 1, Len(list))
  OBVIOUS
<1>2. Len(list) \in Nat /\ DOMAIN list = 1 .. Len(list) /\ \A i \in DOMAIN list : list[i] \in S
  BY LenProperties, ElementOfSeq
<1>3. /\ s \in Seq(S) /\ Len(s) = Len(list) - k
      /\ \A i \in 1 .. Len(list) - k : s[i] = list[i + k]
  <2>1. k \in Nat /\ k <= Len(list)
    BY <1>2
  <2>2. k + 1 \in Int /\ Len(list) \in Int /\ \A i \in k + 1 .. Len(list) : list[i] \in S
    BY <1>2, <2>1
  <2>3. /\ s \in Seq(S)
        /\ Len(s) = IF k + 1 <= Len(list) THEN Len(list) - (k + 1) + 1 ELSE 0
        /\ \A i \in 1 .. Len(list) - (k + 1) + 1 : s[i] = list[k + 1 + i - 1]
    BY <1>1, <2>2, SubSeqProperties
  <2>4. Len(s) = Len(list) - k
    <3>1. CASE k + 1 <= Len(list)
      <4>1. PICK l, j : l = Len(list) /\ j = Len(s)
        OBVIOUS
      <4>2. j = l - (k + 1) + 1
        BY <2>3, <3>1, <4>1
      <4>3. l \in Nat
        BY <1>2, <4>1
      <4>4. j = l - k
        BY <2>1, <4>2, <4>3
      <4> QED
        BY <4>1, <4>4
    <3>2. CASE ~(k + 1 <= Len(list))
      <4>1. Len(s) = 0
        BY <2>3, <3>2
      <4>2. PICK l : l = Len(list)
        OBVIOUS
      <4>3. l \in Nat /\ k \in Nat /\ k <= l /\ ~(k + 1 <= l)
        BY <1>2, <2>1, <3>2, <4>2
      <4>4. l = k
        BY <4>3
      <4>5. l - k = 0
        BY <4>3, <4>4
      <4> QED
        BY <4>1, <4>2, <4>5
    <3> QED
      BY <3>1, <3>2
  <2>5. ASSUME NEW i \in 1 .. Len(list) - k PROVE s[i] = list[i + k]
    <3>1. i \in 1 .. Len(list) - (k + 1) + 1 /\ k + 1 + i - 1 = i + k
      BY <1>2, <2>1
    <3> QED
      BY <2>3, <3>1
  <2> QED
    BY <2>3, <2>4, <2>5
<1>4. DOMAIN s = 1 .. Len(list) - k
  BY <1>3, LenProperties
<1>5. \A i \in DOMAIN s : i \in Nat /\ i + k \in DOMAIN list /\ s[i] = list[i + k]
  BY <1>2, <1>3, <1>4
<1>6. \A n \in DOMAIN list : n > k => \E i \in DOMAIN s : i + k = n
  <2>1. ASSUME NEW n \in DOMAIN list, n > k PROVE \E i \in DOMAIN s : i + k = n
    <3>1. n - k \in DOMAIN s /\ (n - k) + k = n
      BY <1>2, <1>4, <2>1
    <3> QED
      BY <3>1
  <2> QED
    BY <2>1
<1> QED
  BY <1>1, <1>3, <1>5, <1>6 DEF Beyond

\* A list without its first k is as orderly.
LEMMA SuffixOrderly ==
  ASSUME NEW S, Stamped(S), NEW list \in Seq(S), NEW t, Orderly(list, t), NEW k \in 0 .. Len(list)
  PROVE  /\ SubSeq(list, k + 1, Len(list)) \in Seq(S)
         /\ Orderly(SubSeq(list, k + 1, Len(list)), t)
         /\ Beyond(SubSeq(list, k + 1, Len(list)), list, k)
<1>1. PICK s : s = SubSeq(list, k + 1, Len(list))
  OBVIOUS
<1>2. k \in Nat /\ s \in Seq(S) /\ Beyond(s, list, k)
  <2>1. Len(list) \in Nat
    BY LenProperties
  <2> QED
    BY <1>1, <2>1, SuffixIs
<1>3. \A i \in DOMAIN s : i \in Nat /\ i + k \in DOMAIN list /\ s[i] = list[i + k]
  BY <1>2, LenProperties DEF Beyond
<1>4. Orderly(s, t)
  <2>1. \A i \in DOMAIN s : s[i].at <= t
    BY <1>3 DEF Orderly
  <2>2. ASSUME NEW i \in DOMAIN s, NEW j \in DOMAIN s, i < j PROVE s[i].at <= s[j].at
    <3>1. i + k < j + k
      BY <1>2, <1>3, <2>2
    <3> QED
      BY <1>3, <3>1 DEF Orderly, Aged
  <2>3. ASSUME NEW i \in DOMAIN s, NEW j \in DOMAIN s, s[i].rid = s[j].rid PROVE i = j
    <3>1. i + k = j + k
      BY <1>3, <2>3 DEF Orderly
    <3> QED
      BY <1>2, <1>3, <3>1
  <2> QED
    BY <2>1, <2>2, <2>3 DEF Orderly, Aged
<1> QED
  BY <1>1, <1>2, <1>4

\* Who is in a list is in what is left of it or in what went, never in both.
LEMMA SuffixRids ==
  ASSUME NEW S, Stamped(S), NEW list \in Seq(S), NEW t, Orderly(list, t), NEW k \in 0 .. Len(list)
  PROVE  /\ Rids(SubSeq(list, k + 1, Len(list))) = {list[n].rid : n \in {n \in DOMAIN list : n > k}}
         /\ Rids(SubSeq(list, 1, k)) = {list[n].rid : n \in {n \in DOMAIN list : n <= k}}
<1>1. PICK s, p : s = SubSeq(list, k + 1, Len(list)) /\ p = SubSeq(list, 1, k)
  OBVIOUS
<1>2. /\ Len(list) \in Nat /\ DOMAIN list = 1 .. Len(list) /\ \A i \in DOMAIN list : list[i] \in S
      /\ k \in Nat /\ k <= Len(list)
  BY LenProperties, ElementOfSeq
<1>3. /\ s \in Seq(S) /\ Len(s) = Len(list) - k
      /\ \A i \in DOMAIN s : i + k \in DOMAIN list /\ s[i] = list[i + k]
      /\ \A n \in DOMAIN list : n > k => \E i \in DOMAIN s : i + k = n
  <2>1. s \in Seq(S) /\ Beyond(s, list, k)
    BY <1>1, SuffixOrderly, Zenon
  <2> QED
    BY <2>1 DEF Beyond
<1>4. DOMAIN s = 1 .. Len(list) - k
  BY <1>3, LenProperties
<1>5. \A i \in DOMAIN s : i + k > k
  BY <1>2, <1>4
<1>6. Rids(s) = {list[n].rid : n \in {n \in DOMAIN list : n > k}}
  BY <1>3, <1>5 DEF Rids
<1>7. p \in Seq(S) /\ Len(p) = k /\ \A i \in 1 .. k : p[i] = list[i]
  <2>1. \A i \in 1 .. k : list[i] \in S
    BY <1>2
  <2>2. /\ p \in Seq(S) /\ Len(p) = IF 1 <= k THEN k - 1 + 1 ELSE 0
        /\ \A i \in 1 .. k - 1 + 1 : p[i] = list[1 + i - 1]
    BY <1>1, <1>2, <2>1, SubSeqProperties
  <2>3. Len(p) = k
    BY <1>2, <2>2
  <2>4. ASSUME NEW i \in 1 .. k PROVE p[i] = list[i]
    <3>1. i \in 1 .. k - 1 + 1 /\ 1 + i - 1 = i
      BY <1>2
    <3> QED
      BY <2>2, <3>1
  <2> QED
    BY <2>2, <2>3, <2>4
<1>8. DOMAIN p = 1 .. k
  BY <1>7, LenProperties
<1>9. {n \in DOMAIN list : n <= k} = 1 .. k
  BY <1>2
<1>10. Rids(p) = {list[n].rid : n \in {n \in DOMAIN list : n <= k}}
  BY <1>7, <1>8, <1>9 DEF Rids
<1> QED
  BY <1>1, <1>6, <1>10

\* How far a walk from the head of a list goes.
LEMMA Leads ==
  ASSUME NEW S, NEW list \in Seq(S), NEW going, going \subseteq DOMAIN list
  PROVE  /\ Leading(list, going) \in 0 .. Len(list)
         /\ 1 .. Leading(list, going) \subseteq going
         /\ Leading(list, going) + 1 \notin going
<1> DEFINE Stops == {n \in Nat : n + 1 \notin going}
<1>1. Len(list) \in Nat /\ DOMAIN list = 1 .. Len(list)
  BY LenProperties
<1>2. Len(list) \in Stops
  BY <1>1
<1>3. PICK k \in Stops : \A n \in Stops : k <= n
  <2>1. Stops \subseteq Nat /\ Stops # {}
    BY <1>2
  <2> HIDE DEF Stops
  <2> QED
    BY <2>1, Smallest, Zenon
<1>4. k \in 0 .. Len(list)
  BY <1>1, <1>2, <1>3
<1>5. 1 .. k \subseteq going
  <2>1. SUFFICES ASSUME NEW i \in 1 .. k, i \notin going PROVE FALSE
    OBVIOUS
  <2>2. i - 1 \in Stops /\ ~(k <= i - 1)
    BY <1>4, <2>1
  <2> QED
    BY <1>3, <2>2
<1>6. \E j \in 0 .. Len(list) : 1 .. j \subseteq going /\ j + 1 \notin going
  BY <1>3, <1>4, <1>5
<1> QED
  BY <1>6, Zenon DEF Leading

\* Some places of an orderly list are as orderly.
LEMMA OnlyOrderly ==
  ASSUME NEW S, Stamped(S), NEW list \in Seq(S), NEW t, Orderly(list, t), NEW T, T \subseteq DOMAIN list
  PROVE  Orderly(Only(list, T), t)
<1>1. PICK s : s = Only(list, T)
  OBVIOUS
<1>2. Len(list) \in Nat /\ DOMAIN list = 1 .. Len(list)
  BY LenProperties
<1>3. /\ s \in Seq(S) /\ Len(s) = Cardinality(T) /\ Cardinality(T) \in 0 .. Len(list)
      /\ \A k \in 1 .. Cardinality(T) : Place(T, k) \in T /\ s[k] = list[Place(T, k)]
  BY <1>1, OnlyKeeps
<1>4. DOMAIN s = 1 .. Cardinality(T)
  BY <1>3, LenProperties
<1>5. \A i, j \in DOMAIN s : i < j => Place(T, i) < Place(T, j)
  BY <1>2, <1>4, PlacesOrdered
<1>6. \A i \in DOMAIN s : i \in Nat /\ Place(T, i) \in DOMAIN list /\ s[i] = list[Place(T, i)]
  BY <1>3, <1>4
<1>7. \A i \in DOMAIN s : Place(T, i) \in Nat
  BY <1>2, <1>6
<1>8. \A i \in DOMAIN s : s[i].at <= t
  BY <1>6 DEF Orderly
<1>9. \A i, j \in DOMAIN s : i < j => s[i].at <= s[j].at
  BY <1>5, <1>6 DEF Orderly, Aged
<1>10. ASSUME NEW i \in DOMAIN s, NEW j \in DOMAIN s, s[i].rid = s[j].rid PROVE i = j
  <2>1. Place(T, i) = Place(T, j)
    BY <1>6, <1>10 DEF Orderly
  <2>2. ~(i < j) /\ ~(j < i)
    BY <1>5, <1>7, <2>1
  <2> QED
    BY <1>6, <2>2
<1> QED
  BY <1>1, <1>8, <1>9, <1>10 DEF Orderly, Aged

\* a is list with e last, and nobody else of e's mailbox.
Renewed(a, list, e) ==
  /\ Rids(a) = Rids(list) \cup {e.rid}
  /\ \A i \in DOMAIN a : a[i] = e \/ \E n \in DOMAIN list : a[i] = list[n] /\ list[n].rid # e.rid
  /\ \A n \in DOMAIN list : list[n].rid # e.rid => \E i \in DOMAIN a : a[i] = list[n]
  /\ Len(a) \in Nat \ {0} /\ a[Len(a)] = e

\* Who is in a list again goes last, and everybody else stays.
LEMMA ListedOrderly ==
  ASSUME NEW S, Stamped(S), NEW list \in Seq(S), NEW t \in Nat, Orderly(list, t),
         NEW e \in S, e.at = t
  PROVE  /\ Append(Others(list, e.rid), e) \in Seq(S)
         /\ Orderly(Append(Others(list, e.rid), e), t)
         /\ Renewed(Append(Others(list, e.rid), e), list, e)
<1>1. PICK T, o, a : /\ T = {n \in DOMAIN list : list[n].rid # e.rid}
                     /\ o = Only(list, T) /\ a = Append(o, e)
  OBVIOUS
<1>2. Append(Others(list, e.rid), e) = a
  BY <1>1, Zenon DEF Others
<1>3. T \subseteq DOMAIN list
  BY <1>1
<1>4. /\ o \in Seq(S) /\ Len(o) = Cardinality(T) /\ Cardinality(T) \in 0 .. Len(list)
      /\ \A k \in 1 .. Cardinality(T) : Place(T, k) \in T /\ o[k] = list[Place(T, k)]
      /\ \A n \in T : \E k \in 1 .. Cardinality(T) : Place(T, k) = n
      /\ Orderly(o, t)
  <2>1. o = Only(list, T)
    BY <1>1
  <2>2. /\ Only(list, T) \in Seq(S)
        /\ Len(Only(list, T)) = Cardinality(T) /\ Cardinality(T) \in 0 .. Len(list)
        /\ \A k \in 1 .. Cardinality(T) : Place(T, k) \in T /\ Only(list, T)[k] = list[Place(T, k)]
        /\ \A n \in T : \E k \in 1 .. Cardinality(T) : Place(T, k) = n
    BY <1>3, OnlyKeeps
  <2>3. Orderly(Only(list, T), t)
    BY <1>3, OnlyOrderly, Zenon
  <2> QED
    BY <2>1, <2>2, <2>3
<1>5. Len(list) \in Nat /\ DOMAIN o = 1 .. Len(o) /\ Len(o) \in Nat /\ \A i \in DOMAIN o : o[i] \in S
  BY <1>4, LenProperties, ElementOfSeq
<1>6. /\ a \in Seq(S) /\ Len(a) = Len(o) + 1 /\ DOMAIN a = 1 .. Len(o) + 1
      /\ \A i \in DOMAIN o : a[i] = o[i]
      /\ a[Len(o) + 1] = e
  <2>1. a = Append(o, e) /\ o \in Seq(S)
    BY <1>1, <1>4
  <2>2. /\ a \in Seq(S) /\ Len(a) = Len(o) + 1 /\ a[Len(o) + 1] = e
        /\ \A i \in 1 .. Len(o) : a[i] = o[i]
    BY <2>1, AppendProperties
  <2>3. DOMAIN a = 1 .. Len(a)
    BY <2>2, LenProperties
  <2> QED
    BY <1>5, <2>2, <2>3
<1>7. \A i \in DOMAIN a : i \in DOMAIN o \/ i = Len(o) + 1
  BY <1>5, <1>6
<1>8. \A i \in DOMAIN o : \E n \in DOMAIN list : a[i] = list[n] /\ list[n].rid # e.rid
  <2>1. ASSUME NEW i \in DOMAIN o
        PROVE  \E n \in DOMAIN list : a[i] = list[n] /\ list[n].rid # e.rid
    <3>1. PICK n : n = Place(T, i)
      OBVIOUS
    <3>2. i \in 1 .. Cardinality(T)
      BY <1>4, <1>5
    <3>3. n \in T /\ a[i] = list[n]
      BY <1>4, <1>6, <3>1, <3>2
    <3> QED
      BY <1>1, <3>3
  <2> QED
    BY <2>1
<1>9. \A n \in T : \E i \in DOMAIN o : a[i] = list[n]
  BY <1>4, <1>5, <1>6
<1>10. DOMAIN o \subseteq DOMAIN a /\ Len(o) + 1 \in DOMAIN a
  BY <1>5, <1>6
<1>11. \A i \in DOMAIN a : a[i] = e \/ \E n \in DOMAIN list : a[i] = list[n] /\ list[n].rid # e.rid
  BY <1>6, <1>7, <1>8
<1>12. \A n \in DOMAIN list : list[n].rid # e.rid => \E i \in DOMAIN a : a[i] = list[n]
  BY <1>1, <1>9, <1>10
<1>13. Rids(a) = Rids(list) \cup {e.rid}
  <2>1. \A i \in DOMAIN a : a[i].rid \in Rids(list) \cup {e.rid}
    BY <1>11 DEF Rids
  <2>2. \A n \in DOMAIN list : \E i \in DOMAIN a : a[i].rid = list[n].rid
    BY <1>6, <1>10, <1>12
  <2>3. \E i \in DOMAIN a : a[i].rid = e.rid
    BY <1>6, <1>10
  <2> QED
    BY <2>1, <2>2, <2>3 DEF Rids
<1>14. Orderly(a, t)
  <2>1. \A i \in DOMAIN a : a[i].at <= t
    BY <1>4, <1>6, <1>7 DEF Orderly
  <2>2. ASSUME NEW i \in DOMAIN a, NEW j \in DOMAIN a, i < j PROVE a[i].at <= a[j].at
    <3>1. i \in DOMAIN o
      BY <1>5, <1>6, <1>7, <2>2
    <3>2. CASE j \in DOMAIN o
      BY <1>4, <1>6, <2>2, <3>1, <3>2 DEF Orderly, Aged
    <3>3. CASE j = Len(o) + 1
      BY <1>4, <1>6, <3>1, <3>3 DEF Orderly
    <3> QED
      BY <1>7, <3>2, <3>3
  <2>3. ASSUME NEW i \in DOMAIN a, NEW j \in DOMAIN a, a[i].rid = a[j].rid PROVE i = j
    <3>1. \A n \in DOMAIN o : a[n].rid # e.rid
      BY <1>8
    <3>2. i \in DOMAIN o <=> j \in DOMAIN o
      BY <1>6, <1>7, <2>3, <3>1
    <3>3. CASE i \in DOMAIN o
      BY <1>4, <1>6, <2>3, <3>2, <3>3 DEF Orderly
    <3>4. CASE i \notin DOMAIN o
      BY <1>7, <3>2, <3>4
    <3> QED
      BY <3>3, <3>4
  <2> QED
    BY <2>1, <2>2, <2>3 DEF Orderly, Aged
<1>15. Len(a) \in Nat \ {0} /\ a[Len(a)] = e
  BY <1>5, <1>6
<1>16. Renewed(a, list, e)
  BY <1>11, <1>12, <1>13, <1>15 DEF Renewed
<1> QED
  BY <1>2, <1>6, <1>14, <1>16

-----------------------------------------------------------------------------
\* The bytes of mailboxes.
LEMMA ReturnedIs ==
  ASSUME NEW m, m.queue \in [Rid -> Seq(Entry)], NEW rids, rids \subseteq Rid
  PROVE  /\ Numbers([r \in Rid |-> QBytes(m.queue[r])], rids)
         /\ Returned(m, rids) \in Nat
<1>1. \A r \in Rid : QBytes(m.queue[r]) \in Nat
  BY QBytesNat
<1>2. IsFiniteSet(Rid)
  BY ParamAssumption
<1>3. Numbers([r \in Rid |-> QBytes(m.queue[r])], Rid)
  BY <1>1, <1>2 DEF Numbers
<1> QED
  BY <1>3, NumbersPart, Zenon DEF Returned

LEMMA ReturnedUnion ==
  ASSUME NEW m, m.queue \in [Rid -> Seq(Entry)],
         NEW A, NEW B, A \subseteq Rid, B \subseteq Rid, A \cap B = {}
  PROVE  Returned(m, A \cup B) = Returned(m, A) + Returned(m, B)
<1>1. PICK w : w = [r \in Rid |-> QBytes(m.queue[r])]
  OBVIOUS
<1>2. Numbers(w, A \cup B)
  BY <1>1, ReturnedIs
<1>3. A \in SUBSET (A \cup B) /\ (A \cup B) \ A = B
  OBVIOUS
<1>4. SumFunctionOnSet(w, A \cup B) = SumFunctionOnSet(w, A) + SumFunctionOnSet(w, (A \cup B) \ A)
  BY <1>2, <1>3, SumParts
<1> QED
  BY <1>1, <1>3, <1>4 DEF Returned

LEMMA ReturnedOne ==
  ASSUME NEW m, m.queue \in [Rid -> Seq(Entry)], NEW r \in Rid
  PROVE  Returned(m, {r}) = QBytes(m.queue[r])
<1>1. PICK w : w = [p \in Rid |-> QBytes(m.queue[p])]
  OBVIOUS
<1>2. Numbers(w, {r}) /\ Numbers(w, {})
  BY <1>1, ReturnedIs
<1>3. SumFunctionOnSet(w, {r}) = w[r] + SumFunctionOnSet(w, {r} \ {r})
  BY <1>2, SumRemove
<1>4. SumFunctionOnSet(w, {r} \ {r}) = 0
  <2>1. PICK e : e = {r} \ {r}
    OBVIOUS
  <2>2. e = {} /\ Numbers(w, e)
    BY <1>2, <2>1
  <2> QED
    BY <2>1, <2>2, SumPick
<1>5. w[r] = QBytes(m.queue[r]) /\ w[r] \in Nat
  BY <1>1, QBytesNat
<1>6. SumFunctionOnSet(w, {r}) = w[r]
  BY <1>3, <1>4, <1>5
<1>7. Returned(m, {r}) = SumFunctionOnSet(w, {r})
  BY <1>1 DEF Returned
<1> QED
  BY <1>5, <1>6, <1>7

LEMMA ReturnedNone ==
  ASSUME NEW m, m.queue \in [Rid -> Seq(Entry)]
  PROVE  Returned(m, {}) = 0
<1>1. PICK w : w = [p \in Rid |-> QBytes(m.queue[p])]
  OBVIOUS
<1>2. Numbers(w, {})
  BY <1>1, ReturnedIs
<1> QED
  BY <1>1, <1>2, SumPick DEF Returned

-----------------------------------------------------------------------------
\* What the lists' walks and claims do to the coordinator.
Clock == now \in 0 .. MaxTime

Sound(m) == m \in Book /\ Kept(m, now)

NotOwned(m) == {r \in Rid : ~Owns(m, r)}

\* The total of the mailboxes nobody owns is right.
Spared(m) == m.unowned = Returned(m, NotOwned(m))

\* n is m but for its owners and flags and the bytes nobody owns.
Beside(n, m) ==
  /\ n.queue = m.queue /\ n.bytes = m.bytes /\ n.count = m.count
  /\ n.seen = m.seen /\ n.tokens = m.tokens /\ n.ip = m.ip
  /\ n.push = m.push /\ n.paid = m.paid

LEMMA StampedLists == Stamped(Owner) /\ Stamped(Flag)
<1>1. MaxTime \in Nat
  BY ParamAssumption
<1> QED
  BY <1>1 DEF Stamped, Owner, Flag

\* Owners changed, and the total with them.
WithOwners(m, s, u) == [m EXCEPT !.owned = s, !.unowned = u]

WithFlags(m, s, u) == [m EXCEPT !.intro = s, !.unowned = u]

LEMMA OwnersSet ==
  ASSUME NEW m \in Book, NEW s \in Seq(Owner), NEW u \in Nat, NEW n, n = WithOwners(m, s, u)
  PROVE  /\ n \in Book /\ Beside(n, m) /\ n.intro = m.intro
         /\ n.owned = s /\ n.unowned = u
<1>1. n \in Book
  BY DEF Book, WithOwners
<1>2. n.owned = s /\ n.unowned = u /\ n.intro = m.intro
  BY DEF Book, WithOwners
<1>3. Beside(n, m)
  BY DEF Book, WithOwners, Beside
<1> QED
  BY <1>1, <1>2, <1>3

LEMMA FlagsSet ==
  ASSUME NEW m \in Book, NEW s \in Seq(Flag), NEW u \in Nat, NEW n, n = WithFlags(m, s, u)
  PROVE  /\ n \in Book /\ Beside(n, m) /\ n.owned = m.owned
         /\ n.intro = s /\ n.unowned = u
<1>1. n \in Book
  BY DEF Book, WithFlags
<1>2. n.intro = s /\ n.unowned = u /\ n.owned = m.owned
  BY DEF Book, WithFlags
<1>3. Beside(n, m)
  BY DEF Book, WithFlags, Beside
<1> QED
  BY <1>1, <1>2, <1>3

\* The owners a trim forgets have mailboxes nobody owns; the one who came last
\* and just now stays.
LEMMA TrimOwnedSound ==
  ASSUME NEW m, Sound(m), Clock
  PROVE  /\ Sound(TrimOwned(m)) /\ Beside(TrimOwned(m), m) /\ TrimOwned(m).intro = m.intro
         /\ Rids(TrimOwned(m).owned) \subseteq Rids(m.owned)
         /\ Spared(m) => Spared(TrimOwned(m))
         /\ Len(m.owned) # 0 /\ m.owned[Len(m.owned)].at = now =>
              m.owned[Len(m.owned)].rid \in Rids(TrimOwned(m).owned)
<1> DEFINE going == {n \in DOMAIN m.owned : \/ Len(m.owned) - n + 1 > OwnedCap
                                           \/ now - m.owned[n].at > OwnedTtl}
<1>1. PICK k : k = Leading(m.owned, going)
  OBVIOUS
<1>2. PICK s, gone : /\ s = SubSeq(m.owned, k + 1, Len(m.owned))
                     /\ gone = {r \in Rids(SubSeq(m.owned, 1, k)) : ~Flagged(m, r)}
  OBVIOUS
<1>3. PICK n : n = TrimOwned(m)
  OBVIOUS
<1>4. n = [m EXCEPT !.owned = SubSeq(@, k + 1, Len(@)), !.unowned = @ + Returned(m, gone)]
  BY <1>1, <1>2, <1>3, Zenon DEF TrimOwned
<1>5. /\ m \in Book /\ m.owned \in Seq(Owner) /\ m.queue \in [Rid -> Seq(Entry)] /\ m.unowned \in Nat
      /\ Orderly(m.owned, now) /\ Orderly(m.intro, now) /\ Orderly(m.seen, now)
  BY DEF Sound, Book, Kept
<1>6. n = [m EXCEPT !.owned = s, !.unowned = m.unowned + Returned(m, gone)]
  BY <1>2, <1>4, <1>5 DEF Book
<1>7. k \in 0 .. Len(m.owned) /\ 1 .. k \subseteq going
  <2> HIDE DEF going
  <2>1. going \subseteq DOMAIN m.owned
    BY DEF going
  <2> QED
    BY <1>1, <1>5, <2>1, Leads
<1>8. s \in Seq(Owner) /\ Orderly(s, now)
  BY <1>2, <1>5, <1>7, SuffixOrderly, StampedLists
<1>9. /\ Rids(s) = {m.owned[i].rid : i \in {i \in DOMAIN m.owned : i > k}}
      /\ Rids(SubSeq(m.owned, 1, k)) = {m.owned[i].rid : i \in {i \in DOMAIN m.owned : i <= k}}
  BY <1>2, <1>5, <1>7, SuffixRids, StampedLists
<1>10. /\ Len(m.owned) \in Nat /\ DOMAIN m.owned = 1 .. Len(m.owned)
       /\ \A i \in DOMAIN m.owned : m.owned[i].rid \in Rid /\ m.owned[i].at \in Nat
  <2>1. Len(m.owned) \in Nat /\ DOMAIN m.owned = 1 .. Len(m.owned)
    BY <1>5, LenProperties
  <2>2. \A i \in DOMAIN m.owned : m.owned[i] \in Owner
    BY <1>5, <2>1, ElementOfSeq
  <2>3. \A i \in DOMAIN m.owned : m.owned[i].rid \in Rid
    BY <2>2 DEF Owner
  <2>4. \A i \in DOMAIN m.owned : m.owned[i].at \in Nat
    BY <2>2, StampedLists DEF Stamped
  <2> QED
    BY <2>1, <2>3, <2>4
<1>11. gone \subseteq Rid /\ Returned(m, gone) \in Nat
  <2>1. gone \subseteq Rid
    BY <1>2, <1>9, <1>10
  <2> QED
    BY <1>5, <2>1, ReturnedIs
<1>12. n \in Book /\ Beside(n, m) /\ n.intro = m.intro /\ n.owned = s /\ n.unowned = m.unowned + Returned(m, gone)
  <2>1. PICK u : u = m.unowned + Returned(m, gone)
    OBVIOUS
  <2>2. u \in Nat /\ n = WithOwners(m, s, u)
    BY <1>5, <1>6, <1>11, <2>1 DEF WithOwners
  <2>3. n \in Book /\ Beside(n, m) /\ n.intro = m.intro /\ n.owned = s /\ n.unowned = u
    <3>1. m \in Book /\ s \in Seq(Owner) /\ u \in Nat /\ n = WithOwners(m, s, u)
      BY <1>5, <1>8, <2>2
    <3> HIDE DEF going
    <3> QED
      BY <3>1, OwnersSet
  <2> QED
    BY <2>1, <2>3
<1>13. Sound(n)
  BY <1>5, <1>8, <1>12 DEF Sound, Kept, Beside
<1>14. /\ Rids(m.owned) = Rids(s) \cup Rids(SubSeq(m.owned, 1, k))
       /\ Rids(s) \cap Rids(SubSeq(m.owned, 1, k)) = {}
  <2>1. \A i \in DOMAIN m.owned : i > k \/ i <= k
    BY <1>7, <1>10
  <2>2. \A i, j \in DOMAIN m.owned : i > k /\ j <= k => m.owned[i].rid # m.owned[j].rid
    <3>1. \A i, j \in DOMAIN m.owned : i > k /\ j <= k => i # j
      BY <1>7, <1>10
    <3> QED
      BY <1>5, <3>1 DEF Orderly
  <2>3. Rids(m.owned) = {m.owned[i].rid : i \in DOMAIN m.owned}
    BY DEF Rids
  <2> QED
    BY <1>9, <2>1, <2>2, <2>3
<1>15. ASSUME Spared(m) PROVE Spared(n)
  <2>1. \A r \in Rid : Flagged(n, r) <=> Flagged(m, r)
    BY <1>12 DEF Flagged
  <2>2. NotOwned(n) = NotOwned(m) \cup gone /\ NotOwned(m) \cap gone = {}
    <3>1. \A r \in Rid : r \in NotOwned(n) <=> r \notin Rids(s) /\ ~Flagged(m, r)
      BY <1>12, <2>1 DEF NotOwned, Owns
    <3>2. \A r \in Rid : r \in NotOwned(m) <=> r \notin Rids(m.owned) /\ ~Flagged(m, r)
      BY DEF NotOwned, Owns
    <3>3. \A r \in Rid : r \in gone <=> r \in Rids(SubSeq(m.owned, 1, k)) /\ ~Flagged(m, r)
      BY <1>2
    <3>4. NotOwned(n) \subseteq Rid /\ NotOwned(m) \subseteq Rid
      BY DEF NotOwned
    <3> QED
      BY <1>11, <1>14, <3>1, <3>2, <3>3, <3>4
  <2>3. Returned(m, NotOwned(n)) = Returned(m, NotOwned(m)) + Returned(m, gone)
    <3>1. NotOwned(m) \subseteq Rid
      BY DEF NotOwned
    <3> QED
      BY <1>5, <1>11, <2>2, <3>1, ReturnedUnion
  <2>4. Returned(n, NotOwned(n)) = Returned(m, NotOwned(n))
    BY <1>12 DEF Returned, Beside
  <2> QED
    BY <1>12, <1>15, <2>3, <2>4 DEF Spared
<1>16. ASSUME Len(m.owned) # 0, m.owned[Len(m.owned)].at = now
       PROVE  m.owned[Len(m.owned)].rid \in Rids(s)
  <2>1. OwnedCap \in Nat \ {0} /\ OwnedTtl \in Nat /\ now \in Nat
    BY ParamAssumption DEF Clock
  <2>2. PICK l : l = Len(m.owned)
    OBVIOUS
  <2>3. l \in Nat /\ l # 0 /\ l - l + 1 = 1 /\ l \in DOMAIN m.owned
    BY <1>10, <1>16, <2>2
  <2>4. ~(l - l + 1 > OwnedCap) /\ ~(now - m.owned[l].at > OwnedTtl)
    BY <1>16, <2>1, <2>2, <2>3
  <2>5. l \notin going
    BY <2>2, <2>4
  <2>6. l > k
    BY <1>7, <2>2, <2>3, <2>5
  <2> QED
    BY <1>9, <2>2, <2>3, <2>6
<1> QED
  BY <1>3, <1>12, <1>13, <1>14, <1>15, <1>16

LEMMA Saturating ==
  ASSUME NEW a \in Nat, NEW b \in Nat
  PROVE  Minus(a, b) \in Nat /\ Minus(a + b, b) = a
<1>1. Minus(a, b) \in Nat
  BY DEF Minus
<1>2. Minus(a + b, b) = a
  <2>1. CASE a + b > b
    BY <2>1 DEF Minus
  <2>2. CASE ~(a + b > b)
    <3>1. a = 0
      BY <2>2
    <3> QED
      BY <2>2, <3>1 DEF Minus
  <2> QED
    BY <2>1, <2>2
<1> QED
  BY <1>1, <1>2

\* An owner listed anew.
LEMMA OwnerListed ==
  ASSUME NEW list \in Seq(Owner), Orderly(list, now), Clock, NEW r \in Rid
  PROVE  /\ Listed(list, r) \in Seq(Owner) /\ Orderly(Listed(list, r), now)
         /\ Rids(Listed(list, r)) = Rids(list) \cup {r}
         /\ Len(Listed(list, r)) # 0
         /\ Listed(list, r)[Len(Listed(list, r))] = [rid |-> r, at |-> now]
<1>1. PICK e, s : e = [rid |-> r, at |-> now] /\ s = Append(Others(list, e.rid), e)
  OBVIOUS
<1>2. e \in Owner /\ e.rid = r /\ e.at = now /\ now \in Nat
  <2>1. MaxTime \in Nat
    BY ParamAssumption
  <2> QED
    BY <1>1, <2>1 DEF Owner, Clock
<1>3. s = Listed(list, r)
  BY <1>1, <1>2 DEF Listed
<1>5. s \in Seq(Owner) /\ Orderly(s, now) /\ Renewed(s, list, e)
  BY <1>1, <1>2, ListedOrderly, StampedLists
<1> QED
  BY <1>1, <1>2, <1>3, <1>5 DEF Renewed

\* A mailbox nobody owned until now.
LEMMA NewlyOwned ==
  ASSUME NEW m, Sound(m), Spared(m), NEW r \in Rid, r \notin Rids(m.owned)
  PROVE  Minus(m.unowned, QBytes(IF Flagged(m, r) THEN <<>> ELSE m.queue[r]))
           = Returned(m, NotOwned(m) \ {r})
<1>1. m.queue \in [Rid -> Seq(Entry)] /\ m.unowned \in Nat
  BY DEF Sound, Book
<1>2. NotOwned(m) \subseteq Rid
  BY DEF NotOwned
<1>3. CASE Flagged(m, r)
  <2>1. r \notin NotOwned(m)
    BY <1>3 DEF NotOwned, Owns
  <2>2. NotOwned(m) \ {r} = NotOwned(m)
    BY <2>1
  <2>3. Minus(m.unowned, 0) = m.unowned
    <3>1. PICK u : u = m.unowned
      OBVIOUS
    <3>2. u \in Nat
      BY <1>1, <3>1
    <3>3. Minus(u, 0) = u
      BY <3>2 DEF Minus
    <3> QED
      BY <3>1, <3>3
  <2>4. QBytes(IF Flagged(m, r) THEN <<>> ELSE m.queue[r]) = 0
    BY <1>3, QBytesEmpty
  <2> QED
    BY <2>2, <2>3, <2>4 DEF Spared
<1>4. CASE ~Flagged(m, r)
  <2>1. PICK U : U = NotOwned(m) \ {r}
    OBVIOUS
  <2>2. NotOwned(m) = U \cup {r} /\ U \cap {r} = {} /\ U \subseteq Rid /\ {r} \subseteq Rid
    BY <1>2, <1>4, <2>1 DEF NotOwned, Owns
  <2>3. Returned(m, U \cup {r}) = Returned(m, U) + Returned(m, {r})
    BY <1>1, <2>2, ReturnedUnion
  <2>4. Returned(m, {r}) = QBytes(m.queue[r]) /\ Returned(m, U) \in Nat /\ QBytes(m.queue[r]) \in Nat
    BY <1>1, <2>2, ReturnedOne, ReturnedIs, QBytesNat
  <2>5. m.unowned = Returned(m, U) + QBytes(m.queue[r])
    BY <2>2, <2>3, <2>4 DEF Spared
  <2>6. Minus(m.unowned, QBytes(m.queue[r])) = Returned(m, U)
    BY <2>4, <2>5, Saturating
  <2> QED
    BY <1>4, <2>1, <2>6
<1> QED
  BY <1>3, <1>4

\* A claim: its mailbox is owned, and every total right that was.
LEMMA ClaimSound ==
  ASSUME NEW m, Sound(m), Clock, NEW r \in Rid
  PROVE  /\ Sound(ClaimOwner(m, r)) /\ Beside(ClaimOwner(m, r), m)
         /\ ClaimOwner(m, r).intro = m.intro
         /\ r \in Rids(ClaimOwner(m, r).owned)
         /\ Spared(m) => Spared(ClaimOwner(m, r))
<1>1. PICK s : s = Listed(m.owned, r)
  OBVIOUS
<1>2. /\ s \in Seq(Owner) /\ Orderly(s, now) /\ Rids(s) = Rids(m.owned) \cup {r}
      /\ Len(s) # 0 /\ s[Len(s)] = [rid |-> r, at |-> now]
  <2>1. m.owned \in Seq(Owner) /\ Orderly(m.owned, now)
    BY DEF Sound, Book, Kept
  <2> QED
    BY <1>1, <2>1, OwnerListed
<1>3. /\ m \in Book /\ m.owned \in Seq(Owner) /\ m.queue \in [Rid -> Seq(Entry)] /\ m.unowned \in Nat
      /\ Orderly(m.intro, now) /\ Orderly(m.seen, now)
  BY DEF Sound, Book, Kept
<1>4. CASE r \in Rids(m.owned)
  <2>1. PICK n : n = ClaimOwner(m, r)
    OBVIOUS
  <2>2. n = [m EXCEPT !.owned = Listed(@, r)]
    BY <1>4, <2>1, Zenon DEF ClaimOwner
  <2>3. n = WithOwners(m, s, m.unowned)
    BY <1>1, <1>3, <2>2 DEF Book, WithOwners
  <2>4. n \in Book /\ Beside(n, m) /\ n.intro = m.intro /\ n.owned = s /\ n.unowned = m.unowned
    <3>1. PICK u : u = m.unowned
      OBVIOUS
    <3>2. m \in Book /\ s \in Seq(Owner) /\ u \in Nat /\ n = WithOwners(m, s, u)
      BY <1>2, <1>3, <2>3, <3>1
    <3>3. n \in Book /\ Beside(n, m) /\ n.intro = m.intro /\ n.owned = s /\ n.unowned = u
      BY <3>2, OwnersSet
    <3> QED
      BY <3>1, <3>3
  <2>5. Sound(n)
    BY <1>2, <1>3, <2>4 DEF Sound, Kept, Beside
  <2>6. Rids(n.owned) = Rids(m.owned)
    BY <1>2, <1>4, <2>4
  <2>7. NotOwned(n) = NotOwned(m)
    BY <2>4, <2>6 DEF NotOwned, Owns, Flagged
  <2>8. Spared(m) => Spared(n)
    BY <2>4, <2>7 DEF Spared, Returned, Beside
  <2> QED
    BY <1>4, <2>1, <2>4, <2>5, <2>6, <2>8
<1>5. CASE r \notin Rids(m.owned)
  <2>1. PICK u : u = Minus(m.unowned, QBytes(IF Flagged(m, r) THEN <<>> ELSE m.queue[r]))
    OBVIOUS
  <2>2. PICK n : n = [[m EXCEPT !.owned = Listed(@, r)] EXCEPT
                        !.unowned = Minus(@, QBytes(IF Flagged(m, r) THEN <<>> ELSE m.queue[r]))]
    OBVIOUS
  <2>3. ClaimOwner(m, r) = TrimOwned(n)
    BY <1>5, <2>2, Zenon DEF ClaimOwner
  <2>4. n = WithOwners(m, s, u)
    BY <1>1, <1>3, <2>1, <2>2 DEF Book, WithOwners
  <2>5. u \in Nat
    <3>1. (IF Flagged(m, r) THEN <<>> ELSE m.queue[r]) \in Seq(Entry)
      BY <1>3, EmptySeq
    <3> QED
      BY <1>3, <2>1, <3>1, QBytesNat, Saturating
  <2>6. n \in Book /\ Beside(n, m) /\ n.intro = m.intro /\ n.owned = s /\ n.unowned = u
    <3>1. m \in Book /\ s \in Seq(Owner) /\ u \in Nat /\ n = WithOwners(m, s, u)
      BY <1>2, <1>3, <2>4, <2>5
    <3> QED
      BY <3>1, OwnersSet
  <2>7. Sound(n)
    BY <1>2, <1>3, <2>6 DEF Sound, Kept, Beside
  <2>8. NotOwned(n) = NotOwned(m) \ {r}
    BY <1>2, <2>6 DEF NotOwned, Owns, Flagged
  <2>9. ASSUME Spared(m) PROVE Spared(n)
    <3>1. u = Returned(m, NotOwned(m) \ {r})
      BY <1>5, <2>1, <2>9, NewlyOwned
    <3>2. Returned(m, NotOwned(n)) = Returned(n, NotOwned(n))
      BY <2>6 DEF Returned, Beside
    <3> QED
      BY <2>6, <2>8, <3>1, <3>2 DEF Spared
  <2>10. PICK c : c = TrimOwned(n)
    OBVIOUS
  <2>11. /\ Sound(c) /\ Beside(c, n) /\ c.intro = n.intro
         /\ Spared(n) => Spared(c)
         /\ Len(n.owned) # 0 /\ n.owned[Len(n.owned)].at = now => n.owned[Len(n.owned)].rid \in Rids(c.owned)
    BY <2>7, <2>10, TrimOwnedSound
  <2>12. r \in Rids(c.owned)
    BY <1>2, <2>6, <2>11
  <2>13. Beside(c, m)
    BY <2>6, <2>11 DEF Beside
  <2> QED
    BY <2>3, <2>6, <2>9, <2>10, <2>11, <2>12, <2>13
<1> QED
  BY <1>4, <1>5

\* Each flag or shadow of s was one of list, of the same mailbox and time.
Among(s, list) ==
  \A i \in DOMAIN s : \E n \in DOMAIN list : s[i].rid = list[n].rid /\ s[i].at = list[n].at

LEMMA AmongQuiet ==
  ASSUME NEW m, NEW n, NEW t, Among(n.intro, m.intro), n.push = m.push, Quiet(m, t)
  PROVE  Quiet(n, t)
BY DEF Among, Quiet, Unflagged

LEMMA IntroTyped ==
  ASSUME NEW m, Sound(m)
  PROVE  /\ m.intro \in Seq(Flag) /\ Len(m.intro) \in Nat /\ DOMAIN m.intro = 1 .. Len(m.intro)
         /\ \A i \in DOMAIN m.intro : m.intro[i] \in Flag
         /\ \A i \in DOMAIN m.intro : m.intro[i].rid \in Rid /\ m.intro[i].shadow \in BOOLEAN
         /\ \A i \in DOMAIN m.intro : m.intro[i].at \in Nat
         /\ Orderly(m.intro, now)
<1>1. m.intro \in Seq(Flag) /\ Orderly(m.intro, now)
  BY DEF Sound, Book, Kept
<1>2. Len(m.intro) \in Nat /\ DOMAIN m.intro = 1 .. Len(m.intro)
  BY <1>1, LenProperties
<1>3. \A i \in DOMAIN m.intro : m.intro[i] \in Flag
  BY <1>1, <1>2, ElementOfSeq
<1>4. \A i \in DOMAIN m.intro : m.intro[i].rid \in Rid /\ m.intro[i].shadow \in BOOLEAN
  BY <1>3 DEF Flag
<1>5. \A i \in DOMAIN m.intro : m.intro[i].at \in Nat
  BY <1>3, StampedLists DEF Stamped
<1> QED
  BY <1>1, <1>2, <1>3, <1>4, <1>5

\* Flags that stop counting, and nothing else: the total gets their mailboxes.
LEMMA UnflagSound ==
  ASSUME NEW m, Sound(m), NEW s \in Seq(Flag), Orderly(s, now), NEW lost, lost \subseteq Rid,
         \A r \in lost : Flagged(m, r),
         \A r \in Rid : (\E i \in DOMAIN s : s[i].rid = r /\ ~s[i].shadow) <=> Flagged(m, r) /\ r \notin lost
  PROVE  /\ Sound(Unflag([m EXCEPT !.intro = s], lost)) /\ Beside(Unflag([m EXCEPT !.intro = s], lost), m)
         /\ Unflag([m EXCEPT !.intro = s], lost).owned = m.owned
         /\ Unflag([m EXCEPT !.intro = s], lost).intro = s
         /\ Spared(m) => Spared(Unflag([m EXCEPT !.intro = s], lost))
<1>1. PICK n, f : f = [m EXCEPT !.intro = s] /\ n = Unflag(f, lost)
  OBVIOUS
<1>2. PICK new : new = lost \ Rids(m.owned)
  OBVIOUS
<1>3. /\ m \in Book /\ m.queue \in [Rid -> Seq(Entry)] /\ m.unowned \in Nat
      /\ Orderly(m.owned, now) /\ Orderly(m.seen, now)
  BY DEF Sound, Book, Kept
<1>4. f.owned = m.owned /\ f.queue = m.queue /\ f.unowned = m.unowned
  BY <1>1, <1>3 DEF Book
<1>5. new \subseteq Rid /\ Returned(m, new) \in Nat
  BY <1>2, <1>3, ReturnedIs
<1>6. PICK u : u = m.unowned + Returned(m, new)
  OBVIOUS
<1>7. u \in Nat
  BY <1>3, <1>5, <1>6
<1>8. Returned(f, lost \ Rids(f.owned)) = Returned(m, new)
  BY <1>2, <1>4 DEF Returned
<1>9. n = [f EXCEPT !.unowned = u]
  <2>1. n = [f EXCEPT !.unowned = f.unowned + Returned(f, lost \ Rids(f.owned))]
    BY <1>1 DEF Unflag
  <2> QED
    BY <1>4, <1>6, <1>8, <2>1
<1>10. m \in Book /\ s \in Seq(Flag) /\ u \in Nat /\ n = WithFlags(m, s, u)
  BY <1>1, <1>3, <1>7, <1>9 DEF WithFlags
<1>11. n \in Book /\ Beside(n, m) /\ n.owned = m.owned /\ n.intro = s /\ n.unowned = u
  BY <1>10, FlagsSet
<1>12. Sound(n)
  BY <1>3, <1>11 DEF Sound, Kept, Beside
<1>13. \A r \in Rid : Flagged(n, r) <=> Flagged(m, r) /\ r \notin lost
  BY <1>11 DEF Flagged
<1>14. NotOwned(n) = NotOwned(m) \cup new /\ NotOwned(m) \cap new = {} /\ NotOwned(m) \subseteq Rid
  BY <1>2, <1>5, <1>11, <1>13 DEF NotOwned, Owns
<1>15. Returned(m, NotOwned(n)) = Returned(m, NotOwned(m)) + Returned(m, new)
  BY <1>3, <1>5, <1>14, ReturnedUnion
<1>16. Returned(n, NotOwned(n)) = Returned(m, NotOwned(n))
  BY <1>11 DEF Returned, Beside
<1>17. Spared(m) => Spared(n)
  BY <1>6, <1>11, <1>15, <1>16 DEF Spared
<1> QED
  BY <1>1, <1>11, <1>12, <1>17

\* The flags among the first k that count.
Lost(list, k) == {list[n].rid : n \in {n \in 1 .. k : ~list[n].shadow}}

LEMMA LostFlags ==
  ASSUME NEW m, Sound(m), NEW k \in 0 .. Len(m.intro)
  PROVE  /\ Lost(m.intro, k) \subseteq Rid /\ \A r \in Lost(m.intro, k) : Flagged(m, r)
         /\ \A r \in Rid : (\E n \in DOMAIN m.intro : n > k /\ m.intro[n].rid = r /\ ~m.intro[n].shadow)
                             <=> Flagged(m, r) /\ r \notin Lost(m.intro, k)
<1>1. /\ Len(m.intro) \in Nat /\ DOMAIN m.intro = 1 .. Len(m.intro)
      /\ \A i \in DOMAIN m.intro : m.intro[i].rid \in Rid
      /\ \A i, j \in DOMAIN m.intro : m.intro[i].rid = m.intro[j].rid => i = j
  BY IntroTyped DEF Orderly
<1>2. 1 .. k \subseteq DOMAIN m.intro
  BY <1>1
<1>3. \A n \in DOMAIN m.intro : n \in 1 .. k <=> ~(n > k)
  BY <1>1
<1>4. Lost(m.intro, k) \subseteq Rid /\ \A r \in Lost(m.intro, k) : Flagged(m, r)
  BY <1>1, <1>2 DEF Lost, Flagged
<1>5. ASSUME NEW r \in Rid, NEW n \in DOMAIN m.intro, n > k, m.intro[n].rid = r, ~m.intro[n].shadow
      PROVE  Flagged(m, r) /\ r \notin Lost(m.intro, k)
  <2>1. Flagged(m, r)
    BY <1>5 DEF Flagged
  <2>2. SUFFICES ASSUME NEW i \in 1 .. k, m.intro[i].rid = r PROVE FALSE
    BY <2>1 DEF Lost
  <2>3. i = n
    BY <1>1, <1>2, <1>5, <2>2
  <2> QED
    BY <1>3, <1>5, <2>2, <2>3
<1>6. ASSUME NEW r \in Rid, Flagged(m, r), r \notin Lost(m.intro, k)
      PROVE  \E n \in DOMAIN m.intro : n > k /\ m.intro[n].rid = r /\ ~m.intro[n].shadow
  <2>1. PICK n \in DOMAIN m.intro : m.intro[n].rid = r /\ ~m.intro[n].shadow
    BY <1>6 DEF Flagged
  <2>2. n \notin 1 .. k
    BY <1>6, <2>1 DEF Lost
  <2> QED
    BY <1>3, <2>1, <2>2
<1> QED
  BY <1>4, <1>5, <1>6

LEMMA ForgetSound ==
  ASSUME NEW m, Sound(m), NEW k \in 0 .. Len(m.intro)
  PROVE  /\ Sound(ForgetIntro(m, k)) /\ Beside(ForgetIntro(m, k), m)
         /\ Among(ForgetIntro(m, k).intro, m.intro)
         /\ Spared(m) => Spared(ForgetIntro(m, k))
<1>1. PICK s, lost, n : /\ s = SubSeq(m.intro, k + 1, Len(m.intro)) /\ lost = Lost(m.intro, k)
                        /\ n = ForgetIntro(m, k)
  OBVIOUS
<1>2. m \in Book
  BY DEF Sound
<1>3. n = Unflag([m EXCEPT !.intro = s], lost)
  <2>1. n = Unflag([m EXCEPT !.intro = SubSeq(@, k + 1, Len(@))], lost)
    BY <1>1, Zenon DEF ForgetIntro, Lost
  <2>2. [m EXCEPT !.intro = SubSeq(@, k + 1, Len(@))] = [m EXCEPT !.intro = s]
    BY <1>1, <1>2 DEF Book
  <2> QED
    BY <2>1, <2>2, Zenon
<1>4. m.intro \in Seq(Flag) /\ Orderly(m.intro, now)
  BY IntroTyped
<1>5. s \in Seq(Flag) /\ Orderly(s, now) /\ Beyond(s, m.intro, k)
  BY <1>1, <1>4, SuffixOrderly, StampedLists
<1>6. /\ lost \subseteq Rid /\ \A r \in lost : Flagged(m, r)
      /\ \A r \in Rid : (\E i \in DOMAIN m.intro : i > k /\ m.intro[i].rid = r /\ ~m.intro[i].shadow)
                          <=> Flagged(m, r) /\ r \notin lost
  BY <1>1, LostFlags
<1>7. \A i \in DOMAIN s : i + k > k /\ i + k \in DOMAIN m.intro /\ s[i] = m.intro[i + k]
  <2>1. DOMAIN s = 1 .. Len(s) /\ Len(s) \in Nat /\ k \in Nat
    BY <1>5, LenProperties, IntroTyped
  <2>2. \A i \in DOMAIN s : i + k > k
    BY <2>1
  <2> QED
    BY <1>5, <2>2 DEF Beyond
<1>8. \A n2 \in DOMAIN m.intro : n2 > k => \E i \in DOMAIN s : s[i] = m.intro[n2]
  BY <1>5 DEF Beyond
<1>9. \A r \in Rid : (\E i \in DOMAIN s : s[i].rid = r /\ ~s[i].shadow) <=> Flagged(m, r) /\ r \notin lost
  <2>1. ASSUME NEW r \in Rid
        PROVE  (\E i \in DOMAIN s : s[i].rid = r /\ ~s[i].shadow)
                 <=> \E i \in DOMAIN m.intro : i > k /\ m.intro[i].rid = r /\ ~m.intro[i].shadow
    BY <1>7, <1>8
  <2> QED
    BY <1>6, <2>1
<1>10. /\ Sound(n) /\ Beside(n, m) /\ n.intro = s
       /\ Spared(m) => Spared(n)
  BY <1>3, <1>5, <1>6, <1>9, UnflagSound
<1>11. Among(n.intro, m.intro)
  BY <1>7, <1>10 DEF Among
<1> QED
  BY <1>1, <1>10, <1>11

\* The first k of list made shadows.
Shaded(list, k) == [n \in DOMAIN list |-> IF n <= k THEN [list[n] EXCEPT !.shadow = TRUE] ELSE list[n]]

LEMMA ShadedOrderly ==
  ASSUME NEW list \in Seq(Flag), NEW t, Orderly(list, t), NEW k
  PROVE  /\ Shaded(list, k) \in Seq(Flag) /\ Orderly(Shaded(list, k), t)
         /\ DOMAIN Shaded(list, k) = DOMAIN list /\ Len(Shaded(list, k)) = Len(list)
         /\ \A i \in DOMAIN list : /\ Shaded(list, k)[i].rid = list[i].rid /\ Shaded(list, k)[i].at = list[i].at
                                   /\ i <= k => Shaded(list, k)[i].shadow
                                   /\ ~(i <= k) => Shaded(list, k)[i] = list[i]
<1>1. Len(list) \in Nat /\ DOMAIN list = 1 .. Len(list) /\ \A i \in DOMAIN list : list[i] \in Flag
  BY LenProperties, ElementOfSeq
<1>2. PICK s : s = Shaded(list, k)
  OBVIOUS
<1>3. ASSUME NEW i \in DOMAIN list
      PROVE  /\ s[i] \in Flag /\ s[i].rid = list[i].rid /\ s[i].at = list[i].at
             /\ i <= k => s[i].shadow
             /\ ~(i <= k) => s[i] = list[i]
  <2>1. s[i] = IF i <= k THEN [list[i] EXCEPT !.shadow = TRUE] ELSE list[i]
    BY <1>2 DEF Shaded
  <2>2. CASE i <= k
    <3>1. s[i] = [list[i] EXCEPT !.shadow = TRUE] /\ list[i] \in Flag
      BY <1>1, <2>1, <2>2
    <3>2. s[i] \in Flag /\ s[i].rid = list[i].rid /\ s[i].at = list[i].at /\ s[i].shadow
      BY <3>1 DEF Flag
    <3> QED
      BY <2>2, <3>2
  <2>3. CASE ~(i <= k)
    <3>1. s[i] = list[i]
      BY <2>1, <2>3
    <3> QED
      BY <1>1, <2>3, <3>1
  <2> QED
    BY <2>2, <2>3
<1>4. s \in [1 .. Len(list) -> Flag]
  <2>1. DOMAIN s = DOMAIN list /\ s = [i \in DOMAIN s |-> s[i]]
    BY <1>2 DEF Shaded
  <2> QED
    BY <1>1, <1>3, <2>1
<1>5. s \in Seq(Flag) /\ Len(s) = Len(list) /\ DOMAIN s = DOMAIN list
  BY <1>1, <1>4, SeqDef
<1>6. Orderly(s, t)
  BY <1>3, <1>5 DEF Orderly, Aged
<1> QED
  BY <1>2, <1>3, <1>5, <1>6

\* Flags past their time become shadows, shadows past theirs go.
LEMMA TrimIntroSound ==
  ASSUME NEW m, Sound(m), Clock
  PROVE  /\ Sound(TrimIntro(m)) /\ Beside(TrimIntro(m), m)
         /\ Among(TrimIntro(m).intro, m.intro)
         /\ Spared(m) => Spared(TrimIntro(m))
<1> DEFINE going == {n \in DOMAIN m.intro : now - m.intro[n].at > OwnedTtl}
           dying == {n \in DOMAIN m.intro : now - m.intro[n].at > 2 * OwnedTtl}
<1>1. PICK k, dead : k = Leading(m.intro, going) /\ dead = Leading(m.intro, dying)
  OBVIOUS
<1>2. PICK h, s, lost, n : /\ h = Shaded(m.intro, k) /\ s = SubSeq(h, dead + 1, Len(h))
                           /\ lost = Lost(m.intro, k) /\ n = TrimIntro(m)
  OBVIOUS
<1>3. m \in Book
  BY DEF Sound
<1>4. /\ m.intro \in Seq(Flag) /\ Orderly(m.intro, now)
      /\ Len(m.intro) \in Nat /\ DOMAIN m.intro = 1 .. Len(m.intro)
      /\ \A i \in DOMAIN m.intro : m.intro[i].at \in Nat
  BY IntroTyped
<1>5. n = Unflag([m EXCEPT !.intro = s], lost)
  <2>1. n = Unflag([m EXCEPT !.intro = SubSeq(Shaded(m.intro, k), dead + 1, Len(Shaded(m.intro, k)))], lost)
    BY <1>1, <1>2, Zenon DEF TrimIntro, Lost, Shaded
  <2> QED
    BY <1>2, <2>1, Zenon
<1>6. k \in 0 .. Len(m.intro) /\ k + 1 \notin going
  <2>1. going \subseteq DOMAIN m.intro
    OBVIOUS
  <2> HIDE DEF going
  <2> QED
    BY <1>1, <1>4, <2>1, Leads
<1>7. dead \in 0 .. Len(m.intro) /\ 1 .. dead \subseteq dying
  <2>1. dying \subseteq DOMAIN m.intro
    OBVIOUS
  <2> HIDE DEF dying
  <2> QED
    BY <1>1, <1>4, <2>1, Leads
<1>8. dying \subseteq going
  <2>1. OwnedTtl \in Nat /\ now \in Nat
    BY ParamAssumption DEF Clock
  <2> QED
    BY <1>4, <2>1
<1>9. dead <= k
  <2>1. SUFFICES ASSUME ~(dead <= k) PROVE FALSE
    OBVIOUS
  <2>2. k + 1 \in 1 .. dead
    BY <1>4, <1>6, <1>7, <2>1
  <2> HIDE DEF going, dying
  <2> QED
    BY <1>6, <1>7, <1>8, <2>2
<1> HIDE DEF going, dying
<1>10. /\ h \in Seq(Flag) /\ Orderly(h, now) /\ DOMAIN h = DOMAIN m.intro /\ Len(h) = Len(m.intro)
       /\ \A i \in DOMAIN m.intro : /\ h[i].rid = m.intro[i].rid /\ h[i].at = m.intro[i].at
                                    /\ i <= k => h[i].shadow
                                    /\ ~(i <= k) => h[i] = m.intro[i]
  BY <1>2, <1>4, ShadedOrderly
<1>11. s \in Seq(Flag) /\ Orderly(s, now) /\ Beyond(s, h, dead)
  BY <1>2, <1>7, <1>10, SuffixOrderly, StampedLists
<1>12. /\ lost \subseteq Rid /\ \A r \in lost : Flagged(m, r)
       /\ \A r \in Rid : (\E i \in DOMAIN m.intro : i > k /\ m.intro[i].rid = r /\ ~m.intro[i].shadow)
                           <=> Flagged(m, r) /\ r \notin lost
  BY <1>2, <1>6, LostFlags
<1>13. \A i \in DOMAIN s : i + dead \in DOMAIN m.intro /\ s[i] = h[i + dead]
  BY <1>10, <1>11 DEF Beyond
<1>14. \A j \in DOMAIN m.intro : j > k <=> ~(j <= k)
  BY <1>4, <1>6
<1>15. \A j \in DOMAIN m.intro : j > k => \E i \in DOMAIN s : s[i] = m.intro[j]
  <2>1. \A j \in DOMAIN m.intro : j > k => j > dead
    BY <1>4, <1>6, <1>7, <1>9
  <2>2. \A j \in DOMAIN m.intro : j > dead => \E i \in DOMAIN s : s[i] = h[j]
    BY <1>10, <1>11 DEF Beyond
  <2> QED
    BY <1>10, <1>14, <2>1, <2>2
<1>16. \A r \in Rid : (\E i \in DOMAIN s : s[i].rid = r /\ ~s[i].shadow) <=> Flagged(m, r) /\ r \notin lost
  <2>1. ASSUME NEW r \in Rid
        PROVE  (\E i \in DOMAIN s : s[i].rid = r /\ ~s[i].shadow)
                 <=> \E i \in DOMAIN m.intro : i > k /\ m.intro[i].rid = r /\ ~m.intro[i].shadow
    BY <1>10, <1>13, <1>14, <1>15
  <2> QED
    BY <1>12, <2>1
<1>17. /\ Sound(n) /\ Beside(n, m) /\ n.intro = s
       /\ Spared(m) => Spared(n)
  BY <1>5, <1>11, <1>12, <1>16, UnflagSound
<1>18. Among(n.intro, m.intro)
  BY <1>10, <1>13, <1>17 DEF Among
<1> QED
  BY <1>2, <1>17, <1>18

\* A mailbox that asks for introductions is owned, and has no wake-up token.
LEMMA SetIntroSound ==
  ASSUME NEW m, Sound(m), Clock, NEW r \in Rid, NEW bits \in Bits
  PROVE  /\ Sound(SetIntro(m, r, bits))
         /\ Beside(SetIntro(m, r, bits), [m EXCEPT !.push = @ \ {r}])
         /\ Spared(m) => Spared(SetIntro(m, r, bits))
         /\ Quiet(m, now) => Quiet(SetIntro(m, r, bits), now)
<1>1. PICK t, over : /\ t = TrimIntro(m)
                     /\ over = IF r \in Rids(t.intro) \/ Len(t.intro) < IntroCap THEN 0
                               ELSE Len(t.intro) - IntroCap + 1
  OBVIOUS
<1>2. PICK f, c, flag, s, x, n :
        /\ f = ForgetIntro(t, over) /\ c = ClaimOwner(f, r)
        /\ flag = [rid |-> r, at |-> now, bits |-> bits, shadow |-> FALSE]
        /\ s = Append(Others(c.intro, flag.rid), flag)
        /\ x = [c EXCEPT !.intro = Append(Others(@, r), flag)] /\ n = Unwoken(x, r)
  OBVIOUS
<1>3. n = SetIntro(m, r, bits)
  BY <1>1, <1>2, Zenon DEF SetIntro
<1>4. Sound(t) /\ Beside(t, m) /\ Among(t.intro, m.intro) /\ (Spared(m) => Spared(t))
  BY <1>1, TrimIntroSound
<1>5. over \in 0 .. Len(t.intro)
  <2>1. Len(t.intro) \in Nat /\ IntroCap \in Nat \ {0}
    BY <1>4, IntroTyped, ParamAssumption
  <2> QED
    BY <1>1, <2>1
<1>6. Sound(f) /\ Beside(f, t) /\ Among(f.intro, t.intro) /\ (Spared(t) => Spared(f))
  BY <1>2, <1>4, <1>5, ForgetSound
<1>7. Sound(c) /\ Beside(c, f) /\ c.intro = f.intro /\ r \in Rids(c.owned) /\ (Spared(f) => Spared(c))
  BY <1>2, <1>6, ClaimSound
<1>8. flag \in Flag /\ flag.rid = r /\ flag.at = now /\ now \in Nat
  <2>1. MaxTime \in Nat
    BY ParamAssumption
  <2> QED
    BY <1>2, <2>1 DEF Flag, Clock
<1>9. c.intro \in Seq(Flag) /\ Orderly(c.intro, now)
  BY <1>7, IntroTyped
<1>10. s \in Seq(Flag) /\ Orderly(s, now) /\ Renewed(s, c.intro, flag)
  BY <1>2, <1>8, <1>9, ListedOrderly, StampedLists
<1>11. PICK u : u = c.unowned
  OBVIOUS
<1>12. c \in Book /\ s \in Seq(Flag) /\ u \in Nat /\ x = WithFlags(c, s, u)
  <2>1. c \in Book /\ u \in Nat
    BY <1>7, <1>11 DEF Sound, Book
  <2>2. x = [c EXCEPT !.intro = s]
    BY <1>2, <1>8, <2>1 DEF Book
  <2>3. x = WithFlags(c, s, u)
    BY <1>11, <2>1, <2>2 DEF WithFlags, Book
  <2> QED
    BY <1>10, <2>1, <2>3
<1>13. x \in Book /\ Beside(x, c) /\ x.owned = c.owned /\ x.intro = s /\ x.unowned = u
  BY <1>12, FlagsSet
<1>14. /\ n \in Book /\ n.push = x.push \ {r} /\ n.owned = x.owned /\ n.intro = x.intro
       /\ n.unowned = x.unowned /\ n.queue = x.queue /\ n.bytes = x.bytes /\ n.count = x.count
       /\ n.seen = x.seen /\ n.tokens = x.tokens /\ n.ip = x.ip /\ n.paid = x.paid
  <2>1. n = [x EXCEPT !.push = x.push \ {r}]
    BY <1>2 DEF Unwoken
  <2>2. x.push \ {r} \in SUBSET Rid
    BY <1>13 DEF Book
  <2> QED
    BY <1>13, <2>1, <2>2 DEF Book
<1>15. Sound(n)
  BY <1>7, <1>10, <1>13, <1>14 DEF Sound, Kept, Beside
<1>16. Beside(n, [m EXCEPT !.push = @ \ {r}])
  <2>1. m \in Book
    BY DEF Sound
  <2>2. PICK d : d = [m EXCEPT !.push = @ \ {r}]
    OBVIOUS
  <2>3. /\ d.push = m.push \ {r} /\ d.queue = m.queue /\ d.bytes = m.bytes /\ d.count = m.count
        /\ d.seen = m.seen /\ d.tokens = m.tokens /\ d.ip = m.ip /\ d.paid = m.paid
    BY <2>1, <2>2 DEF Book
  <2> QED
    BY <1>4, <1>6, <1>7, <1>13, <1>14, <2>2, <2>3 DEF Beside
<1>17. ASSUME Spared(c) PROVE Spared(n)
  <2>1. \A p \in Rid : p # r => (Flagged(n, p) <=> Flagged(c, p))
    BY <1>8, <1>10, <1>13, <1>14 DEF Flagged, Renewed
  <2>2. NotOwned(n) = NotOwned(c)
    BY <1>7, <1>13, <1>14, <2>1 DEF NotOwned, Owns
  <2>3. n.unowned = c.unowned /\ n.queue = c.queue
    BY <1>11, <1>13, <1>14 DEF Beside
  <2> QED
    BY <1>17, <2>2, <2>3 DEF Spared, Returned
<1>18. ASSUME Quiet(m, now) PROVE Quiet(n, now)
  <2>1. Quiet(t, now)
    BY <1>4, <1>18, AmongQuiet DEF Beside
  <2>2. Quiet(f, now)
    BY <1>6, <2>1, AmongQuiet DEF Beside
  <2>3. Quiet(c, now)
    BY <1>7, <2>2 DEF Beside, Quiet, Unflagged
  <2>4. n.push = c.push \ {r} /\ n.intro = s
    BY <1>13, <1>14 DEF Beside
  <2>5. \A i \in DOMAIN s : s[i].rid # r => \E j \in DOMAIN c.intro : s[i] = c.intro[j]
    BY <1>8, <1>10 DEF Renewed
  <2> QED
    BY <2>3, <2>4, <2>5 DEF Quiet, Unflagged
<1> QED
  BY <1>3, <1>4, <1>6, <1>7, <1>15, <1>16, <1>17, <1>18

-----------------------------------------------------------------------------
\* What is put into mailboxes and taken out of them.
Lens(m) == [r \in Rid |-> Len(m.queue[r])]

\* Every total is what the queues hold.
Balanced(m) ==
  /\ m.bytes = Returned(m, Rid)
  /\ Spared(m)
  /\ m.count = SumFunctionOnSet(Lens(m), Rid)

LEMMA AccountedIs == Accounted <=> Balanced(this)
<1>1. SumFunction([r \in Rid |-> Len(this.queue[r])]) = SumFunctionOnSet(Lens(this), Rid)
  <2>1. DOMAIN [r \in Rid |-> Len(this.queue[r])] = Rid
    OBVIOUS
  <2> QED
    BY <2>1, Zenon DEF SumFunction, Lens
<1>2. NotOwned(this) = {r \in Rid : ~Owns(this, r)}
  BY DEF NotOwned
<1> QED
  BY <1>1, <1>2, Zenon DEF Accounted, Balanced, Spared, Sum

LEMMA LensNumbers ==
  ASSUME NEW m, m.queue \in [Rid -> Seq(Entry)]
  PROVE  Numbers(Lens(m), Rid)
<1>1. \A r \in Rid : Len(m.queue[r]) \in Nat
  BY LenProperties
<1>2. IsFiniteSet(Rid)
  BY ParamAssumption
<1> QED
  BY <1>1, <1>2 DEF Numbers, Lens

\* One value more, the others as they were.
LEMMA SumGrown ==
  ASSUME NEW f, NEW g, NEW S, Numbers(f, S), NEW e \in S, NEW d \in Nat,
         g[e] = f[e] + d, \A x \in S : x # e => g[x] = f[x]
  PROVE  SumFunctionOnSet(g, S) = SumFunctionOnSet(f, S) + d
<1>1. PICK R : R = S \ {e}
  OBVIOUS
<1>2. f[e] \in Nat /\ \A x \in S : f[x] \in Nat
  BY DEF Numbers
<1>3. Numbers(g, S) /\ Numbers(f, R)
  <2>1. \A x \in S : g[x] \in Nat
    BY <1>2
  <2> QED
    BY <1>1, <2>1, NumbersPart DEF Numbers
<1>4. SumFunctionOnSet(f, S) = f[e] + SumFunctionOnSet(f, R)
  BY <1>1, SumRemove
<1>5. SumFunctionOnSet(g, S) = g[e] + SumFunctionOnSet(g, R)
  BY <1>1, <1>3, SumRemove
<1>6. SumFunctionOnSet(f, R) = SumFunctionOnSet(g, R)
  <2>1. \A x \in R : f[x] = g[x]
    BY <1>1
  <2> QED
    BY <1>3, <2>1, SumEqual
<1>7. SumFunctionOnSet(f, R) \in Nat
  BY <1>3, SumPick
<1> QED
  BY <1>2, <1>4, <1>5, <1>6, <1>7

\* A mailbox that got one entry more.
Longer(n, m, r, y) == n.queue = [m.queue EXCEPT ![r] = Append(m.queue[r], y)]

LEMMA ReturnedGrown ==
  ASSUME NEW m, m.queue \in [Rid -> Seq(Entry)], NEW r \in Rid, NEW y \in Entry,
         NEW n, Longer(n, m, r, y)
  PROVE  /\ n.queue \in [Rid -> Seq(Entry)]
         /\ \A A \in SUBSET Rid : r \in A => Returned(n, A) = Returned(m, A) + Size(y)
         /\ \A A \in SUBSET Rid : r \notin A => Returned(n, A) = Returned(m, A)
         /\ SumFunctionOnSet(Lens(n), Rid) = SumFunctionOnSet(Lens(m), Rid) + 1
<1>1. /\ n.queue \in [Rid -> Seq(Entry)]
      /\ n.queue[r] = Append(m.queue[r], y) /\ \A p \in Rid : p # r => n.queue[p] = m.queue[p]
  <2>1. Append(m.queue[r], y) \in Seq(Entry)
    BY AppendProperties
  <2> QED
    BY <2>1 DEF Longer
<1>2. QBytes(n.queue[r]) = QBytes(m.queue[r]) + Size(y) /\ Size(y) \in Nat
  BY <1>1, QBytesAppend, SizeNat
<1>3. Len(n.queue[r]) = Len(m.queue[r]) + 1
  BY <1>1, AppendProperties
<1>4. PICK f, g : f = [p \in Rid |-> QBytes(m.queue[p])] /\ g = [p \in Rid |-> QBytes(n.queue[p])]
  OBVIOUS
<1>5. ASSUME NEW A \in SUBSET Rid
      PROVE  /\ Returned(n, A) = SumFunctionOnSet(g, A) /\ Returned(m, A) = SumFunctionOnSet(f, A)
             /\ Numbers(f, A)
  BY <1>4, ReturnedIs DEF Returned
<1>6. g[r] = f[r] + Size(y) /\ \A p \in Rid : p # r => g[p] = f[p]
  BY <1>1, <1>2, <1>4
<1>7. ASSUME NEW A \in SUBSET Rid, r \in A
      PROVE  Returned(n, A) = Returned(m, A) + Size(y)
  BY <1>2, <1>5, <1>6, <1>7, SumGrown
<1>8. ASSUME NEW A \in SUBSET Rid, r \notin A
      PROVE  Returned(n, A) = Returned(m, A)
  <2>1. \A p \in A : f[p] = g[p]
    BY <1>6, <1>8
  <2> QED
    BY <1>5, <2>1, SumEqual
<1>9. SumFunctionOnSet(Lens(n), Rid) = SumFunctionOnSet(Lens(m), Rid) + 1
  <2>1. PICK h, i : h = Lens(m) /\ i = Lens(n)
    OBVIOUS
  <2>2. i[r] = h[r] + 1 /\ \A p \in Rid : p # r => i[p] = h[p]
    BY <1>1, <1>3, <2>1 DEF Lens
  <2>3. Numbers(h, Rid)
    BY <2>1, LensNumbers
  <2> QED
    BY <2>1, <2>2, <2>3, SumGrown
<1> QED
  BY <1>1, <1>7, <1>8, <1>9

\* n is m but for what is queued and the totals.
Elsewhere(n, m) ==
  /\ n.owned = m.owned /\ n.intro = m.intro /\ n.seen = m.seen /\ n.tokens = m.tokens
  /\ n.ip = m.ip /\ n.push = m.push /\ n.paid = m.paid

\* Taking out.
WithQueues(m, q, b, u, c) == [m EXCEPT !.queue = q, !.bytes = b, !.unowned = u, !.count = c]

IsWith(n, m, q, b, u, c) ==
  n \in Book /\ Elsewhere(n, m) /\ n.queue = q /\ n.bytes = b /\ n.unowned = u /\ n.count = c

LEMMA QueuesSet ==
  ASSUME NEW m \in Book, NEW q \in [Rid -> Seq(Entry)], NEW b \in Nat, NEW u \in Nat, NEW c \in Nat
  PROVE  IsWith(WithQueues(m, q, b, u, c), m, q, b, u, c)
<1>1. PICK n : n = WithQueues(m, q, b, u, c)
  OBVIOUS
<1>2. n \in Book
  BY <1>1 DEF Book, WithQueues
<1>3. n.queue = q /\ n.bytes = b /\ n.unowned = u /\ n.count = c
  BY <1>1 DEF Book, WithQueues
<1>4. Elsewhere(n, m)
  BY <1>1 DEF Book, WithQueues, Elsewhere
<1> QED
  BY <1>1, <1>2, <1>3, <1>4 DEF IsWith

\* What stays in a mailbox.
Stay(m, rids, gone, r) == {n \in DOMAIN m.queue[r] : r \notin rids \/ m.queue[r][n] \notin gone}

LEMMA LeftIs ==
  ASSUME NEW m, m.queue \in [Rid -> Seq(Entry)], NEW rids, NEW gone
  PROVE  /\ Left(m, rids, gone) \in [Rid -> Seq(Entry)]
         /\ \A r \in Rid :
              /\ ToSet(Left(m, rids, gone)[r]) = {x \in ToSet(m.queue[r]) : r \notin rids \/ x \notin gone}
              /\ QBytes(Left(m, rids, gone)[r]) <= QBytes(m.queue[r])
              /\ Len(Left(m, rids, gone)[r]) <= Len(m.queue[r])
<1>1. PICK q : q = Left(m, rids, gone)
  OBVIOUS
<1>2. ASSUME NEW r \in Rid
      PROVE  /\ q[r] \in Seq(Entry)
             /\ ToSet(q[r]) = {x \in ToSet(m.queue[r]) : r \notin rids \/ x \notin gone}
             /\ QBytes(q[r]) <= QBytes(m.queue[r])
             /\ Len(q[r]) <= Len(m.queue[r])
  <2>1. PICK l, T : l = m.queue[r] /\ T = Stay(m, rids, gone, r)
    OBVIOUS
  <2>2. q[r] = Only(l, T)
    BY <1>1, <2>1 DEF Left, Stay
  <2>3. l \in Seq(Entry) /\ T \subseteq DOMAIN l
    BY <2>1 DEF Stay
  <2>4. Only(l, T) \in Seq(Entry) /\ Len(Only(l, T)) = Cardinality(T) /\ Cardinality(T) \in 0 .. Len(l)
    BY <2>3, OnlyKeeps
  <2>5. ToSet(Only(l, T)) = {l[n] : n \in T} /\ QBytes(Only(l, T)) <= QBytes(l)
    BY <2>3, OnlyMembers, QBytesOnly
  <2>6. Len(l) \in Nat
    BY <2>3, LenProperties
  <2>7. {l[n] : n \in T} = {x \in ToSet(l) : r \notin rids \/ x \notin gone}
    BY <2>1 DEF Stay, ToSet
  <2> QED
    BY <2>1, <2>2, <2>4, <2>5, <2>6, <2>7
<1>3. q \in [Rid -> Seq(Entry)]
  <2>1. DOMAIN q = Rid /\ q = [r \in DOMAIN q |-> q[r]]
    BY <1>1 DEF Left
  <2> QED
    BY <1>2, <2>1
<1> QED
  BY <1>1, <1>2, <1>3

\* What was taken out, taken off the total.
LEMMA SumTaken ==
  ASSUME NEW f, NEW g, NEW d, NEW S, Numbers(f, S), Numbers(g, S),
         \A x \in S : g[x] <= f[x] /\ d[x] = f[x] - g[x]
  PROVE  /\ Numbers(d, S)
         /\ Minus(SumFunctionOnSet(f, S), SumFunctionOnSet(d, S)) = SumFunctionOnSet(g, S)
<1>1. \A x \in S : d[x] \in Nat /\ f[x] = g[x] + d[x]
  BY DEF Numbers
<1>2. Numbers(d, S)
  BY <1>1 DEF Numbers
<1>3. SumFunctionOnSet(f, S) = SumFunctionOnSet(g, S) + SumFunctionOnSet(d, S)
  BY <1>1, <1>2, SumAdd
<1>4. SumFunctionOnSet(g, S) \in Nat /\ SumFunctionOnSet(d, S) \in Nat
  BY <1>2, SumPick
<1> QED
  BY <1>2, <1>3, <1>4, Saturating

\* Entries leave, and every total with them.
LEMMA FreedSound ==
  ASSUME NEW m, Sound(m), NEW rids, NEW gone
  PROVE  /\ Sound(Freed(m, rids, gone)) /\ Elsewhere(Freed(m, rids, gone), m)
         /\ Freed(m, rids, gone).queue = Left(m, rids, gone)
         /\ Balanced(m) => Balanced(Freed(m, rids, gone))
<1>1. PICK q, d, e, n :
        /\ q = Left(m, rids, gone) /\ d = [r \in Rid |-> QBytes(m.queue[r]) - QBytes(q[r])]
        /\ e = [r \in Rid |-> Len(m.queue[r]) - Len(q[r])]
        /\ n = Freed(m, rids, gone)
  OBVIOUS
<1>2. PICK b, u, c :
        /\ b = Minus(m.bytes, SumFunctionOnSet(d, Rid)) /\ u = Minus(m.unowned, SumFunctionOnSet(d, NotOwned(m)))
        /\ c = Minus(m.count, SumFunctionOnSet(e, Rid))
  OBVIOUS
<1>3. /\ m \in Book /\ m.queue \in [Rid -> Seq(Entry)]
      /\ m.bytes \in Nat /\ m.unowned \in Nat /\ m.count \in Nat
  BY DEF Sound, Book
<1>4. n = WithQueues(m, q, b, u, c)
  <2>1. DOMAIN d = Rid /\ DOMAIN e = Rid
    BY <1>1
  <2>2. SumFunction(d) = SumFunctionOnSet(d, Rid) /\ SumFunction(e) = SumFunctionOnSet(e, Rid)
    BY <2>1, Zenon DEF SumFunction
  <2>3. n = [m EXCEPT !.queue = q, !.bytes = Minus(@, SumFunction(d)),
                      !.unowned = Minus(@, SumFunctionOnSet(d, NotOwned(m))),
                      !.count = Minus(@, SumFunction(e))]
    BY <1>1, Zenon DEF Freed, NotOwned
  <2>4. n = [m EXCEPT !.queue = q, !.bytes = Minus(m.bytes, SumFunction(d)),
                      !.unowned = Minus(m.unowned, SumFunctionOnSet(d, NotOwned(m))),
                      !.count = Minus(m.count, SumFunction(e))]
    BY <1>3, <2>3 DEF Book
  <2> QED
    BY <1>2, <2>2, <2>4 DEF WithQueues
<1>5. /\ q \in [Rid -> Seq(Entry)]
      /\ \A r \in Rid : QBytes(q[r]) <= QBytes(m.queue[r]) /\ Len(q[r]) <= Len(m.queue[r])
  BY <1>1, <1>3, LeftIs
<1>6. PICK f, g, h, i, o : /\ f = [r \in Rid |-> QBytes(m.queue[r])] /\ g = [r \in Rid |-> QBytes(q[r])]
                           /\ h = Lens(m) /\ o = [queue |-> q] /\ i = Lens(o)
  OBVIOUS
<1>7. o.queue = q /\ o.queue \in [Rid -> Seq(Entry)]
  BY <1>5, <1>6
<1>8. ASSUME NEW A \in SUBSET Rid
      PROVE  Numbers(f, A) /\ Numbers(g, A) /\ Returned(m, A) = SumFunctionOnSet(f, A)
             /\ Returned(o, A) = SumFunctionOnSet(g, A)
  <2>1. Numbers(f, A) /\ Returned(m, A) = SumFunctionOnSet(f, A)
    BY <1>3, <1>6, ReturnedIs DEF Returned
  <2>2. g = [r \in Rid |-> QBytes(o.queue[r])]
    BY <1>6, <1>7
  <2>3. Numbers(g, A) /\ Returned(o, A) = SumFunctionOnSet(g, A)
    BY <1>7, <2>2, ReturnedIs DEF Returned
  <2> QED
    BY <2>1, <2>3
<1>9. ASSUME NEW A \in SUBSET Rid
      PROVE  /\ Numbers(d, A)
             /\ Minus(SumFunctionOnSet(f, A), SumFunctionOnSet(d, A)) = SumFunctionOnSet(g, A)
  <2>1. \A r \in A : g[r] <= f[r] /\ d[r] = f[r] - g[r]
    BY <1>1, <1>5, <1>6
  <2> QED
    BY <1>8, <2>1, SumTaken
<1>10. /\ Numbers(e, Rid)
       /\ Minus(SumFunctionOnSet(h, Rid), SumFunctionOnSet(e, Rid)) = SumFunctionOnSet(i, Rid)
  <2>1. Numbers(h, Rid) /\ Numbers(i, Rid)
    BY <1>3, <1>6, <1>7, LensNumbers
  <2>2. \A r \in Rid : i[r] <= h[r] /\ e[r] = h[r] - i[r]
    BY <1>1, <1>5, <1>6, <1>7 DEF Lens
  <2> QED
    BY <2>1, <2>2, SumTaken
<1>11. NotOwned(m) \in SUBSET Rid /\ Rid \in SUBSET Rid
  BY DEF NotOwned
<1>12. b \in Nat /\ u \in Nat /\ c \in Nat
  <2>1. Numbers(d, Rid) /\ Numbers(d, NotOwned(m))
    BY <1>9, <1>11
  <2>2. /\ SumFunctionOnSet(d, Rid) \in Nat /\ SumFunctionOnSet(d, NotOwned(m)) \in Nat
        /\ SumFunctionOnSet(e, Rid) \in Nat
    BY <1>10, <2>1, SumPick
  <2> QED
    BY <1>2, <1>3, <2>2, Saturating
<1>13. n \in Book /\ Elsewhere(n, m) /\ n.queue = q /\ n.bytes = b /\ n.unowned = u /\ n.count = c
  <2>1. m \in Book /\ q \in [Rid -> Seq(Entry)] /\ b \in Nat /\ u \in Nat /\ c \in Nat /\ n = WithQueues(m, q, b, u, c)
    BY <1>3, <1>4, <1>5, <1>12
  <2> QED
    <3>1. IsWith(n, m, q, b, u, c)
      BY <2>1, QueuesSet, Zenon
    <3> QED
      BY <3>1 DEF IsWith
<1>14. Sound(n)
  BY <1>13 DEF Sound, Kept, Elsewhere
<1>15. ASSUME Balanced(m) PROVE Balanced(n)
  <2>1. NotOwned(n) = NotOwned(m)
    BY <1>13 DEF NotOwned, Owns, Flagged, Elsewhere
  <2>2. \A A \in SUBSET Rid : Returned(n, A) = SumFunctionOnSet(g, A)
    <3>1. g = [r \in Rid |-> QBytes(n.queue[r])]
      BY <1>6, <1>13
    <3> QED
      BY <3>1 DEF Returned
  <2>3. Lens(n) = i
    BY <1>6, <1>7, <1>13 DEF Lens
  <2>4. b = Returned(n, Rid)
    BY <1>2, <1>8, <1>9, <1>11, <1>15, <2>2 DEF Balanced
  <2>5. u = Returned(n, NotOwned(m))
    BY <1>2, <1>8, <1>9, <1>11, <1>15, <2>2 DEF Balanced, Spared
  <2>6. c = SumFunctionOnSet(Lens(n), Rid)
    BY <1>2, <1>6, <1>10, <1>15, <2>3 DEF Balanced
  <2> QED
    BY <1>13, <2>1, <2>4, <2>5, <2>6 DEF Balanced, Spared
<1> QED
  BY <1>1, <1>13, <1>14, <1>15

\* Seen again: at the end, the one longest unseen out if that is one too many.
LEMMA Touched ==
  ASSUME NEW m \in Book, Orderly(m.seen, now), Clock, NEW r \in Rid
  PROVE  \E s \in Seq(Owner) :
           /\ Orderly(s, now) /\ Rids(s) \subseteq Rids(m.seen) \cup {r}
           /\ Touch(m, r) = [m EXCEPT !.seen = s]
<1>1. PICK l : l = Listed(m.seen, r)
  OBVIOUS
<1>2. m.seen \in Seq(Owner)
  BY DEF Book
<1>3. l \in Seq(Owner) /\ Orderly(l, now) /\ Rids(l) = Rids(m.seen) \cup {r} /\ Len(l) # 0
  BY <1>1, <1>2, OwnerListed
<1>4. PICK s : s = IF Len(l) > SeenCap THEN Tail(l) ELSE l
  OBVIOUS
<1>5. Touch(m, r) = [m EXCEPT !.seen = s]
  BY <1>1, <1>4 DEF Touch
<1>6. CASE Len(l) > SeenCap
  <2>1. Len(l) \in Nat /\ l # <<>>
    BY <1>3, LenProperties, EmptySeq
  <2>2. s = SubSeq(l, 1 + 1, Len(l))
    BY <1>3, <1>4, <1>6, <2>1, TailIsSubSeq
  <2>3. 1 \in 0 .. Len(l)
    BY <1>3, <2>1
  <2>4. s \in Seq(Owner) /\ Orderly(s, now) /\ Beyond(s, l, 1)
    BY <1>3, <2>2, <2>3, SuffixOrderly, StampedLists
  <2>5. Rids(s) \subseteq Rids(l)
    BY <2>4 DEF Beyond, Rids
  <2> QED
    BY <1>3, <1>5, <2>4, <2>5
<1>7. CASE ~(Len(l) > SeenCap)
  <2>1. s = l
    BY <1>4, <1>7
  <2> QED
    BY <1>3, <1>5, <2>1
<1> QED
  BY <1>6, <1>7

\* The first slot that is free.
Slot(m, r, x) == CHOOSE k \in 0 .. IdSlots : k \notin SlotsTaken(m, r, x) /\ 0 .. k - 1 \subseteq SlotsTaken(m, r, x)

LEMMA SlotFree ==
  ASSUME NEW m, NEW r, NEW x, ~(0 .. IdSlots \subseteq SlotsTaken(m, r, x))
  PROVE  Slot(m, r, x) \in 0 .. IdSlots
<1> DEFINE Open == {k \in 0 .. IdSlots : k \notin SlotsTaken(m, r, x)}
<1>1. PICK k \in Open : \A j \in Open : k <= j
  <2>1. Open \subseteq Nat /\ Open # {}
    OBVIOUS
  <2> HIDE DEF Open
  <2> QED
    BY <2>1, Smallest, Zenon
<1>2. 0 .. k - 1 \subseteq SlotsTaken(m, r, x)
  <2>1. SUFFICES ASSUME NEW j \in 0 .. k - 1, j \notin SlotsTaken(m, r, x) PROVE FALSE
    OBVIOUS
  <2>2. IdSlots \in Nat
    BY ParamAssumption
  <2>3. j \in Open /\ ~(k <= j)
    BY <1>1, <2>1, <2>2
  <2> QED
    BY <1>1, <2>3
<1>3. \E j \in 0 .. IdSlots : j \notin SlotsTaken(m, r, x) /\ 0 .. j - 1 \subseteq SlotsTaken(m, r, x)
  BY <1>1, <1>2
<1> QED
  BY <1>3, Zenon DEF Slot

\* A token for a new mailbox: nothing else changes.
LEMMA ChargedIs ==
  ASSUME NEW m \in Book, NEW r \in Rid, NEW x
  PROVE  \E t \in Nat, p \in SUBSET Rid :
           /\ Charged(m, r, x) = [m EXCEPT !.tokens = t, !.paid = p] /\ m.paid \subseteq p
           /\ ~Known(m, r) /\ m.queue[r] = <<>> /\ m.tokens # 0 /\ ~OverUnowned(m, r, x) => r \in p
<1>1. m.tokens \in Nat /\ m.paid \subseteq Rid
  BY DEF Book
<1>2. CASE Known(m, r) \/ m.queue[r] # <<>> \/ m.tokens = 0 \/ OverUnowned(m, r, x)
  <2>1. Charged(m, r, x) = m
    BY <1>2, Zenon DEF Charged
  <2>2. m = [m EXCEPT !.tokens = m.tokens, !.paid = m.paid]
    BY DEF Book
  <2> QED
    BY <1>1, <1>2, <2>1, <2>2, Zenon
<1>3. CASE ~(Known(m, r) \/ m.queue[r] # <<>> \/ m.tokens = 0 \/ OverUnowned(m, r, x))
  <2>1. Charged(m, r, x) = [m EXCEPT !.tokens = @ - 1, !.paid = @ \cup {r}]
    BY <1>3, Zenon DEF Charged
  <2>2. PICK t, p : t = m.tokens - 1 /\ p = m.paid \cup {r}
    OBVIOUS
  <2>3. Charged(m, r, x) = [m EXCEPT !.tokens = t, !.paid = p]
    BY <2>1, <2>2 DEF Book
  <2>4. t \in Nat /\ p \in SUBSET Rid /\ m.paid \subseteq p /\ r \in p
    BY <1>1, <1>3, <2>2
  <2> QED
    BY <2>3, <2>4
<1> QED
  BY <1>2, <1>3

\* n is m with y queued for r, the totals charged, and r seen.
Put(n, m, r, y) ==
  /\ Longer(n, m, r, y)
  /\ n.bytes = m.bytes + Size(y) /\ n.count = m.count + 1
  /\ n.unowned = IF Owns(m, r) THEN m.unowned ELSE m.unowned + Size(y)
  /\ n.seen \in Seq(Owner) /\ Orderly(n.seen, now) /\ Rids(n.seen) \subseteq Rids(m.seen) \cup {r}

\* What no send changes.
Beneath(n, m) == n.owned = m.owned /\ n.intro = m.intro /\ n.push = m.push /\ n.ip = m.ip /\ m.paid \subseteq n.paid

\* A refusal or a retry: at most a token spent.
LEMMA EnqueueNot ==
  ASSUME NEW m, Sound(m), NEW r \in Rid, NEW x, Verdict(m, r, x) # "new"
  PROVE  /\ Enqueue(m, r, x) \in Book /\ Beneath(Enqueue(m, r, x), m)
         /\ Enqueue(m, r, x).queue = m.queue /\ Enqueue(m, r, x).bytes = m.bytes
         /\ Enqueue(m, r, x).count = m.count /\ Enqueue(m, r, x).unowned = m.unowned
         /\ Enqueue(m, r, x).seen = m.seen
<1>1. m \in Book
  BY DEF Sound
<1>2. Enqueue(m, r, x) = Charged(m, r, x)
  BY Zenon DEF Enqueue, Refused
<1>3. PICK t \in Nat, p \in SUBSET Rid : Charged(m, r, x) = [m EXCEPT !.tokens = t, !.paid = p] /\ m.paid \subseteq p
  BY <1>1, ChargedIs
<1>4. PICK n : n = Enqueue(m, r, x)
  OBVIOUS
<1>5. n = [m EXCEPT !.tokens = t, !.paid = p]
  BY <1>2, <1>3, <1>4
<1>6. n \in Book
  BY <1>1, <1>5 DEF Book
<1>7. n.queue = m.queue /\ n.bytes = m.bytes /\ n.count = m.count /\ n.unowned = m.unowned /\ n.seen = m.seen
  BY <1>1, <1>5 DEF Book
<1>8. n.owned = m.owned /\ n.intro = m.intro /\ n.push = m.push /\ n.ip = m.ip /\ n.paid = p
  BY <1>1, <1>5 DEF Book
<1> QED
  BY <1>3, <1>4, <1>6, <1>7, <1>8 DEF Beneath

\* A new entry.
LEMMA EnqueueNew ==
  ASSUME NEW m, Sound(m), Clock, NEW r \in Rid, NEW x \in Entry, Verdict(m, r, x) = "new"
  PROVE  \E y \in Entry :
           /\ y.kind = x.kind /\ y.env = x.env /\ y.ph = x.ph
           /\ Put(Enqueue(m, r, x), m, r, y) /\ Enqueue(m, r, x) \in Book /\ Beneath(Enqueue(m, r, x), m)
           /\ Known(m, r) \/ m.queue[r] # <<>> \/ r \in Enqueue(m, r, x).paid
<1>1. m \in Book /\ Orderly(m.seen, now) /\ m.queue \in [Rid -> Seq(Entry)]
  BY DEF Sound, Kept, Book
<1>2. ~(0 .. IdSlots \subseteq SlotsTaken(m, r, x)) /\ ~OverUnowned(m, r, x)
      /\ ~(~Known(m, r) /\ m.queue[r] = <<>> /\ m.tokens = 0)
  BY Zenon DEF Verdict
<1>3. PICK slot : slot = Slot(m, r, x)
  OBVIOUS
<1>4. slot \in 0 .. IdSlots
  BY <1>2, <1>3, SlotFree
<1>5. PICK y : y = [x EXCEPT !.slot = slot]
  OBVIOUS
<1>6. y \in Entry /\ y.kind = x.kind /\ y.env = x.env /\ y.ph = x.ph
  BY <1>4, <1>5 DEF Entry
<1>7. Size(y) = Size(x) /\ Size(y) \in Nat
  BY <1>6, SizeNat DEF Size
<1>8. PICK t \in Nat, p \in SUBSET Rid :
        /\ Charged(m, r, x) = [m EXCEPT !.tokens = t, !.paid = p] /\ m.paid \subseteq p
        /\ ~Known(m, r) /\ m.queue[r] = <<>> /\ m.tokens # 0 /\ ~OverUnowned(m, r, x) => r \in p
  BY <1>1, ChargedIs
<1>9. PICK c, q, u, b, k, d :
        /\ c = [m EXCEPT !.tokens = t, !.paid = p]
        /\ q = [m.queue EXCEPT ![r] = Append(m.queue[r], y)]
        /\ u = IF Owns(m, r) THEN m.unowned ELSE m.unowned + Size(x)
        /\ b = m.bytes + Size(x) /\ k = m.count + 1
        /\ d = [c EXCEPT !.queue[r] = Append(@, y),
                         !.bytes = @ + Size(x), !.count = @ + 1,
                         !.unowned = IF Owns(m, r) THEN @ ELSE @ + Size(x)]
  OBVIOUS
<1>10. Enqueue(m, r, x) = Touch(d, r)
  BY <1>3, <1>5, <1>8, <1>9, Zenon DEF Enqueue, Slot
<1>11. d = [m EXCEPT !.tokens = t, !.paid = p, !.queue = q, !.bytes = b, !.count = k, !.unowned = u]
  <2>1. c.queue = m.queue /\ c.bytes = m.bytes /\ c.count = m.count /\ c.unowned = m.unowned
    BY <1>1, <1>9 DEF Book
  <2> QED
    BY <1>1, <1>9, <2>1 DEF Book
<1>12. q \in [Rid -> Seq(Entry)] /\ b \in Nat /\ k \in Nat /\ u \in Nat
  <2>1. m.unowned \in Nat /\ m.bytes \in Nat /\ m.count \in Nat
    BY <1>1 DEF Book
  <2>2. Append(m.queue[r], y) \in Seq(Entry)
    BY <1>1, <1>6, AppendProperties
  <2>3. b \in Nat /\ k \in Nat
    BY <1>7, <1>9, <2>1
  <2>4. u \in Nat
    BY <1>7, <1>9, <2>1
  <2> QED
    BY <1>1, <1>9, <2>2, <2>3, <2>4
<1>13. d \in Book
  BY <1>1, <1>8, <1>11, <1>12 DEF Book
<1>14. d.queue = q /\ d.bytes = b /\ d.count = k /\ d.unowned = u /\ d.paid = p /\ d.seen = m.seen
  BY <1>1, <1>11 DEF Book
<1>15. d.owned = m.owned /\ d.intro = m.intro /\ d.push = m.push /\ d.ip = m.ip
  BY <1>1, <1>11 DEF Book
<1>16. PICK s \in Seq(Owner) : /\ Orderly(s, now) /\ Rids(s) \subseteq Rids(m.seen) \cup {r}
                               /\ Touch(d, r) = [d EXCEPT !.seen = s]
  <2>1. \E s \in Seq(Owner) : /\ Orderly(s, now) /\ Rids(s) \subseteq Rids(d.seen) \cup {r}
                              /\ Touch(d, r) = [d EXCEPT !.seen = s]
    BY <1>1, <1>13, <1>14, Touched
  <2> QED
    BY <1>14, <2>1
<1>17. PICK n : n = Enqueue(m, r, x)
  OBVIOUS
<1>18. n = [d EXCEPT !.seen = s]
  BY <1>10, <1>16, <1>17
<1>19. n \in Book /\ n.seen = s
  BY <1>13, <1>18 DEF Book
<1>20. n.queue = q /\ n.bytes = b /\ n.count = k /\ n.unowned = u /\ n.paid = p
  BY <1>13, <1>14, <1>18 DEF Book
<1>21. n.owned = m.owned /\ n.intro = m.intro /\ n.push = m.push /\ n.ip = m.ip
  BY <1>13, <1>15, <1>18 DEF Book
<1>22. Put(n, m, r, y)
  <2>1. b = m.bytes + Size(y) /\ u = IF Owns(m, r) THEN m.unowned ELSE m.unowned + Size(y)
    BY <1>7, <1>9
  <2> QED
    BY <1>9, <1>16, <1>19, <1>20, <2>1 DEF Put, Longer
<1>23. Beneath(n, m)
  BY <1>8, <1>20, <1>21 DEF Beneath
<1>24. Known(m, r) \/ m.queue[r] # <<>> \/ r \in n.paid
  BY <1>2, <1>8, <1>20
<1> QED
  BY <1>6, <1>17, <1>19, <1>22, <1>23, <1>24

LEMMA AppendMembers ==
  ASSUME NEW S, NEW q \in Seq(S), NEW y \in S
  PROVE  ToSet(Append(q, y)) = ToSet(q) \cup {y} /\ Append(q, y) \in Seq(S)
<1>1. PICK a, l : a = Append(q, y) /\ l = Len(q) + 1
  OBVIOUS
<1>2. /\ a \in Seq(S) /\ Len(a) = l /\ Len(q) \in Nat /\ DOMAIN q = 1 .. Len(q)
      /\ \A n \in 1 .. Len(q) : a[n] = q[n]
      /\ a[l] = y
  BY <1>1, AppendProperties, LenProperties
<1>3. DOMAIN a = 1 .. l
  BY <1>2, LenProperties
<1>4. \A n \in DOMAIN a : n \in DOMAIN q \/ n = l
  BY <1>1, <1>2, <1>3
<1>5. DOMAIN q \subseteq DOMAIN a /\ l \in DOMAIN a
  BY <1>1, <1>2, <1>3
<1> QED
  BY <1>1, <1>2, <1>4, <1>5 DEF ToSet

\* The mailboxes grow by what is new, at r alone.
Grown(n, m, r, x) ==
  \/ n.queue = m.queue
  \/ \E y \in Entry : /\ y.kind = x.kind /\ y.env = x.env /\ y.ph = x.ph
                      /\ ToSet(n.queue[r]) = ToSet(m.queue[r]) \cup {y}
                      /\ \A p \in Rid : p # r => n.queue[p] = m.queue[p]

LEMMA EnqueueSound ==
  ASSUME NEW m, Sound(m), Clock, NEW r \in Rid, NEW x \in Entry
  PROVE  /\ Sound(Enqueue(m, r, x)) /\ Beneath(Enqueue(m, r, x), m)
         /\ Grown(Enqueue(m, r, x), m, r, x)
         /\ Paid(m) => Paid(Enqueue(m, r, x))
         /\ Balanced(m) => Balanced(Enqueue(m, r, x))
         /\ Verdict(m, r, x) = "new" =>
              \E y \in ToSet(Enqueue(m, r, x).queue[r]) : y.kind = x.kind /\ y.env = x.env
<1>1. PICK n : n = Enqueue(m, r, x)
  OBVIOUS
<1>2. /\ m \in Book /\ Orderly(m.owned, now) /\ Orderly(m.intro, now) /\ Orderly(m.seen, now)
      /\ m.queue \in [Rid -> Seq(Entry)]
  BY DEF Sound, Kept, Book
<1>3. CASE Verdict(m, r, x) # "new"
  <2>1. /\ n \in Book /\ Beneath(n, m) /\ n.queue = m.queue /\ n.bytes = m.bytes
        /\ n.count = m.count /\ n.unowned = m.unowned /\ n.seen = m.seen
    BY <1>1, <1>3, EnqueueNot
  <2>2. Sound(n)
    BY <1>2, <2>1 DEF Sound, Kept, Beneath
  <2>3. Paid(m) => Paid(n)
    BY <2>1 DEF Paid, Beneath
  <2>4. NotOwned(n) = NotOwned(m)
    BY <2>1 DEF NotOwned, Owns, Flagged, Beneath
  <2>5. Balanced(m) => Balanced(n)
    BY <2>1, <2>4 DEF Balanced, Spared, Returned, Lens
  <2> QED
    BY <1>1, <1>3, <2>1, <2>2, <2>3, <2>5 DEF Grown
<1>4. CASE Verdict(m, r, x) = "new"
  <2>1. PICK y \in Entry : /\ y.kind = x.kind /\ y.env = x.env /\ y.ph = x.ph
                           /\ Put(n, m, r, y) /\ n \in Book /\ Beneath(n, m)
                           /\ Known(m, r) \/ m.queue[r] # <<>> \/ r \in n.paid
    BY <1>1, <1>4, EnqueueNew
  <2>2. Sound(n)
    BY <1>2, <2>1 DEF Sound, Kept, Beneath, Put
  <2>3. n.queue[r] = Append(m.queue[r], y) /\ \A p \in Rid : p # r => n.queue[p] = m.queue[p]
    BY <1>2, <2>1 DEF Put, Longer
  <2>4. ToSet(n.queue[r]) = ToSet(m.queue[r]) \cup {y}
    BY <1>2, <2>1, <2>3, AppendMembers
  <2>5. Grown(n, m, r, x)
    BY <2>1, <2>3, <2>4 DEF Grown
  <2>6. ASSUME Paid(m) PROVE Paid(n)
    <3>1. \A p \in Rid : p # r => (n.queue[p] # <<>> \/ p \in Rids(n.seen) => p \in m.paid)
      BY <2>1, <2>3, <2>6 DEF Put, Paid
    <3>2. m.paid \subseteq n.paid
      BY <2>1 DEF Beneath
    <3>3. r \in n.paid
      <4>1. Known(m, r) => r \in Rids(m.seen)
        BY DEF Known, Rids
      <4> QED
        BY <2>1, <2>6, <3>2, <4>1 DEF Paid
    <3> QED
      BY <3>1, <3>2, <3>3 DEF Paid
  <2>7. ASSUME Balanced(m) PROVE Balanced(n)
    <3>1. m.queue \in [Rid -> Seq(Entry)] /\ r \in Rid /\ y \in Entry /\ Longer(n, m, r, y)
      BY <1>2, <2>1 DEF Put
    <3>2. /\ \A A \in SUBSET Rid : r \in A => Returned(n, A) = Returned(m, A) + Size(y)
          /\ \A A \in SUBSET Rid : r \notin A => Returned(n, A) = Returned(m, A)
          /\ SumFunctionOnSet(Lens(n), Rid) = SumFunctionOnSet(Lens(m), Rid) + 1
      BY <3>1, ReturnedGrown
    <3>3. NotOwned(n) = NotOwned(m) /\ NotOwned(m) \in SUBSET Rid /\ (r \in NotOwned(m) <=> ~Owns(m, r))
      BY <2>1 DEF NotOwned, Owns, Flagged, Beneath
    <3>4. n.bytes = Returned(n, Rid) /\ n.count = SumFunctionOnSet(Lens(n), Rid)
      BY <2>1, <2>7, <3>2 DEF Put, Balanced
    <3>5. n.unowned = Returned(n, NotOwned(n))
      BY <2>1, <2>7, <3>2, <3>3 DEF Put, Balanced, Spared
    <3> QED
      BY <3>4, <3>5 DEF Balanced, Spared
  <2> QED
    BY <1>1, <2>1, <2>2, <2>4, <2>5, <2>6, <2>7
<1> QED
  BY <1>3, <1>4

-----------------------------------------------------------------------------
\* What sequences have after their changes.
LEMMA ConcatMembers ==
  ASSUME NEW S, NEW p \in Seq(S), NEW q \in Seq(S)
  PROVE  ToSet(p \o q) = ToSet(p) \cup ToSet(q) /\ p \o q \in Seq(S)
<1>1. PICK c, j, k : c = p \o q /\ j = Len(p) /\ k = Len(q)
  OBVIOUS
<1>2. /\ c \in Seq(S) /\ Len(c) = j + k /\ j \in Nat /\ k \in Nat
      /\ \A i \in 1 .. j + k : c[i] = IF i <= j THEN p[i] ELSE q[i - j]
      /\ DOMAIN p = 1 .. j /\ DOMAIN q = 1 .. k
  BY <1>1, ConcatProperties, LenProperties
<1>3. DOMAIN c = 1 .. j + k
  BY <1>2, LenProperties
<1>4. \A i \in 1 .. j + k : \/ i \in 1 .. j /\ c[i] = p[i]
                            \/ i - j \in 1 .. k /\ c[i] = q[i - j]
  BY <1>2
<1>5. \A i \in 1 .. j : i \in 1 .. j + k /\ c[i] = p[i]
  BY <1>2
<1>6. \A i \in 1 .. k : i + j \in 1 .. j + k /\ c[i + j] = q[i]
  <2>1. ASSUME NEW i \in 1 .. k PROVE i + j \in 1 .. j + k /\ c[i + j] = q[i]
    <3>1. i + j \in 1 .. j + k /\ ~(i + j <= j) /\ i + j - j = i
      BY <1>2
    <3> QED
      BY <1>2, <3>1
  <2> QED
    BY <2>1
<1>7. ToSet(c) \subseteq ToSet(p) \cup ToSet(q)
  BY <1>2, <1>3, <1>4 DEF ToSet
<1>8. ToSet(p) \subseteq ToSet(c) /\ ToSet(q) \subseteq ToSet(c)
  <2>1. \A i \in DOMAIN p : p[i] \in ToSet(c)
    BY <1>2, <1>3, <1>5 DEF ToSet
  <2>2. \A i \in DOMAIN q : q[i] \in ToSet(c)
    BY <1>2, <1>3, <1>6 DEF ToSet
  <2> QED
    BY <2>1, <2>2 DEF ToSet
<1> QED
  BY <1>1, <1>2, <1>7, <1>8

LEMMA HeadMembers ==
  ASSUME NEW S, NEW q \in Seq(S), q # <<>>
  PROVE  Head(q) \in S /\ Tail(q) \in Seq(S) /\ ToSet(q) = {Head(q)} \cup ToSet(Tail(q))
<1>1. Len(q) \in Nat \ {0}
  BY EmptySeq
<1>2. PICK s, l : s = Tail(q) /\ l = Len(q)
  OBVIOUS
<1>3. /\ Head(q) \in S /\ s \in Seq(S) /\ Len(s) = l - 1 /\ \A i \in 1 .. Len(s) : s[i] = q[i + 1]
      /\ DOMAIN q = 1 .. l
  BY <1>2, HeadTailProperties, LenProperties
<1>4. l \in Nat \ {0} /\ DOMAIN s = 1 .. l - 1
  BY <1>1, <1>2, <1>3, LenProperties
<1>5. Head(q) = q[1] /\ 1 \in DOMAIN q
  BY <1>3, <1>4 DEF Head
<1>6. \A i \in DOMAIN q : i = 1 \/ (i - 1 \in DOMAIN s /\ s[i - 1] = q[i])
  <2>1. ASSUME NEW i \in DOMAIN q, i # 1 PROVE i - 1 \in DOMAIN s /\ s[i - 1] = q[i]
    <3>1. i - 1 \in 1 .. l - 1 /\ i - 1 + 1 = i
      BY <1>3, <1>4, <2>1
    <3> QED
      BY <1>3, <1>4, <3>1
  <2> QED
    BY <2>1
<1>7. \A i \in DOMAIN s : i + 1 \in DOMAIN q /\ s[i] = q[i + 1]
  BY <1>3, <1>4
<1>8. ToSet(q) \subseteq {q[1]} \cup ToSet(s)
  BY <1>6 DEF ToSet
<1>9. {q[1]} \cup ToSet(s) \subseteq ToSet(q)
  BY <1>5, <1>7 DEF ToSet
<1> QED
  BY <1>2, <1>3, <1>5, <1>8, <1>9

LEMMA SeqMembers ==
  ASSUME NEW S, NEW q \in Seq(S)
  PROVE  ToSet(q) \subseteq S /\ (q # <<>> <=> ToSet(q) # {})
<1>1. DOMAIN q = 1 .. Len(q) /\ \A n \in 1 .. Len(q) : q[n] \in S
  BY LenProperties, ElementOfSeq
<1>2. q # <<>> => 1 \in DOMAIN q
  BY <1>1, EmptySeq
<1>3. q = <<>> => ToSet(q) = {}
  <2>1. ASSUME q = <<>> PROVE DOMAIN q = {}
    BY <1>1, <2>1, EmptySeq
  <2> QED
    BY <2>1 DEF ToSet
<1> QED
  BY <1>1, <1>2, <1>3 DEF ToSet

LEMMA EmptyMembers == ToSet(<<>>) = {}
<1>1. <<>> \in Seq({})
  BY EmptySeq
<1> QED
  BY <1>1, SeqMembers

-----------------------------------------------------------------------------
\* A page and what comes after it: what is still queued is in one of them.
Live(m, r, todo) == {n \in DOMAIN todo : todo[n] \in ToSet(m.queue[r])}

\* Past the first of them: the page is full and ends before.
LEMMA PageFull ==
  ASSUME NEW len \in Nat, NEW live, live \subseteq 1 .. len, NEW n \in live,
         ~(Rank(live, n) <= FlushPage), NEW page, page = {k \in live : Rank(live, k) <= FlushPage}
  PROVE  ~(Cardinality(page) < FlushPage) /\ page # {} /\ \A k \in page : k < n
<1>1. FlushPage \in Nat \ {0}
  BY ParamAssumption
<1>2. /\ IsFiniteSet(live) /\ Cardinality(live) \in Nat
      /\ \A k \in live : k \in Nat /\ Rank(live, k) \in 1 .. Cardinality(live)
      /\ \A j, k \in live : j < k => Rank(live, j) < Rank(live, k)
  <2>1. \A k \in live : k \in Nat
    OBVIOUS
  <2>2. /\ IsFiniteSet(live) /\ Cardinality(live) \in 0 .. len
        /\ \A k \in live : Rank(live, k) \in 1 .. Cardinality(live)
        /\ \A j, k \in live : j < k => Rank(live, j) < Rank(live, k)
    BY Ranks
  <2> QED
    BY <2>1, <2>2
<1>3. ASSUME NEW k \in page PROVE k < n
  <2>1. k \in live /\ Rank(live, k) <= FlushPage
    BY <1>3
  <2>2. SUFFICES ASSUME ~(k < n) PROVE FALSE
    OBVIOUS
  <2>3. k \in Nat /\ n \in Nat /\ Rank(live, k) \in Nat /\ Rank(live, n) \in Nat
    BY <1>2, <2>1
  <2>4. n < k \/ n = k
    BY <2>2, <2>3
  <2>5. Rank(live, n) <= Rank(live, k)
    BY <1>2, <2>1, <2>3, <2>4
  <2> QED
    BY <1>1, <2>1, <2>3, <2>5
<1>4. \A k \in 1 .. FlushPage : Place(live, k) \in live /\ Rank(live, Place(live, k)) = k
  <2>1. \A k \in 1 .. FlushPage : k \in 1 .. Cardinality(live)
    BY <1>1, <1>2
  <2> QED
    BY <2>1, Places
<1>5. \A k \in 1 .. FlushPage : Place(live, k) \in page
  BY <1>1, <1>4
<1> DEFINE f == [k \in 1 .. FlushPage |-> Place(live, k)]
<1>6. f \in Injection(1 .. FlushPage, page)
  <2>1. f \in [1 .. FlushPage -> page]
    BY <1>5
  <2>2. \A j, k \in 1 .. FlushPage : f[j] = f[k] => j = k
    <3>1. \A k \in 1 .. FlushPage : f[k] = Place(live, k)
      OBVIOUS
    <3> HIDE DEF f
    <3> QED
      BY <1>4, <3>1
  <2> QED
    BY <2>1, <2>2 DEF Injection, IsInjective
<1>7. IsFiniteSet(page) /\ page \subseteq live
  BY <1>2, FS_Subset
<1>8. Cardinality(1 .. FlushPage) = FlushPage
  BY <1>1, FS_Interval
<1>9. Cardinality(1 .. FlushPage) <= Cardinality(page) /\ Cardinality(page) \in Nat
  <2> HIDE DEF f
  <2> QED
    BY <1>6, <1>7, FS_Injection, FS_CardinalityType
<1>10. page # {}
  BY <1>1, <1>5
<1> QED
  BY <1>1, <1>3, <1>8, <1>9, <1>10

LEMMA PageIs ==
  ASSUME NEW m, NEW r, NEW todo \in Seq(Entry)
  PROVE  /\ PageOf(m, r, todo) \in Seq(Entry) /\ AfterPage(m, r, todo) \in Seq(Entry)
         /\ ToSet(PageOf(m, r, todo)) \subseteq ToSet(todo) \cap ToSet(m.queue[r])
         /\ ToSet(AfterPage(m, r, todo)) \subseteq ToSet(todo)
         /\ \A x \in ToSet(todo) \cap ToSet(m.queue[r]) :
              x \in ToSet(PageOf(m, r, todo)) \/ x \in ToSet(AfterPage(m, r, todo))
<1>1. PICK live, page, s : live = Live(m, r, todo) /\ page = Paged(m, r, todo) /\ s = AfterPage(m, r, todo)
  OBVIOUS
<1>2. PICK len : len = Len(todo)
  OBVIOUS
<1>3. len \in Nat /\ DOMAIN todo = 1 .. len
  BY <1>2, LenProperties
<1>4. live \subseteq 1 .. len /\ page \subseteq live /\ page = {k \in live : Rank(live, k) <= FlushPage}
  BY <1>1, <1>3 DEF Live, Paged, Rank
<1>5. PageOf(m, r, todo) \in Seq(Entry) /\ ToSet(PageOf(m, r, todo)) = {todo[n] : n \in page}
  <2>1. page \subseteq DOMAIN todo
    BY <1>3, <1>4
  <2> QED
    BY <1>1, <2>1, OnlyKeeps, OnlyMembers DEF PageOf
<1>6. ToSet(PageOf(m, r, todo)) \subseteq ToSet(todo) \cap ToSet(m.queue[r])
  BY <1>1, <1>4, <1>5 DEF Live, ToSet
<1>7. CASE Cardinality(page) < FlushPage
  <2>1. s = <<>> /\ s \in Seq(Entry) /\ ToSet(s) = {}
    BY <1>1, <1>7, EmptySeq, EmptyMembers, Zenon DEF AfterPage
  <2>2. \A n \in live : Rank(live, n) <= FlushPage
    BY <1>3, <1>4, <1>7, PageFull
  <2>3. \A x \in ToSet(todo) \cap ToSet(m.queue[r]) : x \in ToSet(PageOf(m, r, todo))
    BY <1>1, <1>4, <1>5, <2>2 DEF Live, ToSet
  <2> QED
    BY <1>1, <1>5, <1>6, <2>1, <2>3
<1>8. CASE ~(Cardinality(page) < FlushPage)
  <2>1. PICK k : k = Max(page)
    OBVIOUS
  <2>2. s = SubSeq(todo, k + 1, Len(todo))
    BY <1>1, <1>8, <2>1, Zenon DEF AfterPage
  <2>3. page # {}
    <3>1. Cardinality({}) = 0 /\ FlushPage \in Nat \ {0}
      BY FS_EmptySet, ParamAssumption
    <3>2. 0 < FlushPage
      BY <3>1
    <3>3. page = {} => Cardinality(page) < FlushPage
      BY <3>1, <3>2, Zenon
    <3> QED
      BY <1>8, <3>3
  <2>4. k \in page
    BY <1>3, <1>4, <2>1, <2>3, Greatest
  <2>5. k \in 0 .. Len(todo)
    BY <1>2, <1>3, <1>4, <2>4
  <2>6. s \in Seq(Entry) /\ Beyond(s, todo, k)
    BY <2>2, <2>5, SuffixIs
  <2>7. ToSet(s) \subseteq ToSet(todo)
    BY <2>6 DEF Beyond, ToSet
  <2>8. ASSUME NEW n \in live, n \notin page PROVE todo[n] \in ToSet(s)
    <3>1. ~(Rank(live, n) <= FlushPage)
      BY <1>4, <2>8
    <3>2. k < n /\ n \in DOMAIN todo
      BY <1>3, <1>4, <2>4, <3>1, PageFull
    <3>3. n > k
      BY <1>3, <1>4, <2>4, <3>2
    <3>4. PICK i \in DOMAIN s : i + k = n
      BY <2>6, <3>2, <3>3 DEF Beyond
    <3> QED
      BY <2>6, <3>4 DEF Beyond, ToSet
  <2>9. \A x \in ToSet(todo) \cap ToSet(m.queue[r]) : x \in ToSet(PageOf(m, r, todo)) \/ x \in ToSet(s)
    BY <1>1, <1>4, <1>5, <2>8 DEF Live, ToSet
  <2> QED
    BY <1>1, <1>5, <1>6, <2>6, <2>7, <2>9
<1> QED
  BY <1>7, <1>8

-----------------------------------------------------------------------------
\* The coordinator's part of the invariant, and what keeps it.
Well(m, t) == m \in Book /\ Kept(m, t) /\ Paid(m) /\ Quiet(m, t) /\ Balanced(m)

NetTyped ==
  /\ now \in 0 .. MaxTime
  /\ online \subseteq Rid
  /\ flush \in [Rid -> Seq(Entry)] /\ wire \in [Rid -> Seq(Entry)] /\ acks \in [Rid -> Seq(Env)]
  /\ sent \cup got \cup lapsed \subseteq Env

LEMMA InvParts ==
  Inv <=> /\ Well(this, now) /\ NetTyped
          /\ Addressed /\ AcksTrue /\ Carried /\ Earned /\ Secured
BY AccountedIs, Zenon DEF Inv, Types, Lists, Well, NetTyped

LEMMA WellSound ==
  ASSUME NEW m, Well(m, now)
  PROVE  Sound(m) /\ m.queue \in [Rid -> Seq(Entry)]
BY DEF Well, Sound, Book

\* Nothing about the mailboxes changes when only owners and flags do.
LEMMA WellBeside ==
  ASSUME NEW m, Well(m, now), NEW n, Sound(n), Beside(n, m), Spared(n), Quiet(n, now)
  PROVE  Well(n, now)
<1>1. Paid(n)
  BY DEF Well, Paid, Beside
<1>2. Returned(n, Rid) = Returned(m, Rid) /\ Lens(n) = Lens(m)
  BY DEF Beside, Returned, Lens
<1>3. Balanced(n)
  BY <1>2 DEF Well, Beside, Balanced
<1> QED
  BY <1>1, <1>3 DEF Well, Sound

LEMMA ClaimWell ==
  ASSUME NEW m, Well(m, now), Clock, NEW r \in Rid
  PROVE  Well(ClaimOwner(m, r), now) /\ ClaimOwner(m, r).queue = m.queue
<1>1. PICK n : n = ClaimOwner(m, r)
  OBVIOUS
<1>2. Sound(m) /\ Spared(m) /\ Quiet(m, now)
  BY WellSound DEF Well, Balanced
<1>3. Sound(n) /\ Beside(n, m) /\ n.intro = m.intro /\ Spared(n)
  BY <1>1, <1>2, ClaimSound
<1>4. Quiet(n, now)
  BY <1>2, <1>3 DEF Quiet, Unflagged, Beside
<1>5. Well(n, now)
  BY <1>3, <1>4, WellBeside
<1> QED
  BY <1>1, <1>3, <1>5 DEF Beside

LEMMA TrimsWell ==
  ASSUME NEW m, Well(m, now), Clock
  PROVE  Well(TrimIntro(TrimOwned(m)), now) /\ TrimIntro(TrimOwned(m)).queue = m.queue
<1>1. PICK o, n : o = TrimOwned(m) /\ n = TrimIntro(o)
  OBVIOUS
<1>2. Sound(m) /\ Spared(m) /\ Quiet(m, now)
  BY WellSound DEF Well, Balanced
<1>3. Sound(o) /\ Beside(o, m) /\ o.intro = m.intro /\ Spared(o)
  BY <1>1, <1>2, TrimOwnedSound
<1>4. Quiet(o, now)
  BY <1>2, <1>3 DEF Quiet, Unflagged, Beside
<1>5. Sound(n) /\ Beside(n, o) /\ Among(n.intro, o.intro) /\ Spared(n)
  BY <1>1, <1>3, TrimIntroSound
<1>6. Quiet(n, now)
  BY <1>4, <1>5, AmongQuiet DEF Beside
<1>7. Well(o, now)
  BY <1>3, <1>4, WellBeside
<1>8. Well(n, now)
  BY <1>5, <1>6, <1>7, WellBeside
<1> QED
  BY <1>1, <1>3, <1>5, <1>8 DEF Beside

LEMMA SetIntroWell ==
  ASSUME NEW m, Well(m, now), Clock, NEW r \in Rid, NEW bits \in Bits
  PROVE  Well(SetIntro(m, r, bits), now) /\ SetIntro(m, r, bits).queue = m.queue
<1>1. PICK l, n : l = [m EXCEPT !.push = @ \ {r}] /\ n = SetIntro(m, r, bits)
  OBVIOUS
<1>2. Sound(m) /\ Spared(m) /\ Quiet(m, now) /\ m \in Book
  BY WellSound DEF Well, Balanced
<1>3. Sound(n) /\ Beside(n, l) /\ Spared(n) /\ Quiet(n, now)
  BY <1>1, <1>2, SetIntroSound
<1>4. /\ l \in Book /\ l.push = m.push \ {r} /\ l.queue = m.queue /\ l.bytes = m.bytes /\ l.count = m.count
      /\ l.unowned = m.unowned /\ l.owned = m.owned /\ l.intro = m.intro /\ l.seen = m.seen /\ l.paid = m.paid
  BY <1>1, <1>2 DEF Book
<1>5. Well(l, now)
  <2>1. Kept(l, now) /\ Paid(l) /\ Quiet(l, now)
    BY <1>4 DEF Well, Kept, Paid, Quiet, Unflagged
  <2>2. NotOwned(l) = NotOwned(m) /\ Lens(l) = Lens(m) /\ \A A : Returned(l, A) = Returned(m, A)
    BY <1>4 DEF NotOwned, Owns, Flagged, Lens, Returned
  <2>3. Balanced(l)
    BY <1>4, <2>2 DEF Well, Balanced, Spared
  <2> QED
    BY <1>4, <2>1, <2>3 DEF Well
<1>6. Well(n, now)
  BY <1>3, <1>5, WellBeside
<1> QED
  BY <1>1, <1>3, <1>4, <1>6 DEF Beside

LEMMA FreedWell ==
  ASSUME NEW m, Well(m, now), NEW rids, NEW gone
  PROVE  /\ Well(Freed(m, rids, gone), now)
         /\ \A r \in Rid : ToSet(Freed(m, rids, gone).queue[r]) =
                             {x \in ToSet(m.queue[r]) : r \notin rids \/ x \notin gone}
<1>1. PICK n : n = Freed(m, rids, gone)
  OBVIOUS
<1>2. Sound(m) /\ m.queue \in [Rid -> Seq(Entry)] /\ Balanced(m)
  BY WellSound DEF Well
<1>3. Sound(n) /\ Elsewhere(n, m) /\ n.queue = Left(m, rids, gone) /\ Balanced(n)
  BY <1>1, <1>2, FreedSound
<1>4. /\ n.queue \in [Rid -> Seq(Entry)]
      /\ \A r \in Rid : ToSet(n.queue[r]) = {x \in ToSet(m.queue[r]) : r \notin rids \/ x \notin gone}
  <2>1. PICK q : q = Left(m, rids, gone)
    OBVIOUS
  <2>2. /\ q \in [Rid -> Seq(Entry)]
        /\ \A r \in Rid : ToSet(q[r]) = {x \in ToSet(m.queue[r]) : r \notin rids \/ x \notin gone}
    BY <1>2, <2>1, LeftIs
  <2> QED
    BY <1>3, <2>1, <2>2
<1>5. ASSUME NEW r \in Rid, n.queue[r] # <<>> PROVE m.queue[r] # <<>>
  <2>1. n.queue[r] \in Seq(Entry) /\ m.queue[r] \in Seq(Entry)
    BY <1>2, <1>4
  <2>2. ToSet(n.queue[r]) # {} /\ ToSet(n.queue[r]) \subseteq ToSet(m.queue[r])
    BY <1>4, <1>5, <2>1, SeqMembers
  <2> QED
    BY <2>1, <2>2, SeqMembers
<1>6. Paid(n)
  BY <1>3, <1>5 DEF Well, Paid, Elsewhere
<1>7. Quiet(n, now)
  BY <1>3 DEF Well, Quiet, Unflagged, Elsewhere
<1>8. Well(n, now)
  BY <1>3, <1>6, <1>7 DEF Well, Sound
<1> QED
  BY <1>1, <1>4, <1>8

LEMMA EnqueueWell ==
  ASSUME NEW m, Well(m, now), Clock, NEW r \in Rid, NEW x \in Entry
  PROVE  Well(Enqueue(m, r, x), now)
<1>1. PICK n : n = Enqueue(m, r, x)
  OBVIOUS
<1>2. Sound(m) /\ Paid(m) /\ Balanced(m)
  BY WellSound DEF Well
<1>3. Sound(n) /\ Beneath(n, m) /\ Paid(n) /\ Balanced(n)
  BY <1>1, <1>2, EnqueueSound
<1>4. Quiet(n, now)
  BY <1>3 DEF Well, Quiet, Unflagged, Beneath
<1> QED
  BY <1>1, <1>3, <1>4 DEF Well, Sound

\* What the other calls set.
LEMMA BudgetWell ==
  ASSUME NEW m, Well(m, now), NEW i \in Nat
  PROVE  Well([m EXCEPT !.ip = i], now) /\ [m EXCEPT !.ip = i].queue = m.queue
<1>1. PICK n : n = [m EXCEPT !.ip = i]
  OBVIOUS
<1>2. m \in Book
  BY DEF Well
<1>3. /\ n \in Book /\ n.push = m.push /\ n.queue = m.queue /\ n.bytes = m.bytes /\ n.count = m.count
      /\ n.unowned = m.unowned /\ n.owned = m.owned /\ n.intro = m.intro /\ n.seen = m.seen /\ n.paid = m.paid
  BY <1>1, <1>2 DEF Book
<1>4. Kept(n, now) /\ Paid(n) /\ Quiet(n, now)
  BY <1>3 DEF Well, Kept, Paid, Quiet, Unflagged
<1>5. NotOwned(n) = NotOwned(m) /\ Lens(n) = Lens(m) /\ \A A : Returned(n, A) = Returned(m, A)
  BY <1>3 DEF NotOwned, Owns, Flagged, Lens, Returned
<1>6. Balanced(n)
  BY <1>3, <1>5 DEF Well, Balanced, Spared
<1> QED
  BY <1>1, <1>3, <1>4, <1>6 DEF Well

\* A mailbox without a difficulty has no flag or shadow that counts.
LEMMA NoBits ==
  ASSUME NEW m \in Book, Clock, NEW r
  PROVE  IntroBits(m, r) = 0 <=> Unflagged(m, r, now)
<1>1. PICK held : held = {n \in DOMAIN m.intro : m.intro[n].rid = r /\ now - m.intro[n].at <= 2 * OwnedTtl}
  OBVIOUS
<1>2. IntroBits(m, r) = IF held = {} THEN 0 ELSE m.intro[CHOOSE n \in held : TRUE].bits
  BY <1>1 DEF IntroBits
<1>3. \A n \in DOMAIN m.intro : m.intro[n].bits \in Nat \ {0} /\ m.intro[n].at \in Nat
  <2>1. m.intro \in Seq(Flag)
    BY DEF Book
  <2>2. \A n \in DOMAIN m.intro : m.intro[n] \in Flag
    BY <2>1, LenProperties, ElementOfSeq
  <2>3. Bits \subseteq Nat \ {0}
    BY ParamAssumption
  <2>4. \A n \in DOMAIN m.intro : m.intro[n].at \in Nat
    BY <2>2, StampedLists DEF Stamped
  <2> QED
    BY <2>2, <2>3, <2>4 DEF Flag
<1>4. held # {} => IntroBits(m, r) # 0
  <2>1. ASSUME held # {} PROVE (CHOOSE n \in held : TRUE) \in DOMAIN m.intro
    BY <1>1, <2>1
  <2> QED
    BY <1>2, <1>3, <2>1
<1>5. IntroBits(m, r) = 0 <=> held = {}
  BY <1>2, <1>4
<1>6. held = {} <=> Unflagged(m, r, now)
  <2>1. now \in Nat /\ OwnedTtl \in Nat
    BY ParamAssumption DEF Clock
  <2>2. \A n \in DOMAIN m.intro : now - m.intro[n].at > 2 * OwnedTtl <=> ~(now - m.intro[n].at <= 2 * OwnedTtl)
    BY <1>3, <2>1
  <2> QED
    BY <1>1, <2>2 DEF Unflagged
<1> QED
  BY <1>5, <1>6

LEMMA PushWell ==
  ASSUME NEW m, Well(m, now), Clock, NEW r \in Rid, IntroBits(m, r) = 0
  PROVE  Well([m EXCEPT !.push = @ \cup {r}], now) /\ [m EXCEPT !.push = @ \cup {r}].queue = m.queue
<1>1. PICK n : n = [m EXCEPT !.push = @ \cup {r}]
  OBVIOUS
<1>2. m \in Book
  BY DEF Well
<1>3. /\ n \in Book /\ n.push = m.push \cup {r} /\ n.queue = m.queue /\ n.bytes = m.bytes /\ n.count = m.count
      /\ n.unowned = m.unowned /\ n.owned = m.owned /\ n.intro = m.intro /\ n.seen = m.seen /\ n.paid = m.paid
  BY <1>1, <1>2 DEF Book
<1>4. Unflagged(m, r, now)
  BY <1>2, NoBits
<1>5. Kept(n, now) /\ Paid(n) /\ Quiet(n, now)
  BY <1>3, <1>4 DEF Well, Kept, Paid, Quiet, Unflagged
<1>6. NotOwned(n) = NotOwned(m) /\ Lens(n) = Lens(m) /\ \A A : Returned(n, A) = Returned(m, A)
  BY <1>3 DEF NotOwned, Owns, Flagged, Lens, Returned
<1>7. Balanced(n)
  BY <1>3, <1>6 DEF Well, Balanced, Spared
<1> QED
  BY <1>1, <1>3, <1>5, <1>7 DEF Well

\* Time goes by.
LEMMA TickWell ==
  ASSUME NEW m, Well(m, now), Clock
  PROVE  Well([m EXCEPT !.tokens = NewMailboxPerMin, !.ip = 0], now + 1)
         /\ [m EXCEPT !.tokens = NewMailboxPerMin, !.ip = 0].queue = m.queue
<1>1. PICK n : n = [m EXCEPT !.tokens = NewMailboxPerMin, !.ip = 0]
  OBVIOUS
<1>2. m \in Book /\ NewMailboxPerMin \in Nat
  BY ParamAssumption DEF Well
<1>3. /\ n \in Book /\ n.push = m.push /\ n.queue = m.queue /\ n.bytes = m.bytes /\ n.count = m.count
      /\ n.unowned = m.unowned /\ n.owned = m.owned /\ n.intro = m.intro /\ n.seen = m.seen /\ n.paid = m.paid
  BY <1>1, <1>2 DEF Book
<1>4. now \in Nat /\ OwnedTtl \in Nat
  BY ParamAssumption DEF Clock
<1>5. /\ \A j \in DOMAIN m.owned : m.owned[j].at \in Nat
      /\ \A j \in DOMAIN m.intro : m.intro[j].at \in Nat
      /\ \A j \in DOMAIN m.seen : m.seen[j].at \in Nat
  <2>1. m.owned \in Seq(Owner) /\ m.intro \in Seq(Flag) /\ m.seen \in Seq(Owner)
    BY <1>2 DEF Book
  <2>2. /\ \A j \in DOMAIN m.owned : m.owned[j] \in Owner
        /\ \A j \in DOMAIN m.intro : m.intro[j] \in Flag
        /\ \A j \in DOMAIN m.seen : m.seen[j] \in Owner
    BY <2>1, LenProperties, ElementOfSeq
  <2> QED
    BY <2>2, StampedLists DEF Stamped
<1>6. Kept(n, now + 1)
  <2>1. \A a \in Nat : a <= now => a <= now + 1
    BY <1>4
  <2>2. Orderly(m.owned, now + 1)
    BY <1>5, <2>1 DEF Well, Kept, Orderly
  <2>3. Orderly(m.intro, now + 1)
    BY <1>5, <2>1 DEF Well, Kept, Orderly
  <2>4. Orderly(m.seen, now + 1)
    BY <1>5, <2>1 DEF Well, Kept, Orderly
  <2> QED
    BY <1>3, <2>2, <2>3, <2>4 DEF Kept
<1>7. Paid(n)
  BY <1>3 DEF Well, Paid
<1>8. Quiet(n, now + 1)
  <2>1. ASSUME NEW j \in DOMAIN m.intro, now - m.intro[j].at > 2 * OwnedTtl
        PROVE  now + 1 - m.intro[j].at > 2 * OwnedTtl
    <3>1. m.intro[j].at \in Nat
      BY <1>5
    <3> QED
      BY <1>4, <2>1, <3>1
  <2>2. \A r \in m.push : \A j \in DOMAIN m.intro : m.intro[j].rid = r => now - m.intro[j].at > 2 * OwnedTtl
    BY DEF Well, Quiet, Unflagged
  <2>3. PICK u : u = now + 1
    OBVIOUS
  <2>4. \A j \in DOMAIN m.intro : now - m.intro[j].at > 2 * OwnedTtl => u - m.intro[j].at > 2 * OwnedTtl
    BY <1>4, <1>5, <2>1, <2>3
  <2>5. \A r \in m.push : \A j \in DOMAIN m.intro : m.intro[j].rid = r => u - m.intro[j].at > 2 * OwnedTtl
    BY <2>2, <2>4, Zenon
  <2>6. Quiet(n, u)
    BY <1>3, <2>5, Zenon DEF Quiet, Unflagged
  <2> QED
    BY <2>3, <2>6
<1>9. NotOwned(n) = NotOwned(m) /\ Lens(n) = Lens(m) /\ \A A : Returned(n, A) = Returned(m, A)
  BY <1>3 DEF NotOwned, Owns, Flagged, Lens, Returned
<1>10. Balanced(n)
  BY <1>3, <1>9 DEF Well, Balanced, Spared
<1> QED
  BY <1>1, <1>3, <1>6, <1>7, <1>8, <1>10 DEF Well

-----------------------------------------------------------------------------
\* The step of each action.
LEMMA InvNext ==
  ASSUME Well(this', now'), NetTyped', Addressed', AcksTrue', Carried', Earned', Secured'
  PROVE  Inv'
<1>1. Well(this, now)'
  OBVIOUS
<1> QED
  BY <1>1, InvParts, PTL

\* The envelope an entry holds is the one with its id, sender and recipient.
LEMMA OneEnvelope ==
  ASSUME OwnIds, NEW x \in Entry, NEW y, y.kind = "msg", y.env \in Env, Base(x) = Base(y), Mail(x, y.env.to)
  PROVE  x.kind = "msg" /\ x.env = y.env
<1>1. x.kind = "msg" /\ x.env.id = y.env.id /\ x.env.from = y.env.from
  BY DEF Base
<1>2. x.env \in Env /\ x.env.to = y.env.to
  BY <1>1 DEF Mail, Entry
<1> QED
  BY <1>1, <1>2 DEF OwnIds

LEMMA LoseInv ==
  ASSUME Inv, NEW r \in Rid, Lose(r)
  PROVE  Inv'
<1>1. Well(this, now) /\ NetTyped /\ Addressed /\ AcksTrue /\ Carried /\ Earned /\ Secured
  BY InvParts
<1>2. /\ this' = this /\ now' = now /\ online' = online \ {r}
      /\ sent' = sent /\ got' = got /\ lapsed' = lapsed
      /\ wire' = [wire EXCEPT ![r] = <<>>] /\ acks' = [acks EXCEPT ![r] = <<>>]
      /\ flush' = [flush EXCEPT ![r] = <<>>]
  BY DEF Lose, told
<1>3. Well(this', now')
  BY <1>1, <1>2
<1>4. NetTyped'
  <2>1. <<>> \in Seq(Entry) /\ <<>> \in Seq(Env)
    BY EmptySeq
  <2> QED
    BY <1>1, <1>2, <2>1 DEF NetTyped
<1>5. /\ \A p \in Rid : p # r => wire'[p] = wire[p] /\ flush'[p] = flush[p] /\ acks'[p] = acks[p]
      /\ ToSet(wire'[r]) = {} /\ ToSet(flush'[r]) = {} /\ ToSet(acks'[r]) = {}
  BY <1>1, <1>2, EmptyMembers DEF NetTyped
<1>6. Addressed'
  BY <1>1, <1>2, <1>5 DEF Addressed
<1>7. AcksTrue'
  BY <1>1, <1>2, <1>5 DEF AcksTrue
<1>8. Earned'
  BY <1>1, <1>2, <1>5 DEF Earned, ReceiptsTrue
<1>9. Carried'
  BY <1>1, <1>2, <1>5 DEF Carried, NetTyped
<1>10. Secured'
  BY <1>1, <1>2 DEF Secured, HeldUntilGot, Queued
<1> QED
  BY <1>3, <1>4, <1>6, <1>7, <1>8, <1>9, <1>10, InvNext

LEMMA AckDroppedInv ==
  ASSUME Inv, NEW r \in Rid, AckDropped(r)
  PROVE  Inv'
<1>1. Well(this, now) /\ NetTyped /\ Addressed /\ AcksTrue /\ Carried /\ Earned /\ Secured
  BY InvParts
<1>2. /\ this' = this /\ now' = now /\ online' = online /\ flush' = flush /\ wire' = wire
      /\ sent' = sent /\ got' = got /\ lapsed' = lapsed
      /\ acks[r] # <<>> /\ acks' = [acks EXCEPT ![r] = Tail(acks[r])]
  BY DEF AckDropped, told
<1>3. Well(this', now')
  BY <1>1, <1>2
<1>4. acks[r] \in Seq(Env)
  BY <1>1 DEF NetTyped
<1>5. Tail(acks[r]) \in Seq(Env) /\ ToSet(Tail(acks[r])) \subseteq ToSet(acks[r])
  BY <1>2, <1>4, HeadMembers
<1>6. NetTyped'
  BY <1>1, <1>2, <1>5 DEF NetTyped
<1>7. \A p \in Rid : ToSet(acks'[p]) \subseteq ToSet(acks[p])
  BY <1>1, <1>2, <1>5 DEF NetTyped
<1>8. AcksTrue'
  BY <1>1, <1>2, <1>7 DEF AcksTrue
<1>9. Addressed' /\ Earned' /\ Carried' /\ Secured'
  BY <1>1, <1>2 DEF Addressed, Earned, ReceiptsTrue, Carried, Secured, HeldUntilGot, Queued
<1> QED
  BY <1>3, <1>6, <1>8, <1>9, InvNext

LEMMA ReadInv ==
  ASSUME Inv, NEW r \in Rid, Read(r)
  PROVE  Inv'
<1>1. Well(this, now) /\ NetTyped /\ Addressed /\ AcksTrue /\ Carried /\ Earned /\ Secured
  BY InvParts
<1>2. PICK x, l : x = Head(wire[r]) /\ l = Tail(wire[r])
  OBVIOUS
<1>3. /\ this' = this /\ now' = now /\ online' = online /\ flush' = flush
      /\ sent' = sent /\ lapsed' = lapsed
      /\ wire[r] # <<>> /\ wire' = [wire EXCEPT ![r] = l]
  BY <1>2 DEF Read
<1>4. /\ x.kind = "msg" => got' = got \cup {x.env} /\ acks' = [acks EXCEPT ![r] = Append(acks[r], x.env)]
      /\ x.kind # "msg" => got' = got /\ acks' = acks
  BY <1>2, Zenon DEF Read
<1>5. Well(this', now')
  BY <1>1, <1>3
<1>6. wire[r] \in Seq(Entry) /\ acks[r] \in Seq(Env)
  BY <1>1 DEF NetTyped
<1>7. x \in Entry /\ l \in Seq(Entry) /\ ToSet(wire[r]) = {x} \cup ToSet(l)
  BY <1>2, <1>3, <1>6, HeadMembers
<1>8. x.env \in Env /\ Mail(x, r)
  BY <1>1, <1>7 DEF Entry, Addressed
<1>9. /\ Append(acks[r], x.env) \in Seq(Env)
      /\ ToSet(Append(acks[r], x.env)) = ToSet(acks[r]) \cup {x.env}
  BY <1>6, <1>8, AppendMembers
<1>10. NetTyped'
  <2>1. wire' \in [Rid -> Seq(Entry)]
    BY <1>1, <1>3, <1>7 DEF NetTyped
  <2>2. acks' \in [Rid -> Seq(Env)] /\ got' \subseteq Env
    BY <1>1, <1>4, <1>8, <1>9 DEF NetTyped
  <2> QED
    BY <1>1, <1>3, <2>1, <2>2 DEF NetTyped
<1>11. /\ wire'[r] = l /\ \A p \in Rid : p # r => wire'[p] = wire[p]
       /\ got \subseteq got'
  BY <1>1, <1>3, <1>4 DEF NetTyped
<1>12. \A p \in Rid : ToSet(wire'[p]) \subseteq ToSet(wire[p])
  BY <1>7, <1>11
<1>13. Addressed'
  BY <1>1, <1>3, <1>12 DEF Addressed
<1>14. Earned'
  BY <1>1, <1>3, <1>11, <1>12 DEF Earned, ReceiptsTrue
<1>15. AcksTrue'
  <2>1. CASE x.kind = "msg"
    <3>1. x.env.to = r /\ x.env \in got'
      BY <1>4, <1>8, <2>1 DEF Mail
    <3>2. \A p \in Rid : acks'[p] = IF p = r THEN Append(acks[r], x.env) ELSE acks[p]
      BY <1>1, <1>4, <2>1 DEF NetTyped
    <3>3. \A p \in Rid : \A e \in ToSet(acks'[p]) : e \in ToSet(acks[p]) \/ (p = r /\ e = x.env)
      BY <1>9, <3>2
    <3> QED
      BY <1>1, <1>11, <3>1, <3>3 DEF AcksTrue
  <2>2. CASE x.kind # "msg"
    BY <1>1, <1>4, <2>2 DEF AcksTrue
  <2> QED
    BY <2>1, <2>2
<1>16. Carried'
  <2>1. ASSUME NEW p \in online, NEW z \in ToSet(this.queue[p])
        PROVE  \/ z \in ToSet(flush[p])
               \/ /\ z.kind = "msg"
                  /\ z.env \in got' \/ \E y \in ToSet(wire'[p]) : y.kind = "msg" /\ y.env = z.env
    <3>1. p \in Rid
      BY <1>1 DEF NetTyped
    <3>2. \/ z \in ToSet(flush[p])
          \/ /\ z.kind = "msg"
             /\ z.env \in got \/ \E y \in ToSet(wire[p]) : y.kind = "msg" /\ y.env = z.env
      BY <1>1 DEF Carried
    <3>3. ASSUME NEW y \in ToSet(wire[p]), y.kind = "msg", y.env = z.env
          PROVE  z.env \in got' \/ \E w \in ToSet(wire'[p]) : w.kind = "msg" /\ w.env = z.env
      <4>1. y \in ToSet(wire'[p]) \/ y = x
        BY <1>7, <1>11, <3>1
      <4> QED
        BY <1>4, <3>3, <4>1
    <3> QED
      BY <1>11, <3>2, <3>3
  <2> QED
    BY <1>3, <2>1 DEF Carried
<1>17. Secured'
  BY <1>1, <1>3, <1>11 DEF Secured, HeldUntilGot, Queued
<1> QED
  BY <1>5, <1>10, <1>13, <1>14, <1>15, <1>16, <1>17, InvNext

\* A step that changes the coordinator and none of its mailboxes, and at most
\* the clock besides.
LEMMA SameMail ==
  ASSUME Inv, Well(this', now'), now' \in 0 .. MaxTime, this'.queue = this.queue, UNCHANGED <<net, told>>
  PROVE  Inv'
<1>1. Well(this, now) /\ NetTyped /\ Addressed /\ AcksTrue /\ Carried /\ Earned /\ Secured
  BY InvParts
<1>2. /\ online' = online /\ flush' = flush /\ wire' = wire /\ acks' = acks
      /\ sent' = sent /\ got' = got /\ lapsed' = lapsed
  BY DEF net, told
<1>3. NetTyped'
  BY <1>1, <1>2 DEF NetTyped
<1>4. Addressed' /\ AcksTrue' /\ Earned'
  BY <1>1, <1>2 DEF Addressed, AcksTrue, Earned, ReceiptsTrue
<1>5. Carried'
  BY <1>1, <1>2 DEF Carried
<1>6. Secured'
  BY <1>1, <1>2 DEF Secured, HeldUntilGot, Queued
<1> QED
  BY <1>3, <1>4, <1>5, <1>6, InvNext

LEMMA IntroInv ==
  ASSUME Inv, NEW r \in Rid, NEW bits \in Bits, Intro(r, bits)
  PROVE  Inv'
<1>1. Well(this, now) /\ Clock
  BY InvParts DEF NetTyped, Clock
<1>2. this' = SetIntro(this, r, bits) /\ now' = now /\ UNCHANGED <<net, told>>
  BY DEF Intro
<1>3. Well(this', now) /\ this'.queue = this.queue
  BY <1>1, <1>2, SetIntroWell
<1> QED
  BY <1>1, <1>2, <1>3, SameMail DEF Clock

LEMMA RegisterPushInv ==
  ASSUME Inv, NEW r \in Rid, RegisterPush(r)
  PROVE  Inv'
<1>1. Well(this, now) /\ Clock
  BY InvParts DEF NetTyped, Clock
<1>2. /\ IntroBits(this, r) = 0 /\ this' = [this EXCEPT !.push = @ \cup {r}]
      /\ now' = now /\ UNCHANGED <<net, told>>
  BY DEF RegisterPush
<1>3. Well(this', now) /\ this'.queue = this.queue
  BY <1>1, <1>2, PushWell
<1> QED
  BY <1>1, <1>2, <1>3, SameMail DEF Clock

LEMMA TickInv ==
  ASSUME Inv, Tick
  PROVE  Inv'
<1>1. Well(this, now) /\ Clock
  BY InvParts DEF NetTyped, Clock
<1>2. /\ now < MaxTime /\ now' = now + 1 /\ this' = [this EXCEPT !.tokens = NewMailboxPerMin, !.ip = 0]
      /\ UNCHANGED <<net, told>>
  BY DEF Tick
<1>3. Well(this', now + 1) /\ this'.queue = this.queue
  BY <1>1, <1>2, TickWell
<1>4. now' \in 0 .. MaxTime
  BY <1>1, <1>2, ParamAssumption DEF Clock
<1>5. Well(this', now')
  BY <1>2, <1>3
<1> QED
  BY <1>2, <1>3, <1>4, <1>5, SameMail

LEMMA StutterInv ==
  ASSUME Inv, UNCHANGED vars
  PROVE  Inv'
<1>1. Well(this, now) /\ Clock
  BY InvParts DEF NetTyped, Clock
<1>2. this' = this /\ now' = now /\ UNCHANGED <<net, told>>
  BY DEF vars
<1>3. Well(this', now') /\ now' \in 0 .. MaxTime /\ this'.queue = this.queue
  BY <1>1, <1>2 DEF Clock
<1> QED
  BY <1>2, <1>3, SameMail

\* What a queue loses to its time is told as lapsed.
LEMMA ExpireWell ==
  ASSUME NEW m, Well(m, now), m.queue = this.queue, NEW rids, rids \subseteq Rid
  PROVE  /\ Well(Expire(m, rids), now)
         /\ \A r \in Rid : ToSet(Expire(m, rids).queue[r]) \subseteq ToSet(this.queue[r])
         /\ \A r \in Rid : r \notin rids => ToSet(Expire(m, rids).queue[r]) = ToSet(this.queue[r])
         /\ \A r \in Rid : \A x \in ToSet(this.queue[r]) :
              x \in ToSet(Expire(m, rids).queue[r]) \/ (x.kind = "msg" => x.env \in Gone(rids))
<1>1. PICK n, gone : gone = Stale(m, rids) /\ n = Expire(m, rids)
  OBVIOUS
<1>2. n = Freed(m, rids, gone)
  BY <1>1 DEF Expire
<1>3. /\ Well(n, now)
      /\ \A r \in Rid : ToSet(n.queue[r]) = {x \in ToSet(this.queue[r]) : r \notin rids \/ x \notin gone}
  BY <1>2, FreedWell
<1>4. gone = Stale(this, rids)
  BY <1>1 DEF Stale
<1>5. \A x \in gone : x.kind = "msg" => x.env \in Gone(rids)
  BY <1>4 DEF Gone
<1> QED
  BY <1>1, <1>3, <1>5

LEMMA SweepInv ==
  ASSUME Inv, Sweep
  PROVE  Inv'
<1>1. Well(this, now) /\ NetTyped /\ Addressed /\ AcksTrue /\ Carried /\ Earned /\ Secured
  BY InvParts
<1>2. PICK m : m = Expire(this, Rid)
  OBVIOUS
<1>3. /\ this' = TrimIntro(TrimOwned(m)) /\ lapsed' = lapsed \cup Gone(Rid)
      /\ now' = now /\ online' = online /\ flush' = flush /\ wire' = wire /\ acks' = acks
      /\ sent' = sent /\ got' = got
  BY <1>2 DEF Sweep, net
<1>4. /\ Well(m, now)
      /\ \A r \in Rid : ToSet(m.queue[r]) \subseteq ToSet(this.queue[r])
      /\ \A r \in Rid : \A x \in ToSet(this.queue[r]) :
           x \in ToSet(m.queue[r]) \/ (x.kind = "msg" => x.env \in Gone(Rid))
  BY <1>1, <1>2, ExpireWell
<1>5. Clock
  BY <1>1 DEF NetTyped, Clock
<1>6. Well(this', now) /\ this'.queue = m.queue
  BY <1>3, <1>4, <1>5, TrimsWell
<1>7. Well(this', now')
  BY <1>3, <1>6
<1>8. Gone(Rid) \subseteq Env
  <2>1. \A r \in Rid : ToSet(this.queue[r]) \subseteq Entry
    <3>1. \A r \in Rid : this.queue[r] \in Seq(Entry)
      BY <1>1, WellSound
    <3> QED
      BY <3>1, SeqMembers
  <2> QED
    BY <2>1 DEF Gone, Stale, Entry
<1>9. NetTyped'
  BY <1>1, <1>3, <1>8 DEF NetTyped
<1>10. \A r \in Rid : ToSet(this'.queue[r]) \subseteq ToSet(this.queue[r])
  BY <1>4, <1>6
<1>11. Addressed'
  BY <1>1, <1>3, <1>10 DEF Addressed
<1>12. AcksTrue'
  BY <1>1, <1>3 DEF AcksTrue
<1>13. Earned'
  BY <1>1, <1>3, <1>10 DEF Earned, ReceiptsTrue
<1>14. Carried'
  <2>1. ASSUME NEW p \in online, NEW z \in ToSet(this'.queue[p])
        PROVE  \/ z \in ToSet(flush[p])
               \/ /\ z.kind = "msg"
                  /\ z.env \in got \/ \E y \in ToSet(wire[p]) : y.kind = "msg" /\ y.env = z.env
    <3>1. p \in Rid
      BY <1>1 DEF NetTyped
    <3>2. z \in ToSet(this.queue[p])
      BY <1>10, <3>1
    <3> QED
      BY <1>1, <3>2 DEF Carried
  <2> QED
    BY <1>3, <2>1 DEF Carried
<1>15. Secured'
  <2>1. ASSUME OwnIds, NEW e \in sent PROVE (\E x \in ToSet(this'.queue[e.to]) : x.kind = "msg" /\ x.env = e) \/ e \in got \/ e \in lapsed'
    <3>1. e.to \in Rid
      BY <1>1, ParamAssumption DEF NetTyped
    <3>2. ASSUME NEW x \in ToSet(this.queue[e.to]), x.kind = "msg", x.env = e
          PROVE  x \in ToSet(this'.queue[e.to]) \/ e \in lapsed'
      BY <1>3, <1>4, <1>6, <3>1, <3>2
    <3> QED
      BY <1>1, <1>3, <2>1, <3>2 DEF Secured, HeldUntilGot, Queued
  <2> QED
    BY <1>3, <2>1 DEF Secured, HeldUntilGot, Queued
<1> QED
  BY <1>7, <1>9, <1>11, <1>12, <1>13, <1>14, <1>15, InvNext

\* Written receipts leave the queue, envelopes stay.
Written(n, m, r, page) ==
  /\ \A p \in Rid : p # r => ToSet(n.queue[p]) = ToSet(m.queue[p])
  /\ ToSet(n.queue[r]) = {x \in ToSet(m.queue[r]) : ~(x \in ToSet(page) /\ x.kind = "receipt")}

LEMMA DropWell ==
  ASSUME NEW m, Well(m, now), NEW r \in Rid, NEW page
  PROVE  Well(DropReceipts(m, r, page), now) /\ Written(DropReceipts(m, r, page), m, r, page)
<1>1. PICK n, gone : n = DropReceipts(m, r, page) /\ gone = {x \in ToSet(page) : x.kind = "receipt"}
  OBVIOUS
<1>2. n = Freed(m, {r}, gone)
  BY <1>1 DEF DropReceipts
<1>3. /\ Well(n, now)
      /\ \A p \in Rid : ToSet(n.queue[p]) = {x \in ToSet(m.queue[p]) : p \notin {r} \/ x \notin gone}
  BY <1>2, FreedWell
<1>4. \A p \in Rid : p # r => ToSet(n.queue[p]) = ToSet(m.queue[p])
  BY <1>3
<1>5. ToSet(n.queue[r]) = {x \in ToSet(m.queue[r]) : x \notin gone}
  BY <1>3
<1>6. Written(n, m, r, page)
  BY <1>1, <1>4, <1>5 DEF Written
<1> QED
  BY <1>1, <1>3, <1>6

LEMMA EntryKinds ==
  ASSUME NEW x \in Entry
  PROVE  (x.kind = "msg" <=> x.kind # "receipt") /\ x.env \in Env
BY DEF Entry

LEMMA FlushOnInv ==
  ASSUME Inv, NEW r \in Rid, FlushOn(r)
  PROVE  Inv'
<1>1. Well(this, now) /\ NetTyped /\ Addressed /\ AcksTrue /\ Carried /\ Earned /\ Secured
  BY InvParts
<1>2. PICK page, rest : page = PageOf(this, r, flush[r]) /\ rest = AfterPage(this, r, flush[r])
  OBVIOUS
<1>3. /\ r \in online /\ this' = DropReceipts(this, r, page)
      /\ wire' = [wire EXCEPT ![r] = wire[r] \o page] /\ flush' = [flush EXCEPT ![r] = rest]
      /\ now' = now /\ online' = online /\ acks' = acks /\ sent' = sent /\ got' = got /\ lapsed' = lapsed
  BY <1>2 DEF FlushOn, told
<1>4. flush[r] \in Seq(Entry) /\ wire[r] \in Seq(Entry) /\ this.queue[r] \in Seq(Entry)
  BY <1>1, WellSound DEF NetTyped
<1>5. /\ page \in Seq(Entry) /\ rest \in Seq(Entry)
      /\ ToSet(page) \subseteq ToSet(flush[r]) \cap ToSet(this.queue[r]) /\ ToSet(rest) \subseteq ToSet(flush[r])
      /\ \A x \in ToSet(flush[r]) \cap ToSet(this.queue[r]) : x \in ToSet(page) \/ x \in ToSet(rest)
  BY <1>2, <1>4, PageIs
<1>6. /\ Well(this', now)
      /\ \A p \in Rid : p # r => ToSet(this'.queue[p]) = ToSet(this.queue[p])
      /\ ToSet(this'.queue[r]) = {x \in ToSet(this.queue[r]) : ~(x \in ToSet(page) /\ x.kind = "receipt")}
  <2>1. PICK n : n = DropReceipts(this, r, page)
    OBVIOUS
  <2>2. Well(n, now) /\ Written(n, this, r, page)
    BY <1>1, <2>1, DropWell
  <2> QED
    BY <1>3, <2>1, <2>2 DEF Written
<1>7. Well(this', now')
  BY <1>3, <1>6
<1>8. ToSet(wire[r] \o page) = ToSet(wire[r]) \cup ToSet(page) /\ wire[r] \o page \in Seq(Entry)
  BY <1>4, <1>5, ConcatMembers
<1>9. NetTyped'
  BY <1>1, <1>3, <1>5, <1>8 DEF NetTyped
<1>10. /\ \A p \in Rid : p # r => wire'[p] = wire[p] /\ flush'[p] = flush[p]
       /\ ToSet(wire'[r]) = ToSet(wire[r]) \cup ToSet(page) /\ flush'[r] = rest
  BY <1>1, <1>3, <1>8 DEF NetTyped
<1>11. /\ \A p \in Rid : ToSet(this'.queue[p]) \subseteq ToSet(this.queue[p])
       /\ \A p \in Rid : ToSet(flush'[p]) \subseteq ToSet(flush[p])
       /\ \A p \in Rid : ToSet(wire'[p]) \subseteq ToSet(wire[p]) \cup ToSet(this.queue[p])
  BY <1>5, <1>6, <1>10
<1>12. Addressed'
  BY <1>1, <1>11 DEF Addressed
<1>13. AcksTrue'
  BY <1>1, <1>3 DEF AcksTrue
<1>14. Earned'
  BY <1>1, <1>3, <1>11 DEF Earned, ReceiptsTrue
<1>15. Carried'
  <2>1. ASSUME NEW p \in online, NEW z \in ToSet(this'.queue[p])
        PROVE  \/ z \in ToSet(flush'[p])
               \/ /\ z.kind = "msg"
                  /\ z.env \in got \/ \E y \in ToSet(wire'[p]) : y.kind = "msg" /\ y.env = z.env
    <3>1. p \in Rid
      BY <1>1 DEF NetTyped
    <3>2. z \in ToSet(this.queue[p])
      BY <1>11, <3>1
    <3>3. \/ z \in ToSet(flush[p])
          \/ /\ z.kind = "msg"
             /\ z.env \in got \/ \E y \in ToSet(wire[p]) : y.kind = "msg" /\ y.env = z.env
      BY <1>1, <3>2 DEF Carried
    <3>4. CASE p = r
      <4>1. ToSet(wire[r]) \subseteq ToSet(wire'[r]) /\ ToSet(page) \subseteq ToSet(wire'[r])
        BY <1>10
      <4>2. ASSUME z \in ToSet(flush[r]), z \notin ToSet(rest)
            PROVE  z.kind = "msg" /\ z \in ToSet(wire'[r])
        <5>1. z \in ToSet(page)
          BY <1>5, <3>2, <3>4, <4>2
        <5>2. z.kind # "receipt"
          BY <1>6, <3>4, <5>1
        <5>3. z \in Entry
          BY <1>5, <5>1, SeqMembers
        <5> QED
          BY <4>1, <5>1, <5>2, <5>3, EntryKinds
      <4> QED
        BY <1>10, <3>3, <3>4, <4>1, <4>2
    <3>5. CASE p # r
      BY <1>10, <3>1, <3>3, <3>5
    <3> QED
      BY <3>4, <3>5
  <2> QED
    BY <1>3, <2>1 DEF Carried
<1>16. Secured'
  <2>1. ASSUME NEW e \in sent, NEW x \in ToSet(this.queue[e.to]), x.kind = "msg"
        PROVE  x \in ToSet(this'.queue[e.to])
    <3>1. e.to \in Rid
      BY <1>1, ParamAssumption DEF NetTyped
    <3> QED
      BY <1>6, <2>1, <3>1
  <2> QED
    BY <1>1, <1>3, <2>1 DEF Secured, HeldUntilGot, Queued
<1> QED
  BY <1>7, <1>9, <1>12, <1>13, <1>14, <1>15, <1>16, InvNext

LEMMA LoginInv ==
  ASSUME Inv, NEW r \in Rid, Login(r)
  PROVE  Inv'
<1>1. Well(this, now) /\ NetTyped /\ Addressed /\ AcksTrue /\ Carried /\ Earned /\ Secured
  BY InvParts
<1>2. PICK c, m, page, rest :
        /\ c = ClaimOwner(this, r) /\ m = Expire(c, {r})
        /\ page = PageOf(m, r, m.queue[r]) /\ rest = AfterPage(m, r, m.queue[r])
  OBVIOUS
<1>3. /\ online' = online \cup {r} /\ lapsed' = lapsed \cup Gone({r})
      /\ this' = DropReceipts(m, r, page)
      /\ wire' = [wire EXCEPT ![r] = page] /\ acks' = [acks EXCEPT ![r] = <<>>]
      /\ flush' = [flush EXCEPT ![r] = rest]
      /\ now' = now /\ sent' = sent /\ got' = got
  BY <1>2 DEF Login
<1>4. Clock
  BY <1>1 DEF NetTyped, Clock
<1>5. Well(c, now) /\ c.queue = this.queue
  BY <1>1, <1>2, <1>4, ClaimWell
<1>6. /\ Well(m, now)
      /\ \A p \in Rid : ToSet(m.queue[p]) \subseteq ToSet(this.queue[p])
      /\ \A p \in Rid : p \notin {r} => ToSet(m.queue[p]) = ToSet(this.queue[p])
      /\ \A p \in Rid : \A x \in ToSet(this.queue[p]) :
           x \in ToSet(m.queue[p]) \/ (x.kind = "msg" => x.env \in Gone({r}))
  BY <1>2, <1>5, ExpireWell
<1>7. m.queue[r] \in Seq(Entry) /\ \A p \in Rid : this.queue[p] \in Seq(Entry)
  BY <1>1, <1>6, WellSound
<1>8. /\ page \in Seq(Entry) /\ rest \in Seq(Entry)
      /\ ToSet(page) \subseteq ToSet(m.queue[r]) /\ ToSet(rest) \subseteq ToSet(m.queue[r])
      /\ \A x \in ToSet(m.queue[r]) : x \in ToSet(page) \/ x \in ToSet(rest)
  BY <1>2, <1>7, PageIs
<1>9. /\ Well(this', now)
      /\ \A p \in Rid : p # r => ToSet(this'.queue[p]) = ToSet(m.queue[p])
      /\ ToSet(this'.queue[r]) = {x \in ToSet(m.queue[r]) : ~(x \in ToSet(page) /\ x.kind = "receipt")}
  <2>1. PICK n : n = DropReceipts(m, r, page)
    OBVIOUS
  <2>2. Well(n, now) /\ Written(n, m, r, page)
    BY <1>6, <2>1, DropWell
  <2> QED
    BY <1>3, <2>1, <2>2 DEF Written
<1>10. Well(this', now')
  BY <1>3, <1>9
<1>11. Gone({r}) \subseteq Env
  <2>1. ToSet(this.queue[r]) \subseteq Entry
    BY <1>7, SeqMembers
  <2> QED
    BY <2>1 DEF Gone, Stale, Entry
<1>12. NetTyped'
  <2>1. <<>> \in Seq(Env)
    BY EmptySeq
  <2> QED
    BY <1>1, <1>3, <1>8, <1>11, <2>1 DEF NetTyped
<1>13. /\ \A p \in Rid : p # r => wire'[p] = wire[p] /\ flush'[p] = flush[p] /\ acks'[p] = acks[p]
       /\ wire'[r] = page /\ flush'[r] = rest /\ ToSet(acks'[r]) = {}
  BY <1>1, <1>3, EmptyMembers DEF NetTyped
<1>14. /\ \A p \in Rid : ToSet(this'.queue[p]) \subseteq ToSet(this.queue[p])
       /\ \A p \in Rid : ToSet(flush'[p]) \subseteq ToSet(flush[p]) \cup ToSet(this.queue[p])
       /\ \A p \in Rid : ToSet(wire'[p]) \subseteq ToSet(wire[p]) \cup ToSet(this.queue[p])
       /\ \A p \in Rid : ToSet(acks'[p]) \subseteq ToSet(acks[p])
  BY <1>6, <1>8, <1>9, <1>13
<1>15. Addressed'
  BY <1>1, <1>14 DEF Addressed
<1>16. AcksTrue'
  BY <1>1, <1>3, <1>14 DEF AcksTrue
<1>17. Earned'
  BY <1>1, <1>3, <1>14 DEF Earned, ReceiptsTrue
<1>18. Carried'
  <2>1. ASSUME NEW p \in online', NEW z \in ToSet(this'.queue[p])
        PROVE  \/ z \in ToSet(flush'[p])
               \/ /\ z.kind = "msg"
                  /\ z.env \in got \/ \E y \in ToSet(wire'[p]) : y.kind = "msg" /\ y.env = z.env
    <3>1. CASE p = r
      <4>1. z \in ToSet(m.queue[r]) /\ ~(z \in ToSet(page) /\ z.kind = "receipt")
        BY <1>9, <3>1
      <4>2. z \in Entry
        BY <1>7, <4>1, SeqMembers
      <4>3. z \in ToSet(rest) \/ (z.kind = "msg" /\ z \in ToSet(page))
        BY <1>8, <4>1, <4>2, EntryKinds
      <4> QED
        BY <1>13, <3>1, <4>3
    <3>2. CASE p # r
      <4>1. p \in online /\ p \in Rid /\ z \in ToSet(this.queue[p])
        BY <1>1, <1>3, <1>14, <3>2 DEF NetTyped
      <4> QED
        BY <1>1, <1>13, <3>2, <4>1 DEF Carried
    <3> QED
      BY <3>1, <3>2
  <2> QED
    BY <1>3, <2>1 DEF Carried
<1>19. Secured'
  <2>1. ASSUME NEW e \in sent, NEW x \in ToSet(this.queue[e.to]), x.kind = "msg", x.env = e
        PROVE  x \in ToSet(this'.queue[e.to]) \/ e \in lapsed'
    <3>1. e.to \in Rid
      BY <1>1, ParamAssumption DEF NetTyped
    <3>2. x \in ToSet(m.queue[e.to]) \/ e \in lapsed'
      BY <1>3, <1>6, <2>1, <3>1
    <3>3. x \in ToSet(m.queue[e.to]) => x \in ToSet(this'.queue[e.to])
      BY <1>9, <2>1, <3>1
    <3> QED
      BY <3>2, <3>3
  <2>2. ASSUME OwnIds, NEW e \in sent
        PROVE  (\E x \in ToSet(this'.queue[e.to]) : x.kind = "msg" /\ x.env = e) \/ e \in got \/ e \in lapsed'
    BY <1>1, <1>3, <2>1, <2>2 DEF Secured, HeldUntilGot, Queued
  <2> QED
    BY <1>3, <2>2 DEF Secured, HeldUntilGot, Queued
<1> QED
  BY <1>10, <1>12, <1>15, <1>16, <1>17, <1>18, <1>19, InvNext

\* The entry an acknowledgement names holds the envelope that was acknowledged.
LEMMA NamedIs ==
  ASSUME Well(this, now), Addressed, NEW r \in Rid, NEW e \in Env, e.to = r, Candidates(r, e) # {}
  PROVE  /\ Named(r, e) \in ToSet(this.queue[r]) /\ Named(r, e).env.from = e.from
         /\ OwnIds => \A y \in ToSet(this.queue[r]) : Key(y) = Key(Named(r, e)) => y.env = e
<1>1. this.queue[r] \in Seq(Entry)
  BY WellSound
<1>2. ToSet(this.queue[r]) \subseteq Entry
  BY <1>1, SeqMembers
<1>3. PICK s : s = Msg(e, FALSE)
  OBVIOUS
<1>4. s.kind = "msg" /\ s.env = e
  BY <1>3 DEF Msg
<1>5. OwnIds => \A y \in ToSet(this.queue[r]) : Base(y) = Base(s) => y.env = e
  <2>1. ASSUME OwnIds, NEW y \in ToSet(this.queue[r]), Base(y) = Base(s) PROVE y.env = e
    <3>1. y \in Entry /\ s.env \in Env /\ Mail(y, s.env.to)
      BY <1>2, <1>4 DEF Addressed
    <3> QED
      BY <1>4, <2>1, <3>1, OneEnvelope
  <2> QED
    BY <2>1
<1>6. Candidates(r, e) = {y \in ToSet(this.queue[r]) : Base(y) = Base(s)}
  BY <1>3 DEF Candidates
<1>7. \E x \in Candidates(r, e) : \A y \in Candidates(r, e) : x.slot <= y.slot
  <2>1. PICK T : T = {x.slot : x \in Candidates(r, e)}
    OBVIOUS
  <2>2. \A x \in Candidates(r, e) : x.slot \in Nat
    <3>1. 0 .. IdSlots \subseteq Nat
      BY ParamAssumption
    <3> QED
      BY <1>2, <1>6, <3>1 DEF Entry
  <2>3. T \subseteq Nat /\ T # {}
    BY <2>1, <2>2
  <2>4. PICK k \in T : \A j \in T : k <= j
    BY <2>3, Smallest, Zenon
  <2> QED
    BY <2>1, <2>4
<1>8. Named(r, e) \in Candidates(r, e)
  BY <1>7, Zenon DEF Named
<1>9. Base(Named(r, e)) = Base(s) /\ Named(r, e) \in ToSet(this.queue[r])
  BY <1>6, <1>8
<1>10. \A y \in ToSet(this.queue[r]) : Key(y) = Key(Named(r, e)) => Base(y) = Base(s)
  BY <1>9 DEF Key
<1>11. Named(r, e).env.from = e.from
  <2>1. Named(r, e).kind = "msg"
    BY <1>4, <1>9 DEF Base
  <2> QED
    BY <1>4, <1>9, <2>1 DEF Base
<1> QED
  BY <1>5, <1>9, <1>10, <1>11

\* An acknowledged entry leaves, and with it at most what has the same key.
LEMMA RemoveWell ==
  ASSUME NEW m, Well(m, now), NEW r \in Rid, NEW x
  PROVE  /\ Well(RemoveKey(m, r, x), now)
         /\ \A p \in Rid : ToSet(RemoveKey(m, r, x).queue[p]) \subseteq ToSet(m.queue[p])
         /\ \A p \in Rid : \A y \in ToSet(m.queue[p]) :
              y \in ToSet(RemoveKey(m, r, x).queue[p]) \/ (p = r /\ Key(y) = Key(x))
<1>1. PICK n, gone : n = RemoveKey(m, r, x) /\ gone = {y \in ToSet(m.queue[r]) : Key(y) = Key(x)}
  OBVIOUS
<1>2. n = Freed(m, {r}, gone)
  BY <1>1 DEF RemoveKey
<1>3. /\ Well(n, now)
      /\ \A p \in Rid : ToSet(n.queue[p]) = {y \in ToSet(m.queue[p]) : p \notin {r} \/ y \notin gone}
  BY <1>2, FreedWell
<1>4. /\ \A p \in Rid : ToSet(n.queue[p]) \subseteq ToSet(m.queue[p])
      /\ \A p \in Rid : \A y \in ToSet(m.queue[p]) :
           y \in ToSet(n.queue[p]) \/ (p = r /\ Key(y) = Key(x))
  BY <1>1, <1>3
<1> QED
  BY <1>1, <1>3, <1>4

\* What a step of the coordinator gives the mailboxes: nothing, or one entry.
Grows(n, m, r, x) ==
  /\ \A p \in Rid : ToSet(m.queue[p]) \subseteq ToSet(n.queue[p])
  /\ \A p \in Rid : \A z \in ToSet(n.queue[p]) :
       z \in ToSet(m.queue[p]) \/ (p = r /\ z.kind = x.kind /\ z.env = x.env /\ z.ph = x.ph)

Holds(n, r, x) == \E z \in ToSet(n.queue[r]) : z.kind = x.kind /\ z.env = x.env

LEMMA EnqueueGrows ==
  ASSUME NEW m, Well(m, now), Clock, NEW r \in Rid, NEW x \in Entry
  PROVE  /\ Grows(Enqueue(m, r, x), m, r, x)
         /\ Verdict(m, r, x) = "new" => Holds(Enqueue(m, r, x), r, x)
         /\ Verdict(m, r, x) # "new" => Enqueue(m, r, x).queue = m.queue
<1>1. PICK n : n = Enqueue(m, r, x)
  OBVIOUS
<1>2. Sound(m)
  BY WellSound
<1>3. CASE Verdict(m, r, x) # "new"
  <2>1. n.queue = m.queue
    BY <1>1, <1>2, <1>3, EnqueueNot
  <2> QED
    BY <1>1, <1>3, <2>1 DEF Grows
<1>4. CASE Verdict(m, r, x) = "new"
  <2>1. Grown(n, m, r, x) /\ \E y \in ToSet(n.queue[r]) : y.kind = x.kind /\ y.env = x.env
    BY <1>1, <1>2, <1>4, EnqueueSound
  <2>4. Holds(n, r, x)
    BY <2>1 DEF Holds
  <2>2. CASE n.queue = m.queue
    BY <1>1, <1>4, <2>2, <2>4 DEF Grows
  <2>3. CASE \E y \in Entry : /\ y.kind = x.kind /\ y.env = x.env /\ y.ph = x.ph
                              /\ ToSet(n.queue[r]) = ToSet(m.queue[r]) \cup {y}
                              /\ \A p \in Rid : p # r => n.queue[p] = m.queue[p]
    <3>1. PICK y \in Entry : /\ y.kind = x.kind /\ y.env = x.env /\ y.ph = x.ph
                             /\ ToSet(n.queue[r]) = ToSet(m.queue[r]) \cup {y}
                             /\ \A p \in Rid : p # r => n.queue[p] = m.queue[p]
      BY <2>3
    <3>2. \A p \in Rid : ToSet(m.queue[p]) \subseteq ToSet(n.queue[p])
      BY <3>1
    <3>3. \A p \in Rid : \A z \in ToSet(n.queue[p]) : z \in ToSet(m.queue[p]) \/ (p = r /\ z = y)
      BY <3>1
    <3> QED
      BY <1>1, <1>4, <2>4, <3>1, <3>2, <3>3 DEF Grows
  <2> QED
    BY <2>1, <2>2, <2>3 DEF Grown
<1> QED
  BY <1>3, <1>4

LEMMA AckInv ==
  ASSUME Inv, NEW r \in Rid, Ack(r)
  PROVE  Inv'
<1>1. Well(this, now) /\ NetTyped /\ Addressed /\ AcksTrue /\ Carried /\ Earned /\ Secured
  BY InvParts
<1>2. PICK e, x, from, freed, l :
        /\ e = Head(acks[r]) /\ x = Named(r, e) /\ from = x.env.from
        /\ freed = RemoveKey(this, r, x) /\ l = Tail(acks[r])
  OBVIOUS
<1>3. /\ acks[r] # <<>> /\ acks' = [acks EXCEPT ![r] = l]
      /\ now' = now /\ online' = online /\ flush' = flush /\ sent' = sent /\ got' = got /\ lapsed' = lapsed
  BY <1>2 DEF Ack, told
<1>4. IF Candidates(r, e) = {} THEN UNCHANGED <<this, wire>>
      ELSE IF from = None THEN this' = freed /\ UNCHANGED wire
      ELSE IF from \in online
        THEN this' = freed /\ wire' = [wire EXCEPT ![from] = Append(wire[from], Receipt(x.env))]
        ELSE this' = Enqueue(freed, from, Receipt(x.env)) /\ UNCHANGED wire
  BY <1>2 DEF Ack
<1>5. acks[r] \in Seq(Env)
  BY <1>1 DEF NetTyped
<1>6. e \in Env /\ l \in Seq(Env) /\ ToSet(acks[r]) = {e} \cup ToSet(l)
  BY <1>2, <1>3, <1>5, HeadMembers
<1>7. e.to = r /\ e \in got
  BY <1>1, <1>6 DEF AcksTrue
<1>8. Clock
  BY <1>1 DEF NetTyped, Clock
<1>9. AcksTrue'
  <2>1. \A p \in Rid : ToSet(acks'[p]) \subseteq ToSet(acks[p])
    BY <1>1, <1>3, <1>6 DEF NetTyped
  <2> QED
    BY <1>1, <1>3, <2>1 DEF AcksTrue
<1>10. acks' \in [Rid -> Seq(Env)]
  BY <1>1, <1>3, <1>6 DEF NetTyped
<1>11. CASE Candidates(r, e) = {}
  <2>1. this' = this /\ wire' = wire
    BY <1>4, <1>11
  <2>2. Well(this', now')
    BY <1>1, <1>3, <2>1
  <2>3. NetTyped'
    BY <1>1, <1>3, <1>10, <2>1 DEF NetTyped
  <2>4. Addressed' /\ Earned' /\ Carried' /\ Secured'
    BY <1>1, <1>3, <2>1 DEF Addressed, Earned, ReceiptsTrue, Carried, Secured, HeldUntilGot, Queued
  <2> QED
    BY <1>9, <2>2, <2>3, <2>4, InvNext
<1>12. CASE Candidates(r, e) # {}
  <2>1. /\ x \in ToSet(this.queue[r]) /\ x.env.from = e.from
        /\ OwnIds => \A y \in ToSet(this.queue[r]) : Key(y) = Key(x) => y.env = e
    BY <1>1, <1>2, <1>6, <1>7, <1>12, NamedIs
  <2>2. /\ Well(freed, now)
        /\ \A p \in Rid : ToSet(freed.queue[p]) \subseteq ToSet(this.queue[p])
        /\ \A p \in Rid : \A y \in ToSet(this.queue[p]) :
             y \in ToSet(freed.queue[p]) \/ (p = r /\ Key(y) = Key(x))
    BY <1>1, <1>2, RemoveWell
  <2>3. OwnIds => \A p \in Rid : \A y \in ToSet(this.queue[p]) : y \in ToSet(freed.queue[p]) \/ y.env \in got
    BY <1>7, <2>1, <2>2
  <2>4. PICK c, f : c = Receipt(f) /\ f = x.env
    OBVIOUS
  <2>15. f \in Env /\ (OwnIds => f \in got)
    <3>1. this.queue[r] \in Seq(Entry)
      BY <1>1, WellSound
    <3>2. x \in Entry
      BY <2>1, <3>1, SeqMembers
    <3>3. OwnIds => f = e
      BY <2>1, <2>4
    <3> QED
      BY <1>7, <2>4, <3>2, <3>3 DEF Entry
  <2>5. c \in Entry /\ c.kind = "receipt" /\ c.env = f /\ c.ph = FALSE
    <3>1. 0 \in 0 .. IdSlots
      BY ParamAssumption
    <3> QED
      BY <1>8, <2>4, <2>15, <3>1 DEF Receipt, Entry, Clock
  <2>6. from = f.from /\ (from # None => from \in Rid)
    BY <1>2, <2>4, <2>15, ParamAssumption
  \* The mailboxes and the wires, whichever way the receipt goes.
  <2>7. /\ Well(this', now)
        /\ wire' \in [Rid -> Seq(Entry)]
        /\ \A p \in Rid : ToSet(freed.queue[p]) \subseteq ToSet(this'.queue[p])
        /\ \A p \in Rid : ToSet(wire[p]) \subseteq ToSet(wire'[p])
        /\ \A p \in Rid : \A z \in ToSet(this'.queue[p]) :
             \/ z \in ToSet(this.queue[p])
             \/ p = from /\ p \notin online /\ z.kind = "receipt" /\ z.env = f /\ z.ph = FALSE
        /\ \A p \in Rid : \A z \in ToSet(wire'[p]) :
             z \in ToSet(wire[p]) \/ (p = from /\ z.kind = "receipt" /\ z.env = f /\ z.ph = FALSE)
    <3>1. CASE from = None
      <4>1. this' = freed /\ wire' = wire
        BY <1>4, <1>12, <3>1
      <4> QED
        BY <1>1, <2>2, <4>1 DEF NetTyped
    <3>2. CASE from # None /\ from \in online
      <4>1. this' = freed /\ wire' = [wire EXCEPT ![from] = Append(wire[from], c)]
        BY <1>4, <1>12, <2>1, <2>4, <3>2
      <4>2. wire[from] \in Seq(Entry)
        BY <1>1, <2>6, <3>2 DEF NetTyped
      <4>3. ToSet(Append(wire[from], c)) = ToSet(wire[from]) \cup {c} /\ Append(wire[from], c) \in Seq(Entry)
        BY <2>5, <4>2, AppendMembers
      <4>4. wire' \in [Rid -> Seq(Entry)]
        BY <1>1, <4>1, <4>3 DEF NetTyped
      <4>5. \A p \in Rid : wire'[p] = IF p = from THEN Append(wire[from], c) ELSE wire[p]
        BY <1>1, <4>1 DEF NetTyped
      <4>6. /\ \A p \in Rid : ToSet(wire[p]) \subseteq ToSet(wire'[p])
            /\ \A p \in Rid : \A z \in ToSet(wire'[p]) : z \in ToSet(wire[p]) \/ (p = from /\ z = c)
        BY <4>3, <4>5
      <4> QED
        BY <2>2, <2>5, <4>1, <4>4, <4>6
    <3>3. CASE from # None /\ from \notin online
      <4>1. this' = Enqueue(freed, from, c) /\ wire' = wire
        BY <1>4, <1>12, <2>1, <2>4, <3>3
      <4>2. Well(this', now)
        BY <1>8, <2>2, <2>5, <2>6, <3>3, <4>1, EnqueueWell
      <4>3. PICK n : n = Enqueue(freed, from, c)
        OBVIOUS
      <4>4. /\ \A p \in Rid : ToSet(freed.queue[p]) \subseteq ToSet(n.queue[p])
            /\ \A p \in Rid : \A z \in ToSet(n.queue[p]) :
                 \/ z \in ToSet(freed.queue[p])
                 \/ p = from /\ z.kind = c.kind /\ z.env = c.env /\ z.ph = c.ph
        <5>1. Well(freed, now) /\ Clock /\ from \in Rid /\ c \in Entry
          BY <1>8, <2>2, <2>5, <2>6, <3>3
        <5>2. Grows(n, freed, from, c)
          BY <4>3, <5>1, EnqueueGrows
        <5> QED
          BY <5>2 DEF Grows
      <4>5. \A p \in Rid : \A z \in ToSet(this'.queue[p]) :
              \/ z \in ToSet(this.queue[p])
              \/ p = from /\ p \notin online /\ z.kind = "receipt" /\ z.env = f /\ z.ph = FALSE
        BY <2>2, <2>5, <3>3, <4>1, <4>3, <4>4
      <4> QED
        BY <1>1, <4>1, <4>2, <4>3, <4>4, <4>5 DEF NetTyped
    <3> QED
      BY <3>1, <3>2, <3>3
  <2>8. Well(this', now')
    BY <1>3, <2>7
  <2>9. NetTyped'
    BY <1>1, <1>3, <1>10, <2>7 DEF NetTyped
  <2>10. \A z : z.kind = "receipt" /\ z.env = f /\ z.ph = FALSE => Mail(z, from)
    BY <2>6 DEF Mail
  <2>11. Addressed'
    BY <1>1, <1>3, <2>7, <2>10 DEF Addressed
  <2>12. Earned'
    BY <1>1, <1>3, <2>7, <2>15 DEF Earned, ReceiptsTrue
  <2>13. Carried'
    <3>1. ASSUME NEW p \in online, NEW z \in ToSet(this'.queue[p])
          PROVE  \/ z \in ToSet(flush[p])
                 \/ /\ z.kind = "msg"
                    /\ z.env \in got \/ \E y \in ToSet(wire'[p]) : y.kind = "msg" /\ y.env = z.env
      <4>1. p \in Rid
        BY <1>1 DEF NetTyped
      <4>2. z \in ToSet(this.queue[p]) /\ ToSet(wire[p]) \subseteq ToSet(wire'[p])
        BY <2>7, <4>1
      <4> QED
        BY <1>1, <4>2 DEF Carried
    <3> QED
      BY <1>3, <3>1 DEF Carried
  <2>14. Secured'
    <3>1. ASSUME OwnIds, NEW g \in sent, NEW y \in ToSet(this.queue[g.to]), y.kind = "msg", y.env = g
          PROVE  y \in ToSet(this'.queue[g.to]) \/ g \in got
      <4>1. g.to \in Rid
        BY <1>1, ParamAssumption DEF NetTyped
      <4> QED
        BY <2>3, <2>7, <3>1, <4>1
    <3> QED
      BY <1>1, <1>3, <3>1 DEF Secured, HeldUntilGot, Queued
  <2> QED
    BY <1>9, <2>8, <2>9, <2>11, <2>12, <2>13, <2>14, InvNext
<1> QED
  BY <1>11, <1>12

\* What is there already when a retry is answered as stored.
LEMMA CopyIs ==
  ASSUME Well(this, now), Addressed, NEW e \in Env, Screened(e) = "copy"
  PROVE  Queued(e)
<1>1. PICK x \in ToSet(this.queue[e.to]) : x.ph /\ x.env = e
  BY Zenon DEF Screened
<1>2. e.to \in Rid
  BY ParamAssumption
<1>3. this.queue[e.to] \in Seq(Entry)
  BY <1>2, WellSound
<1>4. x \in Entry
  BY <1>3, SeqMembers
<1>5. Mail(x, e.to)
  BY <1>2 DEF Addressed
<1>6. x.kind = "msg"
  BY <1>1, <1>4, <1>5 DEF Mail, Entry
<1> QED
  BY <1>1, <1>6 DEF Queued

LEMMA ThereIs ==
  ASSUME OwnIds, Well(this, now), Addressed, NEW e \in Env, NEW x, x.kind = "msg", x.env = e,
         Verdict(this, e.to, x) = "there"
  PROVE  Queued(e)
<1>1. SlotsTaken(this, e.to, x) # {}
  BY Zenon DEF Verdict
<1>2. e.to \in Rid
  BY ParamAssumption
<1>3. this.queue[e.to] \in Seq(Entry)
  BY <1>2, WellSound
<1>4. PICK n \in DOMAIN this.queue[e.to] : Base(this.queue[e.to][n]) = Base(x)
  BY <1>1, Zenon DEF SlotsTaken
<1>5. PICK z : z = this.queue[e.to][n]
  OBVIOUS
<1>6. z \in ToSet(this.queue[e.to])
  BY <1>5 DEF ToSet
<1>7. z \in Entry /\ Mail(z, x.env.to) /\ x.env \in Env /\ Base(z) = Base(x)
  BY <1>2, <1>3, <1>4, <1>5, <1>6, SeqMembers DEF Addressed
<1>8. z.kind = "msg" /\ z.env = e
  BY <1>7, OneEnvelope
<1> QED
  BY <1>6, <1>8 DEF Queued

\* A send that changes no mailbox.
LEMMA SameSent ==
  ASSUME Inv, this' = this, UNCHANGED <<now, net, got, lapsed>>,
         sent' \subseteq Env, OwnIds => \A f \in sent' : f \in sent \/ Queued(f)
  PROVE  Inv'
<1>1. Well(this, now) /\ NetTyped /\ Addressed /\ AcksTrue /\ Carried /\ Earned /\ Secured
  BY InvParts
<1>2. /\ now' = now /\ online' = online /\ flush' = flush /\ wire' = wire /\ acks' = acks
      /\ got' = got /\ lapsed' = lapsed
  BY DEF net
<1>3. Well(this', now')
  BY <1>1, <1>2
<1>4. NetTyped'
  BY <1>1, <1>2 DEF NetTyped
<1>5. Addressed' /\ AcksTrue' /\ Earned' /\ Carried'
  BY <1>1, <1>2 DEF Addressed, AcksTrue, Earned, ReceiptsTrue, Carried
<1>6. Secured'
  <2>1. OwnIds => \A f \in sent' : Queued(f) \/ f \in got \/ f \in lapsed
    BY <1>1 DEF Secured, HeldUntilGot
  <2> QED
    BY <1>2, <2>1 DEF Secured, HeldUntilGot, Queued
<1> QED
  BY <1>3, <1>4, <1>5, <1>6, InvNext

LEMMA SendInv ==
  ASSUME Inv, NEW e \in Env, Send(e)
  PROVE  Inv'
<1>1. Well(this, now) /\ NetTyped /\ Addressed /\ AcksTrue /\ Carried /\ Earned /\ Secured
  BY InvParts
<1>2. PICK x, t, stored : /\ x = Msg(e, IntroBits(this, e.to) > 0) /\ t = e.to
                          /\ stored = Enqueue(this, t, x)
  OBVIOUS
<1>3. /\ now' = now /\ online' = online /\ flush' = flush /\ acks' = acks
      /\ got' = got /\ lapsed' = lapsed
  BY DEF Send
<1>4. \/ /\ sent' = IF Screened(e) = "copy" THEN sent \cup {e} ELSE sent
         /\ UNCHANGED <<this, wire>>
      \/ UNCHANGED <<this, sent, wire>>
      \/ /\ this' = stored \/ this' = [stored EXCEPT !.ip = @ + e.size]
         /\ sent' = IF Verdict(this, t, x) \in {"there", "new"} THEN sent \cup {e} ELSE sent
         /\ wire' = IF Verdict(this, t, x) \in {"there", "new"} /\ t \in online
                      THEN [wire EXCEPT ![t] = Append(wire[t], x)] ELSE wire
  BY <1>2 DEF Send
<1>5. sent \subseteq Env
  BY <1>1 DEF NetTyped
<1>6. CASE /\ sent' = IF Screened(e) = "copy" THEN sent \cup {e} ELSE sent
           /\ UNCHANGED <<this, wire>>
  <2>1. sent' \subseteq Env /\ \A f \in sent' : f \in sent \/ (f = e /\ Screened(e) = "copy")
    BY <1>5, <1>6
  <2>2. \A f \in sent' : f \in sent \/ Queued(f)
    BY <1>1, <2>1, CopyIs
  <2>3. this' = this /\ UNCHANGED <<now, net, got, lapsed>>
    BY <1>3, <1>6 DEF net
  <2> QED
    BY <2>1, <2>2, <2>3, SameSent
<1>7. CASE UNCHANGED <<this, sent, wire>>
  <2>1. this' = this /\ UNCHANGED <<now, net, got, lapsed>> /\ sent' = sent
    BY <1>3, <1>7 DEF net
  <2> QED
    BY <1>5, <2>1, SameSent
<1>8. CASE /\ this' = stored \/ this' = [stored EXCEPT !.ip = @ + e.size]
           /\ sent' = IF Verdict(this, t, x) \in {"there", "new"} THEN sent \cup {e} ELSE sent
           /\ wire' = IF Verdict(this, t, x) \in {"there", "new"} /\ t \in online
                        THEN [wire EXCEPT ![t] = Append(wire[t], x)] ELSE wire
  <2>1. Clock /\ t \in Rid /\ e.size \in Nat
    BY <1>1, <1>2, ParamAssumption DEF NetTyped, Clock
  <2>2. x \in Entry /\ x.kind = "msg" /\ x.env = e
    <3>1. 0 \in 0 .. IdSlots
      BY ParamAssumption
    <3>2. (IntroBits(this, e.to) > 0) \in BOOLEAN
      OBVIOUS
    <3> QED
      BY <1>2, <2>1, <3>1, <3>2 DEF Msg, Entry, Clock
  <2>3. Well(stored, now)
    BY <1>1, <1>2, <2>1, <2>2, EnqueueWell
  <2>4. Well(this', now) /\ this'.queue = stored.queue
    <3>1. PICK i : i = stored.ip + e.size
      OBVIOUS
    <3>2. i \in Nat
      BY <2>1, <2>3, <3>1 DEF Well, Book
    <3>3. this' = stored \/ this' = [stored EXCEPT !.ip = i]
      BY <1>8, <3>1
    <3> QED
      BY <2>3, <3>2, <3>3, BudgetWell
  <2>5. /\ Grows(stored, this, t, x)
        /\ Verdict(this, t, x) = "new" => Holds(stored, t, x)
        /\ Verdict(this, t, x) # "new" => stored.queue = this.queue
    BY <1>1, <1>2, <2>1, <2>2, EnqueueGrows
  <2>6. /\ \A p \in Rid : ToSet(this.queue[p]) \subseteq ToSet(this'.queue[p])
        /\ \A p \in Rid : \A z \in ToSet(this'.queue[p]) :
             \/ z \in ToSet(this.queue[p])
             \/ p = t /\ z.kind = "msg" /\ z.env = e /\ Verdict(this, t, x) = "new"
    BY <2>2, <2>4, <2>5 DEF Grows
  <2>7. wire[t] \in Seq(Entry)
    BY <1>1, <2>1 DEF NetTyped
  <2>8. ToSet(Append(wire[t], x)) = ToSet(wire[t]) \cup {x} /\ Append(wire[t], x) \in Seq(Entry)
    BY <2>2, <2>7, AppendMembers
  <2>9. /\ wire' \in [Rid -> Seq(Entry)]
        /\ \A p \in Rid : ToSet(wire[p]) \subseteq ToSet(wire'[p])
        /\ \A p \in Rid : \A z \in ToSet(wire'[p]) : z \in ToSet(wire[p]) \/ (p = t /\ z = x)
        /\ Verdict(this, t, x) = "new" /\ t \in online => x \in ToSet(wire'[t])
    <3>1. CASE wire' = [wire EXCEPT ![t] = Append(wire[t], x)]
      <4>1. /\ wire' \in [Rid -> Seq(Entry)]
            /\ \A p \in Rid : wire'[p] = IF p = t THEN Append(wire[t], x) ELSE wire[p]
        BY <1>1, <2>8, <3>1 DEF NetTyped
      <4> QED
        BY <2>1, <2>8, <4>1
    <3>2. CASE wire' = wire /\ ~(Verdict(this, t, x) = "new" /\ t \in online)
      BY <1>1, <3>2 DEF NetTyped
    <3> QED
      BY <1>8, <3>1, <3>2
  <2>10. Well(this', now')
    BY <1>3, <2>4
  <2>11. sent' \subseteq Env /\ \A f \in sent' : f \in sent \/ (f = e /\ Verdict(this, t, x) \in {"there", "new"})
    BY <1>5, <1>8
  <2>12. NetTyped'
    BY <1>1, <1>3, <2>9, <2>11 DEF NetTyped
  <2>13. Addressed'
    <3>1. \A z : z.kind = "msg" /\ z.env = e => Mail(z, t)
      BY <1>2 DEF Mail
    <3>2. Mail(x, t)
      BY <2>2, <3>1
    <3>3. ASSUME NEW p \in Rid, NEW z \in ToSet(this'.queue[p]) \cup ToSet(wire'[p]) \cup ToSet(flush[p])
          PROVE  Mail(z, p)
      <4>1. \/ z \in ToSet(this.queue[p]) \cup ToSet(wire[p]) \cup ToSet(flush[p])
            \/ p = t /\ z.kind = "msg" /\ z.env = e
            \/ p = t /\ z = x
        BY <2>6, <2>9
      <4> QED
        BY <1>1, <3>1, <3>2, <4>1 DEF Addressed
    <3> QED
      BY <1>3, <3>3 DEF Addressed
  <2>14. AcksTrue'
    BY <1>1, <1>3 DEF AcksTrue
  <2>15. Earned'
    BY <1>1, <1>3, <2>2, <2>6, <2>9 DEF Earned, ReceiptsTrue
  <2>16. Carried'
    <3>1. ASSUME NEW p \in online, NEW z \in ToSet(this'.queue[p])
          PROVE  \/ z \in ToSet(flush[p])
                 \/ /\ z.kind = "msg"
                    /\ z.env \in got \/ \E y \in ToSet(wire'[p]) : y.kind = "msg" /\ y.env = z.env
      <4>1. p \in Rid
        BY <1>1 DEF NetTyped
      <4>2. CASE z \in ToSet(this.queue[p])
        <5>1. ToSet(wire[p]) \subseteq ToSet(wire'[p])
          BY <2>9, <4>1
        <5> QED
          BY <1>1, <4>2, <5>1 DEF Carried
      <4>3. CASE p = t /\ z.kind = "msg" /\ z.env = e /\ Verdict(this, t, x) = "new"
        BY <2>2, <2>9, <4>3
      <4> QED
        BY <2>6, <4>1, <4>2, <4>3
    <3> QED
      BY <1>3, <3>1 DEF Carried
  <2>17. Secured'
    <3>1. \A f \in sent : \A y : f.to \in Rid /\ (y \in ToSet(this.queue[f.to]) => y \in ToSet(this'.queue[f.to]))
      BY <1>5, <2>6, ParamAssumption
    <3>2. Queued(e) => \E y \in ToSet(this'.queue[t]) : y.kind = "msg" /\ y.env = e
      BY <1>2, <2>1, <2>6 DEF Queued
    <3>3. OwnIds /\ Verdict(this, t, x) \in {"there", "new"} => \E y \in ToSet(this'.queue[t]) : y.kind = "msg" /\ y.env = e
      <4>1. CASE OwnIds /\ Verdict(this, t, x) = "there"
        BY <1>1, <1>2, <2>2, <3>2, <4>1, ThereIs
      <4>2. CASE Verdict(this, t, x) = "new"
        BY <2>2, <2>4, <2>5, <4>2 DEF Holds
      <4> QED
        BY <4>1, <4>2
    <3>4. ASSUME OwnIds, NEW f \in sent'
          PROVE  (\E y \in ToSet(this'.queue[f.to]) : y.kind = "msg" /\ y.env = f) \/ f \in got \/ f \in lapsed
      <4>1. CASE f \in sent
        <5>1. Queued(f) \/ f \in got \/ f \in lapsed
          BY <1>1, <3>4, <4>1 DEF Secured, HeldUntilGot
        <5> QED
          BY <3>1, <4>1, <5>1 DEF Queued
      <4>2. CASE f = e /\ Verdict(this, t, x) \in {"there", "new"}
        BY <1>2, <3>3, <3>4, <4>2
      <4> QED
        BY <2>11, <4>1, <4>2
    <3> QED
      BY <1>3, <3>4 DEF Secured, HeldUntilGot, Queued
  <2> QED
    BY <2>10, <2>12, <2>13, <2>14, <2>15, <2>16, <2>17, InvNext
<1> QED
  BY <1>4, <1>6, <1>7, <1>8

-----------------------------------------------------------------------------
\* The invariant holds first and is kept.
LEMMA SumZero ==
  ASSUME NEW f, NEW S, Numbers(f, S), \A x \in S : f[x] = 0
  PROVE  SumFunctionOnSet(f, S) = 0
<1>1. PICK s : s = SumFunctionOnSet(f, S)
  OBVIOUS
<1>2. s \in Nat
  BY <1>1, SumPick
<1>3. \A x \in S : f[x] = f[x] + f[x]
  OBVIOUS
<1>4. s = s + s
  BY <1>1, <1>3, SumAdd
<1>5. s = 0
  BY <1>2, <1>4
<1> QED
  BY <1>1, <1>5

LEMMA InitInv ==
  ASSUME Init
  PROVE  Inv
<1>1. /\ this.queue = [r \in Rid |-> <<>>] /\ this.bytes = 0 /\ this.count = 0 /\ this.unowned = 0
      /\ this.owned = <<>> /\ this.intro = <<>> /\ this.seen = <<>> /\ this.tokens = NewMailboxPerMin
      /\ this.ip = 0 /\ this.push = {} /\ this.paid = {}
      /\ now = 0 /\ online = {} /\ sent = {} /\ got = {} /\ lapsed = {}
      /\ flush = [r \in Rid |-> <<>>] /\ wire = [r \in Rid |-> <<>>] /\ acks = [r \in Rid |-> <<>>]
  BY DEF Init
<1>2. /\ <<>> \in Seq(Entry) /\ <<>> \in Seq(Env) /\ <<>> \in Seq(Owner) /\ <<>> \in Seq(Flag)
      /\ DOMAIN <<>> = {} /\ ToSet(<<>>) = {} /\ Len(<<>>) = 0
  <2>1. \A S : <<>> \in Seq(S) /\ Len(<<>>) = 0
    BY EmptySeq
  <2>2. DOMAIN <<>> = {}
    BY <2>1, LenProperties
  <2> QED
    BY <2>1, <2>2, EmptyMembers
<1>3. NewMailboxPerMin \in Nat /\ MaxTime \in Nat
  BY ParamAssumption
<1>4. this \in Book
  <2>2. PICK q, o, i, s, d : q = [r \in Rid |-> <<>>] /\ o = <<>> /\ i = <<>> /\ s = <<>> /\ d = {}
    OBVIOUS
  <2>3. this = [queue |-> q, bytes |-> 0, count |-> 0, unowned |-> 0,
                owned |-> o, intro |-> i, seen |-> s, tokens |-> NewMailboxPerMin,
                ip |-> 0, push |-> d, paid |-> d]
    BY <2>2 DEF Init
  <2>4. q \in [Rid -> Seq(Entry)] /\ o \in Seq(Owner) /\ i \in Seq(Flag) /\ s \in Seq(Owner) /\ d \subseteq Rid
    BY <1>2, <2>2
  <2> QED
    BY <1>3, <2>3, <2>4 DEF Book
<1>5. Kept(this, now) /\ Paid(this) /\ Quiet(this, now)
  <2>1. Orderly(<<>>, now)
    BY <1>2 DEF Orderly, Aged
  <2>2. Rids(<<>>) = {}
    BY <1>2 DEF Rids
  <2> QED
    BY <1>1, <2>1, <2>2 DEF Kept, Paid, Quiet
<1>6. Balanced(this)
  <2>1. this.queue \in [Rid -> Seq(Entry)] /\ IsFiniteSet(Rid) /\ NotOwned(this) \subseteq Rid
    BY <1>4, ParamAssumption DEF Book, NotOwned
  <2>2. \A A \in SUBSET Rid : Returned(this, A) = 0
    <3>1. ASSUME NEW A \in SUBSET Rid PROVE Returned(this, A) = 0
      <4>1. PICK w : w = [r \in Rid |-> QBytes(this.queue[r])]
        OBVIOUS
      <4>2. Numbers(w, A)
        BY <2>1, <4>1, ReturnedIs
      <4>3. \A r \in A : w[r] = 0
        BY <1>1, <4>1, QBytesEmpty
      <4> QED
        BY <4>1, <4>2, <4>3, SumZero DEF Returned
    <3> QED
      BY <3>1
  <2>3. SumFunctionOnSet(Lens(this), Rid) = 0
    <3>1. Numbers(Lens(this), Rid)
      BY <2>1, LensNumbers
    <3>2. \A r \in Rid : Lens(this)[r] = 0
      BY <1>1, <1>2 DEF Lens
    <3> QED
      BY <3>1, <3>2, SumZero
  <2>4. this.bytes = Returned(this, Rid) /\ this.unowned = Returned(this, NotOwned(this))
    BY <1>1, <2>1, <2>2
  <2> QED
    BY <1>1, <2>3, <2>4 DEF Balanced, Spared
<1>7. NetTyped
  BY <1>1, <1>2, <1>3 DEF NetTyped
<1>8. \A r \in Rid : /\ ToSet(this.queue[r]) = {} /\ ToSet(wire[r]) = {} /\ ToSet(flush[r]) = {}
                     /\ ToSet(acks[r]) = {}
  BY <1>1, <1>2
<1>9. Addressed /\ AcksTrue /\ Carried /\ Earned /\ Secured
  BY <1>1, <1>8 DEF Addressed, AcksTrue, Earned, ReceiptsTrue, Carried, Secured, HeldUntilGot
<1> QED
  BY <1>4, <1>5, <1>6, <1>7, <1>9, InvParts DEF Well

\* Every step of the relay and of the apps keeps the invariant.
THEOREM InvHolds == Spec => []Inv
<1>1. Inv /\ [Next]_vars => Inv'
  <2> SUFFICES ASSUME Inv, [Next]_vars PROVE Inv'
    OBVIOUS
  <2>1. ASSUME NEW e \in Env, Send(e) PROVE Inv'
    BY <2>1, SendInv
  <2>2. ASSUME NEW r \in Rid, Login(r) PROVE Inv'
    BY <2>2, LoginInv
  <2>3. ASSUME NEW r \in Rid, FlushOn(r) PROVE Inv'
    BY <2>3, FlushOnInv
  <2>4. ASSUME NEW r \in Rid, Lose(r) PROVE Inv'
    BY <2>4, LoseInv
  <2>5. ASSUME NEW r \in Rid, Read(r) PROVE Inv'
    BY <2>5, ReadInv
  <2>6. ASSUME NEW r \in Rid, Ack(r) PROVE Inv'
    BY <2>6, AckInv
  <2>7. ASSUME NEW r \in Rid, AckDropped(r) PROVE Inv'
    BY <2>7, AckDroppedInv
  <2>8. ASSUME NEW r \in Rid, RegisterPush(r) PROVE Inv'
    BY <2>8, RegisterPushInv
  <2>9. ASSUME NEW r \in Rid, NEW bits \in Bits, Intro(r, bits) PROVE Inv'
    BY <2>9, IntroInv
  <2>10. CASE Sweep
    BY <2>10, SweepInv
  <2>11. CASE Tick
    BY <2>11, TickInv
  <2>12. CASE UNCHANGED vars
    BY <2>12, StutterInv
  <2> QED
    BY <2>1, <2>2, <2>3, <2>4, <2>5, <2>6, <2>7, <2>8, <2>9, <2>10, <2>11, <2>12 DEF Next
<1> QED
  BY <1>1, InitInv, PTL DEF Spec

-----------------------------------------------------------------------------
\* Every total, list, mailbox, socket and flush keeps its type: no counter is
\* ever negative, whatever is subtracted from it.
THEOREM TypeCorrect == Spec => []TypeOK
<1>1. Inv => TypeOK
  <2> SUFFICES ASSUME Inv PROVE TypeOK
    OBVIOUS
  <2>1. this \in Book /\ NetTyped
    BY InvParts DEF Well
  <2>2. /\ this.queue \in [Rid -> Seq(Entry)]
        /\ {this.bytes, this.count, this.unowned, this.tokens, this.ip} \subseteq Nat
        /\ this.owned \in Seq(Owner) /\ this.intro \in Seq(Flag) /\ this.seen \in Seq(Owner)
        /\ this.push \subseteq Rid /\ this.paid \subseteq Rid
    BY <2>1 DEF Book
  <2>3. /\ online \subseteq Rid /\ acks \in [Rid -> Seq(Env)] /\ sent \cup got \cup lapsed \subseteq Env
        /\ \A r \in Rid : flush[r] \in Seq(Entry) /\ wire[r] \in Seq(Entry)
    BY <2>1 DEF NetTyped
  <2> QED
    BY <2>2, <2>3 DEF TypeOK, Owner, Flag
<1> QED
  BY <1>1, InvHolds, PTL

\* The byte, envelope and unowned totals are what the queues hold, after any
\* number of claims, flags, shadows, expiries and acknowledgements.
THEOREM TotalsExact == Spec => []Accounted
<1>1. Inv => Accounted
  BY DEF Inv
<1> QED
  BY <1>1, InvHolds, PTL

\* What is queued for an open socket and was not persisted is in a frame on its
\* way or still to come in its flush, whatever arrives, expires or is written
\* between two pages.
THEOREM NothingWaits == Spec => []NothingStranded
<1>1. Inv => NothingStranded
  <2> SUFFICES ASSUME Inv, NEW r \in Rid, r \in online, NEW x \in ToSet(this.queue[r])
               PROVE  \/ x.kind = "msg" /\ x.env \in got
                      \/ \E y \in ToSet(wire[r] \o flush[r]) : y.kind = x.kind /\ y.env = x.env
    BY DEF NothingStranded
  <2>1. NetTyped /\ Carried
    BY InvParts
  <2>2. wire[r] \in Seq(Entry) /\ flush[r] \in Seq(Entry)
    BY <2>1 DEF NetTyped
  <2>3. ToSet(wire[r] \o flush[r]) = ToSet(wire[r]) \cup ToSet(flush[r])
    BY <2>2, ConcatMembers
  <2> QED
    BY <2>1, <2>3 DEF Carried
<1> QED
  BY <1>1, InvHolds, PTL

\* An envelope somebody was told `sent` for is held until its recipient has
\* persisted it or its time is over, unless two envelopes share an id: no
\* acknowledgement, flush, retry or trim takes it away before.
THEOREM SentIsHeld ==
  ASSUME OwnIds
  PROVE  Spec => []HeldUntilGot
<1>1. Inv => HeldUntilGot
  BY DEF Inv, Secured
<1> QED
  BY <1>1, InvHolds, PTL

\* A mailbox with mail, or that counts as seen, was paid for with a token of
\* the creation gate.
THEOREM MailboxesPaid == Spec => []SeenPaid
<1>1. Inv => SeenPaid
  BY DEF Inv, Paid, SeenPaid
<1> QED
  BY <1>1, InvHolds, PTL

\* A delivery receipt, queued or on its way, is for an envelope its recipient
\* has persisted, unless two envelopes share an id.
THEOREM ReceiptsEarned ==
  ASSUME OwnIds
  PROVE  Spec => []ReceiptTrue
<1>1. Inv => ReceiptTrue
  <2> SUFFICES ASSUME Inv, NEW r \in Rid, NEW x \in ToSet(wire[r] \o this.queue[r] \o flush[r]),
                      x.kind = "receipt"
               PROVE  x.env \in got
    BY DEF ReceiptTrue
  <2>1. NetTyped /\ ReceiptsTrue /\ Well(this, now)
    BY InvParts DEF Earned
  <2>2. wire[r] \in Seq(Entry) /\ flush[r] \in Seq(Entry) /\ this.queue[r] \in Seq(Entry)
    BY <2>1, WellSound DEF NetTyped
  <2>3. PICK c : c = wire[r] \o this.queue[r]
    OBVIOUS
  <2>4. c \in Seq(Entry) /\ ToSet(c) = ToSet(wire[r]) \cup ToSet(this.queue[r])
    BY <2>2, <2>3, ConcatMembers
  <2>5. ToSet(c \o flush[r]) = ToSet(c) \cup ToSet(flush[r])
    BY <2>2, <2>4, ConcatMembers
  <2> QED
    BY <2>1, <2>3, <2>4, <2>5 DEF ReceiptsTrue
<1> QED
  BY <1>1, InvHolds, PTL

\* Owners, flags and mailboxes seen stay in the order of their last use, so a
\* walk that stops at the first that stays has forgotten all that are due.
THEOREM ListsSorted == Spec => []WalksSorted
<1>1. Inv => WalksSorted
  BY InvParts DEF Well, Kept, Orderly, WalksSorted
<1> QED
  BY <1>1, InvHolds, PTL

\* No mailbox with a flag or a shadow that counts has a token to be woken by.
THEOREM IntroUnwoken == Spec => []NeverWoken
<1>1. Inv => NeverWoken
  <2> SUFFICES ASSUME Inv, NEW r \in this.push PROVE IntroBits(this, r) = 0
    BY DEF NeverWoken
  <2>1. Well(this, now) /\ Clock
    BY InvParts DEF NetTyped, Clock
  <2>2. this \in Book /\ Unflagged(this, r, now)
    BY <2>1 DEF Well, Quiet
  <2> QED
    BY <2>1, <2>2, NoBits
<1> QED
  BY <1>1, InvHolds, PTL
=============================================================================
