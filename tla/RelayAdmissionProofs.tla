------------------------ MODULE RelayAdmissionProofs ------------------------
(***************************************************************************)
(* What holds of admission for every set of routing ids and instances and  *)
(* every limit: the types, and that no token of a bucket and no slot of    *)
(* the store's window is kept by two, given back twice or lost unseen.     *)
(***************************************************************************)
EXTENDS RelayAdmission, FiniteSetTheorems, WellFoundedInduction, TLAPS

\* Sends under way have numbers of their own.
Numbered ==
    /\ IsFiniteSet(calls) /\ sends \in 0 .. MaxSends
    /\ \A c \in calls : c.id <= sends
    /\ \A c, d \in calls : c.id = d.id => c = d

\* A send holds a token, or a slot of a window that has been, or neither.
Holding ==
    /\ \A c \in calls : /\ c.pc = "take" => ~c.local /\ c.window = None
                        /\ c.local => c.window = None
                        /\ c.pc = "refund" => c.window # None
                        /\ c.window <= win.w
    /\ win.w <= now

\* The sends that hold a token of an instance, and a slot of a window.
Locals(i, S) == {c \in S : c.inst = i /\ c.local}
Slotted(w, S) == {c \in S : c.window = w}

Call(n) == [id : 1 .. MaxSends, inst : Inst, rid : Rid, stamp : BOOLEAN,
            pc : {"take", "push", "refund"}, fresh : BOOLEAN,
            local : BOOLEAN, window : {None} \cup 0 .. n]

Walk == [todo : SUBSET Rid, at : SUBSET Rid, sum : Nat, whole : BOOLEAN, on : BOOLEAN,
         came : Nat, went : Nat, extra : Nat]

\* The types, of the mailboxes and of what guards them.
BoxesOK ==
    /\ box \in [Rid -> 0 .. BoxCap] /\ ub \in Nat
    /\ owned \subseteq Rid /\ flagged \subseteq Rid
    /\ seen \in [Inst -> SUBSET Rid] /\ walk \in [Inst -> Walk]
    /\ came \in Nat /\ went \in Nat /\ extra \in Nat

GateOK ==
    /\ now \in 0 .. MaxNow /\ win \in [w : 0 .. MaxNow, n : 0 .. Allowance]
    /\ tokens \in [Inst -> 0 .. Allowance] /\ calls \subseteq Call(now)
    /\ made \in [Inst -> Nat] /\ kept \in Nat /\ leaked \in Nat

\* TokensExact and SlotsExact, by the sets counted.
Sums ==
    /\ \A i \in Inst : tokens[i] + made[i] + Cardinality(Locals(i, calls)) = Allowance
    /\ win.n = kept + leaked + Cardinality(Slotted(win.w, calls))

Gates == GateOK /\ Numbered /\ Holding /\ Sums

Inv == BoxesOK /\ Gates

-----------------------------------------------------------------------------
\* A send leaves: it takes with it what it held, and nothing else.
LEMMA Leaves ==
    ASSUME Gates, NEW c \in calls, Ends(c), UNCHANGED sends
    PROVE  /\ Numbered'
           /\ \A i \in Inst : Cardinality(Locals(i, calls'))
                = Cardinality(Locals(i, calls)) - (IF c.inst = i /\ c.local THEN 1 ELSE 0)
           /\ \A w \in Int : Cardinality(Slotted(w, calls'))
                = Cardinality(Slotted(w, calls)) - (IF c.window = w THEN 1 ELSE 0)
<1>1. calls' = calls \ {c}
  BY DEF Ends
<1>2. IsFiniteSet(calls) /\ IsFiniteSet(calls')
  BY <1>1, FS_RemoveElement DEF Gates, Numbered
<1>3. Numbered'
  BY <1>1, <1>2 DEF Gates, Numbered
<1>4. ASSUME NEW T \in SUBSET calls
      PROVE  Cardinality(T \ {c}) = Cardinality(T) - (IF c \in T THEN 1 ELSE 0)
  <2>1. IsFiniteSet(T) /\ Cardinality(T) \in Nat
    BY <1>2, FS_Subset, FS_CardinalityType
  <2>2. CASE c \in T
    BY <2>1, <2>2, FS_RemoveElement
  <2>3. CASE c \notin T
    <3>1. Cardinality(T \ {c}) = Cardinality(T)
      <4>1. T \ {c} = T
        BY <2>3
      <4> QED
        BY <4>1, Zenon
    <3>2. Cardinality(T) = Cardinality(T) - (IF c \in T THEN 1 ELSE 0)
      BY <2>1, <2>3, SMT
    <3> QED
      BY <3>1, <3>2, Zenon
  <2> QED
    BY <2>2, <2>3
<1>5. ASSUME NEW i \in Inst
      PROVE  Cardinality(Locals(i, calls'))
               = Cardinality(Locals(i, calls)) - (IF c.inst = i /\ c.local THEN 1 ELSE 0)
  <2>1. Locals(i, calls') = Locals(i, calls) \ {c} /\ Locals(i, calls) \in SUBSET calls
    BY <1>1 DEF Locals
  <2>2. c \in Locals(i, calls) <=> c.inst = i /\ c.local
    BY DEF Locals
  <2> QED
    BY <1>4, <2>1, <2>2
<1>6. ASSUME NEW w \in Int
      PROVE  Cardinality(Slotted(w, calls'))
               = Cardinality(Slotted(w, calls)) - (IF c.window = w THEN 1 ELSE 0)
  <2>1. Slotted(w, calls') = Slotted(w, calls) \ {c} /\ Slotted(w, calls) \in SUBSET calls
    BY <1>1 DEF Slotted
  <2>2. c \in Slotted(w, calls) <=> c.window = w
    BY DEF Slotted
  <2> QED
    BY <1>4, <2>1, <2>2
<1> QED
  BY <1>3, <1>5, <1>6

\* A send goes on: what it holds changes hands within it.
LEMMA GoesOn ==
    ASSUME Gates, NEW c \in calls, NEW d, Becomes(c, d), d.id = c.id, UNCHANGED sends
    PROVE  /\ Numbered'
           /\ \A i \in Inst : Cardinality(Locals(i, calls'))
                = Cardinality(Locals(i, calls)) - (IF c.inst = i /\ c.local THEN 1 ELSE 0)
                    + (IF d.inst = i /\ d.local THEN 1 ELSE 0)
           /\ \A w \in Int : Cardinality(Slotted(w, calls'))
                = Cardinality(Slotted(w, calls)) - (IF c.window = w THEN 1 ELSE 0)
                    + (IF d.window = w THEN 1 ELSE 0)
<1>1. calls' = (calls \ {c}) \cup {d}
  BY DEF Becomes
<1>2. IsFiniteSet(calls) /\ IsFiniteSet(calls \ {c}) /\ IsFiniteSet(calls')
  BY <1>1, FS_RemoveElement, FS_AddElement DEF Gates, Numbered
<1>3. d \notin calls \ {c}
  BY DEF Gates, Numbered
<1>4. Numbered'
  BY <1>1, <1>2 DEF Gates, Numbered
<1>5. ASSUME NEW T \in SUBSET calls, NEW U \in SUBSET {d}
      PROVE  Cardinality((T \ {c}) \cup U)
               = Cardinality(T) - (IF c \in T THEN 1 ELSE 0) + (IF d \in U THEN 1 ELSE 0)
  <2>1. IsFiniteSet(T) /\ Cardinality(T) \in Nat
    BY <1>2, FS_Subset, FS_CardinalityType
  <2>2. /\ IsFiniteSet(T \ {c})
        /\ Cardinality(T \ {c}) = Cardinality(T) - (IF c \in T THEN 1 ELSE 0)
    <3>1. CASE c \in T
      BY <2>1, <3>1, FS_RemoveElement
    <3>2. CASE c \notin T
      <4>1. T \ {c} = T
        BY <3>2
      <4>2. Cardinality(T \ {c}) = Cardinality(T)
        BY <4>1, Zenon
      <4>3. IsFiniteSet(T \ {c})
        BY <4>1, <2>1, Zenon
      <4>4. Cardinality(T) = Cardinality(T) - (IF c \in T THEN 1 ELSE 0)
        BY <2>1, <3>2, SMT
      <4> QED
        BY <4>2, <4>3, <4>4, Zenon
    <3> QED
      BY <3>1, <3>2
  <2>3. d \notin T \ {c} /\ Cardinality(T \ {c}) \in Int
    BY <1>3, <2>1, <2>2, FS_CardinalityType
  <2>4. CASE U = {}
    <3>1. (T \ {c}) \cup U = T \ {c}
      BY <2>4
    <3> QED
      BY <3>1, <2>1, <2>2, <2>4
  <2>5. CASE U = {d}
    <3>1. Cardinality((T \ {c}) \cup {d}) = Cardinality(T \ {c}) + 1
      BY <2>2, <2>3, FS_AddElement
    <3> QED
      BY <3>1, <2>1, <2>2, <2>5
  <2> QED
    BY <2>4, <2>5
<1>6. ASSUME NEW i \in Inst
      PROVE  Cardinality(Locals(i, calls'))
               = Cardinality(Locals(i, calls)) - (IF c.inst = i /\ c.local THEN 1 ELSE 0)
                   + (IF d.inst = i /\ d.local THEN 1 ELSE 0)
  <2>1. /\ Locals(i, calls') = (Locals(i, calls) \ {c}) \cup Locals(i, {d})
        /\ Locals(i, calls) \in SUBSET calls /\ Locals(i, {d}) \in SUBSET {d}
    BY <1>1 DEF Locals
  <2>2. /\ c \in Locals(i, calls) <=> c.inst = i /\ c.local
        /\ d \in Locals(i, {d}) <=> d.inst = i /\ d.local
    BY DEF Locals
  <2>3. Cardinality((Locals(i, calls) \ {c}) \cup Locals(i, {d}))
          = Cardinality(Locals(i, calls)) - (IF c \in Locals(i, calls) THEN 1 ELSE 0)
              + (IF d \in Locals(i, {d}) THEN 1 ELSE 0)
    BY <1>5, <2>1
  <2> QED
    BY <2>1, <2>2, <2>3
<1>7. ASSUME NEW w \in Int
      PROVE  Cardinality(Slotted(w, calls'))
               = Cardinality(Slotted(w, calls)) - (IF c.window = w THEN 1 ELSE 0)
                   + (IF d.window = w THEN 1 ELSE 0)
  <2>1. /\ Slotted(w, calls') = (Slotted(w, calls) \ {c}) \cup Slotted(w, {d})
        /\ Slotted(w, calls) \in SUBSET calls /\ Slotted(w, {d}) \in SUBSET {d}
    BY <1>1 DEF Slotted
  <2>2. /\ c \in Slotted(w, calls) <=> c.window = w
        /\ d \in Slotted(w, {d}) <=> d.window = w
    BY DEF Slotted
  <2>3. Cardinality((Slotted(w, calls) \ {c}) \cup Slotted(w, {d}))
          = Cardinality(Slotted(w, calls)) - (IF c \in Slotted(w, calls) THEN 1 ELSE 0)
              + (IF d \in Slotted(w, {d}) THEN 1 ELSE 0)
    BY <1>5, <2>1
  <2> QED
    BY <2>1, <2>2, <2>3
<1> QED
  BY <1>4, <1>6, <1>7
-----------------------------------------------------------------------------
LEMMA InvSays == Inv => TypeOK /\ TokensExact /\ SlotsExact
<1>1. BoxesOK /\ GateOK => TypeOK
  BY DEF TypeOK, BoxesOK, GateOK, Call, Walk
<1>2. Sums => TokensExact /\ SlotsExact
  BY DEF Sums, TokensExact, SlotsExact, Locals, Slotted
<1> QED
  BY <1>1, <1>2 DEF Inv, Gates

LEMMA EntersTyped ==
    ASSUME BoxesOK, NEW r \in Rid, NEW stored \in BOOLEAN,
           stored => box[r] + 1 <= BoxCap, Enters(r, stored)
    PROVE  /\ box' \in [Rid -> 0 .. BoxCap] /\ ub' \in Nat
           /\ walk' \in [Inst -> Walk] /\ came' \in Nat /\ went' \in Nat /\ extra' \in Nat
<1>1. CASE ~stored
  BY <1>1 DEF Enters, BoxesOK, drift
<1>2. CASE stored
  <2>1. box' \in [Rid -> 0 .. BoxCap]
    BY <1>2, AdmissionAssumption DEF Enters, BoxesOK
  <2>2. CASE r \in Unowned
    <3>1. ub' \in Nat /\ came' \in Nat /\ went' \in Nat /\ extra' \in Nat
      BY <1>2, <2>2 DEF Enters, BoxesOK, drift
    <3>2. walk' = [i \in Inst |-> IF walk[i].on THEN [walk[i] EXCEPT !.came = @ + 1] ELSE walk[i]]
      BY <1>2, <2>2 DEF Enters
    <3>3. walk' \in [Inst -> Walk]
      BY <3>2 DEF BoxesOK, Walk
    <3> QED
      BY <2>1, <3>1, <3>3
  <2>3. CASE r \notin Unowned
    BY <1>2, <2>1, <2>3 DEF Enters, BoxesOK, drift
  <2> QED
    BY <2>2, <2>3
<1> QED
  BY <1>1, <1>2

LEMMA UnseenTyped ==
    ASSUME BoxesOK, NEW c \in Nat, NEW g \in Nat, Unseen(c, g, walk)
    PROVE  walk' \in [Inst -> Walk] /\ came' \in Nat /\ went' \in Nat /\ extra' \in Nat
<1>1. walk' = [i \in Inst |-> IF walk[i].on THEN [walk[i] EXCEPT !.came = @ + c, !.went = @ + g]
                             ELSE walk[i]]
  BY DEF Unseen
<1>2. ASSUME NEW w \in Walk
      PROVE  [w EXCEPT !.came = @ + c, !.went = @ + g] \in Walk
  <2>1. w.came + c \in Nat /\ w.went + g \in Nat
    BY DEF Walk
  <2> QED
    BY <2>1 DEF Walk
<1>3. walk' \in [Inst -> Walk]
  BY <1>1, <1>2 DEF BoxesOK
<1>4. came' = came + c /\ went' = went + g /\ extra' = extra
  BY DEF Unseen
<1>5. came' \in Nat /\ went' \in Nat /\ extra' \in Nat
  BY <1>4 DEF BoxesOK
<1> QED
  BY <1>3, <1>5

\* What a push may enter has room.
LEMMA RoomFor ==
    ASSUME BoxesOK, NEW c \in calls, calls \subseteq Call(now), Code(c) \in {1, 2}
    PROVE  box[c.rid] + 1 <= BoxCap
<1>1. c.rid \in Rid /\ box[c.rid] \in Nat
  BY AdmissionAssumption DEF BoxesOK, Call
<1>2. ~(box[c.rid] + 1 > BoxCap)
  BY DEF Code
<1> QED
  BY <1>1, <1>2, AdmissionAssumption

LEMMA PushTyped ==
    ASSUME BoxesOK, NEW c \in calls, calls \subseteq Call(now), Push(c)
    PROVE  BoxesOK'
<1>1. c.rid \in Rid /\ c.inst \in Inst
  BY DEF Call
<1>2. owned' = owned /\ flagged' = flagged
  BY DEF Push
<1>3. seen' \in [Inst -> SUBSET Rid]
  <2>1. \E T \in {seen[c.inst], seen[c.inst] \cup {c.rid}} :
          seen' = [seen EXCEPT ![c.inst] = T] \/ seen' = seen
    BY DEF Push
  <2> QED
    BY <1>1, <2>1 DEF BoxesOK
<1>4. Enters(c.rid, FALSE) \/ (Enters(c.rid, TRUE) /\ Code(c) \in {1, 2})
  <2>1. CASE Code(c) \in {1, 2}
    BY <2>1 DEF Push, Enters
  <2>2. CASE Code(c) \notin {1, 2}
    BY <2>2 DEF Push, Enters
  <2> QED
    BY <2>1, <2>2
<1>5. CASE Enters(c.rid, FALSE)
  BY <1>1, <1>2, <1>3, <1>5, EntersTyped DEF BoxesOK
<1>6. CASE Enters(c.rid, TRUE) /\ Code(c) \in {1, 2}
  <2>1. box[c.rid] + 1 <= BoxCap
    BY <1>6, RoomFor
  <2> QED
    BY <1>1, <1>2, <1>3, <1>6, <2>1, EntersTyped DEF BoxesOK
<1> QED
  BY <1>4, <1>5, <1>6

\* What a step of a walk makes of it: it goes past an owned mailbox, stops at
\* one, adds its bytes up, or is spoilt.
WalkStep(w, v, r) ==
    \/ r \in owned /\ v = [w EXCEPT !.todo = @ \ {r}]
    \/ v = [w EXCEPT !.at = {r}]
    \/ /\ r \in w.at
       /\ v = [w EXCEPT !.at = {}, !.todo = @ \ {r}, !.sum = @ + box[r],
                 !.extra = @ + (IF r \in w.todo /\ r \in Unowned THEN 0 ELSE box[r])]
    \/ \E A \in SUBSET Rid : v = [w EXCEPT !.at = A, !.todo = @ \ {r}, !.whole = FALSE]

LEMMA Steps ==
    ASSUME BoxesOK, NEW i \in Inst, NEW r \in Rid, AskOwned(i, r) \/ AddBytes(i, r)
    PROVE  \E v : WalkStep(walk[i], v, r) /\ walk' = [walk EXCEPT ![i] = v]
<1>1. PICK w \in Walk : w = walk[i]
  BY DEF BoxesOK
<1>2. w.at \in SUBSET Rid /\ [w EXCEPT !.at = w.at, !.todo = @ \ {r}, !.whole = FALSE]
                                = [w EXCEPT !.todo = @ \ {r}, !.whole = FALSE]
  BY DEF Walk
<1>3. CASE AskOwned(i, r)
  <2>1. CASE r \in owned /\ walk' = [walk EXCEPT ![i].todo = @ \ {r}]
    BY <1>1, <2>1 DEF WalkStep
  <2>2. CASE walk' = [walk EXCEPT ![i].at = {r}]
    BY <1>1, <2>2 DEF WalkStep
  <2>3. CASE walk' = [walk EXCEPT ![i].todo = @ \ {r}, ![i].whole = FALSE]
    <3>1. walk' = [walk EXCEPT ![i] = [w EXCEPT !.todo = @ \ {r}, !.whole = FALSE]]
      BY <1>1, <2>3 DEF BoxesOK
    <3> QED
      BY <1>1, <1>2, <3>1 DEF WalkStep
  <2> QED
    BY <1>3, <2>1, <2>2, <2>3, Zenon DEF AskOwned
<1>4. CASE AddBytes(i, r)
  <2>1. CASE walk' = [walk EXCEPT ![i].at = {}, ![i].todo = @ \ {r},
                        ![i].sum = @ + box[r], ![i].extra = @ + Excess(i, r)]
    <3>1. walk' = [walk EXCEPT ![i] = [w EXCEPT !.at = {}, !.todo = @ \ {r}, !.sum = @ + box[r],
                                         !.extra = @ + Excess(i, r)]]
      BY <1>1, <2>1 DEF BoxesOK
    <3>2. r \in w.at
      BY <1>1, <1>4 DEF AddBytes
    <3> QED
      BY <1>1, <3>1, <3>2 DEF WalkStep, Excess
  <2>2. CASE walk' = [walk EXCEPT ![i].at = {}, ![i].todo = @ \ {r}, ![i].whole = FALSE]
    <3>1. walk' = [walk EXCEPT ![i] = [w EXCEPT !.at = {}, !.todo = @ \ {r}, !.whole = FALSE]]
      BY <1>1, <2>2 DEF BoxesOK
    <3> QED
      BY <1>1, <3>1 DEF WalkStep
  <2> QED
    BY <1>4, <2>1, <2>2, Zenon DEF AddBytes
<1> QED
  BY <1>3, <1>4

LEMMA StepTyped ==
    ASSUME BoxesOK, NEW r \in Rid, NEW w \in Walk, NEW v, WalkStep(w, v, r)
    PROVE  v \in Walk
<1>1. box[r] \in Nat
  BY AdmissionAssumption DEF BoxesOK
<1>2. PICK n, m \in Nat : /\ n = w.sum + box[r]
                          /\ m = w.extra + (IF r \in w.todo /\ r \in Unowned THEN 0 ELSE box[r])
  BY <1>1 DEF Walk
<1>3. CASE v = [w EXCEPT !.at = {}, !.todo = @ \ {r}, !.sum = n, !.extra = m]
  BY <1>3 DEF Walk
<1>4. CASE v = [w EXCEPT !.todo = @ \ {r}] \/ v = [w EXCEPT !.at = {r}]
  BY <1>4 DEF Walk
<1>5. CASE \E A \in SUBSET Rid : v = [w EXCEPT !.at = A, !.todo = @ \ {r}, !.whole = FALSE]
  BY <1>5 DEF Walk
<1> QED
  BY <1>2, <1>3, <1>4, <1>5 DEF WalkStep

LEMMA BoxesStep ==
    ASSUME BoxesOK, calls \subseteq Call(now), [Next]_vars
    PROVE  BoxesOK'
<1> USE DEF BoxesOK
<1>1. ASSUME NEW i \in Inst, NEW r \in Rid, NEW stamp \in BOOLEAN, Send(i, r, stamp)
      PROVE  BoxesOK'
  BY <1>1 DEF Send, boxes, drift
<1>2. ASSUME NEW c \in calls, Take(c)
      PROVE  BoxesOK'
  BY <1>2 DEF Take, boxes, drift
<1>3. ASSUME NEW c \in calls, Push(c)
      PROVE  BoxesOK'
  BY <1>3, PushTyped
<1>4. ASSUME NEW c \in calls, Refund(c)
      PROVE  BoxesOK'
  BY <1>4 DEF Refund, boxes, drift
<1>5. ASSUME NEW i \in Inst, StartSweep(i)
      PROVE  BoxesOK'
  BY <1>5 DEF StartSweep, boxes, drift, Still, Walk
<1>6. ASSUME NEW i \in Inst, NEW r \in Rid, AskOwned(i, r) \/ AddBytes(i, r)
      PROVE  BoxesOK'
  <2>1. PICK v : WalkStep(walk[i], v, r) /\ walk' = [walk EXCEPT ![i] = v]
    BY <1>6, Steps
  <2>2. v \in Walk
    <3>1. walk[i] \in Walk
      OBVIOUS
    <3> QED
      BY <2>1, <3>1, StepTyped
  <2>3. walk' \in [Inst -> Walk]
    BY <2>1, <2>2
  <2> QED
    BY <1>6, <2>3 DEF AskOwned, AddBytes, boxes, drift
<1>7. ASSUME NEW i \in Inst, Reconcile(i)
      PROVE  BoxesOK'
  <2>1. /\ walk[i].sum \in Nat /\ walk[i].came \in Nat /\ walk[i].went \in Nat
        /\ walk[i].extra \in Nat
    BY DEF Walk
  <2> QED
    BY <1>7, <2>1 DEF Reconcile, drift, Still, Walk
<1>8. ASSUME NEW i \in Inst, Crash(i) \/ Abandon(i)
      PROVE  BoxesOK'
  <2>1. Still \in Walk
    BY DEF Still, Walk
  <2>2. walk' \in [Inst -> Walk]
    BY <1>8, <2>1 DEF Crash, Abandon
  <2>3. seen' \in [Inst -> SUBSET Rid]
    BY <1>8 DEF Crash, Abandon
  <2> QED
    BY <1>8, <2>2, <2>3 DEF Crash, Abandon, boxes, drift
<1>9. ASSUME NEW r \in Rid, Free(r)
      PROVE  BoxesOK'
  <2>1. box' \in [Rid -> 0 .. BoxCap]
    BY <1>9, AdmissionAssumption DEF Free
  <2>2. walk' \in [Inst -> Walk] /\ came' \in Nat /\ went' \in Nat /\ extra' \in Nat
    <3>1. PICK g \in {0, 1} : Unseen(0, g, walk)
      BY <1>9 DEF Free
    <3> QED
      BY <3>1, UnseenTyped
  <2> QED
    BY <1>9, <2>1, <2>2 DEF Free
<1>10. ASSUME NEW r \in Rid, NEW intro \in BOOLEAN, Own(r, intro)
       PROVE  BoxesOK'
  <2>1. owned' \subseteq Rid /\ flagged' \subseteq Rid
    BY <1>10 DEF Own
  <2>2. walk' \in [Inst -> Walk] /\ came' \in Nat /\ went' \in Nat /\ extra' \in Nat
    <3>1. PICK g \in {0, box[r]} : Unseen(0, g, walk)
      BY <1>10 DEF Own
    <3> QED
      BY <3>1, UnseenTyped, AdmissionAssumption
  <2> QED
    BY <1>10, <2>1, <2>2 DEF Own
<1>11. ASSUME NEW r \in Rid, Lapse(r)
       PROVE  BoxesOK'
  <2>1. owned' \subseteq Rid /\ flagged' \subseteq Rid
    BY <1>11 DEF Lapse
  <2>2. walk' \in [Inst -> Walk] /\ came' \in Nat /\ went' \in Nat /\ extra' \in Nat
    BY <1>11, UnseenTyped, AdmissionAssumption DEF Lapse, drift
  <2> QED
    BY <1>11, <2>1, <2>2 DEF Lapse
<1>12. CASE Tick
  BY <1>12 DEF Tick, boxes, drift
<1>13. CASE UNCHANGED vars
  BY <1>13 DEF vars, boxes, drift
<1> QED
  BY <1>1, <1>2, <1>3, <1>4, <1>5, <1>6, <1>7, <1>8, <1>9, <1>10, <1>11, <1>12, <1>13 DEF Next
-----------------------------------------------------------------------------
\* What is counted is finite, and is there if somebody holds one.
LEMMA Counts ==
    ASSUME Gates
    PROVE  /\ \A i \in Inst : Cardinality(Locals(i, calls)) \in Nat
           /\ \A w \in Int : Cardinality(Slotted(w, calls)) \in Nat
           /\ \A c \in calls : c.local => Cardinality(Locals(c.inst, calls)) >= 1
           /\ \A c \in calls : Cardinality(Slotted(c.window, calls)) >= 1
<1>1. ASSUME NEW T \in SUBSET calls
      PROVE  Cardinality(T) \in Nat /\ (T # {} => Cardinality(T) >= 1)
  <2>1. IsFiniteSet(T) /\ Cardinality(T) \in Nat
    BY FS_Subset, FS_CardinalityType DEF Gates, Numbered
  <2>2. Cardinality(T) = 0 <=> T = {}
    BY <2>1, FS_EmptySet
  <2> QED
    BY <2>1, <2>2
<1>2. /\ \A i \in Inst : Locals(i, calls) \in SUBSET calls
      /\ \A w \in Int : Slotted(w, calls) \in SUBSET calls
      /\ \A c \in calls : c.local => Locals(c.inst, calls) # {} /\ Locals(c.inst, calls) \in SUBSET calls
      /\ \A c \in calls : Slotted(c.window, calls) # {} /\ Slotted(c.window, calls) \in SUBSET calls
  BY DEF Locals, Slotted
<1> QED
  BY <1>1, <1>2

\* What typing and counting give of one send under way.
LEMMA OneCall ==
    ASSUME Gates, NEW c \in calls
    PROVE  /\ c \in Call(now) /\ c.inst \in Inst /\ c.local \in BOOLEAN
           /\ c.window \in Int /\ win.w \in Nat /\ win.n \in Nat /\ now \in Nat /\ None \notin Nat
           /\ \A i \in Inst : tokens[i] \in Nat /\ made[i] \in Nat
           /\ kept \in Nat /\ leaked \in Nat
<1>1. c \in Call(now)
  BY DEF Gates, GateOK
<1>2. c.inst \in Inst /\ c.local \in BOOLEAN /\ c.window \in Int
  <2>1. c.inst \in Inst /\ c.local \in BOOLEAN /\ c.window \in {None} \cup 0 .. now
    BY <1>1 DEF Call
  <2>2. now \in Int /\ None \in Int
    BY AdmissionAssumption DEF Gates, GateOK, None
  <2> QED
    BY <2>1, <2>2
<1> QED
  BY <1>1, <1>2, AdmissionAssumption DEF Gates, GateOK, None

\* A send whose mailbox was made spends what it held.
LEMMA SettleMade ==
    ASSUME Gates, NEW c \in calls, Settle(c, TRUE), UNCHANGED <<now, sends>>
    PROVE  Gates'
<1>1. /\ Ends(c) /\ win' = win /\ leaked' = leaked
      /\ tokens' = [tokens EXCEPT ![c.inst] = @ + 0]
      /\ made' = [made EXCEPT ![c.inst] = @ + (IF c.local THEN 1 ELSE 0)]
      /\ kept' = IF c.window = win.w THEN kept + 1 ELSE kept
  BY DEF Settle
<1>2. tokens' = tokens
  BY <1>1, OneCall DEF Gates, GateOK
<1>3. GateOK'
  <2>1. calls' \subseteq Call(now)
    BY <1>1 DEF Gates, GateOK, Ends
  <2>2. made' \in [Inst -> Nat] /\ kept' \in Nat
    BY <1>1, OneCall DEF Gates, GateOK
  <2> QED
    BY <1>1, <1>2, <2>1, <2>2 DEF Gates, GateOK
<1>4. Numbered'
  BY <1>1, Leaves
<1>5. Holding'
  BY <1>1 DEF Gates, Holding, Ends
<1>6. ASSUME NEW i \in Inst
      PROVE  tokens'[i] + made'[i] + Cardinality(Locals(i, calls')) = Allowance
  <2>1. Cardinality(Locals(i, calls'))
          = Cardinality(Locals(i, calls)) - (IF c.inst = i /\ c.local THEN 1 ELSE 0)
    BY <1>1, Leaves
  <2>2. made'[i] = made[i] + (IF c.inst = i /\ c.local THEN 1 ELSE 0)
    BY <1>1, OneCall DEF Gates, GateOK
  <2>3. tokens[i] + made[i] + Cardinality(Locals(i, calls)) = Allowance
    BY DEF Gates, Sums
  <2>4. tokens[i] \in Nat /\ made[i] \in Nat /\ Cardinality(Locals(i, calls)) \in Nat
    BY OneCall, Counts
  <2> QED
    BY <1>2, <2>1, <2>2, <2>3, <2>4, AdmissionAssumption
<1>7. win'.n = kept' + leaked' + Cardinality(Slotted(win'.w, calls'))
  <2>1. Cardinality(Slotted(win.w, calls'))
          = Cardinality(Slotted(win.w, calls)) - (IF c.window = win.w THEN 1 ELSE 0)
    BY <1>1, Leaves, OneCall
  <2>2. Cardinality(Slotted(win.w, calls)) \in Nat
    BY Counts, OneCall
  <2>3. win.n = kept + leaked + Cardinality(Slotted(win.w, calls))
    BY DEF Gates, Sums
  <2> QED
    BY <1>1, <2>1, <2>2, <2>3, OneCall
<1> QED
  BY <1>3, <1>4, <1>5, <1>6, <1>7 DEF Gates, Sums

\* A send that made no mailbox gives its token back, or goes on to give back
\* its slot.
LEMMA SettleBack ==
    ASSUME Gates, NEW c \in calls, Settle(c, FALSE), UNCHANGED <<now, sends>>
    PROVE  Gates'
<1>1. /\ win' = win /\ leaked' = leaked /\ kept' = kept
      /\ tokens' = [tokens EXCEPT ![c.inst] = @ + (IF c.local THEN 1 ELSE 0)]
      /\ made' = [made EXCEPT ![c.inst] = @ + 0]
  BY DEF Settle
<1>2. made' = made
  BY <1>1, OneCall DEF Gates, GateOK
<1>3. ASSUME NEW i \in Inst
      PROVE  /\ tokens'[i] = tokens[i] + (IF c.inst = i /\ c.local THEN 1 ELSE 0)
             /\ tokens[i] + made[i] + Cardinality(Locals(i, calls)) = Allowance
             /\ tokens[i] \in Nat /\ made[i] \in Nat /\ Cardinality(Locals(i, calls)) \in Nat
             /\ c.inst = i /\ c.local => Cardinality(Locals(i, calls)) >= 1
  <2>1. tokens'[i] = tokens[i] + (IF c.inst = i /\ c.local THEN 1 ELSE 0)
    BY <1>1, OneCall DEF Gates, GateOK
  <2>2. tokens[i] + made[i] + Cardinality(Locals(i, calls)) = Allowance
    BY DEF Gates, Sums
  <2> QED
    BY <2>1, <2>2, OneCall, Counts
<1>4. tokens' \in [Inst -> 0 .. Allowance]
  <2>1. ASSUME NEW i \in Inst
        PROVE  tokens'[i] \in 0 .. Allowance
    BY <1>3, AdmissionAssumption
  <2>2. tokens' = [i \in Inst |-> tokens'[i]]
    BY <1>1 DEF Gates, GateOK
  <2> QED
    BY <2>1, <2>2
<1>5. /\ win.n = kept + leaked + Cardinality(Slotted(win.w, calls))
      /\ Cardinality(Slotted(win.w, calls)) \in Nat
  BY Counts, OneCall DEF Gates, Sums
<1>6. CASE c.window # None
  <2> DEFINE d == [c EXCEPT !.pc = "refund"]
  <2>1. Becomes(c, d)
    BY <1>6 DEF Settle
  <2>2. /\ d.id = c.id /\ d.inst = c.inst /\ d.local = c.local /\ d.window = c.window
        /\ d.pc = "refund" /\ d \in Call(now) /\ ~c.local
    BY <1>6, OneCall DEF Call, Gates, Holding
  <2> HIDE DEF d
  <2>3. GateOK'
    BY <1>1, <1>2, <1>4, <2>1, <2>2 DEF Gates, GateOK, Becomes
  <2>4. Numbered'
    BY <2>1, <2>2, GoesOn
  <2>5. Holding'
    BY <1>1, <1>6, <2>1, <2>2 DEF Gates, Holding, Becomes
  <2>6. ASSUME NEW i \in Inst
        PROVE  tokens'[i] + made'[i] + Cardinality(Locals(i, calls')) = Allowance
    <3>1. Cardinality(Locals(i, calls'))
            = Cardinality(Locals(i, calls)) - (IF c.inst = i /\ c.local THEN 1 ELSE 0)
                + (IF d.inst = i /\ d.local THEN 1 ELSE 0)
      BY <2>1, <2>2, GoesOn
    <3> QED
      BY <1>2, <1>3, <2>2, <3>1
  <2>7. Cardinality(Slotted(win.w, calls')) = Cardinality(Slotted(win.w, calls))
    <3>1. Cardinality(Slotted(win.w, calls'))
            = Cardinality(Slotted(win.w, calls)) - (IF c.window = win.w THEN 1 ELSE 0)
                + (IF d.window = win.w THEN 1 ELSE 0)
      BY <2>1, <2>2, GoesOn, OneCall
    <3> QED
      BY <1>5, <2>2, <3>1
  <2> QED
    BY <1>1, <1>5, <2>3, <2>4, <2>5, <2>6, <2>7 DEF Gates, Sums
<1>7. CASE c.window = None
  <2>1. Ends(c)
    BY <1>7 DEF Settle
  <2>2. GateOK'
    BY <1>1, <1>2, <1>4, <2>1 DEF Gates, GateOK, Ends
  <2>3. Numbered'
    BY <2>1, Leaves
  <2>4. Holding'
    BY <1>1, <2>1 DEF Gates, Holding, Ends
  <2>5. ASSUME NEW i \in Inst
        PROVE  tokens'[i] + made'[i] + Cardinality(Locals(i, calls')) = Allowance
    <3>1. Cardinality(Locals(i, calls'))
            = Cardinality(Locals(i, calls)) - (IF c.inst = i /\ c.local THEN 1 ELSE 0)
      BY <2>1, Leaves
    <3> QED
      BY <1>2, <1>3, <3>1, AdmissionAssumption
  <2>6. Cardinality(Slotted(win.w, calls')) = Cardinality(Slotted(win.w, calls))
    <3>1. Cardinality(Slotted(win.w, calls'))
            = Cardinality(Slotted(win.w, calls)) - (IF c.window = win.w THEN 1 ELSE 0)
      BY <2>1, Leaves, OneCall
    <3>2. c.window # win.w
      BY <1>7, OneCall
    <3> QED
      BY <1>5, <3>1, <3>2
  <2> QED
    BY <1>1, <1>5, <2>2, <2>3, <2>4, <2>5, <2>6 DEF Gates, Sums
<1> QED
  BY <1>6, <1>7

LEMMA PushKeeps ==
    ASSUME Gates, NEW c \in calls, Push(c)
    PROVE  Gates'
<1>1. UNCHANGED <<now, sends>>
  BY DEF Push
<1>2. Settle(c, FALSE) \/ Settle(c, TRUE)
  <2>1. CASE Code(c) = 2
    BY <2>1 DEF Push, Settle
  <2>2. CASE Code(c) # 2
    BY <2>2 DEF Push, Settle
  <2> QED
    BY <2>1, <2>2
<1> QED
  BY <1>1, <1>2, SettleBack, SettleMade
-----------------------------------------------------------------------------
\* A slot of the current window is taken, by the send that goes on or by a
\* script whose answer was lost.
LEMMA SlotTaken ==
    ASSUME Gates, NEW c \in calls, c.pc = "take", TakeSlot, UNCHANGED <<now, sends>>,
           NEW d, d.id = c.id, Becomes(c, d), NEW lost \in {0, 1},
           d.window = IF lost = 0 THEN now ELSE None,
           leaked' = (IF win.w = now THEN leaked ELSE 0) + lost
    PROVE  /\ win' \in [w : 0 .. MaxNow, n : 0 .. Allowance] /\ kept' \in Nat /\ leaked' \in Nat
           /\ win'.w = now
           /\ win'.n = kept' + leaked' + Cardinality(Slotted(win'.w, calls'))
<1>1. /\ win' = [w |-> now, n |-> CountNow + 1] /\ kept' = IF win.w = now THEN kept ELSE 0
      /\ CountNow < Allowance /\ CountNow = IF win.w = now THEN win.n ELSE 0
  BY DEF TakeSlot, CountNow
<1>2. CountNow \in Nat
  BY <1>1, OneCall
<1>3. /\ win' \in [w : 0 .. MaxNow, n : 0 .. Allowance] /\ win'.w = now /\ win'.n = CountNow + 1
      /\ kept' \in Nat /\ leaked' \in Nat
  <2>1. now \in 0 .. MaxNow /\ CountNow + 1 \in 0 .. Allowance
    BY <1>1, <1>2, AdmissionAssumption DEF Gates, GateOK
  <2> QED
    BY <1>1, <2>1, OneCall
<1>4. c.window = None /\ now \in Nat /\ None \notin Nat
  BY OneCall DEF Gates, Holding
<1>5. Cardinality(Slotted(now, calls')) = Cardinality(Slotted(now, calls)) + (1 - lost)
  <2>1. Cardinality(Slotted(now, calls'))
          = Cardinality(Slotted(now, calls)) - (IF c.window = now THEN 1 ELSE 0)
              + (IF d.window = now THEN 1 ELSE 0)
    BY <1>4, GoesOn
  <2>2. Cardinality(Slotted(now, calls)) \in Nat
    BY <1>4, Counts
  <2> QED
    BY <1>4, <2>1, <2>2
<1>6. CASE win.w = now
  <2>1. win.n = kept + leaked + Cardinality(Slotted(now, calls)) /\ Cardinality(Slotted(now, calls)) \in Nat
    BY <1>4, <1>6, Counts DEF Gates, Sums
  <2> QED
    BY <1>1, <1>3, <1>5, <1>6, <2>1, OneCall
<1>7. CASE win.w # now
  <2>1. Slotted(now, calls) = {}
    <3>1. \A e \in calls : e.window <= win.w /\ e.window \in Int
      BY OneCall DEF Gates, Holding
    <3>2. win.w < now
      BY <1>7, OneCall DEF Gates, Holding
    <3>3. \A e \in calls : e.window # now
      BY <3>1, <3>2, OneCall
    <3> QED
      BY <3>3 DEF Slotted
  <2>2. Cardinality(Slotted(now, calls)) = 0
    BY <2>1, FS_EmptySet
  <2> QED
    BY <1>1, <1>3, <1>5, <1>7, <2>2
<1> QED
  BY <1>3, <1>6, <1>7

\* The send takes a token of its instance's bucket, or goes on without.
LEMMA TokenTaken ==
    ASSUME Gates, NEW c \in calls, c.pc = "take", TakeToken(c), UNCHANGED <<made, now, sends>>
    PROVE  /\ tokens' \in [Inst -> 0 .. Allowance]
           /\ \A i \in Inst : tokens'[i] + made'[i] + Cardinality(Locals(i, calls')) = Allowance
           /\ \E d \in Call(now) : /\ Becomes(c, d) /\ d.id = c.id
                                 /\ d.pc = "push" /\ d.window = None
<1>1. c \in Call(now) /\ c.inst \in Inst /\ c.local = FALSE /\ c.window = None
  BY OneCall DEF Gates, Holding
<1>2. ASSUME NEW i \in Inst
      PROVE  /\ tokens[i] + made[i] + Cardinality(Locals(i, calls)) = Allowance
             /\ tokens[i] \in Nat /\ made[i] \in Nat /\ Cardinality(Locals(i, calls)) \in Nat
             /\ tokens[i] <= Allowance
  BY OneCall, Counts DEF Gates, Sums, GateOK
<1>3. CASE tokens[c.inst] >= 1
  <2> DEFINE d == [c EXCEPT !.pc = "push", !.fresh = TRUE, !.local = TRUE]
  <2>1. Becomes(c, d) /\ tokens' = [tokens EXCEPT ![c.inst] = @ - 1]
    BY <1>3 DEF TakeToken
  <2>2. /\ d \in Call(now) /\ d.id = c.id /\ d.pc = "push" /\ d.window = None
        /\ d.local = TRUE /\ d.inst = c.inst
    BY <1>1 DEF Call
  <2> HIDE DEF d
  <2>3. ASSUME NEW i \in Inst
        PROVE  tokens'[i] = tokens[i] - (IF c.inst = i THEN 1 ELSE 0)
    BY <1>1, <1>2, <2>1 DEF Gates, GateOK
  <2>4. tokens' \in [Inst -> 0 .. Allowance]
    <3>1. ASSUME NEW i \in Inst
          PROVE  tokens'[i] \in 0 .. Allowance
      BY <1>2, <1>3, <2>3, AdmissionAssumption
    <3>2. tokens' = [i \in Inst |-> tokens'[i]]
      BY <2>1 DEF Gates, GateOK
    <3> QED
      BY <3>1, <3>2
  <2>5. ASSUME NEW i \in Inst
        PROVE  tokens'[i] + made'[i] + Cardinality(Locals(i, calls')) = Allowance
    <3>1. Cardinality(Locals(i, calls'))
            = Cardinality(Locals(i, calls)) - (IF c.inst = i /\ c.local THEN 1 ELSE 0)
                + (IF d.inst = i /\ d.local THEN 1 ELSE 0)
      BY <2>1, <2>2, GoesOn
    <3>2. Cardinality(Locals(i, calls')) = Cardinality(Locals(i, calls)) + (IF c.inst = i THEN 1 ELSE 0)
      BY <1>1, <1>2, <2>2, <3>1
    <3> QED
      BY <1>2, <2>3, <3>2, AdmissionAssumption
  <2> QED
    BY <2>1, <2>2, <2>4, <2>5
<1>4. CASE ~(tokens[c.inst] >= 1)
  <2> DEFINE d == [c EXCEPT !.pc = "push"]
  <2>1. Becomes(c, d) /\ tokens' = tokens
    BY <1>4 DEF TakeToken
  <2>2. /\ d \in Call(now) /\ d.id = c.id /\ d.pc = "push" /\ d.window = None /\ d.local = FALSE
    BY <1>1 DEF Call
  <2> HIDE DEF d
  <2>3. ASSUME NEW i \in Inst
        PROVE  tokens'[i] + made'[i] + Cardinality(Locals(i, calls')) = Allowance
    <3>1. Cardinality(Locals(i, calls'))
            = Cardinality(Locals(i, calls)) - (IF c.inst = i /\ c.local THEN 1 ELSE 0)
                + (IF d.inst = i /\ d.local THEN 1 ELSE 0)
      BY <2>1, <2>2, GoesOn
    <3> QED
      BY <1>1, <1>2, <2>1, <2>2, <3>1
  <2> QED
    BY <2>1, <2>2, <2>3 DEF Gates, GateOK
<1> QED
  BY <1>3, <1>4

\* The bookkeeping of a send that goes on to the push.
LEMMA ToPush ==
    ASSUME Gates, NEW c \in calls, NEW d \in Call(now), Becomes(c, d), d.id = c.id,
           d.pc = "push", UNCHANGED <<now, sends>>, win.w <= win'.w, win'.w <= now,
           win'.w \in Nat, d.window \in {None, win'.w}, d.local => d.window = None
    PROVE  Numbered' /\ Holding' /\ calls' \subseteq Call(now)
<1>1. Numbered'
  BY GoesOn
<1>2. calls' = (calls \ {c}) \cup {d}
  BY DEF Becomes
<1>3. ASSUME NEW e \in calls'
      PROVE  /\ e.pc = "take" => ~e.local /\ e.window = None
             /\ e.local => e.window = None
             /\ e.pc = "refund" => e.window # None
             /\ e.window <= win'.w
  <2>1. CASE e = d
    BY <2>1 DEF None
  <2>2. CASE e \in calls
    <3>1. e.window <= win.w /\ e.window \in Int /\ win.w \in Nat
      BY <2>2, OneCall DEF Gates, Holding
    <3> QED
      BY <2>2, <3>1 DEF Gates, Holding
  <2> QED
    BY <1>2, <2>1, <2>2
<1> QED
  BY <1>1, <1>2, <1>3 DEF Gates, GateOK, Holding

LEMMA TakeKeeps ==
    ASSUME Gates, NEW c \in calls, Take(c)
    PROVE  Gates'
<1>1. /\ c.pc = "take" /\ UNCHANGED <<now, sends>>
      /\ c \in Call(now) /\ c.local = FALSE /\ c.window = None
  BY OneCall DEF Gates, Holding, Take
<1>2. now \in Nat /\ win.w \in Nat /\ win.w <= now /\ None \notin Nat
  BY OneCall DEF Gates, Holding
<1>3. ASSUME NEW fresh \in BOOLEAN, Becomes(c, [c EXCEPT !.pc = "push", !.fresh = fresh]),
             UNCHANGED gate
      PROVE  Gates'
  <2> DEFINE d == [c EXCEPT !.pc = "push", !.fresh = fresh]
  <2>1. /\ d \in Call(now) /\ d.id = c.id /\ d.pc = "push"
        /\ d.window = None /\ d.local = FALSE /\ Becomes(c, d)
    BY <1>1, <1>3 DEF Call
  <2> HIDE DEF d
  <2>2. win' = win /\ tokens' = tokens /\ made' = made /\ kept' = kept /\ leaked' = leaked
    BY <1>3 DEF gate
  <2>3. Numbered' /\ Holding' /\ calls' \subseteq Call(now)
    BY <1>1, <1>2, <2>1, <2>2, ToPush
  <2>4. GateOK'
    BY <1>1, <2>2, <2>3 DEF Gates, GateOK
  <2>5. ASSUME NEW i \in Inst
        PROVE  Cardinality(Locals(i, calls')) = Cardinality(Locals(i, calls))
    <3>1. Cardinality(Locals(i, calls'))
            = Cardinality(Locals(i, calls)) - (IF c.inst = i /\ c.local THEN 1 ELSE 0)
                + (IF d.inst = i /\ d.local THEN 1 ELSE 0)
      BY <1>1, <2>1, GoesOn
    <3>2. Cardinality(Locals(i, calls)) \in Nat
      BY Counts
    <3> QED
      BY <1>1, <2>1, <3>1, <3>2
  <2>6. Cardinality(Slotted(win.w, calls')) = Cardinality(Slotted(win.w, calls))
    <3>1. Cardinality(Slotted(win.w, calls'))
            = Cardinality(Slotted(win.w, calls)) - (IF c.window = win.w THEN 1 ELSE 0)
                + (IF d.window = win.w THEN 1 ELSE 0)
      BY <1>1, <1>2, <2>1, GoesOn
    <3>2. Cardinality(Slotted(win.w, calls)) \in Nat
      BY <1>2, Counts
    <3> QED
      BY <1>1, <1>2, <2>1, <3>1, <3>2
  <2> QED
    BY <2>2, <2>3, <2>4, <2>5, <2>6 DEF Gates, Sums
<1>4. ASSUME TakeSlot, leaked' = IF win.w = now THEN leaked ELSE 0,
             Becomes(c, [c EXCEPT !.pc = "push", !.fresh = TRUE, !.window = now]),
             UNCHANGED <<tokens, made>>
      PROVE  Gates'
  <2> DEFINE d == [c EXCEPT !.pc = "push", !.fresh = TRUE, !.window = now]
  <2>1. /\ d \in Call(now) /\ d.id = c.id /\ d.pc = "push"
        /\ d.window = now /\ d.local = FALSE /\ Becomes(c, d)
    <3>1. Becomes(c, d)
      BY <1>4
    <3>2. now \in 0 .. now
      BY <1>2
    <3> QED
      BY <1>1, <3>1, <3>2 DEF Call
  <2> HIDE DEF d
  <2>2. leaked' = (IF win.w = now THEN leaked ELSE 0) + 0
    BY <1>4, OneCall
  <2>3. /\ win' \in [w : 0 .. MaxNow, n : 0 .. Allowance] /\ kept' \in Nat /\ leaked' \in Nat
        /\ win'.w = now
        /\ win'.n = kept' + leaked' + Cardinality(Slotted(win'.w, calls'))
    <3>1. d.window = IF 0 = 0 THEN now ELSE None
      BY <2>1
    <3> QED
      BY <1>1, <1>4, <2>1, <2>2, <3>1, SlotTaken
  <2>4. Numbered' /\ Holding' /\ calls' \subseteq Call(now)
    BY <1>1, <1>2, <2>1, <2>3, ToPush
  <2>5. GateOK'
    BY <1>1, <1>4, <2>3, <2>4 DEF Gates, GateOK
  <2>6. ASSUME NEW i \in Inst
        PROVE  Cardinality(Locals(i, calls')) = Cardinality(Locals(i, calls))
    <3>1. Cardinality(Locals(i, calls'))
            = Cardinality(Locals(i, calls)) - (IF c.inst = i /\ c.local THEN 1 ELSE 0)
                + (IF d.inst = i /\ d.local THEN 1 ELSE 0)
      BY <1>1, <2>1, GoesOn
    <3>2. Cardinality(Locals(i, calls)) \in Nat
      BY Counts
    <3> QED
      BY <1>1, <2>1, <3>1, <3>2
  <2> QED
    BY <1>4, <2>3, <2>4, <2>5, <2>6 DEF Gates, Sums
<1>5. ASSUME TakeToken(c), UNCHANGED made,
             \/ UNCHANGED <<win, kept, leaked>>
             \/ TakeSlot /\ leaked' = (IF win.w = now THEN leaked ELSE 0) + 1
      PROVE  Gates'
  <2>1. /\ tokens' \in [Inst -> 0 .. Allowance]
        /\ \A i \in Inst : tokens'[i] + made'[i] + Cardinality(Locals(i, calls')) = Allowance
    BY <1>1, <1>5, TokenTaken
  <2>2. PICK d \in Call(now) : Becomes(c, d) /\ d.id = c.id /\ d.pc = "push" /\ d.window = None
    BY <1>1, <1>5, TokenTaken
  <2>3. /\ win' \in [w : 0 .. MaxNow, n : 0 .. Allowance] /\ kept' \in Nat /\ leaked' \in Nat
        /\ win.w <= win'.w /\ win'.w <= now
        /\ win'.n = kept' + leaked' + Cardinality(Slotted(win'.w, calls'))
    <3>1. CASE UNCHANGED <<win, kept, leaked>>
      <4>1. Cardinality(Slotted(win.w, calls'))
              = Cardinality(Slotted(win.w, calls)) - (IF c.window = win.w THEN 1 ELSE 0)
                  + (IF d.window = win.w THEN 1 ELSE 0)
        BY <1>1, <1>2, <2>2, GoesOn
      <4>2. Cardinality(Slotted(win.w, calls)) \in Nat
        BY <1>2, Counts
      <4>3. Cardinality(Slotted(win.w, calls')) = Cardinality(Slotted(win.w, calls))
        BY <1>1, <1>2, <2>2, <4>1, <4>2
      <4> QED
        BY <1>2, <3>1, <4>3 DEF Gates, GateOK, Sums
    <3>2. CASE TakeSlot /\ leaked' = (IF win.w = now THEN leaked ELSE 0) + 1
      <4>1. d.window = IF 1 = 0 THEN now ELSE None
        BY <2>2
      <4> QED
        BY <1>1, <1>2, <2>2, <3>2, <4>1, SlotTaken
    <3> QED
      BY <1>5, <3>1, <3>2
  <2>4. Numbered' /\ Holding' /\ calls' \subseteq Call(now)
    <3>1. win'.w \in Nat
      BY <2>3
    <3> QED
      BY <1>1, <2>2, <2>3, <3>1, ToPush
  <2>5. GateOK'
    BY <1>1, <1>5, <2>1, <2>3, <2>4 DEF Gates, GateOK
  <2> QED
    BY <2>1, <2>3, <2>4, <2>5 DEF Gates, Sums
<1>6. CASE /\ Becomes(c, [c EXCEPT !.pc = "push", !.fresh = TRUE])
           /\ UNCHANGED gate
  BY <1>3, <1>6
<1>7. CASE /\ Becomes(c, [c EXCEPT !.pc = "push"])
           /\ UNCHANGED gate
  <2>1. [c EXCEPT !.pc = "push"] = [c EXCEPT !.pc = "push", !.fresh = c.fresh] /\ c.fresh \in BOOLEAN
    BY <1>1 DEF Call
  <2>2. Becomes(c, [c EXCEPT !.pc = "push", !.fresh = c.fresh])
    BY <1>7, <2>1
  <2> QED
    BY <1>3, <1>7, <2>1, <2>2
<1> QED
  BY <1>4, <1>5, <1>6, <1>7 DEF Take
-----------------------------------------------------------------------------
\* A slot goes back in its own window, or is lost with the answer.
LEMMA RefundKeeps ==
    ASSUME Gates, NEW c \in calls, Refund(c)
    PROVE  Gates'
<1>1. /\ Ends(c) /\ c.pc = "refund"
      /\ UNCHANGED <<tokens, made, kept, now, sends>>
  BY DEF Refund
<1>2. c.local = FALSE /\ c.window # None
  BY <1>1, OneCall DEF Gates, Holding
<1>3. calls' \subseteq Call(now) /\ Numbered'
  BY <1>1, Leaves DEF Ends, Gates, GateOK
<1>4. ASSUME NEW i \in Inst
      PROVE  tokens'[i] + made'[i] + Cardinality(Locals(i, calls')) = Allowance
  <2>1. Cardinality(Locals(i, calls'))
          = Cardinality(Locals(i, calls)) - (IF c.inst = i /\ c.local THEN 1 ELSE 0)
    BY <1>1, Leaves
  <2>2. Cardinality(Locals(i, calls)) \in Nat
    BY Counts
  <2>3. tokens[i] + made[i] + Cardinality(Locals(i, calls)) = Allowance
    BY DEF Gates, Sums
  <2>4. Cardinality(Locals(i, calls')) = Cardinality(Locals(i, calls))
    BY <1>2, <2>1, <2>2
  <2> QED
    BY <1>1, <2>3, <2>4
<1>5. /\ Cardinality(Slotted(win.w, calls'))
           = Cardinality(Slotted(win.w, calls)) - (IF c.window = win.w THEN 1 ELSE 0)
      /\ Cardinality(Slotted(win.w, calls)) \in Nat
      /\ win.n = kept + leaked + Cardinality(Slotted(win.w, calls))
      /\ c.window = win.w => Cardinality(Slotted(win.w, calls)) >= 1
  <2>1. win.w \in Int
    BY OneCall
  <2>2. c.window = win.w => Cardinality(Slotted(win.w, calls)) >= 1
    BY Counts
  <2> QED
    BY <1>1, <2>1, <2>2, Leaves, Counts DEF Gates, Sums
<1>6. /\ win'.w = win.w /\ win' \in [w : 0 .. MaxNow, n : 0 .. Allowance] /\ leaked' \in Nat
      /\ win'.n = kept' + leaked' + Cardinality(Slotted(win.w, calls'))
  <2>1. /\ win \in [w : 0 .. MaxNow, n : 0 .. Allowance] /\ win.n \in Nat
        /\ kept \in Nat /\ leaked \in Nat
    BY OneCall DEF Gates, GateOK
  <2>2. CASE c.window = win.w /\ win' = [win EXCEPT !.n = @ - 1] /\ leaked' = leaked
    <3>1. win.n >= 1
      BY <1>5, <2>1, <2>2
    <3>2. win'.n = win.n - 1 /\ win'.w = win.w
      BY <2>1, <2>2
    <3>3. win.n - 1 \in 0 .. Allowance
      BY <2>1, <3>1, AdmissionAssumption
    <3>4. win' \in [w : 0 .. MaxNow, n : 0 .. Allowance]
      BY <2>1, <2>2, <3>3
    <3> QED
      BY <1>1, <1>5, <2>1, <2>2, <3>2, <3>4
  <2>3. CASE c.window = win.w /\ win' = win /\ leaked' = leaked + 1
    BY <1>1, <1>5, <2>1, <2>3
  <2>4. CASE c.window # win.w /\ win' = win /\ leaked' = leaked
    BY <1>1, <1>5, <2>1, <2>4
  <2>5. c.window = win.w => win.n > 0
    BY <1>5, <2>1
  <2> QED
    BY <2>2, <2>3, <2>4, <2>5 DEF Refund
<1>7. GateOK'
  BY <1>1, <1>3, <1>6 DEF Gates, GateOK
<1>8. Holding'
  BY <1>1, <1>6 DEF Gates, Holding, Ends
<1> QED
  BY <1>3, <1>4, <1>6, <1>7, <1>8 DEF Gates, Sums

\* A new send holds nothing.
LEMMA SendKeeps ==
    ASSUME Gates, NEW i \in Inst, NEW r \in Rid, NEW stamp \in BOOLEAN, Send(i, r, stamp)
    PROVE  Gates'
<1> DEFINE c == [id |-> sends', inst |-> i, rid |-> r, stamp |-> stamp,
                 pc |-> IF r \in seen[i] THEN "push" ELSE "take",
                 fresh |-> (r \in seen[i]), local |-> FALSE, window |-> None]
<1>1. /\ calls' = calls \cup {c} /\ sends' = sends + 1 /\ sends < MaxSends
      /\ UNCHANGED <<win, tokens, made, kept, leaked, now>>
  BY DEF Send, gate
<1>2. /\ c.id = sends + 1 /\ c.local = FALSE /\ c.window = None
      /\ c.pc \in {"push", "take"}
  BY <1>1
<1>3. sends' \in 1 .. MaxSends
  BY <1>1, AdmissionAssumption DEF Gates, Numbered
<1>4. c \in Call(now)
  BY <1>3 DEF Call
<1> HIDE DEF c
<1>5. Numbered'
  <2>1. IsFiniteSet(calls')
    BY <1>1, FS_AddElement DEF Gates, Numbered
  <2>2. \A d \in calls : d.id \in Int /\ d.id <= sends
    BY OneCall DEF Call, Gates, Numbered
  <2>3. sends \in Int
    BY DEF Gates, Numbered
  <2>4. \A d \in calls : d.id # c.id /\ d.id <= sends'
    BY <1>1, <1>2, <2>2, <2>3
  <2>5. sends' \in 0 .. MaxSends /\ c.id <= sends'
    BY <1>1, <1>2, <1>3
  <2> QED
    BY <1>1, <2>1, <2>4, <2>5 DEF Gates, Numbered
<1>6. Holding'
  <2>1. c.window <= win.w
    BY <1>2, AdmissionAssumption DEF Gates, GateOK, None
  <2> QED
    BY <1>1, <1>2, <2>1 DEF Gates, Holding
<1>7. GateOK'
  BY <1>1, <1>4 DEF Gates, GateOK
<1>8. (\A j \in Inst : Locals(j, calls') = Locals(j, calls)) /\ Slotted(win.w, calls') = Slotted(win.w, calls)
  <2>1. win.w # None
    BY AdmissionAssumption DEF Gates, GateOK, None
  <2> QED
    BY <1>1, <1>2, <2>1 DEF Locals, Slotted
<1>9. Sums'
  BY <1>1, <1>8 DEF Gates, Sums
<1> QED
  BY <1>5, <1>6, <1>7, <1>9 DEF Gates

\* A restart takes the instance's sends with it; their slots are lost.
LEMMA CrashKeeps ==
    ASSUME Gates, NEW i \in Inst, Crash(i)
    PROVE  Gates'
<1> DEFINE gone == {c \in calls : c.inst = i /\ c.window = win.w}
<1>1. /\ calls' = {c \in calls : c.inst # i}
      /\ tokens' = [tokens EXCEPT ![i] = Allowance] /\ made' = [made EXCEPT ![i] = 0]
      /\ leaked' = leaked + Cardinality(gone)
      /\ UNCHANGED <<win, kept, now, sends>>
  BY DEF Crash
<1>2. calls' \subseteq calls /\ IsFiniteSet(calls) /\ IsFiniteSet(calls')
  BY <1>1, FS_Subset DEF Gates, Numbered
<1>3. Numbered' /\ Holding'
  BY <1>1, <1>2 DEF Gates, Numbered, Holding
<1>4. Cardinality(Slotted(win.w, calls)) = Cardinality(Slotted(win.w, calls')) + Cardinality(gone)
  <2>1. /\ Slotted(win.w, calls) = Slotted(win.w, calls') \cup gone
        /\ Slotted(win.w, calls') \cap gone = {}
    BY <1>1 DEF Slotted
  <2>2. /\ IsFiniteSet(Slotted(win.w, calls')) /\ IsFiniteSet(gone)
    <3>1. Slotted(win.w, calls') \subseteq calls /\ gone \subseteq calls
      BY <1>2 DEF Slotted
    <3> QED
      BY <1>2, <3>1, FS_Subset
  <2>3. Cardinality(Slotted(win.w, calls') \cup gone)
          = Cardinality(Slotted(win.w, calls')) + Cardinality(gone)
              - Cardinality(Slotted(win.w, calls') \cap gone)
    BY <2>2, FS_Union
  <2>4. Cardinality(Slotted(win.w, calls') \cap gone) = 0
    BY <2>1, FS_EmptySet
  <2>5. Cardinality(Slotted(win.w, calls')) \in Nat /\ Cardinality(gone) \in Nat
    BY <2>2, FS_CardinalityType
  <2> QED
    BY <2>1, <2>3, <2>4, <2>5
<1>5. Cardinality(gone) \in Nat /\ Cardinality(Slotted(win.w, calls')) \in Nat
  <2>1. gone \subseteq calls /\ Slotted(win.w, calls') \subseteq calls
    BY <1>2 DEF Slotted
  <2> QED
    BY <1>2, <2>1, FS_Subset, FS_CardinalityType
<1> HIDE DEF gone
<1>6. GateOK'
  <2>1. calls' \subseteq Call(now) /\ leaked' \in Nat
    BY <1>1, <1>2, <1>5 DEF Gates, GateOK
  <2>2. tokens' \in [Inst -> 0 .. Allowance] /\ made' \in [Inst -> Nat]
    BY <1>1, AdmissionAssumption DEF Gates, GateOK
  <2> QED
    BY <1>1, <2>1, <2>2 DEF Gates, GateOK
<1>7. ASSUME NEW j \in Inst
      PROVE  tokens'[j] + made'[j] + Cardinality(Locals(j, calls')) = Allowance
  <2>1. CASE j = i
    <3>1. Locals(j, calls') = {}
      BY <1>1, <2>1 DEF Locals
    <3>2. Cardinality(Locals(j, calls')) = 0
      BY <3>1, FS_EmptySet
    <3> QED
      BY <1>1, <2>1, <3>2, AdmissionAssumption DEF Gates, GateOK
  <2>2. CASE j # i
    <3>1. Locals(j, calls') = Locals(j, calls)
      BY <1>1, <2>2 DEF Locals
    <3>2. tokens'[j] = tokens[j] /\ made'[j] = made[j]
      BY <1>1, <2>2 DEF Gates, GateOK
    <3> QED
      BY <3>1, <3>2 DEF Gates, Sums
  <2> QED
    BY <2>1, <2>2
<1>8. win'.n = kept' + leaked' + Cardinality(Slotted(win'.w, calls'))
  <2>1. win.n = kept + leaked + Cardinality(Slotted(win.w, calls)) /\ kept \in Nat /\ leaked \in Nat
    BY DEF Gates, Sums, GateOK
  <2> QED
    BY <1>1, <1>4, <1>5, <2>1
<1> QED
  BY <1>3, <1>6, <1>7, <1>8 DEF Gates, Sums

\* A step that leaves the gate and the sends alone, whatever the clock does.
LEMMA ElseKeeps ==
    ASSUME Gates, UNCHANGED <<gate, calls, sends>>, now' \in 0 .. MaxNow, now <= now'
    PROVE  Gates'
<1>1. UNCHANGED <<win, tokens, made, kept, leaked>>
  BY DEF gate
<1>2. Call(now) \subseteq Call(now')
  <2>1. now \in 0 .. MaxNow
    BY DEF Gates, GateOK
  <2>2. 0 .. now \subseteq 0 .. now'
    BY <2>1, AdmissionAssumption
  <2> QED
    BY <2>2 DEF Call
<1>3. GateOK'
  BY <1>1, <1>2 DEF Gates, GateOK
<1>4. Holding'
  <2>1. win.w <= now'
    BY AdmissionAssumption DEF Gates, GateOK, Holding
  <2> QED
    BY <1>1, <2>1 DEF Gates, Holding
<1>5. Numbered' /\ Sums'
  BY <1>1 DEF Gates, Numbered, Sums
<1> QED
  BY <1>3, <1>4, <1>5 DEF Gates
-----------------------------------------------------------------------------
LEMMA InitInv == Init => Inv
<1> SUFFICES ASSUME Init PROVE Inv
  OBVIOUS
<1>1. BoxesOK
  BY AdmissionAssumption DEF Init, BoxesOK, Walk, Still
<1>2. GateOK
  BY AdmissionAssumption DEF Init, GateOK
<1>3. Numbered /\ Holding
  BY FS_EmptySet, AdmissionAssumption DEF Init, Numbered, Holding
<1>4. Sums
  <2>1. (\A i \in Inst : Locals(i, calls) = {}) /\ Slotted(win.w, calls) = {}
    BY DEF Init, Locals, Slotted
  <2>2. /\ \A i \in Inst : Cardinality(Locals(i, calls)) = 0
        /\ Cardinality(Slotted(win.w, calls)) = 0
    BY <2>1, FS_EmptySet
  <2>3. /\ \A i \in Inst : tokens[i] = Allowance /\ made[i] = 0
        /\ win.n = 0 /\ kept = 0 /\ leaked = 0 /\ Allowance \in Nat
    BY AdmissionAssumption DEF Init
  <2> QED
    BY <2>2, <2>3 DEF Sums
<1> QED
  BY <1>1, <1>2, <1>3, <1>4 DEF Inv, Gates

LEMMA InvStep == Inv /\ [Next]_vars => Inv'
<1> SUFFICES ASSUME Inv, [Next]_vars
             PROVE  Gates'
  <2>1. ASSUME Inv, [Next]_vars
        PROVE  BoxesOK'
    BY <2>1, BoxesStep DEF Inv, Gates, GateOK
  <2> QED
    BY <2>1 DEF Inv
<1>1. Gates /\ now \in 0 .. MaxNow
  BY DEF Inv, Gates, GateOK
<1>2. ASSUME UNCHANGED <<gate, calls, sends, now>>
      PROVE  Gates'
  BY <1>1, <1>2, ElseKeeps, AdmissionAssumption
<1>3. ASSUME NEW i \in Inst, NEW r \in Rid, NEW stamp \in BOOLEAN, Send(i, r, stamp)
      PROVE  Gates'
  BY <1>1, <1>3, SendKeeps
<1>4. ASSUME NEW c \in calls, Take(c) \/ Push(c) \/ Refund(c)
      PROVE  Gates'
  BY <1>1, <1>4, TakeKeeps, PushKeeps, RefundKeeps
<1>5. ASSUME NEW i \in Inst, \/ StartSweep(i) \/ Reconcile(i) \/ Abandon(i)
                             \/ \E r \in Rid : AskOwned(i, r) \/ AddBytes(i, r)
      PROVE  Gates'
  BY <1>2, <1>5 DEF StartSweep, Reconcile, Abandon, AskOwned, AddBytes, counts
<1>6. ASSUME NEW i \in Inst, Crash(i)
      PROVE  Gates'
  BY <1>1, <1>6, CrashKeeps
<1>7. ASSUME NEW r \in Rid, Free(r) \/ Lapse(r) \/ \E intro \in BOOLEAN : Own(r, intro)
      PROVE  Gates'
  BY <1>2, <1>7 DEF Free, Lapse, Own
<1>8. CASE Tick
  <2>1. now' = now + 1 /\ now < MaxNow /\ UNCHANGED <<gate, calls, sends>>
    BY <1>8 DEF Tick, counts
  <2>2. now' \in 0 .. MaxNow /\ now <= now'
    BY <1>1, <2>1, AdmissionAssumption
  <2> QED
    BY <1>1, <2>1, <2>2, ElseKeeps
<1>9. CASE UNCHANGED vars
  BY <1>2, <1>9 DEF vars, counts
<1> QED
  BY <1>3, <1>4, <1>5, <1>6, <1>7, <1>8, <1>9 DEF Next

-----------------------------------------------------------------------------
\* Sums, as in RelayMemoryProofs: what the library's definition adds up, by
\* least counterexample.

\* A non-empty set of naturals has a least member.
LEMMA Smallest ==
  ASSUME NEW T, T \subseteq Nat, T # {}
  PROVE  \E x \in T : \A y \in T : x <= y
<1> DEFINE R == {p \in Nat \X Nat : p[1] < p[2]}
<1>1. IsWellFoundedOn(OpToRel(<, Nat), Nat)
  BY NatLessThanWellFounded
<1>2. OpToRel(<, Nat) = R
  BY DEF OpToRel
<1>3. IsWellFoundedOn(R, Nat)
  BY <1>1, <1>2
<1>4. \A x, y \in Nat : x < y => <<x, y>> \in R
  OBVIOUS
<1> HIDE DEF R
<1>5. PICK x \in T : \A y \in T : ~ (<<y, x>> \in R)
  BY <1>3, WFMin, Zenon
<1>6. \A y \in T : ~(y < x)
  BY <1>4, <1>5, Zenon
<1> QED
  BY <1>5, <1>6

\* A family of subsets of a finite set that has each one all of whose smaller
\* ones it has is all of them.
LEMMA ByCardinality ==
  ASSUME NEW S, IsFiniteSet(S), NEW F,
         \A T \in SUBSET S :
           (\A U \in SUBSET S : Cardinality(U) < Cardinality(T) => U \in F) => T \in F
  PROVE  \A T \in SUBSET S : T \in F
<1> DEFINE Bad == {Cardinality(T) : T \in (SUBSET S) \ F}
<1>1. \A T \in SUBSET S : Cardinality(T) \in Nat
  BY FS_Subset, FS_CardinalityType
<1>2. SUFFICES ASSUME Bad # {} PROVE FALSE
  OBVIOUS
<1>3. PICK n \in Bad : \A m \in Bad : n <= m
  <2>1. Bad \subseteq Nat
    BY <1>1
  <2> HIDE DEF Bad
  <2> QED
    BY <1>2, <2>1, Smallest, Zenon
<1>4. PICK T \in (SUBSET S) \ F : n = Cardinality(T)
  BY <1>3
<1>5. PICK U \in SUBSET S : Cardinality(U) < Cardinality(T) /\ U \notin F
  BY <1>4
<1>6. n <= Cardinality(U)
  BY <1>3, <1>5
<1>7. Cardinality(U) \in Nat /\ Cardinality(T) \in Nat
  BY <1>1
<1> HIDE DEF Bad
<1> QED
  BY <1>4, <1>5, <1>6, <1>7

\* A subset without one of its members is smaller.
LEMMA Fewer ==
  ASSUME NEW S, IsFiniteSet(S), NEW T \in SUBSET S, NEW x \in T
  PROVE  Cardinality(T \ {x}) < Cardinality(T) /\ T \ {x} \in SUBSET S
<1>1. IsFiniteSet(T)
  BY FS_Subset
<1>2. Cardinality(T \ {x}) = Cardinality(T) - 1 /\ Cardinality(T) \in Nat
  BY <1>1, FS_RemoveElement, FS_CardinalityType
<1> QED
  BY <1>2

Pick(s) == CHOOSE x \in s : TRUE

\* What the library's sums are computed by.
IsIter(g, f, S) ==
  g = [s \in SUBSET S |-> IF s = {} THEN 0 ELSE f[Pick(s)] + g[s \ {Pick(s)}]]

Numbers(f, S) == IsFiniteSet(S) /\ \A x \in S : f[x] \in Nat

LEMMA SumUnfolds ==
  ASSUME NEW f, NEW S
  PROVE  SumFunctionOnSet(f, S) = (CHOOSE g : IsIter(g, f, S))[S]
BY DEF SumFunctionOnSet, FoldFunctionOnSet, MapThenFoldSet, IsIter, Pick

LEMMA Picked ==
  ASSUME NEW s, s # {}
  PROVE  Pick(s) \in s
BY DEF Pick

\* Each member of the table follows from the smaller ones, up to size n.
Upto(g, f, S, n) ==
  \A s \in SUBSET S : Cardinality(s) <= n =>
    g[s] = IF s = {} THEN 0 ELSE f[Pick(s)] + g[s \ {Pick(s)}]

\* A table for one size more.
LEMMA UptoNext ==
  ASSUME NEW f, NEW S, Numbers(f, S), NEW n \in Nat,
         NEW g \in [SUBSET S -> Nat], Upto(g, f, S, n)
  PROVE  \E h \in [SUBSET S -> Nat] : Upto(h, f, S, n + 1)
<1> DEFINE h == [s \in SUBSET S |-> IF s = {} THEN 0 ELSE f[Pick(s)] + g[s \ {Pick(s)}]]
<1>1. \A s \in SUBSET S : s # {} => Pick(s) \in s /\ f[Pick(s)] \in Nat /\ s \ {Pick(s)} \in SUBSET S
  BY Picked DEF Numbers
<1>2. h \in [SUBSET S -> Nat]
  <2>1. ASSUME NEW s \in SUBSET S
        PROVE  (IF s = {} THEN 0 ELSE f[Pick(s)] + g[s \ {Pick(s)}]) \in Nat
    <3>1. CASE s = {}
      BY <3>1
    <3>2. CASE s # {}
      <4>1. f[Pick(s)] \in Nat /\ g[s \ {Pick(s)}] \in Nat
        BY <1>1, <3>2
      <4> QED
        BY <3>2, <4>1
    <3> QED
      BY <3>1, <3>2
  <2> QED
    BY <2>1
<1>3. ASSUME NEW s \in SUBSET S, Cardinality(s) <= n + 1
      PROVE  h[s] = IF s = {} THEN 0 ELSE f[Pick(s)] + h[s \ {Pick(s)}]
  <2>1. CASE s = {}
    BY <2>1
  <2>2. CASE s # {}
    <3>1. PICK u : u = s \ {Pick(s)}
      OBVIOUS
    <3>2. u \in SUBSET S /\ Cardinality(u) < Cardinality(s)
      BY <1>1, <2>2, <3>1, Fewer DEF Numbers
    <3>3. Cardinality(u) \in Nat /\ Cardinality(s) \in Nat
      BY <3>2, FS_Subset, FS_CardinalityType DEF Numbers
    <3>4. Cardinality(u) <= n
      BY <1>3, <3>2, <3>3
    <3>5. h[u] = g[u]
      BY <3>2, <3>4 DEF Upto
    <3>6. h[s] = f[Pick(s)] + g[u]
      BY <2>2, <3>1
    <3> HIDE DEF h
    <3> QED
      BY <2>2, <3>1, <3>5, <3>6
  <2> QED
    BY <2>1, <2>2
<1> HIDE DEF h
<1> QED
  BY <1>2, <1>3 DEF Upto

Tabled(f, S, n) == \E g \in [SUBSET S -> Nat] : Upto(g, f, S, n)

LEMMA IterExists ==
  ASSUME NEW f, NEW S, Numbers(f, S)
  PROVE  \E g \in [SUBSET S -> Nat] : IsIter(g, f, S)
<1> DEFINE Bad == {n \in Nat : ~Tabled(f, S, n)}
<1>1. \A s \in SUBSET S : IsFiniteSet(s) /\ Cardinality(s) \in Nat
  BY FS_Subset, FS_CardinalityType DEF Numbers
<1>2. Bad = {}
  <2>1. SUFFICES ASSUME Bad # {} PROVE FALSE
    OBVIOUS
  <2>2. PICK n \in Bad : \A m \in Bad : n <= m
    <3>1. Bad \subseteq Nat
      OBVIOUS
    <3> HIDE DEF Bad
    <3> QED
      BY <2>1, <3>1, Smallest, Zenon
  <2>3. CASE n = 0
    <3>1. PICK g : g = [s \in SUBSET S |-> 0]
      OBVIOUS
    <3>2. \A s \in SUBSET S : Cardinality(s) <= 0 => s = {}
      BY <1>1, FS_EmptySet
    <3>3. g \in [SUBSET S -> Nat] /\ Upto(g, f, S, 0)
      BY <3>1, <3>2 DEF Upto
    <3>4. Tabled(f, S, 0)
      BY <3>3 DEF Tabled
    <3> QED
      BY <2>2, <2>3, <3>4
  <2>4. CASE n # 0
    <3>1. n - 1 \in Nat /\ n - 1 \notin Bad /\ (n - 1) + 1 = n
      BY <2>2, <2>4
    <3>2. PICK g \in [SUBSET S -> Nat] : Upto(g, f, S, n - 1)
      BY <3>1, Zenon DEF Tabled
    <3>3. \E h \in [SUBSET S -> Nat] : Upto(h, f, S, (n - 1) + 1)
      BY <3>1, <3>2, UptoNext, Zenon
    <3>4. Tabled(f, S, n)
      BY <3>1, <3>3, Zenon DEF Tabled
    <3> QED
      BY <2>2, <3>4
  <2> QED
    BY <2>3, <2>4
<1>3. Cardinality(S) \in Nat
  BY <1>1
<1>4. PICK g \in [SUBSET S -> Nat] : Upto(g, f, S, Cardinality(S))
  BY <1>2, <1>3 DEF Tabled
<1>5. \A s \in SUBSET S : Cardinality(s) <= Cardinality(S)
  BY FS_Subset DEF Numbers
<1>6. IsIter(g, f, S)
  BY <1>4, <1>5 DEF Upto, IsIter
<1> QED
  BY <1>4, <1>6

LEMMA IterUnique ==
  ASSUME NEW f, NEW S, Numbers(f, S), NEW g, IsIter(g, f, S), NEW h, IsIter(h, f, S)
  PROVE  g[S] = h[S]
<1> DEFINE F == {s \in SUBSET S : g[s] = h[s]}
<1>1. ASSUME NEW s \in SUBSET S, \A u \in SUBSET S : Cardinality(u) < Cardinality(s) => u \in F
      PROVE  s \in F
  <2>1. /\ g[s] = IF s = {} THEN 0 ELSE f[Pick(s)] + g[s \ {Pick(s)}]
        /\ h[s] = IF s = {} THEN 0 ELSE f[Pick(s)] + h[s \ {Pick(s)}]
    BY DEF IsIter
  <2>2. CASE s = {}
    BY <2>1, <2>2
  <2>3. CASE s # {}
    <3>1. PICK u : u = s \ {Pick(s)}
      OBVIOUS
    <3>2. u \in SUBSET S /\ Cardinality(u) < Cardinality(s)
      BY <2>3, <3>1, Picked, Fewer DEF Numbers
    <3>3. g[u] = h[u]
      BY <1>1, <3>2
    <3> QED
      BY <2>1, <2>3, <3>1, <3>3
  <2> QED
    BY <2>2, <2>3
<1>2. \A s \in SUBSET S : s \in F
  <2> HIDE DEF F
  <2> QED
    BY <1>1, ByCardinality DEF Numbers
<1> QED
  BY <1>2

LEMMA SumIs ==
  ASSUME NEW f, NEW S, Numbers(f, S), NEW g, IsIter(g, f, S)
  PROVE  SumFunctionOnSet(f, S) = g[S]
<1>1. PICK h : h = CHOOSE i : IsIter(i, f, S)
  OBVIOUS
<1>2. IsIter(h, f, S)
  BY <1>1, Zenon
<1>3. SumFunctionOnSet(f, S) = h[S]
  BY <1>1, SumUnfolds, Zenon
<1> QED
  BY <1>2, <1>3, IterUnique, Zenon

\* A sum is the one of the picked member and the sum of the rest.
LEMMA SumPick ==
  ASSUME NEW f, NEW S, Numbers(f, S)
  PROVE  /\ SumFunctionOnSet(f, S) \in Nat
         /\ S = {} => SumFunctionOnSet(f, S) = 0
         /\ S # {} => SumFunctionOnSet(f, S) = f[Pick(S)] + SumFunctionOnSet(f, S \ {Pick(S)})
<1>1. PICK g \in [SUBSET S -> Nat] : IsIter(g, f, S)
  BY IterExists
<1>2. SumFunctionOnSet(f, S) = g[S]
  BY <1>1, SumIs
<1>3. g[S] = IF S = {} THEN 0 ELSE f[Pick(S)] + g[S \ {Pick(S)}]
  BY <1>1 DEF IsIter
<1>4. ASSUME S # {}
      PROVE  SumFunctionOnSet(f, S \ {Pick(S)}) = g[S \ {Pick(S)}]
  <2>1. PICK R : R = S \ {Pick(S)}
    OBVIOUS
  <2>2. R \in SUBSET S /\ Numbers(f, R)
    BY <2>1, FS_Subset DEF Numbers
  <2>3. PICK h : h = [s \in SUBSET R |-> g[s]]
    OBVIOUS
  <2>4. \A s \in SUBSET R : s \in SUBSET S /\ s \ {Pick(s)} \in SUBSET R
    BY <2>2
  <2>5. \A s \in SUBSET R : h[s] = g[s] /\ h[s \ {Pick(s)}] = g[s \ {Pick(s)}]
    BY <2>3, <2>4
  <2>6. \A s \in SUBSET R : g[s] = IF s = {} THEN 0 ELSE f[Pick(s)] + g[s \ {Pick(s)}]
    BY <1>1, <2>4 DEF IsIter
  <2>7. \A s \in SUBSET R : g[s] = IF s = {} THEN 0 ELSE f[Pick(s)] + h[s \ {Pick(s)}]
    BY <2>5, <2>6
  <2>8. IsIter(h, f, R)
    BY <2>3, <2>7 DEF IsIter
  <2>9. SumFunctionOnSet(f, R) = h[R] /\ h[R] = g[R]
    BY <2>2, <2>3, <2>8, SumIs
  <2> QED
    BY <2>1, <2>9
<1> QED
  BY <1>1, <1>2, <1>3, <1>4

\* Subsets of numbers are numbers.
LEMMA NumbersPart ==
  ASSUME NEW f, NEW S, Numbers(f, S), NEW T \in SUBSET S
  PROVE  Numbers(f, T) /\ SumFunctionOnSet(f, T) \in Nat
BY FS_Subset, SumPick DEF Numbers

\* Any member can be taken out first.
LEMMA SumRemove ==
  ASSUME NEW f, NEW S, Numbers(f, S), NEW e \in S
  PROVE  SumFunctionOnSet(f, S) = f[e] + SumFunctionOnSet(f, S \ {e})
<1> DEFINE F == {T \in SUBSET S : \A x \in T : SumFunctionOnSet(f, T) = f[x] + SumFunctionOnSet(f, T \ {x})}
<1>1. ASSUME NEW T \in SUBSET S, \A U \in SUBSET S : Cardinality(U) < Cardinality(T) => U \in F
      PROVE  T \in F
  <2>1. SUFFICES ASSUME NEW x \in T
                 PROVE  SumFunctionOnSet(f, T) = f[x] + SumFunctionOnSet(f, T \ {x})
    OBVIOUS
  <2>2. PICK p : p = Pick(T)
    OBVIOUS
  <2>3. p \in T /\ SumFunctionOnSet(f, T) = f[p] + SumFunctionOnSet(f, T \ {p})
    BY <2>1, <2>2, Picked, SumPick, NumbersPart
  <2>4. CASE x = p
    BY <2>3, <2>4
  <2>5. CASE x # p
    <3>1. T \ {p} \in F /\ T \ {x} \in F /\ x \in T \ {p} /\ p \in T \ {x}
      BY <1>1, <2>3, <2>5, Fewer DEF Numbers
    <3>2. (T \ {p}) \ {x} = (T \ {x}) \ {p}
      OBVIOUS
    <3>3. PICK R : R = (T \ {x}) \ {p}
      OBVIOUS
    <3>4. /\ SumFunctionOnSet(f, T \ {p}) = f[x] + SumFunctionOnSet(f, R)
          /\ SumFunctionOnSet(f, T \ {x}) = f[p] + SumFunctionOnSet(f, R)
      BY <3>1, <3>2, <3>3
    <3>5. SumFunctionOnSet(f, R) \in Nat /\ f[x] \in Nat /\ f[p] \in Nat
      BY <2>3, <3>3, NumbersPart DEF Numbers
    <3> QED
      BY <2>3, <3>4, <3>5
  <2> QED
    BY <2>4, <2>5
<1>2. \A T \in SUBSET S : T \in F
  <2> HIDE DEF F
  <2> QED
    BY <1>1, ByCardinality DEF Numbers
<1> QED
  BY <1>2

\* Only the values on the set count.
LEMMA SumEqual ==
  ASSUME NEW f, NEW g, NEW S, Numbers(f, S), \A x \in S : f[x] = g[x]
  PROVE  SumFunctionOnSet(f, S) = SumFunctionOnSet(g, S)
<1> DEFINE F == {T \in SUBSET S : SumFunctionOnSet(f, T) = SumFunctionOnSet(g, T)}
<1>0. Numbers(g, S)
  BY DEF Numbers
<1>1. ASSUME NEW T \in SUBSET S, \A U \in SUBSET S : Cardinality(U) < Cardinality(T) => U \in F
      PROVE  T \in F
  <2>1. Numbers(f, T) /\ Numbers(g, T)
    BY <1>0, NumbersPart
  <2>2. CASE T = {}
    BY <2>1, <2>2, SumPick
  <2>3. CASE T # {}
    <3>1. PICK x \in T : TRUE
      BY <2>3
    <3>2. SumFunctionOnSet(f, T \ {x}) = SumFunctionOnSet(g, T \ {x})
      BY <1>1, <3>1, Fewer DEF Numbers
    <3>3. /\ SumFunctionOnSet(f, T) = f[x] + SumFunctionOnSet(f, T \ {x})
          /\ SumFunctionOnSet(g, T) = g[x] + SumFunctionOnSet(g, T \ {x})
          /\ f[x] = g[x]
      BY <2>1, <3>1, SumRemove
    <3> QED
      BY <3>2, <3>3
  <2> QED
    BY <2>2, <2>3
<1>2. \A T \in SUBSET S : T \in F
  <2> HIDE DEF F
  <2> QED
    BY <1>1, ByCardinality DEF Numbers
<1> QED
  BY <1>2

\* Nothing anywhere is nothing.
LEMMA SumZero ==
  ASSUME NEW f, NEW S, Numbers(f, S), \A x \in S : f[x] = 0
  PROVE  SumFunctionOnSet(f, S) = 0
<1> DEFINE F == {T \in SUBSET S : SumFunctionOnSet(f, T) = 0}
<1>1. ASSUME NEW T \in SUBSET S, \A U \in SUBSET S : Cardinality(U) < Cardinality(T) => U \in F
      PROVE  T \in F
  <2>1. Numbers(f, T)
    BY NumbersPart
  <2>2. CASE T = {}
    BY <2>1, <2>2, SumPick
  <2>3. CASE T # {}
    <3>1. PICK x \in T : TRUE
      BY <2>3
    <3>2. SumFunctionOnSet(f, T \ {x}) = 0
      BY <1>1, <3>1, Fewer DEF Numbers
    <3>3. SumFunctionOnSet(f, T) = f[x] + SumFunctionOnSet(f, T \ {x}) /\ f[x] = 0
      BY <2>1, <3>1, SumRemove
    <3> QED
      BY <3>2, <3>3
  <2> QED
    BY <2>2, <2>3
<1>2. \A T \in SUBSET S : T \in F
  <2> HIDE DEF F
  <2> QED
    BY <1>1, ByCardinality DEF Numbers
<1> QED
  BY <1>2

-----------------------------------------------------------------------------
\* The sum of a function on a set and on one that differs in one member.
LEMMA SumChanged ==
    ASSUME NEW f, NEW g, NEW S, Numbers(f, S), Numbers(g, S), NEW r,
           \A x \in S \ {r} : g[x] = f[x]
    PROVE  /\ r \in S => \E n \in Nat : /\ SumFunctionOnSet(f, S) = f[r] + n
                                        /\ SumFunctionOnSet(g, S) = g[r] + n
           /\ r \notin S => SumFunctionOnSet(g, S) = SumFunctionOnSet(f, S)
<1>1. CASE r \in S
  <2>1. PICK R : R = S \ {r}
    OBVIOUS
  <2>2. Numbers(f, R) /\ SumFunctionOnSet(f, R) \in Nat
    BY <2>1, NumbersPart
  <2>3. SumFunctionOnSet(f, R) = SumFunctionOnSet(g, R)
    BY <2>1, <2>2, SumEqual
  <2>4. /\ SumFunctionOnSet(f, S) = f[r] + SumFunctionOnSet(f, R)
        /\ SumFunctionOnSet(g, S) = g[r] + SumFunctionOnSet(g, R)
    BY <1>1, <2>1, SumRemove
  <2> QED
    BY <1>1, <2>2, <2>3, <2>4
<1>2. CASE r \notin S
  <2>1. \A x \in S : f[x] = g[x]
    BY <1>2
  <2>2. SumFunctionOnSet(f, S) = SumFunctionOnSet(g, S)
    BY <2>1, SumEqual
  <2> QED
    BY <1>2, <2>2
<1> QED
  BY <1>1, <1>2

\* What mailboxes hold, as numbers to add.
LEMMA BoxNumbers ==
    ASSUME NEW b \in [Rid -> 0 .. BoxCap], NEW S \in SUBSET Rid
    PROVE  Numbers(b, S) /\ SumFunctionOnSet(b, S) \in Nat
<1>1. \A r \in Rid : b[r] \in Nat
  BY AdmissionAssumption
<1>2. IsFiniteSet(S)
  BY AdmissionAssumption, FS_Subset
<1> QED
  BY <1>1, <1>2, SumPick DEF Numbers

\* n is what these mailboxes hold, but for c bytes it misses and g that have gone.
Near(S, n, c, g) ==
    /\ SumFunctionOnSet(box, S) <= n + c
    /\ n <= SumFunctionOnSet(box, S) + g

\* What a walk has added up is what the mailboxes behind it hold, but for what
\* came and went meanwhile.
Recounts ==
    \A i \in Inst : walk[i].on /\ walk[i].whole =>
        Near(Unowned \ walk[i].todo, walk[i].sum, walk[i].came, walk[i].went + walk[i].extra)

\* A step that brings c unowned bytes and takes g away, of whatever mailboxes.
Shift(c, g) ==
    \A T \in SUBSET Rid :
        /\ SumFunctionOnSet(box', Unowned' \ T) <= SumFunctionOnSet(box, Unowned \ T) + c
        /\ SumFunctionOnSet(box, Unowned \ T) <= SumFunctionOnSet(box', Unowned' \ T) + g

LEMMA FollowsIs == CounterFollows <=> Near(Unowned, ub, came, went + extra)
  BY DEF CounterFollows, UnownedBytes, Near

\* A walk has noted such a step.
Noted(w, v, c, g) ==
    /\ v.todo = w.todo /\ v.sum = w.sum /\ v.whole = w.whole
    /\ v.came = w.came + c /\ v.went = w.went + g /\ v.extra = w.extra

\* A walk that knows of such a step is as near as before.
LEMMA ShiftedWalks ==
    ASSUME BoxesOK, BoxesOK', Recounts, NEW c \in Nat, NEW g \in Nat, Shift(c, g),
           \A i \in Inst : walk'[i].on => walk[i].on /\ Noted(walk[i], walk'[i], c, g)
    PROVE  Recounts'
<1> SUFFICES ASSUME NEW i \in Inst, walk'[i].on, walk'[i].whole
             PROVE  Near(Unowned \ walk[i].todo, walk[i].sum, walk[i].came, walk[i].went + walk[i].extra)'
  BY DEF Recounts
<1>1. walk[i] \in Walk /\ walk[i].on /\ Noted(walk[i], walk'[i], c, g)
  BY DEF BoxesOK
<1>2. /\ walk'[i].whole = walk[i].whole /\ walk'[i].todo = walk[i].todo /\ walk'[i].sum = walk[i].sum
      /\ walk'[i].came = walk[i].came + c /\ walk'[i].went = walk[i].went + g
      /\ walk'[i].extra = walk[i].extra /\ walk[i].todo \in SUBSET Rid
      /\ walk[i].sum \in Nat /\ walk[i].came \in Nat /\ walk[i].went \in Nat /\ walk[i].extra \in Nat
  BY <1>1 DEF Walk, Noted
<1>3. PICK a, b : /\ a = SumFunctionOnSet(box, Unowned \ walk[i].todo)
                  /\ b = SumFunctionOnSet(box', Unowned' \ walk[i].todo)
  OBVIOUS
<1>4. a \in Nat /\ b \in Nat
  <2>1. box \in [Rid -> 0 .. BoxCap] /\ box' \in [Rid -> 0 .. BoxCap]
    BY DEF BoxesOK
  <2>2. Unowned' \ walk[i].todo \in SUBSET Rid /\ Unowned \ walk[i].todo \in SUBSET Rid
    BY DEF Unowned
  <2> QED
    BY <1>3, <2>1, <2>2, BoxNumbers
<1>5. b <= a + c /\ a <= b + g
  BY <1>2, <1>3 DEF Shift
<1>6. a <= walk[i].sum + walk[i].came /\ walk[i].sum <= a + (walk[i].went + walk[i].extra)
  BY <1>1, <1>2, <1>3 DEF Recounts, Near
<1>7. PICK n, x, y, z \in Nat : /\ n = walk[i].sum /\ x = walk[i].came
                                /\ y = walk[i].went /\ z = walk[i].extra
  BY <1>2
<1>8. b <= n + (x + c) /\ n <= b + ((y + g) + z)
  BY <1>4, <1>5, <1>6, <1>7
<1> QED
  BY <1>2, <1>3, <1>7, <1>8 DEF Near

\* Such a step that z:ub does not show.
LEMMA UnseenFollows ==
    ASSUME BoxesOK, BoxesOK', CounterFollows, Recounts, NEW c \in Nat, NEW g \in Nat,
           Shift(c, g), Unseen(c, g, walk), ub' = ub
    PROVE  CounterFollows' /\ Recounts'
<1>1. came' = came + c /\ went' = went + g /\ extra' = extra
  BY DEF Unseen
<1>2. \A i \in Inst : walk'[i].on => walk[i].on /\ Noted(walk[i], walk'[i], c, g)
  <2> SUFFICES ASSUME NEW i \in Inst, walk'[i].on PROVE walk[i].on /\ Noted(walk[i], walk'[i], c, g)
    OBVIOUS
  <2>1. walk'[i] = IF walk[i].on THEN [walk[i] EXCEPT !.came = @ + c, !.went = @ + g] ELSE walk[i]
    BY DEF Unseen
  <2>2. PICK w \in Walk : w = walk[i]
    BY DEF BoxesOK
  <2>3. w.on /\ walk'[i] = [w EXCEPT !.came = @ + c, !.went = @ + g]
    BY <2>1, <2>2
  <2> QED
    BY <2>2, <2>3 DEF Walk, Noted
<1>3. Recounts'
  BY <1>2, ShiftedWalks
<1>4. PICK a, b : a = SumFunctionOnSet(box, Unowned) /\ b = SumFunctionOnSet(box', Unowned')
  OBVIOUS
<1>5. a \in Nat /\ b \in Nat /\ ub \in Nat /\ came \in Nat /\ went \in Nat /\ extra \in Nat
  <2>1. box \in [Rid -> 0 .. BoxCap] /\ box' \in [Rid -> 0 .. BoxCap]
    BY DEF BoxesOK
  <2>2. Unowned' \in SUBSET Rid /\ Unowned \in SUBSET Rid
    BY DEF Unowned
  <2> QED
    BY <1>4, <2>1, <2>2, BoxNumbers DEF BoxesOK
<1>6. b <= a + c /\ a <= b + g
  <2>1. Unowned \ {} = Unowned /\ Unowned' \ {} = Unowned'
    OBVIOUS
  <2> QED
    BY <1>4, <2>1 DEF Shift
<1>7. a <= ub + came /\ ub <= a + (went + extra)
  BY <1>4, FollowsIs DEF Near
<1>8. b <= ub + (came + c) /\ ub <= b + ((went + g) + extra)
  BY <1>5, <1>6, <1>7
<1>9. Near(Unowned, ub, came, went + extra)'
  BY <1>1, <1>4, <1>8 DEF Near
<1> QED
  BY <1>3, <1>9, FollowsIs, PTL

\* One mailbox holds more or less than before.
LEMMA BoxShift ==
    ASSUME BoxesOK, BoxesOK', owned' = owned, NEW r \in Rid, NEW c \in Nat, NEW g \in Nat,
           \A x \in Rid \ {r} : box'[x] = box[x],
           r \in Unowned => box'[r] <= box[r] + c /\ box[r] <= box'[r] + g
    PROVE  Shift(c, g)
<1> SUFFICES ASSUME NEW T \in SUBSET Rid
             PROVE  /\ SumFunctionOnSet(box', Unowned' \ T) <= SumFunctionOnSet(box, Unowned \ T) + c
                    /\ SumFunctionOnSet(box, Unowned \ T) <= SumFunctionOnSet(box', Unowned' \ T) + g
  BY DEF Shift
<1>1. PICK S : S = Unowned \ T
  OBVIOUS
<1>2. Unowned' \ T = S /\ S \in SUBSET Rid /\ S \subseteq Unowned
  BY <1>1 DEF Unowned
<1>3. PICK f, h : f = box /\ h = box'
  OBVIOUS
<1>4. Numbers(f, S) /\ Numbers(h, S)
  <2>1. f \in [Rid -> 0 .. BoxCap] /\ h \in [Rid -> 0 .. BoxCap]
    BY <1>3 DEF BoxesOK
  <2> QED
    BY <1>2, <2>1, BoxNumbers
<1>5. \A x \in S \ {r} : h[x] = f[x]
  BY <1>2, <1>3
<1>6. /\ r \in S => \E n \in Nat : /\ SumFunctionOnSet(f, S) = f[r] + n
                                   /\ SumFunctionOnSet(h, S) = h[r] + n
      /\ r \notin S => SumFunctionOnSet(h, S) = SumFunctionOnSet(f, S)
  BY <1>4, <1>5, SumChanged
<1>7. SumFunctionOnSet(f, S) \in Nat /\ SumFunctionOnSet(h, S) \in Nat
  BY <1>4, SumPick
<1>8. CASE r \in S
  <2>1. PICK n \in Nat : /\ SumFunctionOnSet(f, S) = f[r] + n
                         /\ SumFunctionOnSet(h, S) = h[r] + n
    BY <1>6, <1>8
  <2>2. f[r] \in Nat /\ h[r] \in Nat
    BY <1>4, <1>8 DEF Numbers
  <2>3. h[r] <= f[r] + c /\ f[r] <= h[r] + g
    BY <1>2, <1>3, <1>8
  <2>4. /\ SumFunctionOnSet(h, S) <= SumFunctionOnSet(f, S) + c
        /\ SumFunctionOnSet(f, S) <= SumFunctionOnSet(h, S) + g
    BY <2>1, <2>2, <2>3
  <2> QED
    BY <1>1, <1>2, <1>3, <2>4
<1>9. CASE r \notin S
  <2>1. /\ SumFunctionOnSet(h, S) <= SumFunctionOnSet(f, S) + c
        /\ SumFunctionOnSet(f, S) <= SumFunctionOnSet(h, S) + g
    BY <1>6, <1>7, <1>9
  <2> QED
    BY <1>1, <1>2, <1>3, <2>1
<1> QED
  BY <1>8, <1>9

\* One mailbox more is unowned, or one less: with all it holds.
LEMMA OwnerShift ==
    ASSUME BoxesOK, box' = box, owned' \subseteq Rid, NEW r \in Rid, NEW c \in Nat, NEW g \in Nat,
           \/ Unowned' = Unowned
           \/ r \notin Unowned /\ Unowned' = Unowned \cup {r} /\ c = box[r]
           \/ r \in Unowned /\ Unowned' = Unowned \ {r} /\ g = box[r]
    PROVE  Shift(c, g)
<1> SUFFICES ASSUME NEW T \in SUBSET Rid
             PROVE  /\ SumFunctionOnSet(box, Unowned' \ T) <= SumFunctionOnSet(box, Unowned \ T) + c
                    /\ SumFunctionOnSet(box, Unowned \ T) <= SumFunctionOnSet(box, Unowned' \ T) + g
  BY DEF Shift
<1>1. PICK S, R : S = Unowned \ T /\ R = Unowned' \ T
  OBVIOUS
<1>2. /\ S \in SUBSET Rid /\ R \in SUBSET Rid
      /\ Numbers(box, S) /\ Numbers(box, R)
      /\ SumFunctionOnSet(box, S) \in Nat /\ SumFunctionOnSet(box, R) \in Nat
  <2>1. S \in SUBSET Rid /\ R \in SUBSET Rid
    BY <1>1 DEF Unowned
  <2> QED
    BY <2>1, BoxNumbers DEF BoxesOK
<1>3. \/ S = R
      \/ r \in R /\ S = R \ {r} /\ c = box[r]
      \/ r \in S /\ R = S \ {r} /\ g = box[r]
  <2>1. CASE Unowned' = Unowned
    BY <1>1, <2>1
  <2>2. CASE r \notin Unowned /\ Unowned' = Unowned \cup {r} /\ c = box[r]
    BY <1>1, <2>2
  <2>3. CASE r \in Unowned /\ Unowned' = Unowned \ {r} /\ g = box[r]
    BY <1>1, <2>3
  <2> QED
    BY <2>1, <2>2, <2>3
<1>4. /\ r \in R => SumFunctionOnSet(box, R) = box[r] + SumFunctionOnSet(box, R \ {r})
      /\ r \in S => SumFunctionOnSet(box, S) = box[r] + SumFunctionOnSet(box, S \ {r})
  BY <1>2, SumRemove
<1>5. PICK a, b, n : a = SumFunctionOnSet(box, S) /\ b = SumFunctionOnSet(box, R) /\ n = box[r]
  OBVIOUS
<1>6. a = b \/ (b = n + a /\ c = n) \/ (a = n + b /\ g = n)
  BY <1>3, <1>4, <1>5
<1>7. b <= a + c /\ a <= b + g
  BY <1>2, <1>5, <1>6
<1> QED
  BY <1>1, <1>5, <1>7

\* A push counts live what it enters into an unowned mailbox.
LEMMA EntersFollows ==
    ASSUME BoxesOK, BoxesOK', CounterFollows, Recounts, owned' = owned,
           NEW r \in Rid, NEW stored \in BOOLEAN, Enters(r, stored)
    PROVE  CounterFollows' /\ Recounts'
<1>1. CASE ~stored
  BY <1>1 DEF Enters, drift, CounterFollows, UnownedBytes, Unowned, Recounts, Near
<1>2. CASE stored /\ r \notin Unowned
  <2>1. box' = [box EXCEPT ![r] = @ + 1] /\ UNCHANGED <<ub, walk, came, went, extra>>
    BY <1>2 DEF Enters, drift
  <2>2. \A x \in Rid \ {r} : box'[x] = box[x]
    BY <2>1 DEF BoxesOK
  <2>3. Shift(0, 0)
    BY <1>2, <2>2, BoxShift
  <2>4. \A w \in Walk : Noted(w, w, 0, 0)
    BY DEF Walk, Noted
  <2>5. \A i \in Inst : walk'[i].on => walk[i].on /\ Noted(walk[i], walk'[i], 0, 0)
    BY <2>1, <2>4 DEF BoxesOK
  <2>6. Recounts'
    BY <2>3, <2>5, ShiftedWalks
  <2>7. \A x \in Unowned : box'[x] = box[x]
    BY <1>2, <2>2 DEF Unowned
  <2>8. SumFunctionOnSet(box, Unowned) = SumFunctionOnSet(box', Unowned)
    <3>1. Numbers(box, Unowned)
      BY BoxNumbers DEF Unowned, BoxesOK
    <3> QED
      BY <2>7, <3>1, SumEqual
  <2>9. Near(Unowned, ub, came, went + extra)'
    <3>1. Unowned' = Unowned
      BY DEF Unowned
    <3>2. Near(Unowned, ub, came, went + extra)
      BY FollowsIs
    <3> QED
      BY <2>1, <2>8, <3>1, <3>2 DEF Near
  <2> QED
    BY <2>6, <2>9, FollowsIs, PTL
<1>3. CASE stored /\ r \in Unowned
  <2>1. /\ box' = [box EXCEPT ![r] = @ + 1] /\ ub' = ub + 1 /\ UNCHANGED <<came, went, extra>>
        /\ walk' = [i \in Inst |-> IF walk[i].on THEN [walk[i] EXCEPT !.came = @ + 1] ELSE walk[i]]
    BY <1>3 DEF Enters, drift
  <2>2. (\A x \in Rid \ {r} : box'[x] = box[x]) /\ box'[r] = box[r] + 1 /\ box[r] \in Nat
    BY <2>1, AdmissionAssumption DEF BoxesOK
  <2>3. Shift(1, 0)
    BY <2>2, BoxShift
  <2>4. \A w \in Walk : Noted(w, [w EXCEPT !.came = @ + 1], 1, 0)
    BY DEF Walk, Noted
  <2>5. \A i \in Inst : walk'[i].on => walk[i].on /\ Noted(walk[i], walk'[i], 1, 0)
    <3>1. \A i \in Inst : /\ walk[i] \in Walk
                          /\ walk'[i] = IF walk[i].on THEN [walk[i] EXCEPT !.came = @ + 1] ELSE walk[i]
      BY <2>1 DEF BoxesOK
    <3> QED
      BY <2>4, <3>1
  <2>6. Recounts'
    BY <2>3, <2>5, ShiftedWalks
  <2>7. PICK f, h : f = box /\ h = box'
    OBVIOUS
  <2>8. Numbers(f, Unowned) /\ Numbers(h, Unowned)
    <3>1. f \in [Rid -> 0 .. BoxCap] /\ h \in [Rid -> 0 .. BoxCap]
      BY <2>7 DEF BoxesOK
    <3>2. Unowned \in SUBSET Rid
      BY DEF Unowned
    <3> QED
      BY <3>1, <3>2, BoxNumbers
  <2>9. \A x \in Unowned \ {r} : h[x] = f[x]
    BY <2>2, <2>7 DEF Unowned
  <2>10. PICK n \in Nat : /\ SumFunctionOnSet(f, Unowned) = f[r] + n
                          /\ SumFunctionOnSet(h, Unowned) = h[r] + n
    BY <1>3, <2>8, <2>9, SumChanged
  <2>11. SumFunctionOnSet(h, Unowned) = SumFunctionOnSet(f, Unowned) + 1
    BY <2>2, <2>7, <2>10
  <2>12. Near(Unowned, ub, came, went + extra)'
    <3>1. Unowned' = Unowned
      BY DEF Unowned
    <3>2. PICK a : a = SumFunctionOnSet(f, Unowned)
      OBVIOUS
    <3>3. a <= ub + came /\ ub <= a + (went + extra)
      BY <2>7, <3>2, FollowsIs DEF Near
    <3>4. a \in Nat /\ ub \in Nat /\ came \in Nat /\ went \in Nat /\ extra \in Nat
      BY <2>8, <3>2, SumPick DEF BoxesOK
    <3>5. a + 1 <= (ub + 1) + came /\ ub + 1 <= (a + 1) + (went + extra)
      BY <3>3, <3>4
    <3> QED
      BY <2>1, <2>7, <2>11, <3>1, <3>2, <3>5 DEF Near
  <2> QED
    BY <2>6, <2>12, FollowsIs, PTL
<1> QED
  BY <1>1, <1>2, <1>3

\* A walk begins with nothing behind it.
LEMMA StartFollows ==
    ASSUME BoxesOK, CounterFollows, Recounts, NEW i \in Inst, StartSweep(i)
    PROVE  CounterFollows' /\ Recounts'
<1>1. UNCHANGED <<box, ub, owned, came, went, extra>>
  BY DEF StartSweep, boxes, drift
<1>2. CounterFollows'
  BY <1>1 DEF CounterFollows, UnownedBytes, Unowned
<1>3. \A j \in Inst : j # i => walk'[j] = walk[j]
  BY DEF StartSweep, BoxesOK
<1>4. /\ walk'[i].todo = Rid /\ walk'[i].sum = 0
      /\ walk'[i].came = 0 /\ walk'[i].went = 0 /\ walk'[i].extra = 0
  BY DEF StartSweep, BoxesOK, Still
<1>5. SumFunctionOnSet(box, {}) = 0
  BY BoxNumbers, SumPick DEF BoxesOK
<1>6. Unowned \ Rid = {} /\ Unowned' = Unowned
  BY <1>1 DEF Unowned
<1>7. Near(Unowned \ walk[i].todo, walk[i].sum, walk[i].came, walk[i].went + walk[i].extra)'
  BY <1>1, <1>4, <1>5, <1>6 DEF Near
<1>8. \A j \in Inst : j # i /\ walk'[j].on /\ walk'[j].whole =>
        Near(Unowned \ walk[j].todo, walk[j].sum, walk[j].came, walk[j].went + walk[j].extra)'
  BY <1>1, <1>3, <1>6 DEF Near, Recounts
<1> QED
  BY <1>2, <1>7, <1>8 DEF Recounts

\* What a step of a walk adds up is what the mailbox it puts behind it holds,
\* or is known to be too much.
LEMMA StepNear ==
    ASSUME BoxesOK, NEW r \in Rid, NEW w \in Walk, NEW v \in Walk, WalkStep(w, v, r), v.whole,
           Near(Unowned \ w.todo, w.sum, w.came, w.went + w.extra)
    PROVE  Near(Unowned \ v.todo, v.sum, v.came, v.went + v.extra)
<1>0. PICK b : b = box[r] /\ b \in Nat
  BY AdmissionAssumption DEF BoxesOK
<1>1. PICK S, R : S = Unowned \ w.todo /\ R = Unowned \ v.todo
  OBVIOUS
<1>2. S \in SUBSET Rid /\ R \in SUBSET Rid
  BY <1>1 DEF Unowned
<1>3. Numbers(box, R) /\ SumFunctionOnSet(box, R) \in Nat /\ SumFunctionOnSet(box, S) \in Nat
  BY <1>2, BoxNumbers DEF BoxesOK
<1>4. PICK n, m : n = SumFunctionOnSet(box, S) /\ m = SumFunctionOnSet(box, R)
  OBVIOUS
<1>5. /\ w.sum \in Nat /\ w.came \in Nat /\ w.went \in Nat /\ w.extra \in Nat
      /\ n \in Nat /\ m \in Nat
  BY <1>3, <1>4 DEF Walk
<1>6. n <= w.sum + w.came /\ w.sum <= n + (w.went + w.extra)
  BY <1>1, <1>4 DEF Near
<1>7. SUFFICES m <= v.sum + v.came /\ v.sum <= m + (v.went + v.extra)
  BY <1>1, <1>4 DEF Near
<1>8. CASE r \in owned /\ v = [w EXCEPT !.todo = @ \ {r}]
  <2>1. /\ v.todo = w.todo \ {r} /\ v.sum = w.sum /\ v.came = w.came /\ v.went = w.went
        /\ v.extra = w.extra
    BY <1>8 DEF Walk
  <2>2. R = S
    BY <1>1, <1>8, <2>1 DEF Unowned
  <2> QED
    BY <1>4, <1>6, <2>1, <2>2
<1>9. CASE v = [w EXCEPT !.at = {r}]
  <2>1. /\ v.todo = w.todo /\ v.sum = w.sum /\ v.came = w.came /\ v.went = w.went
        /\ v.extra = w.extra
    BY <1>9 DEF Walk
  <2> QED
    BY <1>1, <1>4, <1>6, <2>1
<1>10. CASE v = [w EXCEPT !.at = {}, !.todo = @ \ {r}, !.sum = @ + box[r],
                   !.extra = @ + (IF r \in w.todo /\ r \in Unowned THEN 0 ELSE box[r])]
  <2>1. /\ v.todo = w.todo \ {r} /\ v.sum = w.sum + b /\ v.came = w.came /\ v.went = w.went
        /\ v.extra = w.extra + (IF r \in w.todo /\ r \in Unowned THEN 0 ELSE b)
    BY <1>0, <1>10 DEF Walk
  <2>2. CASE r \in w.todo /\ r \in Unowned
    <3>1. r \in R /\ R \ {r} = S
      BY <1>1, <2>1, <2>2
    <3>2. m = b + n
      BY <1>0, <1>3, <1>4, <3>1, SumRemove
    <3> QED
      BY <1>0, <1>5, <1>6, <2>1, <2>2, <3>2
  <2>3. CASE ~(r \in w.todo /\ r \in Unowned)
    <3>1. R = S
      BY <1>1, <2>1, <2>3
    <3>2. m = n
      BY <1>4, <3>1
    <3> QED
      BY <1>0, <1>5, <1>6, <2>1, <2>3, <3>2
  <2> QED
    BY <2>2, <2>3
<1>11. CASE \E A \in SUBSET Rid : v = [w EXCEPT !.at = A, !.todo = @ \ {r}, !.whole = FALSE]
  <2>1. v.whole = FALSE
    BY <1>11 DEF Walk
  <2> QED
    BY <2>1
<1> QED
  BY <1>8, <1>9, <1>10, <1>11 DEF WalkStep

\* A mailbox a walk has read is behind it, with what it held.
LEMMA VisitFollows ==
    ASSUME BoxesOK, CounterFollows, Recounts, NEW i \in Inst, NEW r \in Rid,
           AskOwned(i, r) \/ AddBytes(i, r)
    PROVE  CounterFollows' /\ Recounts'
<1>1. UNCHANGED <<box, ub, owned, came, went, extra>> /\ Unowned' = Unowned
  BY DEF AskOwned, AddBytes, boxes, drift, Unowned
<1>2. CounterFollows'
  BY <1>1 DEF CounterFollows, UnownedBytes
<1>3. PICK v : WalkStep(walk[i], v, r) /\ walk' = [walk EXCEPT ![i] = v]
  BY Steps
<1>4. PICK w \in Walk : w = walk[i]
  BY DEF BoxesOK
<1>5. v \in Walk /\ walk'[i] = v
  BY <1>3, <1>4, StepTyped DEF BoxesOK
<1>6. v.whole /\ v.on => w.whole /\ w.on
  <2>1. v.on => w.on
    BY <1>3, <1>4, <1>5 DEF WalkStep, Walk
  <2>2. v.whole => w.whole
    BY <1>3, <1>4, <1>5 DEF WalkStep, Walk
  <2> QED
    BY <2>1, <2>2
<1>7. \A j \in Inst : j # i => walk'[j] = walk[j]
  BY <1>3 DEF BoxesOK
<1>8. ASSUME walk'[i].on, walk'[i].whole
      PROVE  Near(Unowned \ walk[i].todo, walk[i].sum, walk[i].came, walk[i].went + walk[i].extra)'
  <2>1. Near(Unowned \ w.todo, w.sum, w.came, w.went + w.extra)
    BY <1>4, <1>5, <1>6, <1>8 DEF Recounts
  <2>2. Near(Unowned \ v.todo, v.sum, v.came, v.went + v.extra)
    BY <1>3, <1>4, <1>5, <1>8, <2>1, StepNear
  <2> QED
    BY <1>1, <1>5, <2>2 DEF Near
<1>9. \A j \in Inst : j # i /\ walk'[j].on /\ walk'[j].whole =>
        Near(Unowned \ walk[j].todo, walk[j].sum, walk[j].came, walk[j].went + walk[j].extra)'
  BY <1>1, <1>7 DEF Near, Recounts
<1> QED
  BY <1>2, <1>8, <1>9 DEF Recounts

\* A whole recount replaces z:ub by what all mailboxes hold, but for what came
\* and went since the walk began.
LEMMA ReconcileFollows ==
    ASSUME BoxesOK, CounterFollows, Recounts, NEW i \in Inst, Reconcile(i)
    PROVE  CounterFollows' /\ Recounts'
<1>1. UNCHANGED <<box, owned>> /\ Unowned' = Unowned
  BY DEF Reconcile, Unowned
<1>2. \A j \in Inst : j # i => walk'[j] = walk[j]
  BY DEF Reconcile, BoxesOK
<1>3. ~walk'[i].on
  BY DEF Reconcile, BoxesOK, Still
<1>4. Recounts'
  <2>1. \A j \in Inst : walk'[j].on /\ walk'[j].whole => j # i
    BY <1>3
  <2> QED
    BY <1>1, <1>2, <2>1 DEF Recounts, Near
<1>5. CASE walk[i].whole
  <2>1. /\ walk[i].on /\ walk[i].todo = {}
        /\ ub' = walk[i].sum /\ came' = walk[i].came /\ went' = walk[i].went /\ extra' = walk[i].extra
    BY <1>5 DEF Reconcile
  <2>2. Near(Unowned \ {}, walk[i].sum, walk[i].came, walk[i].went + walk[i].extra)
    BY <1>5, <2>1 DEF Recounts
  <2>3. Near(Unowned, ub, came, went + extra)'
    <3>1. Unowned \ {} = Unowned
      OBVIOUS
    <3> QED
      BY <1>1, <2>1, <2>2, <3>1 DEF Near
  <2> QED
    BY <1>4, <2>3, FollowsIs, PTL
<1>6. CASE ~walk[i].whole
  <2>1. UNCHANGED <<ub, came, went, extra>>
    BY <1>6 DEF Reconcile, drift
  <2> QED
    BY <1>1, <1>4, <2>1 DEF CounterFollows, UnownedBytes
<1> QED
  BY <1>5, <1>6

\* What the environment does to mailboxes, z:ub does not show.
LEMMA ChangeFollows ==
    ASSUME BoxesOK, BoxesOK', CounterFollows, Recounts, NEW r \in Rid,
           Free(r) \/ Lapse(r) \/ \E intro \in BOOLEAN : Own(r, intro)
    PROVE  CounterFollows' /\ Recounts'
<1>0. box[r] \in Nat
  BY AdmissionAssumption DEF BoxesOK
<1>1. CASE Free(r)
  <2>1. PICK g \in {0, 1} : Unseen(0, g, walk) /\ (r \in Unowned => g = 1)
    BY <1>1 DEF Free
  <2>2. /\ ub' = ub /\ owned' = owned /\ \A x \in Rid \ {r} : box'[x] = box[x]
        /\ box[r] > 0 /\ box'[r] = box[r] - 1
    BY <1>1 DEF Free, BoxesOK
  <2>3. r \in Unowned => box'[r] <= box[r] + 0 /\ box[r] <= box'[r] + g
    BY <1>0, <2>1, <2>2
  <2>4. Shift(0, g)
    BY <2>1, <2>2, <2>3, BoxShift
  <2> QED
    BY <2>1, <2>2, <2>4, UnseenFollows
<1>2. ASSUME NEW intro \in BOOLEAN, Own(r, intro)
      PROVE  CounterFollows' /\ Recounts'
  <2>1. PICK g \in Nat : Unseen(0, g, walk) /\ (r \in Unowned => g = box[r])
    BY <1>0, <1>2 DEF Own
  <2>2. ub' = ub /\ box' = box /\ owned' = owned \cup {r}
    BY <1>2 DEF Own
  <2>3. \/ Unowned' = Unowned
        \/ r \in Unowned /\ Unowned' = Unowned \ {r} /\ g = box[r]
    BY <2>1, <2>2 DEF Unowned
  <2>4. owned' \subseteq Rid
    BY <2>2 DEF BoxesOK
  <2>5. Shift(0, g)
    BY <2>2, <2>3, <2>4, OwnerShift
  <2> QED
    BY <2>1, <2>2, <2>5, UnseenFollows
<1>3. CASE Lapse(r) /\ r \in owned /\ owned' = owned \ {r} /\ Unseen(box[r], 0, walk)
  <2>1. ub' = ub /\ box' = box
    BY <1>3 DEF Lapse
  <2>2. r \notin Unowned /\ Unowned' = Unowned \cup {r} /\ owned' \subseteq Rid
    BY <1>3 DEF Unowned, BoxesOK
  <2>3. Shift(box[r], 0)
    BY <1>0, <2>1, <2>2, OwnerShift
  <2> QED
    BY <1>0, <1>3, <2>1, <2>3, UnseenFollows
<1>4. CASE UNCHANGED <<box, ub, owned, walk, drift>>
  BY <1>4 DEF drift, CounterFollows, UnownedBytes, Unowned, Recounts, Near
<1> QED
  BY <1>1, <1>2, <1>3, <1>4 DEF Lapse

LEMMA FollowsStep ==
    ASSUME Inv, Inv', CounterFollows, Recounts, [Next]_vars
    PROVE  CounterFollows' /\ Recounts'
<1>0. BoxesOK /\ BoxesOK' /\ calls \subseteq Call(now)
  BY DEF Inv, Gates, GateOK
<1>1. ASSUME UNCHANGED <<box, ub, owned, walk, drift>>
      PROVE  CounterFollows' /\ Recounts'
  BY <1>1 DEF drift, CounterFollows, UnownedBytes, Unowned, Recounts, Near
<1>2. ASSUME NEW i \in Inst, NEW r \in Rid, NEW stamp \in BOOLEAN, Send(i, r, stamp)
      PROVE  CounterFollows' /\ Recounts'
  BY <1>1, <1>2 DEF Send, boxes
<1>3. ASSUME NEW c \in calls, Take(c) \/ Refund(c)
      PROVE  CounterFollows' /\ Recounts'
  BY <1>1, <1>3 DEF Take, Refund, boxes
<1>4. ASSUME NEW c \in calls, Push(c)
      PROVE  CounterFollows' /\ Recounts'
  <2>1. c.rid \in Rid /\ owned' = owned
    BY <1>0, <1>4 DEF Call, Push
  <2>2. \E stored \in BOOLEAN : Enters(c.rid, stored)
    <3>1. Enters(c.rid, FALSE) \/ Enters(c.rid, TRUE)
      <4>1. CASE Code(c) \in {1, 2}
        BY <1>4, <4>1 DEF Push, Enters
      <4>2. CASE Code(c) \notin {1, 2}
        BY <1>4, <4>2 DEF Push, Enters
      <4> QED
        BY <4>1, <4>2
    <3> QED
      BY <3>1
  <2> QED
    BY <1>0, <2>1, <2>2, EntersFollows
<1>5. ASSUME NEW i \in Inst, \/ StartSweep(i) \/ Reconcile(i)
                             \/ \E r \in Rid : AskOwned(i, r) \/ AddBytes(i, r)
      PROVE  CounterFollows' /\ Recounts'
  BY <1>0, <1>5, StartFollows, ReconcileFollows, VisitFollows
<1>6. ASSUME NEW i \in Inst, Crash(i) \/ Abandon(i)
      PROVE  CounterFollows' /\ Recounts'
  <2>1. UNCHANGED <<box, ub, owned, came, went, extra>> /\ Unowned' = Unowned
    BY <1>6 DEF Crash, Abandon, boxes, drift, Unowned
  <2>2. CounterFollows'
    BY <2>1 DEF CounterFollows, UnownedBytes
  <2>3. ~walk'[i].on /\ \A j \in Inst : j # i => walk'[j] = walk[j]
    BY <1>0, <1>6 DEF Crash, Abandon, BoxesOK, Still
  <2>4. \A j \in Inst : walk'[j].on /\ walk'[j].whole => j # i
    BY <2>3
  <2>5. Recounts'
    BY <2>1, <2>3, <2>4 DEF Recounts, Near
  <2> QED
    BY <2>2, <2>5
<1>7. ASSUME NEW r \in Rid, Free(r) \/ Lapse(r) \/ \E intro \in BOOLEAN : Own(r, intro)
      PROVE  CounterFollows' /\ Recounts'
  BY <1>0, <1>7, ChangeFollows
<1>8. CASE Tick \/ UNCHANGED vars
  BY <1>1, <1>8 DEF Tick, vars, boxes
<1> QED
  BY <1>2, <1>3, <1>4, <1>5, <1>6, <1>7, <1>8 DEF Next

LEMMA FollowsInit == Init => CounterFollows /\ Recounts
<1> SUFFICES ASSUME Init PROVE CounterFollows /\ Recounts
  OBVIOUS
<1>1. BoxesOK
  BY InitInv DEF Inv
<1>2. Numbers(box, Unowned) /\ SumFunctionOnSet(box, Unowned) \in Nat
  BY <1>1, BoxNumbers DEF Unowned, BoxesOK
<1>3. SumFunctionOnSet(box, Unowned) = 0
  <2>1. PICK z : z = [r \in Unowned |-> 0]
    OBVIOUS
  <2>2. \A T \in SUBSET Unowned : Numbers(z, T)
    BY <1>2, <2>1, FS_Subset DEF Numbers
  <2>3. \A x \in Unowned : box[x] = 0
    BY DEF Init, Unowned
  <2> QED
    BY <1>2, <2>3, SumZero
<1>4. CounterFollows
  BY <1>3 DEF Init, CounterFollows, UnownedBytes
<1>5. Recounts
  BY DEF Init, Recounts, Still
<1> QED
  BY <1>4, <1>5

-----------------------------------------------------------------------------
\* Every variable keeps its type: no bucket holds more than its allowance and
\* no window grants more (server.js 1156-1180, 2346-2364).
THEOREM TypeCorrect == Spec => []TypeOK
<1>1. Spec => []Inv
  BY InitInv, InvStep, PTL DEF Spec
<1> QED
  BY <1>1, InvSays, PTL

\* However sends of an instance interleave, fail and give back, its bucket
\* never loses a token and never gains one (server.js 3013-3053).
THEOREM TokensAreExact == Spec => []TokensExact
<1>1. Spec => []Inv
  BY InitInv, InvStep, PTL DEF Spec
<1> QED
  BY <1>1, InvSays, PTL

\* Nor does the window all instances share, across its own end, answers that
\* are lost and restarts (server.js 2366-2375, 2898-2905).
THEOREM SlotsAreExact == Spec => []SlotsExact
<1>1. Spec => []Inv
  BY InitInv, InvStep, PTL DEF Spec
<1> QED
  BY <1>1, InvSays, PTL

\* The live count of unowned bytes and its recounts never stray from what the
\* mailboxes hold by more than came or went unseen since the last recount's walk
\* began and what that walk added up for a mailbox it had read before or whose
\* owner came between its two commands, however pushes, failures, owners and the
\* sweeps of several instances overlap (server.js 3319-3366).
THEOREM CounterIsFollowed == Spec => []CounterFollows
<1>1. Init => Inv /\ CounterFollows /\ Recounts
  BY InitInv, FollowsInit
<1>2. Inv /\ CounterFollows /\ Recounts /\ [Next]_vars => (Inv /\ CounterFollows /\ Recounts)'
  <2> SUFFICES ASSUME Inv, CounterFollows, Recounts, [Next]_vars
               PROVE  Inv' /\ CounterFollows' /\ Recounts'
    OBVIOUS
  <2>1. Inv'
    BY InvStep
  <2> QED
    BY <2>1, FollowsStep
<1> QED
  BY <1>1, <1>2, PTL DEF Spec
=============================================================================
