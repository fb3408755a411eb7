-------------------------- MODULE KtHandlesProofs --------------------------
(***************************************************************************)
(* What holds of the handle log for every set of labels, keys and          *)
(* addresses and every limit: the types, the versions of a label, what the *)
(* gates let through, and that the log implements HandleRegistry.          *)
(***************************************************************************)
EXTENDS KtHandles, FiniteSetTheorems, TLAPS

Publishing == [gates: SUBSET Gate, fresh: BOOLEAN, k: Kind, at: Nat, ok: BOOLEAN]

\* The record of what was written since the start is of the past.
Kept ==
  /\ written \in Seq(Publishing)
  /\ \A i \in DOMAIN written : written[i].at <= now

Last(f, l, i) ==
  /\ i \in DOMAIN f /\ f[i].label = l
  /\ \A j \in DOMAIN f : f[j].label = l => j <= i

\* A label with entries has a last one.
Ends == \A l \in Label : HasLabel(l) => \E i \in DOMAIN entries : Last(entries, l, i)

\* The table is what a replay of the file would make it.
Told == owners = Replay(entries)

Inv == TypeOK /\ FloorHeld /\ Kept /\ Ends /\ Told

-----------------------------------------------------------------------------
\* Every gate is a bucket of a positive number of tokens.
LEMMA GateSizes ==
  ASSUME NEW g
  PROVE  /\ Per(g) \in Nat \ {0} /\ Window(g) \in Nat \ {0}
         /\ Full(g) \in Nat /\ Full(g) >= Window(g)
<1>1. Per(g) \in Nat \ {0}
  BY LimitAssumption DEF Per
<1>2. Window(g) \in Nat \ {0}
  BY LimitAssumption DEF Window
<1>3. \A p \in Nat \ {0}, w \in Nat \ {0} : p * w \in Nat /\ p * w >= w
  BY SMT
<1> QED
  BY <1>1, <1>2, <1>3 DEF Full

LEMMA ReserveType ==
  /\ firstPublishReserve \in Nat /\ firstPublishReserve <= PerMinute
  /\ \A g, fresh : Reserve(g, fresh) \in Nat
<1>1. firstPublishReserve \in Nat /\ firstPublishReserve <= PerMinute
  BY LimitAssumption DEF firstPublishReserve, AtMost
<1> QED
  BY <1>1 DEF Reserve

\* A gate that lets a publish past holds a token for it.
LEMMA OpenHolds ==
  ASSUME TypeOK, NEW gs, NEW fresh, Shut(gs, fresh) = {}, NEW n \in DOMAIN gs, gs[n] \in Gate
  PROVE  /\ tokens[gs[n]] >= Window(gs[n])
         /\ tokens[gs[n]] >= Window(gs[n]) + Reserve(gs[n], fresh) * Window(gs[n])
<1> DEFINE g == gs[n]
<1>1. tokens[g] \in Nat /\ Window(g) \in Nat \ {0} /\ Reserve(g, fresh) \in Nat
  BY GateSizes, ReserveType DEF TypeOK
<1>2. ~(tokens[g] < (1 + Reserve(g, fresh)) * Window(g))
  BY DEF Shut
<1>3. \A r \in Nat, w \in Nat \ {0} : (1 + r) * w = w + r * w /\ r * w \in Nat
  BY SMT
<1> HIDE DEF g
<1>4. tokens[g] >= Window(g) /\ tokens[g] >= Window(g) + Reserve(g, fresh) * Window(g)
  BY <1>1, <1>2, <1>3
<1> QED
  BY <1>4 DEF g

\* Tokens taken and given back are tokens untouched.
LEMMA BackAgain ==
  ASSUME TypeOK, NEW S
  PROVE  Refund(Take(tokens, S), S) = tokens
<1> SUFFICES ASSUME NEW g \in Gate
             PROVE  Refund(Take(tokens, S), S)[g] = tokens[g]
  BY DEF Refund, TypeOK
<1>1. tokens[g] \in Nat /\ tokens[g] <= Full(g) /\ Window(g) \in Nat /\ Full(g) \in Nat
  BY GateSizes DEF TypeOK
<1>2. Refund(Take(tokens, S), S)[g]
        = IF g \in S THEN AtMost(Full(g), tokens[g] - Window(g) + Window(g)) ELSE tokens[g]
  BY DEF Refund, Take
<1> QED
  BY <1>1, <1>2 DEF AtMost

\* A refill never overflows, and never takes anything away.
LEMMA RefillType ==
  ASSUME TypeOK, NEW g \in Gate
  PROVE  /\ Refilled(tokens)[g] \in Nat /\ Refilled(tokens)[g] <= Full(g)
         /\ tokens[g] <= Refilled(tokens)[g]
         /\ Refilled(tokens)[g] <= tokens[g] + Per(g)
         /\ Refilled(tokens)[g] \in {Full(g), tokens[g] + Per(g)}
  BY GateSizes DEF TypeOK, Refilled, AtMost

\* A publish past its gates leaves every bucket with what is not negative.
LEMMA TakeType ==
  ASSUME TypeOK, NEW gs, NEW fresh, Shut(gs, fresh) = {}
  PROVE  \A g \in Gate :
           /\ Take(tokens, Passed(gs, fresh))[g] \in Nat
           /\ Take(tokens, Passed(gs, fresh))[g] <= Full(g)
           /\ g \in Passed(gs, fresh) =>
                Take(tokens, Passed(gs, fresh))[g] + Window(g) = tokens[g]
           /\ g \notin Passed(gs, fresh) => Take(tokens, Passed(gs, fresh))[g] = tokens[g]
<1> TAKE g \in Gate
<1>1. tokens[g] \in Nat /\ tokens[g] <= Full(g) /\ Window(g) \in Nat /\ Full(g) \in Nat
  BY GateSizes DEF TypeOK
<1>2. g \in Passed(gs, fresh) => tokens[g] >= Window(g)
  BY OpenHolds DEF Passed
<1> QED
  BY <1>1, <1>2 DEF Take

-----------------------------------------------------------------------------
\* The last entry of a label is the one CHOOSE finds, and Replay too.
LEMMA LastUnique ==
  ASSUME NEW f \in Seq(Request), NEW l \in Label, NEW i, Last(f, l, i)
  PROVE  /\ i = CHOOSE k \in DOMAIN f : f[k].label = l /\ \A j \in DOMAIN f : f[j].label = l => j <= k
         /\ Replay(f)[l] = [owner |-> f[i].owner, rc |-> f[i].rc]
<1> DEFINE of == {k \in DOMAIN f : f[k].label = l}
<1>1. i \in of /\ \A j \in of : j <= i
  BY DEF Last
<1>2. \A k : (k \in of /\ \A j \in of : j <= k) => k = i
  BY <1>1
<1>3. i = CHOOSE k \in of : \A j \in of : j <= k
  BY <1>1, <1>2
<1>4. i = CHOOSE k \in DOMAIN f : f[k].label = l /\ \A j \in DOMAIN f : f[j].label = l => j <= k
  BY <1>1, <1>2
<1>5. of # {} BY <1>1
<1>6. Replay(f)[l] = [owner |-> f[i].owner, rc |-> f[i].rc]
  BY <1>3, <1>5 DEF Replay
<1> QED BY <1>4, <1>6

LEMMA LatestIsLast ==
  ASSUME TypeOK, Ends, NEW l \in Label, HasLabel(l)
  PROVE  /\ Last(entries, l, Latest(l))
         /\ Latest(l) \in 1 .. Len(entries)
         /\ Replay(entries)[l] = [owner |-> entries[Latest(l)].owner, rc |-> entries[Latest(l)].rc]
<1>1. PICK i \in DOMAIN entries : Last(entries, l, i)
  BY DEF Ends
<1>2. i = Latest(l) /\ Replay(entries)[l] = [owner |-> entries[i].owner, rc |-> entries[i].rc]
  BY <1>1, LastUnique DEF Latest, TypeOK
<1> QED BY <1>1, <1>2 DEF TypeOK

\* A label without entries has nothing in the table.
LEMMA ReplayNone ==
  ASSUME NEW l \in Label, ~HasLabel(l)
  PROVE  Replay(entries)[l] = None
  BY DEF HasLabel, Replay

\* What a state of the rule is, and whose.
LEMMA RuleStateIs ==
  ASSUME TypeOK, Ends, Told, NEW l \in Label
  PROVE  RuleState(l) = IF HasLabel(l)
                        THEN LET e == entries[Latest(l)] IN [owner |-> e.owner, rc |-> e.rc, version |-> e.v]
                        ELSE None
<1>1. CASE HasLabel(l)
  <2>1. owners[l] = [owner |-> entries[Latest(l)].owner, rc |-> entries[Latest(l)].rc]
    BY <1>1, LatestIsLast DEF Told
  <2> QED BY <1>1, <2>1 DEF RuleState
<1>2. CASE ~HasLabel(l)
  BY <1>2 DEF RuleState
<1> QED BY <1>1, <1>2

\* A new line is the last of its label, and of no other.
LEMMA Appended ==
  ASSUME TypeOK, NEW r \in Request, entries' = Append(entries, r)
  PROVE  /\ entries' \in Seq(Request) /\ Len(entries') = Len(entries) + 1
         /\ \A i \in 1 .. Len(entries) : entries'[i] = entries[i]
         /\ entries'[Len(entries) + 1] = r
         /\ Last(entries', r.label, Len(entries) + 1)
         /\ \A l \in Label \ {r.label} :
              /\ HasLabel(l)' = HasLabel(l)
              /\ \A i : Last(entries', l, i) <=> Last(entries, l, i)
<1>1. entries' \in Seq(Request) /\ Len(entries') = Len(entries) + 1
  BY DEF TypeOK
<1>2. \A i \in 1 .. Len(entries) : entries'[i] = entries[i]
  BY DEF TypeOK
<1>3. entries'[Len(entries) + 1] = r
  BY DEF TypeOK
<1>4. DOMAIN entries = 1 .. Len(entries) /\ DOMAIN entries' = 1 .. Len(entries) + 1 /\ Len(entries) \in Nat
  BY <1>1 DEF TypeOK
<1>5. Last(entries', r.label, Len(entries) + 1)
  BY <1>3, <1>4 DEF Last
<1>6. ASSUME NEW l \in Label \ {r.label}
      PROVE  /\ HasLabel(l)' = HasLabel(l)
             /\ \A i : Last(entries', l, i) <=> Last(entries, l, i)
  <2>1. \A i \in DOMAIN entries' : entries'[i].label = l <=> i \in DOMAIN entries /\ entries[i].label = l
    BY <1>2, <1>3, <1>4, <1>6
  <2>2. DOMAIN entries \subseteq DOMAIN entries'
    BY <1>4
  <2> QED BY <2>1, <2>2 DEF HasLabel, Last
<1> QED BY <1>1, <1>2, <1>3, <1>5, <1>6

-----------------------------------------------------------------------------
\* What applying a line does to the table and to the states of the labels.
LEMMA Applied ==
  ASSUME Inv, NEW r \in Request, Apply(r)
  PROVE  /\ Ends' /\ Told'
         /\ entries' \in Seq(Request) /\ Len(entries') = Len(entries) + 1
         /\ owners' \in [Label -> [owner: Owner, rc: Recovery] \cup {None}]
         /\ RuleState(r.label)' = [owner |-> r.owner, rc |-> r.rc, version |-> r.v]
         /\ \A l \in Label \ {r.label} : RuleState(l)' = RuleState(l)
<1> DEFINE n == Len(entries) + 1
<1> USE DEF Inv
<1>1. /\ entries' = Append(entries, r)
      /\ owners' = [owners EXCEPT ![r.label] = [owner |-> r.owner, rc |-> r.rc]]
  BY DEF Apply
<1>2. r.label \in Label /\ r.owner \in Owner /\ r.rc \in Recovery
  BY DEF Request
<1>3. /\ entries' \in Seq(Request) /\ Len(entries') = n
      /\ entries'[n] = r /\ Last(entries', r.label, n)
  BY <1>1, Appended
<1>4. owners' \in [Label -> [owner: Owner, rc: Recovery] \cup {None}]
  BY <1>1, <1>2 DEF TypeOK
<1>5. /\ n = Latest(r.label)' /\ HasLabel(r.label)'
      /\ Replay(entries')[r.label] = [owner |-> r.owner, rc |-> r.rc]
  <2>1. /\ n = CHOOSE k \in DOMAIN entries' :
                 entries'[k].label = r.label /\ \A j \in DOMAIN entries' : entries'[j].label = r.label => j <= k
        /\ Replay(entries')[r.label] = [owner |-> r.owner, rc |-> r.rc]
    BY <1>2, <1>3, LastUnique
  <2> QED BY <2>1, <1>3 DEF Latest, HasLabel, Last
<1>6. RuleState(r.label)' = [owner |-> r.owner, rc |-> r.rc, version |-> r.v]
  <2>1. owners'[r.label] = [owner |-> r.owner, rc |-> r.rc]
    BY <1>1, <1>2 DEF TypeOK
  <2> QED BY <1>3, <1>5, <2>1 DEF RuleState
<1>7. ASSUME NEW l \in Label \ {r.label}
      PROVE  /\ RuleState(l)' = RuleState(l)
             /\ Replay(entries')[l] = Replay(entries)[l]
             /\ HasLabel(l)' => \E i \in DOMAIN entries' : Last(entries', l, i)
  <2>1. HasLabel(l)' = HasLabel(l) /\ \A i : Last(entries', l, i) <=> Last(entries, l, i)
    BY <1>1, Appended
  <2>2. owners'[l] = owners[l]
    BY <1>1 DEF TypeOK
  <2>3. CASE HasLabel(l)
    <3>0. PICK i : i = Latest(l)
      OBVIOUS
    <3>1. Last(entries, l, i) /\ i \in 1 .. Len(entries) /\ Replay(entries)[l] = [owner |-> entries[i].owner, rc |-> entries[i].rc]
      BY <2>3, <3>0, LatestIsLast
    <3>2. entries'[i] = entries[i]
      BY <1>1, <3>1, Appended
    <3>3. Last(entries', l, i) /\ i \in DOMAIN entries'
      BY <2>1, <3>1 DEF Last
    <3>4. /\ i = CHOOSE k \in DOMAIN entries' :
                   entries'[k].label = l /\ \A j \in DOMAIN entries' : entries'[j].label = l => j <= k
          /\ Replay(entries')[l] = [owner |-> entries'[i].owner, rc |-> entries'[i].rc]
      <4>1. l \in Label /\ entries' \in Seq(Request) /\ Last(entries', l, i)
        BY <1>3, <3>3
      <4> QED BY <4>1, LastUnique
    <3>5. i = Latest(l)'
      BY <3>4 DEF Latest
    <3>6. RuleState(l)' = RuleState(l)
      BY <2>1, <2>2, <2>3, <3>0, <3>2, <3>5 DEF RuleState
    <3> QED BY <3>1, <3>2, <3>3, <3>4, <3>6
  <2>4. CASE ~HasLabel(l)
    <3>1. Replay(entries)[l] = None
      BY <2>4, ReplayNone
    <3>2. Replay(entries')[l] = None
      BY <2>1, <2>4 DEF HasLabel, Replay
    <3> QED BY <2>1, <2>4, <3>1, <3>2 DEF RuleState
  <2> QED BY <2>3, <2>4
<1>8. Ends'
  <2> SUFFICES ASSUME NEW l \in Label, HasLabel(l)'
               PROVE  \E i \in DOMAIN entries' : Last(entries', l, i)
    BY DEF Ends
  <2> QED BY <1>3, <1>7 DEF Last
<1>9. Told'
  <2>1. \A l \in Label : owners'[l] = Replay(entries')[l]
    BY <1>1, <1>2, <1>5, <1>7 DEF Told, TypeOK
  <2>2. Replay(entries') = [l \in Label |-> Replay(entries')[l]]
    BY DEF Replay
  <2> QED BY <1>4, <2>1, <2>2 DEF Told
<1> QED BY <1>3, <1>4, <1>6, <1>7, <1>8, <1>9

-----------------------------------------------------------------------------
\* The gates of a publish, as a set.
GateSet(r, addr, fresh) ==
  {<<"limiter", addr>>, DayOf(r), <<"total", "all">>}
    \cup (IF fresh THEN {<<"newPerAddress", addr>>, <<"newAccounts", "all">>} ELSE {})

LEMMA GatesAre ==
  ASSUME NEW r, NEW addr, NEW fresh \in BOOLEAN, Shut(Gates(r, addr, fresh), fresh) = {}
  PROVE  Passed(Gates(r, addr, fresh), fresh) = GateSet(r, addr, fresh)
<1> DEFINE gs == Gates(r, addr, fresh)
<1>1. Passed(gs, fresh) = {gs[n] : n \in DOMAIN gs}
  BY DEF Passed
<1>2. CASE fresh
  <2>1. gs = << <<"limiter", addr>>, DayOf(r), <<"newPerAddress", addr>>, <<"newAccounts", "all">>, <<"total", "all">> >>
    BY <1>2 DEF Gates
  <2>2. DOMAIN gs = {1, 2, 3, 4, 5}
    BY <2>1
  <2>3. {gs[n] : n \in {1, 2, 3, 4, 5}} = {gs[1], gs[2], gs[3], gs[4], gs[5]}
    OBVIOUS
  <2>4. Passed(gs, fresh) = {gs[1], gs[2], gs[3], gs[4], gs[5]}
    BY <1>1, <2>2, <2>3
  <2>5. /\ gs[1] = <<"limiter", addr>> /\ gs[2] = DayOf(r)
        /\ gs[3] = <<"newPerAddress", addr>> /\ gs[4] = <<"newAccounts", "all">>
        /\ gs[5] = <<"total", "all">>
    BY <2>1
  <2> HIDE DEF gs
  <2>6. Passed(gs, fresh) = GateSet(r, addr, fresh)
    BY <1>2, <2>4, <2>5, Zenon DEF GateSet
  <2> QED BY <2>6 DEF gs
<1>3. CASE ~fresh
  <2>1. gs = << <<"limiter", addr>>, DayOf(r), <<"total", "all">> >>
    BY <1>3 DEF Gates
  <2>2. DOMAIN gs = {1, 2, 3}
    BY <2>1
  <2>3. {gs[n] : n \in {1, 2, 3}} = {gs[1], gs[2], gs[3]}
    OBVIOUS
  <2> QED BY <1>1, <1>3, <2>1, <2>2, <2>3 DEF GateSet
<1> QED BY <1>2, <1>3

LEMMA GateSetType ==
  ASSUME NEW r, r.label \in Label, NEW addr \in Addr, NEW fresh \in BOOLEAN
  PROVE  GateSet(r, addr, fresh) \subseteq Gate
  BY DEF GateSet, Gate, DayOf

LEMMA InvInit == Init => Inv
<1> SUFFICES ASSUME Init PROVE Inv
  OBVIOUS
<1>1. TypeOK
  BY GateSizes, LimitAssumption DEF Init, TypeOK
<1>2. FloorHeld
  BY LimitAssumption, FloorAssumption DEF Init, FloorHeld, Free
<1>3. Kept
  BY DEF Init, Kept
<1>4. Ends
  BY DEF Init, Ends, HasLabel
<1>5. Told
  BY DEF Init, Told, Replay
<1> QED BY <1>1, <1>2, <1>3, <1>4, <1>5 DEF Inv

\* A step that leaves the lines and the table alone.
LEMMA Untouched ==
  ASSUME Inv, UNCHANGED <<entries, owners>>
  PROVE  Ends' /\ Told' /\ \A l \in Label : RuleState(l)' = RuleState(l)
  BY DEF Inv, Ends, Told, HasLabel, RuleState, Latest, Last, Replay

-----------------------------------------------------------------------------
\* A publish as the proofs need it: it leaves everything alone but `reading`,
\* or writes a line for which the log records what it took.
LEMMA PublishIs ==
  ASSUME Inv, NEW r \in Request, NEW addr \in Addr, Publish(r, addr)
  PROVE  \E fresh \in BOOLEAN :
           /\ Shut(Gates(r, addr, fresh), fresh) = {}
           /\ fresh = ~HasLabel(r.label)
           /\ LET took == GateSet(r, addr, fresh) IN
              /\ took \subseteq Gate
              /\ \/ /\ tokens' = tokens /\ UNCHANGED <<entries, owners, written>>
                 \/ /\ Apply(r) /\ Write(r, took, fresh, FALSE) /\ tokens' = tokens
                 \/ /\ Apply(r) /\ Write(r, took, fresh, TRUE) /\ tokens' = Take(tokens, took)
<1> DEFINE fresh == ~HasLabel(r.label)
           gs == Gates(r, addr, fresh)
<1>1. Shut(gs, fresh) = {} /\ fresh \in BOOLEAN
  BY DEF Publish, HasLabel
<1>2. Passed(gs, fresh) = GateSet(r, addr, fresh)
  BY <1>1, GatesAre
<1>3. GateSet(r, addr, fresh) \subseteq Gate
  BY <1>1, GateSetType DEF Request
<1>4. Refund(Take(tokens, Passed(gs, fresh)), Passed(gs, fresh)) = tokens
  BY BackAgain DEF Inv
<1>5. \/ tokens' = tokens /\ UNCHANGED <<entries, owners, written>>
      \/ Apply(r) /\ Write(r, Passed(gs, fresh), fresh, FALSE) /\ tokens' = tokens
      \/ Apply(r) /\ Write(r, Passed(gs, fresh), fresh, TRUE) /\ tokens' = Take(tokens, Passed(gs, fresh))
  BY <1>4 DEF Publish
<1> QED BY <1>1, <1>2, <1>3, <1>5

\* The publish of a line, as it is recorded.
LEMMA Recorded ==
  ASSUME Inv, NEW r \in Request, NEW S \in SUBSET Gate, NEW fresh \in BOOLEAN, NEW ok \in BOOLEAN,
         Write(r, S, fresh, ok), now' = now
  PROVE  /\ Kept' /\ Len(written') = Len(written) + 1
         /\ DOMAIN written = 1 .. Len(written) /\ DOMAIN written' = 1 .. Len(written) + 1
         /\ Len(written) \in Nat
         /\ \A i \in 1 .. Len(written) : written'[i] = written[i]
         /\ written'[Len(written) + 1] = [gates |-> S, fresh |-> fresh, k |-> r.k, at |-> now, ok |-> ok]
<1> DEFINE e == [gates |-> S, fresh |-> fresh, k |-> r.k, at |-> now, ok |-> ok]
<1>1. e \in Publishing
  BY DEF Publishing, Request, Inv, TypeOK
<1>2. written' = Append(written, e) /\ written \in Seq(Publishing)
  BY DEF Write, Inv, Kept
<1>3. e.at = now
  OBVIOUS
<1> HIDE DEF e
<1>4. /\ written' \in Seq(Publishing) /\ Len(written') = Len(written) + 1
      /\ DOMAIN written = 1 .. Len(written) /\ DOMAIN written' = 1 .. Len(written) + 1
      /\ Len(written) \in Nat
      /\ \A i \in 1 .. Len(written) : written'[i] = written[i]
      /\ written'[Len(written) + 1] = e
  BY <1>1, <1>2
<1>5. \A i \in 1 .. Len(written) : written[i].at <= now
  BY <1>4 DEF Inv, Kept
<1>6. \A i \in DOMAIN written' : written'[i].at <= now'
  <2> TAKE i \in DOMAIN written'
  <2>1. CASE i \in 1 .. Len(written)
    BY <1>4, <1>5, <2>1
  <2>2. CASE i = Len(written) + 1
    BY <1>3, <1>4, <2>2 DEF Inv, TypeOK
  <2> QED BY <1>4, <2>1, <2>2
<1>7. Kept'
  BY <1>4, <1>6 DEF Kept
<1> QED BY <1>4, <1>7 DEF e

-----------------------------------------------------------------------------
\* A refused publish changes nothing but how many are being read.
LEMMA RefusedIs ==
  ASSUME Inv, NEW l, NEW k, NEW addr, Refused(l, k, addr)
  PROVE  tokens' = tokens /\ reading > 0 /\ reading' = reading - 1
         /\ UNCHANGED <<entries, owners, stolen, now, written, spent>>
  BY BackAgain DEF Refused, Inv

LEMMA InvStep == Inv /\ [Next]_vars => Inv'
<1> SUFFICES ASSUME Inv, [Next]_vars PROVE Inv'
  OBVIOUS
<1> USE DEF Inv
<1>0. /\ entries \in Seq(Request) /\ Len(entries) \in Nat /\ Len(written) \in Nat
      /\ reading \in Nat /\ Room \in Nat /\ Floor \in Nat /\ MaxInFlight \in Nat
  BY LimitAssumption DEF TypeOK, Kept
<1>1. ASSUME UNCHANGED <<entries, owners, tokens, stolen, now, written, spent>>,
             \/ Arrive \/ Junk \/ UNCHANGED vars
             \/ \E l \in Label, k \in Kind, addr \in Addr : Refused(l, k, addr)
      PROVE  Inv'
  <2>1. Ends' /\ Told'
    BY <1>1, Untouched
  <2>2. Kept'
    BY <1>1 DEF Kept
  <2>3. \/ Free >= Floor /\ reading < MaxInFlight /\ reading' = reading + 1
        \/ reading > 0 /\ reading' = reading - 1
        \/ reading' = reading
    BY <1>1, RefusedIs DEF Arrive, Junk, vars
  <2>4. FloorHeld' /\ reading' \in 0 .. MaxInFlight
    BY <1>0, <1>1, <2>3 DEF FloorHeld, Free, TypeOK
  <2>5. TypeOK'
    BY <1>1, <2>4 DEF TypeOK
  <2> QED BY <2>1, <2>2, <2>4, <2>5
<1>2. ASSUME NEW r \in Request, NEW addr \in Addr, Publish(r, addr)
      PROVE  Inv'
  <2>1. /\ reading > 0 /\ reading' = reading - 1 /\ UNCHANGED <<stolen, now>>
        /\ spent' \in Nat
    <3>1. /\ reading > 0 /\ reading' = reading - 1 /\ UNCHANGED <<stolen, now>>
          /\ spent' = spent \/ spent' = spent + 1
      BY <1>2, Zenon DEF Publish, Fault
    <3> QED BY <3>1 DEF TypeOK
  <2>2. PICK fresh \in BOOLEAN :
           /\ Shut(Gates(r, addr, fresh), fresh) = {}
           /\ LET took == GateSet(r, addr, fresh) IN
              /\ took \subseteq Gate
              /\ \/ /\ tokens' = tokens /\ UNCHANGED <<entries, owners, written>>
                 \/ /\ Apply(r) /\ Write(r, took, fresh, FALSE) /\ tokens' = tokens
                 \/ /\ Apply(r) /\ Write(r, took, fresh, TRUE) /\ tokens' = Take(tokens, took)
    BY <1>2, PublishIs
  <2> DEFINE took == GateSet(r, addr, fresh)
  <2>3. CASE tokens' = tokens /\ UNCHANGED <<entries, owners, written>>
    <3>1. Ends' /\ Told'
      BY <2>3, Untouched
    <3>2. FloorHeld' /\ reading' \in 0 .. MaxInFlight
      BY <1>0, <2>1, <2>3 DEF FloorHeld, Free, TypeOK
    <3>3. TypeOK'
      BY <2>1, <2>3, <3>2 DEF TypeOK
    <3> QED BY <2>1, <2>3, <3>1, <3>2, <3>3 DEF Kept
  <2>4. ASSUME NEW ok \in BOOLEAN, Apply(r), Write(r, took, fresh, ok),
               tokens' = tokens \/ tokens' = Take(tokens, took)
        PROVE  Inv'
    <3>1. /\ Ends' /\ Told' /\ entries' \in Seq(Request) /\ Len(entries') = Len(entries) + 1
          /\ owners' \in [Label -> [owner: Owner, rc: Recovery] \cup {None}]
      BY <2>4, Applied
    <3>2. Kept' /\ Len(written') = Len(written) + 1
      BY <2>1, <2>2, <2>4, Recorded
    <3>3. FloorHeld' /\ reading' \in 0 .. MaxInFlight /\ Len(entries') <= Room
      BY <1>0, <2>1, <3>1, FloorAssumption DEF FloorHeld, Free, TypeOK
    <3>4. tokens' \in [Gate -> Nat] /\ \A g \in Gate : tokens'[g] <= Full(g)
      <4>1. took = Passed(Gates(r, addr, fresh), fresh)
        BY <2>2, GatesAre
      <4>2. \A g \in Gate : Take(tokens, took)[g] \in Nat /\ Take(tokens, took)[g] <= Full(g)
        BY <2>2, <4>1, TakeType
      <4> QED BY <2>4, <4>2 DEF Take, TypeOK
    <3>5. TypeOK'
      <4>1. now' \in Nat /\ spent' \in Nat /\ stolen' \subseteq Owner \cap Mine
        BY <2>1 DEF TypeOK
      <4>2. Len(written') <= Len(entries')
        BY <1>0, <3>1, <3>2 DEF TypeOK
      <4> QED BY <3>1, <3>3, <3>4, <4>1, <4>2 DEF TypeOK
    <3> QED BY <3>1, <3>2, <3>3, <3>5
  <2> QED BY <2>2, <2>3, <2>4
<1>3. CASE Restart
  <2>1. UNCHANGED <<entries, owners, stolen, now>> /\ spent' \in Nat /\ written' = <<>> /\ reading' = 0
    BY <1>3 DEF Restart, Fault, Told, TypeOK
  <2>2. Ends' /\ Told'
    BY <2>1, Untouched
  <2>3. tokens' \in [Gate -> Nat] /\ \A g \in Gate : tokens'[g] <= Full(g)
    BY <1>3, GateSizes DEF Restart
  <2>4. FloorHeld' /\ reading' \in 0 .. MaxInFlight
    BY <1>0, <2>1 DEF FloorHeld, Free
  <2>5. TypeOK'
    BY <2>1, <2>3, <2>4 DEF TypeOK
  <2> QED BY <2>1, <2>2, <2>4, <2>5 DEF Kept
<1>4. CASE Tick
  <2>1. /\ UNCHANGED <<entries, owners, reading, stolen, written, spent>>
        /\ now' = now + 1 /\ now \in Nat /\ tokens' = Refilled(tokens)
    BY <1>4 DEF Tick, TypeOK
  <2>2. Ends' /\ Told'
    BY <2>1, Untouched
  <2>3. Kept'
    <3>1. \A i \in DOMAIN written : written[i].at \in Nat
      <4>1. \A i \in DOMAIN written : written[i] \in Publishing
        BY DEF Kept
      <4> QED BY <4>1 DEF Publishing
    <3> QED BY <2>1, <3>1 DEF Kept
  <2>4. \A g \in Gate : tokens'[g] \in Nat /\ tokens'[g] <= Full(g)
    BY <2>1, RefillType
  <2>5. TypeOK'
    BY <2>1, <2>4 DEF TypeOK, Refilled
  <2> QED BY <2>1, <2>2, <2>3, <2>5 DEF FloorHeld, Free
<1>5. ASSUME NEW k \in Owner \cap Mine, Steal(k)
      PROVE  Inv'
  <2>1. UNCHANGED <<entries, owners, tokens, reading, now, written, spent>> /\ stolen' \subseteq Owner \cap Mine
    BY <1>5 DEF Steal, TypeOK
  <2>2. Ends' /\ Told'
    BY <2>1, Untouched
  <2> QED BY <2>1, <2>2 DEF TypeOK, Kept, FloorHeld, Free
<1>6. CASE Arrive \/ Junk \/ UNCHANGED vars
  BY <1>1, <1>6 DEF Arrive, Junk, vars
<1>7. CASE \E l \in Label, k \in Kind, addr \in Addr : Refused(l, k, addr)
  <2>1. UNCHANGED <<entries, owners, tokens, stolen, now, written, spent>>
    BY <1>7, RefusedIs
  <2> QED BY <1>1, <1>7, <2>1
<1> QED BY <1>2, <1>3, <1>4, <1>5, <1>6, <1>7 DEF Next

-----------------------------------------------------------------------------
\* A step writes one line the rule allows, or none.
LEMMA StepIs ==
  ASSUME Inv, [Next]_vars
  PROVE  \/ UNCHANGED entries /\ \A l \in Label : RuleState(l)' = RuleState(l)
         \/ \E r \in Request :
              /\ Apply(r) /\ Signed(r) /\ Allowed(RuleState(r.label), r) /\ UNCHANGED stolen
<1>1. CASE UNCHANGED <<entries, owners>>
  BY <1>1, Untouched
<1>2. ASSUME NEW r \in Request, NEW addr \in Addr, Publish(r, addr)
      PROVE  \/ UNCHANGED <<entries, owners>>
             \/ Apply(r) /\ Signed(r) /\ Allowed(RuleState(r.label), r) /\ UNCHANGED stolen
  BY <1>2, Zenon DEF Publish
<1>3. CASE Restart
  BY <1>1, <1>3 DEF Restart, Inv, Told
<1>4. CASE \/ Arrive \/ Junk \/ Tick \/ UNCHANGED vars
           \/ \E l \in Label, k \in Kind, addr \in Addr : Refused(l, k, addr)
           \/ \E k \in Owner \cap Mine : Steal(k)
  <2>1. UNCHANGED <<entries, owners>>
    BY <1>4 DEF Arrive, Junk, Tick, Refused, Steal, vars
  <2> QED BY <1>1, <2>1
<1>5. CASE \E r \in Request, addr \in Addr : Publish(r, addr)
  BY <1>1, <1>2, <1>5
<1> QED BY <1>3, <1>4, <1>5 DEF Next

\* The entries of a label up to one of them.
UpTo(f, i, l) == {j \in 1 .. i : f[j].label = l}

LEMMA UpToFinite ==
  ASSUME NEW f, NEW i \in Nat, NEW l
  PROVE  IsFiniteSet(UpTo(f, i, l))
<1>1. IsFiniteSet(1 .. i)
  BY FS_Interval
<1> QED BY <1>1, FS_Subset DEF UpTo

LEMMA VersionsStep ==
  ASSUME Inv, VersionsNext, [Next]_vars
  PROVE  VersionsNext'
<1> USE DEF Inv
<1>0. VersionsNext <=> \A i \in DOMAIN entries : entries[i].v = Cardinality(UpTo(entries, i, entries[i].label))
  BY DEF VersionsNext, UpTo
<1>1. CASE UNCHANGED entries
  BY <1>1 DEF VersionsNext
<1>2. ASSUME NEW r \in Request, Apply(r), Allowed(RuleState(r.label), r)
      PROVE  VersionsNext'
  <2> DEFINE n == Len(entries)
             l == r.label
  <2>1. n \in Nat /\ DOMAIN entries = 1 .. n /\ l \in Label
    BY DEF TypeOK, Request
  <2>2. /\ DOMAIN entries' = 1 .. n + 1 /\ entries'[n + 1] = r
        /\ \A i \in 1 .. n : entries'[i] = entries[i]
    <3>1. entries' = Append(entries, r)
      BY <1>2 DEF Apply
    <3> QED BY <3>1, Appended
  <2>3. ASSUME NEW i \in 1 .. n
        PROVE  entries'[i].v = Cardinality(UpTo(entries', i, entries'[i].label))
    <3>1. \A j \in 1 .. i : entries'[j] = entries[j]
      BY <2>1, <2>2
    <3>2. UpTo(entries', i, entries[i].label) = UpTo(entries, i, entries[i].label)
      BY <3>1 DEF UpTo
    <3> QED BY <1>0, <2>1, <2>2, <3>2
  <2>4. r.v = Cardinality(UpTo(entries', n + 1, l))
    <3>1. UpTo(entries', n + 1, l) = UpTo(entries, n, l) \cup {n + 1}
      BY <2>1, <2>2 DEF UpTo
    <3>2. IsFiniteSet(UpTo(entries, n, l)) /\ n + 1 \notin UpTo(entries, n, l)
      <4>1. IsFiniteSet(UpTo(entries, n, l))
        BY <2>1, UpToFinite
      <4>2. n + 1 \notin UpTo(entries, n, l)
        BY <2>1 DEF UpTo
      <4> QED BY <4>1, <4>2
    <3>3. Cardinality(UpTo(entries', n + 1, l)) = Cardinality(UpTo(entries, n, l)) + 1
      BY <3>1, <3>2, FS_AddElement
    <3>4. CASE HasLabel(l)
      <4>1. PICK k : k = Latest(l)
        OBVIOUS
      <4>2. Last(entries, l, k) /\ k \in 1 .. n
        BY <2>1, <3>4, <4>1, LatestIsLast
      <4>3. UpTo(entries, n, l) = UpTo(entries, k, l)
        BY <2>1, <4>2 DEF UpTo, Last
      <4>4. entries[k].label = l
        BY <4>2 DEF Last
      <4>5. entries[k].v = Cardinality(UpTo(entries, k, l))
        BY <1>0, <2>1, <4>2, <4>4
      <4>6. RuleState(l) # None /\ RuleState(l).version = entries[k].v
        <5>1. RuleState(l) = [owner |-> entries[k].owner, rc |-> entries[k].rc, version |-> entries[k].v]
          BY <2>1, <3>4, <4>1, RuleStateIs
        <5>2. entries[k] \in Request
          BY <2>1, <4>2 DEF TypeOK
        <5>3. RuleState(l) \in State
          BY <5>1, <5>2 DEF Request, State
        <5> QED BY <5>1, <5>3, KeyAssumption
      <4>7. r.v = entries[k].v + 1
        BY <1>2, <4>6 DEF Allowed, NextVersion
      <4> QED BY <3>3, <4>3, <4>5, <4>7
    <3>5. CASE ~HasLabel(l)
      <4>1. UpTo(entries, n, l) = {}
        BY <2>1, <3>5 DEF UpTo, HasLabel
      <4>2. r.v = 1
        BY <1>2, <3>5 DEF Allowed, NextVersion, RuleState
      <4> QED BY <3>3, <4>1, <4>2, FS_EmptySet
    <3> QED BY <3>4, <3>5
  <2>5. \A i \in 1 .. n + 1 : entries'[i].v = Cardinality(UpTo(entries', i, entries'[i].label))
    <3>1. \A i \in 1 .. n + 1 : i \in 1 .. n \/ i = n + 1
      BY <2>1
    <3> QED BY <2>2, <2>3, <2>4, <3>1
  <2> QED BY <2>2, <2>5 DEF VersionsNext, UpTo
<1> QED BY <1>1, <1>2, StepIs

-----------------------------------------------------------------------------
\* The publishes that count against a gate since a moment.
CountedSet(g, since) == {i \in DOMAIN written : written[i].ok /\ g \in written[i].gates /\ written[i].at >= since}

LEMMA CountedIs ==
  ASSUME NEW g, NEW since
  PROVE  Counted(g, since) = Cardinality(CountedSet(g, since))
  BY DEF Counted, CountedSet

\* What a bucket holds and what it let through is what it can have been given.
Conserved == \A g \in Gate, t \in 0 .. now :
  tokens[g] + Cardinality(CountedSet(g, t)) * Window(g) <= Full(g) + Per(g) * (now - t)

LEMMA CountedFinite ==
  ASSUME Inv, NEW g, NEW t
  PROVE  IsFiniteSet(CountedSet(g, t)) /\ Cardinality(CountedSet(g, t)) \in Nat
<1>1. DOMAIN written = 1 .. Len(written) /\ Len(written) \in Nat
  BY DEF Inv, Kept
<1>2. IsFiniteSet(DOMAIN written)
  BY <1>1, FS_Interval
<1>3. CountedSet(g, t) \subseteq DOMAIN written
  BY DEF CountedSet
<1>4. IsFiniteSet(CountedSet(g, t))
  BY <1>2, <1>3, FS_Subset
<1> QED BY <1>4, FS_CardinalityType

LEMMA ConservedInit == Init => Conserved
<1> SUFFICES ASSUME Init, NEW g \in Gate, NEW t \in 0 .. now
             PROVE  tokens[g] + Cardinality(CountedSet(g, t)) * Window(g) <= Full(g) + Per(g) * (now - t)
  BY DEF Conserved
<1>1. CountedSet(g, t) = {} /\ tokens[g] = Full(g) /\ now = 0 /\ t = 0
  BY DEF Init, CountedSet
<1>2. Cardinality(CountedSet(g, t)) = 0
  BY <1>1, FS_EmptySet
<1> QED BY <1>1, <1>2, GateSizes

LEMMA ConservedStep ==
  ASSUME Inv, Conserved, [Next]_vars
  PROVE  Conserved'
<1> USE DEF Inv
<1>0. now \in Nat
  BY DEF TypeOK
<1>1. CASE UNCHANGED <<tokens, written, now>>
  BY <1>1 DEF Conserved, CountedSet
<1>2. ASSUME NEW r \in Request, NEW addr \in Addr, Publish(r, addr)
      PROVE  Conserved'
  <2>1. now' = now
    BY <1>2, Zenon DEF Publish
  <2>2. PICK fresh \in BOOLEAN :
           /\ Shut(Gates(r, addr, fresh), fresh) = {}
           /\ LET took == GateSet(r, addr, fresh) IN
              /\ took \subseteq Gate
              /\ \/ /\ tokens' = tokens /\ UNCHANGED <<entries, owners, written>>
                 \/ /\ Apply(r) /\ Write(r, took, fresh, FALSE) /\ tokens' = tokens
                 \/ /\ Apply(r) /\ Write(r, took, fresh, TRUE) /\ tokens' = Take(tokens, took)
    BY <1>2, PublishIs
  <2> DEFINE took == GateSet(r, addr, fresh)
             n == Len(written) + 1
  <2>3. CASE tokens' = tokens /\ UNCHANGED <<entries, owners, written>>
    BY <1>1, <2>1, <2>3
  <2>4. ASSUME NEW ok \in BOOLEAN, Write(r, took, fresh, ok),
               IF ok THEN tokens' = Take(tokens, took) ELSE tokens' = tokens
        PROVE  Conserved'
    <3>1. /\ DOMAIN written = 1 .. Len(written) /\ DOMAIN written' = 1 .. Len(written) + 1
          /\ Len(written) \in Nat
          /\ \A i \in 1 .. Len(written) : written'[i] = written[i]
          /\ written'[n] = [gates |-> took, fresh |-> fresh, k |-> r.k, at |-> now, ok |-> ok]
      BY <2>1, <2>2, <2>4, Recorded
    <3> SUFFICES ASSUME NEW g \in Gate, NEW t \in 0 .. now
                 PROVE  tokens'[g] + Cardinality(CountedSet(g, t)') * Window(g) <= Full(g) + Per(g) * (now - t)
      BY <2>1 DEF Conserved
    <3>2. CountedSet(g, t)' = CountedSet(g, t) \cup (IF ok /\ g \in took THEN {n} ELSE {})
      BY <1>0, <3>1 DEF CountedSet
    <3>3. IsFiniteSet(CountedSet(g, t)) /\ n \notin CountedSet(g, t) /\ Cardinality(CountedSet(g, t)) \in Nat
      <4>1. n \notin CountedSet(g, t)
        BY <3>1 DEF CountedSet
      <4> QED BY <4>1, CountedFinite
    <3> DEFINE c == Cardinality(CountedSet(g, t))
    <3>4. tokens[g] + c * Window(g) <= Full(g) + Per(g) * (now - t)
      BY DEF Conserved
    <3>5. CASE ok /\ g \in took
      <4>1. Cardinality(CountedSet(g, t)') = c + 1
        BY <3>2, <3>3, <3>5, FS_AddElement
      <4>2. took = Passed(Gates(r, addr, fresh), fresh)
        BY <2>2, GatesAre
      <4>3. tokens'[g] + Window(g) = tokens[g] /\ tokens'[g] \in Nat
        BY <2>2, <2>4, <3>5, <4>2, TakeType
      <4>4. \A w \in Nat, m \in Nat : (m + 1) * w = m * w + w /\ m * w \in Nat
        BY SMT
      <4>5. Window(g) \in Nat /\ Full(g) \in Nat /\ Per(g) * (now - t) \in Int
        <5>1. \A p, m, k \in Nat : p * (m - k) \in Int
          BY SMT
        <5> QED BY <1>0, <5>1, GateSizes
      <4> HIDE DEF c
      <4>6. c \in Nat
        BY <3>3 DEF c
      <4>7. (c + 1) * Window(g) = c * Window(g) + Window(g) /\ c * Window(g) \in Nat
        BY <4>4, <4>5, <4>6
      <4> QED BY <3>4, <4>1, <4>3, <4>5, <4>7
    <3>6. CASE ~(ok /\ g \in took)
      <4>1. CountedSet(g, t)' = CountedSet(g, t)
        BY <3>2, <3>6
      <4>2. tokens'[g] = tokens[g]
        BY <2>4, <3>6 DEF Take
      <4> QED BY <3>4, <4>1, <4>2
    <3> QED BY <3>5, <3>6
  <2> QED BY <2>2, <2>3, <2>4
<1>3. CASE Restart
  <2>1. now' = now /\ written' = <<>> /\ \A g \in Gate : tokens'[g] = Full(g)
    BY <1>3 DEF Restart
  <2> SUFFICES ASSUME NEW g \in Gate, NEW t \in 0 .. now
               PROVE  tokens'[g] + Cardinality(CountedSet(g, t)') * Window(g) <= Full(g) + Per(g) * (now - t)
    BY <2>1 DEF Conserved
  <2>2. CountedSet(g, t)' = {}
    BY <2>1 DEF CountedSet
  <2>3. Cardinality(CountedSet(g, t)') = 0
    BY <2>2, FS_EmptySet
  <2>4. \A p, m, k \in Nat : k <= m => p * (m - k) \in Nat
    BY SMT
  <2>5. Per(g) * (now - t) \in Nat /\ Window(g) \in Nat /\ Full(g) \in Nat
    BY <1>0, <2>4, GateSizes
  <2> QED BY <2>1, <2>3, <2>5
<1>4. CASE Tick
  <2>1. now' = now + 1 /\ written' = written /\ tokens' = Refilled(tokens)
    BY <1>4 DEF Tick
  <2> SUFFICES ASSUME NEW g \in Gate, NEW t \in 0 .. now'
               PROVE  tokens'[g] + Cardinality(CountedSet(g, t)') * Window(g) <= Full(g) + Per(g) * (now' - t)
    BY DEF Conserved
  <2>2. CountedSet(g, t)' = CountedSet(g, t)
    BY <2>1 DEF CountedSet
  <2>3. /\ tokens'[g] \in Nat /\ tokens'[g] <= Full(g) /\ tokens'[g] <= tokens[g] + Per(g)
        /\ tokens[g] \in Nat /\ Per(g) \in Nat /\ Window(g) \in Nat /\ Full(g) \in Nat
    BY <2>1, RefillType, GateSizes DEF TypeOK
  <2>4. CASE t = now + 1
    <3>1. CountedSet(g, t) = {}
      <4>1. \A i \in DOMAIN written : written[i].at <= now /\ written[i].at \in Nat
        <5>1. \A i \in DOMAIN written : written[i] \in Publishing
          BY DEF Kept
        <5> QED BY <5>1 DEF Kept, Publishing
      <4> QED BY <1>0, <2>4, <4>1 DEF CountedSet
    <3>2. Cardinality(CountedSet(g, t)') = 0
      BY <2>2, <3>1, FS_EmptySet
    <3> QED BY <1>0, <2>1, <2>3, <2>4, <3>2
  <2>5. CASE t \in 0 .. now
    <3> DEFINE c == Cardinality(CountedSet(g, t))
    <3>1. tokens[g] + c * Window(g) <= Full(g) + Per(g) * (now - t)
      BY <2>5 DEF Conserved
    <3>2. c \in Nat
      BY CountedFinite
    <3>3. \A p, m, k \in Nat : k <= m => p * (m + 1 - k) = p * (m - k) + p /\ p * (m - k) \in Nat
      BY SMT
    <3>4. Per(g) * (now + 1 - t) = Per(g) * (now - t) + Per(g) /\ Per(g) * (now - t) \in Nat
      BY <1>0, <2>3, <2>5, <3>3
    <3>5. \A w \in Nat, m \in Nat : m * w \in Nat
      BY SMT
    <3>8. Cardinality(CountedSet(g, t)') = c
      BY <2>2
    <3> HIDE DEF c
    <3>6. c * Window(g) \in Nat
      BY <2>3, <3>2, <3>5
    <3>7. tokens'[g] + c * Window(g) <= Full(g) + Per(g) * (now + 1 - t)
      BY <2>3, <3>1, <3>4, <3>6
    <3>9. now' = now + 1
      BY <2>1
    <3>10. tokens'[g] + c * Window(g) <= Full(g) + Per(g) * (now' - t)
      BY <1>0, <2>5, <3>4, <3>7, <3>9
    <3> QED BY <3>8, <3>10
  <2> QED BY <1>0, <2>1, <2>4, <2>5
<1>5. CASE \/ Arrive \/ Junk \/ UNCHANGED vars
           \/ \E l \in Label, k \in Kind, addr \in Addr : Refused(l, k, addr)
           \/ \E k \in Owner \cap Mine : Steal(k)
  <2>1. UNCHANGED <<tokens, written, now>>
    BY <1>5, RefusedIs DEF Arrive, Junk, Steal, vars
  <2> QED BY <1>1, <2>1
<1> QED BY <1>2, <1>3, <1>4, <1>5 DEF Next

-----------------------------------------------------------------------------
\* What a gate let through from a moment to another.
Within(g, s, t) == {i \in CountedSet(g, s) : written[i].at <= t}

\* No more than a full bucket and its refill, between any two moments so far.
Paced == \A g \in Gate, s, t \in 0 .. now :
  s <= t => Cardinality(Within(g, s, t)) * Window(g) <= Full(g) + Per(g) * (t - s)

\* Since some moment, when it was full, a bucket was refilled all the time: what
\* it is short of is what it let through since, less the refill.
Owes(g) == \E s \in 0 .. now :
  Full(g) + Per(g) * (now - s) <= tokens[g] + Cardinality(CountedSet(g, s)) * Window(g)

Owed == \A g \in Gate : Owes(g)

\* Sums of what was let through are numbers.
Finite == \A g \in Gate, t \in Nat : IsFiniteSet(CountedSet(g, t)) /\ Cardinality(CountedSet(g, t)) \in Nat

LEMMA AllFinite == Inv => Finite
  BY CountedFinite DEF Finite

LEMMA RateImplied == Inv /\ Conserved => RateHeld
<1> SUFFICES ASSUME Inv, Conserved, NEW g \in Gate, NEW t \in 0 .. now
             PROVE  Counted(g, t) * Window(g) <= Full(g) + Per(g) * (now - t)
  BY DEF RateHeld
<1>1. tokens[g] + Counted(g, t) * Window(g) <= Full(g) + Per(g) * (now - t)
  BY CountedIs DEF Conserved
<1>2. tokens[g] \in Nat /\ now \in Nat /\ Window(g) \in Nat /\ Full(g) \in Nat /\ Per(g) \in Nat
  BY GateSizes DEF Inv, TypeOK
<1>3. Counted(g, t) \in Nat
  BY CountedIs, CountedFinite
<1>4. \A p, q \in Nat : p * q \in Nat
  BY SMT
<1>5. Counted(g, t) * Window(g) \in Nat /\ Per(g) * (now - t) \in Nat
  <2>1. now - t \in Nat
    BY <1>2
  <2> QED BY <1>2, <1>3, <1>4, <2>1
<1> QED BY <1>1, <1>2, <1>5

\* A publish is counted once at the gates it took a token of, and nowhere else.
LEMMA CountedAfter ==
  ASSUME Inv, NEW r \in Request, NEW addr \in Addr, Publish(r, addr), NEW g \in Gate
  PROVE  /\ now' = now
         /\ \A s, t \in 0 .. now : t < now => Within(g, s, t)' = Within(g, s, t)
         /\ \/ /\ tokens'[g] = tokens[g]
               /\ \A s \in 0 .. now : CountedSet(g, s)' = CountedSet(g, s)
            \/ /\ tokens'[g] + Window(g) = tokens[g] /\ tokens'[g] \in Nat
               /\ \E n : \A s \in 0 .. now :
                    n \notin CountedSet(g, s) /\ CountedSet(g, s)' = CountedSet(g, s) \cup {n}
<1>0. now' = now /\ now \in Nat
  BY Zenon DEF Publish, Inv, TypeOK
<1>1. PICK fresh \in BOOLEAN :
         /\ Shut(Gates(r, addr, fresh), fresh) = {}
         /\ LET took == GateSet(r, addr, fresh) IN
            /\ took \subseteq Gate
            /\ \/ /\ tokens' = tokens /\ UNCHANGED <<entries, owners, written>>
               \/ /\ Apply(r) /\ Write(r, took, fresh, FALSE) /\ tokens' = tokens
               \/ /\ Apply(r) /\ Write(r, took, fresh, TRUE) /\ tokens' = Take(tokens, took)
  BY PublishIs
<1> DEFINE took == GateSet(r, addr, fresh)
           n == Len(written) + 1
<1>2. CASE tokens' = tokens /\ UNCHANGED <<entries, owners, written>>
  BY <1>0, <1>2 DEF CountedSet, Within
<1>3. ASSUME NEW ok \in BOOLEAN, Write(r, took, fresh, ok),
             IF ok THEN tokens' = Take(tokens, took) ELSE tokens' = tokens
      PROVE  /\ \A s, t \in 0 .. now : t < now => Within(g, s, t)' = Within(g, s, t)
             /\ \/ /\ tokens'[g] = tokens[g]
                   /\ \A s \in 0 .. now : CountedSet(g, s)' = CountedSet(g, s)
                \/ /\ tokens'[g] + Window(g) = tokens[g] /\ tokens'[g] \in Nat
                   /\ \E k : \A s \in 0 .. now :
                        k \notin CountedSet(g, s) /\ CountedSet(g, s)' = CountedSet(g, s) \cup {k}
  <2>1. /\ DOMAIN written = 1 .. Len(written) /\ DOMAIN written' = 1 .. Len(written) + 1
        /\ Len(written) \in Nat
        /\ \A i \in 1 .. Len(written) : written'[i] = written[i]
        /\ written'[n] = [gates |-> took, fresh |-> fresh, k |-> r.k, at |-> now, ok |-> ok]
    BY <1>0, <1>1, <1>3, Recorded
  <2>2. \A s \in 0 .. now : CountedSet(g, s)' = CountedSet(g, s) \cup (IF ok /\ g \in took THEN {n} ELSE {})
    BY <1>0, <2>1 DEF CountedSet
  <2>3. \A s \in 0 .. now : n \notin CountedSet(g, s)
    BY <2>1 DEF CountedSet
  <2>4. ASSUME NEW s \in 0 .. now, NEW t \in 0 .. now, t < now
        PROVE  Within(g, s, t)' = Within(g, s, t)
    <3>1. \A i \in CountedSet(g, s) : i \in 1 .. Len(written) /\ written'[i] = written[i]
      BY <2>1 DEF CountedSet
    <3>2. Within(g, s, t)' = {i \in CountedSet(g, s)' : written'[i].at <= t}
      BY DEF Within
    <3>3. ~(written'[n].at <= t)
      BY <1>0, <2>1, <2>4
    <3> HIDE DEF n
    <3>4. \A i \in CountedSet(g, s)' : i \in CountedSet(g, s) \/ i = n
      BY <2>2
    <3>5. CountedSet(g, s) \subseteq CountedSet(g, s)'
      BY <2>2
    <3> QED BY <3>1, <3>2, <3>3, <3>4, <3>5 DEF Within
  <2>5. CASE ok /\ g \in took
    <3>1. took = Passed(Gates(r, addr, fresh), fresh)
      BY <1>1, GatesAre
    <3>2. tokens'[g] + Window(g) = tokens[g] /\ tokens'[g] \in Nat
      BY <1>1, <1>3, <2>5, <3>1, TakeType DEF Inv
    <3>3. \A s \in 0 .. now : n \notin CountedSet(g, s) /\ CountedSet(g, s)' = CountedSet(g, s) \cup {n}
      BY <2>2, <2>3, <2>5
    <3> HIDE DEF n
    <3> QED BY <2>4, <3>2, <3>3
  <2>6. CASE ~(ok /\ g \in took)
    <3>1. tokens'[g] = tokens[g]
      BY <1>3, <2>6 DEF Take
    <3>2. \A s \in 0 .. now : CountedSet(g, s)' = CountedSet(g, s)
      BY <2>2, <2>6
    <3> QED BY <2>4, <3>1, <3>2
  <2> QED BY <2>5, <2>6
<1> QED BY <1>0, <1>1, <1>2, <1>3

\* What has been let through up to a moment that is over does not change, and
\* up to now it is what RateHeld bounds.
LEMMA PacedStep ==
  ASSUME Inv, Inv', Conserved', Paced, [Next]_vars
  PROVE  Paced'
<1> SUFFICES ASSUME NEW g \in Gate, NEW s \in 0 .. now', NEW t \in 0 .. now', s <= t
             PROVE  Cardinality(Within(g, s, t)') * Window(g) <= Full(g) + Per(g) * (t - s)
  BY DEF Paced
<1>0. /\ now \in Nat /\ now' \in Nat /\ s \in Nat /\ t \in Nat /\ t - s \in Nat
      /\ Window(g) \in Nat /\ Full(g) \in Nat /\ Per(g) \in Nat
  <2>1. now \in Nat /\ now' \in Nat
    BY DEF Inv, TypeOK
  <2> QED BY <2>1, GateSizes
<1>a. \A p, q \in Nat : p * q \in Nat
  BY SMT
<1>1. CASE Within(g, s, t)' = {}
  <2>1. Cardinality(Within(g, s, t)') = 0
    BY <1>1, FS_EmptySet
  <2>2. Per(g) * (t - s) \in Nat
    BY <1>0, <1>a
  <2> QED BY <1>0, <2>1, <2>2
<1>2. CASE s \in 0 .. now /\ t \in 0 .. now /\ Within(g, s, t)' = Within(g, s, t)
  BY <1>2 DEF Paced
<1>3. CASE t = now'
  <2>1. Cardinality(CountedSet(g, s)') * Window(g) <= Full(g) + Per(g) * (now' - s)
    <3>1. RateHeld'
      BY RateImplied, PTL
    <3>2. Counted(g, s)' = Cardinality(CountedSet(g, s)')
      BY DEF Counted, CountedSet
    <3> QED BY <3>1, <3>2 DEF RateHeld
  <2>2. IsFiniteSet(CountedSet(g, s)') /\ Cardinality(CountedSet(g, s)') \in Nat
    <3>1. Finite'
      BY AllFinite, PTL
    <3> QED BY <1>0, <3>1 DEF Finite
  <2>3. Within(g, s, t)' \subseteq CountedSet(g, s)'
    BY DEF Within
  <2>4. PICK a, b : a = Cardinality(Within(g, s, t)') /\ b = Cardinality(CountedSet(g, s)')
    OBVIOUS
  <2>5. a \in Nat /\ b \in Nat /\ a <= b
    BY <2>2, <2>3, <2>4, FS_Subset, FS_CardinalityType
  <2>6. \A m, k, w \in Nat : m <= k => m * w <= k * w /\ m * w \in Nat /\ k * w \in Nat
    BY SMT
  <2>7. a * Window(g) <= b * Window(g) /\ a * Window(g) \in Nat /\ b * Window(g) \in Nat
    BY <1>0, <2>5, <2>6
  <2>8. Per(g) * (t - s) \in Nat
    BY <1>0, <1>a
  <2> QED BY <1>0, <1>3, <2>1, <2>4, <2>7, <2>8
<1>4. ASSUME UNCHANGED <<tokens, written, now>>
      PROVE  s \in 0 .. now /\ t \in 0 .. now /\ Within(g, s, t)' = Within(g, s, t)
  BY <1>4 DEF Within, CountedSet
<1>5. ASSUME NEW r \in Request, NEW addr \in Addr, Publish(r, addr), t # now'
      PROVE  s \in 0 .. now /\ t \in 0 .. now /\ Within(g, s, t)' = Within(g, s, t)
  <2>1. now' = now /\ \A p, q \in 0 .. now : q < now => Within(g, p, q)' = Within(g, p, q)
    BY <1>5, CountedAfter
  <2> QED BY <1>0, <1>5, <2>1
<1>6. CASE Restart
  <2>1. Within(g, s, t)' = {}
    BY <1>6 DEF Restart, Within, CountedSet
  <2> QED BY <1>1, <2>1
<1>7. ASSUME Tick, t # now'
      PROVE  s \in 0 .. now /\ t \in 0 .. now /\ Within(g, s, t)' = Within(g, s, t)
  <2>1. now' = now + 1 /\ written' = written
    BY <1>7 DEF Tick
  <2> QED BY <1>0, <1>7, <2>1 DEF Within, CountedSet
<1>8. CASE \/ Arrive \/ Junk \/ UNCHANGED vars
           \/ \E l \in Label, k \in Kind, addr \in Addr : Refused(l, k, addr)
           \/ \E k \in Owner \cap Mine : Steal(k)
  <2>1. UNCHANGED <<tokens, written, now>>
    BY <1>8, RefusedIs DEF Arrive, Junk, Steal, vars
  <2> QED BY <1>2, <1>4, <2>1
<1> QED BY <1>2, <1>3, <1>5, <1>6, <1>7, <1>8 DEF Next

\* A full bucket owes nothing, whatever it let through.
FullOwesNothing == \A g \in Gate : tokens[g] = Full(g) => Owes(g)

LEMMA FullOwes == Inv => FullOwesNothing
<1> SUFFICES ASSUME Inv, NEW g \in Gate, tokens[g] = Full(g) PROVE Owes(g)
  BY DEF FullOwesNothing
<1>1. now \in Nat /\ now \in 0 .. now
  BY DEF Inv, TypeOK
<1>2. Per(g) * (now - now) = 0
  <2>1. \A p \in Nat : p * (now - now) = 0
    BY <1>1
  <2> QED BY <2>1, GateSizes
<1>3. Cardinality(CountedSet(g, now)) * Window(g) \in Nat
  <2>1. \A p, q \in Nat : p * q \in Nat
    BY SMT
  <2> QED BY <2>1, CountedFinite, GateSizes
<1>4. Full(g) + Per(g) * (now - now) <= tokens[g] + Cardinality(CountedSet(g, now)) * Window(g)
  BY <1>2, <1>3, GateSizes
<1> QED BY <1>1, <1>4 DEF Owes

LEMMA OwedStep ==
  ASSUME Inv, Inv', Owed, [Next]_vars
  PROVE  Owed'
<1> SUFFICES ASSUME NEW g \in Gate
             PROVE  Owes(g)'
  BY DEF Owed
<1>0. /\ now \in Nat /\ tokens[g] \in Nat /\ Window(g) \in Nat /\ Full(g) \in Nat /\ Per(g) \in Nat
  BY GateSizes DEF Inv, TypeOK
<1>1. PICK s \in 0 .. now :
        Full(g) + Per(g) * (now - s) <= tokens[g] + Cardinality(CountedSet(g, s)) * Window(g)
  BY DEF Owed, Owes
<1>2. PICK c \in Nat : c = Cardinality(CountedSet(g, s)) /\ IsFiniteSet(CountedSet(g, s))
  BY CountedFinite
<1>3. c * Window(g) \in Nat /\ Per(g) * (now - s) \in Nat /\ s \in Nat /\ now - s \in Nat
  <2>1. \A p, q \in Nat : p * q \in Nat
    BY SMT
  <2>2. s \in Nat /\ now - s \in Nat
    BY <1>0
  <2> QED BY <1>0, <1>2, <2>1, <2>2
<1>4. ASSUME tokens'[g] = Full(g)
      PROVE  Owes(g)'
  <2>1. FullOwesNothing'
    BY FullOwes, PTL
  <2> QED BY <1>4, <2>1 DEF FullOwesNothing
<1>5. CASE UNCHANGED <<tokens, written, now>>
  BY <1>1, <1>5 DEF CountedSet, Owes
<1>6. ASSUME NEW r \in Request, NEW addr \in Addr, Publish(r, addr)
      PROVE  Owes(g)'
  <2>1. /\ now' = now
        /\ \/ tokens'[g] = tokens[g] /\ CountedSet(g, s)' = CountedSet(g, s)
           \/ /\ tokens'[g] + Window(g) = tokens[g] /\ tokens'[g] \in Nat
              /\ \E n : n \notin CountedSet(g, s) /\ CountedSet(g, s)' = CountedSet(g, s) \cup {n}
    BY <1>6, CountedAfter
  <2>2. CASE tokens'[g] = tokens[g] /\ CountedSet(g, s)' = CountedSet(g, s)
    BY <1>1, <2>1, <2>2 DEF Owes
  <2>3. CASE /\ tokens'[g] + Window(g) = tokens[g] /\ tokens'[g] \in Nat
             /\ \E n : n \notin CountedSet(g, s) /\ CountedSet(g, s)' = CountedSet(g, s) \cup {n}
    <3>1. Cardinality(CountedSet(g, s)') = c + 1
      BY <1>2, <2>3, FS_AddElement
    <3>2. \A w \in Nat, m \in Nat : (m + 1) * w = m * w + w
      BY SMT
    <3>3. (c + 1) * Window(g) = c * Window(g) + Window(g)
      BY <1>0, <1>2, <3>2
    <3>4. Full(g) + Per(g) * (now - s) <= tokens'[g] + (c + 1) * Window(g)
      BY <1>0, <1>1, <1>2, <1>3, <2>3, <3>3
    <3>5. s \in 0 .. now' /\ Full(g) + Per(g) * (now' - s) <= tokens'[g] + Cardinality(CountedSet(g, s)') * Window(g)
      BY <2>1, <3>1, <3>4
    <3> QED BY <3>5 DEF Owes
  <2> QED BY <2>1, <2>2, <2>3
<1>7. CASE Restart
  <2>1. tokens'[g] = Full(g)
    BY <1>7 DEF Restart
  <2> QED BY <1>4, <2>1
<1>8. CASE Tick
  <2>1. now' = now + 1 /\ written' = written /\ tokens' = Refilled(tokens)
    BY <1>8 DEF Tick
  <2>2. tokens'[g] \in {Full(g), tokens[g] + Per(g)}
    BY <2>1, RefillType DEF Inv
  <2>3. CASE tokens'[g] = Full(g)
    BY <1>4, <2>3
  <2>4. CASE tokens'[g] = tokens[g] + Per(g)
    <3>1. CountedSet(g, s)' = CountedSet(g, s)
      BY <2>1 DEF CountedSet
    <3>2. \A p, m, k \in Nat : k <= m => p * (m + 1 - k) = p * (m - k) + p
      BY SMT
    <3>3. Per(g) * (now + 1 - s) = Per(g) * (now - s) + Per(g)
      BY <1>0, <1>3, <3>2
    <3>4. Full(g) + Per(g) * (now + 1 - s) <= tokens'[g] + c * Window(g)
      BY <1>0, <1>1, <1>2, <1>3, <2>4, <3>3
    <3>5. s \in 0 .. now' /\ Full(g) + Per(g) * (now' - s) <= tokens'[g] + Cardinality(CountedSet(g, s)') * Window(g)
      BY <1>0, <1>2, <2>1, <3>1, <3>4
    <3> QED BY <3>5 DEF Owes
  <2> QED BY <2>2, <2>3, <2>4
<1>9. CASE \/ Arrive \/ Junk \/ UNCHANGED vars
           \/ \E l \in Label, k \in Kind, addr \in Addr : Refused(l, k, addr)
           \/ \E k \in Owner \cap Mine : Steal(k)
  <2>1. UNCHANGED <<tokens, written, now>>
    BY <1>9, RefusedIs DEF Arrive, Junk, Steal, vars
  <2> QED BY <1>5, <2>1
<1> QED BY <1>6, <1>7, <1>8, <1>9 DEF Next

\* What a bucket was short of before the last window it has been given back.
LEMMA RefusalsImplied ==
  ASSUME Inv, Paced, Owed
  PROVE  RefusalsFree
<1> SUFFICES ASSUME NEW g \in Gate
             PROVE  Full(g) - tokens[g] <= Window(g) * Cardinality({i \in DOMAIN written :
                      written[i].ok /\ g \in written[i].gates /\ now - written[i].at < Window(g)})
  BY DEF RefusalsFree
<1>0. /\ now \in Nat /\ tokens[g] \in Nat /\ Window(g) \in Nat \ {0}
      /\ Full(g) \in Nat /\ Per(g) \in Nat
  BY GateSizes DEF Inv, TypeOK
<1>1. PICK R : R = {i \in DOMAIN written :
                      written[i].ok /\ g \in written[i].gates /\ now - written[i].at < Window(g)}
  OBVIOUS
<1>2. PICK s \in 0 .. now :
        Full(g) + Per(g) * (now - s) <= tokens[g] + Cardinality(CountedSet(g, s)) * Window(g)
  BY DEF Owed, Owes
<1>3. \A i \in DOMAIN written : written[i].at \in Nat /\ written[i].at <= now
  <2>1. \A i \in DOMAIN written : written[i] \in Publishing
    BY DEF Inv, Kept
  <2> QED BY <2>1 DEF Inv, Kept, Publishing
<1>4. IsFiniteSet(CountedSet(g, s)) /\ IsFiniteSet(R)
  <2>1. DOMAIN written = 1 .. Len(written) /\ Len(written) \in Nat
    BY DEF Inv, Kept
  <2>2. IsFiniteSet(DOMAIN written)
    BY <2>1, FS_Interval
  <2>3. R \subseteq DOMAIN written
    BY <1>1
  <2> QED BY <2>2, <2>3, FS_Subset, CountedFinite
<1>5. PICK c, d \in Nat : c = Cardinality(CountedSet(g, s)) /\ d = Cardinality(R)
  BY <1>4, FS_CardinalityType
<1>6. /\ c * Window(g) \in Nat /\ d * Window(g) \in Nat /\ d * Window(g) = Window(g) * d
      /\ Per(g) * (now - s) \in Nat /\ now - s \in Nat /\ s \in Nat
  <2>1. \A p, q \in Nat : p * q \in Nat /\ p * q = q * p
    BY SMT
  <2>2. s \in Nat /\ now - s \in Nat
    BY <1>0
  <2> QED BY <1>0, <1>5, <2>1, <2>2
<1>7. CASE now - s < Window(g)
  <2>1. CountedSet(g, s) \subseteq R
    BY <1>0, <1>1, <1>3, <1>6, <1>7 DEF CountedSet
  <2>2. c <= d
    BY <1>4, <1>5, <2>1, FS_Subset
  <2>3. \A m, k, w \in Nat : m <= k => m * w <= k * w
    BY SMT
  <2>4. c * Window(g) <= d * Window(g)
    BY <1>0, <2>2, <2>3
  <2> QED BY <1>0, <1>1, <1>2, <1>5, <1>6, <2>4
<1>8. CASE ~(now - s < Window(g))
  <2>1. PICK t : t = now - Window(g)
    OBVIOUS
  <2>2. t \in Nat /\ t \in 0 .. now /\ s <= t /\ t - s \in Nat /\ Window(g) + (t - s) = now - s
    BY <1>0, <1>6, <1>8, <2>1
  <2>3. Cardinality(Within(g, s, t)) * Window(g) <= Full(g) + Per(g) * (t - s)
    BY <2>2 DEF Paced
  <2>4. CountedSet(g, s) \subseteq Within(g, s, t) \cup R
    <3>1. \A i \in CountedSet(g, s) : i \in DOMAIN written /\ written[i].ok /\ g \in written[i].gates
      BY DEF CountedSet
    <3>2. \A i \in DOMAIN written : written[i].at <= t \/ now - written[i].at < Window(g)
      BY <1>0, <1>3, <2>1, <2>2
    <3> QED BY <1>1, <3>1, <3>2 DEF Within
  <2>5. Within(g, s, t) \subseteq CountedSet(g, s)
    BY DEF Within
  <2>6. PICK b \in Nat : b = Cardinality(Within(g, s, t)) /\ IsFiniteSet(Within(g, s, t))
    BY <1>4, <2>5, FS_Subset, FS_CardinalityType
  <2>7. c <= b + d
    <3>1. IsFiniteSet(Within(g, s, t) \cup R) /\ Cardinality(Within(g, s, t) \cup R) <= b + d
          /\ Cardinality(Within(g, s, t) \cup R) \in Nat
      <4>1. IsFiniteSet(Within(g, s, t) \cup R)
        BY <1>4, <2>6, FS_Union
      <4>2. /\ Cardinality(Within(g, s, t) \cup R) = b + d - Cardinality(Within(g, s, t) \cap R)
            /\ Cardinality(Within(g, s, t) \cap R) \in Nat
        BY <1>4, <1>5, <2>6, FS_Union, FS_Intersection, FS_CardinalityType
      <4> QED BY <4>1, <4>2, FS_CardinalityType
    <3>2. c <= Cardinality(Within(g, s, t) \cup R)
      BY <1>5, <2>4, <3>1, FS_Subset
    <3> QED BY <3>1, <3>2
  <2>8. c * Window(g) <= b * Window(g) + d * Window(g) /\ b * Window(g) \in Nat
    <3>1. \A m, k, l, w \in Nat : m <= k + l => m * w <= k * w + l * w
      BY SMT
    <3>2. \A m, w \in Nat : m * w \in Nat
      BY SMT
    <3> QED BY <1>0, <2>7, <3>1, <3>2
  <2>9. Full(g) + Per(g) * (t - s) = Per(g) * (now - s)
    <3>1. \A p, w, m \in Nat : p * w + p * m = p * (w + m)
      BY SMT
    <3>2. Full(g) = Per(g) * Window(g)
      BY DEF Full
    <3> QED BY <1>0, <2>2, <3>1, <3>2
  <2>10. b * Window(g) <= Per(g) * (now - s)
    BY <2>3, <2>6, <2>9
  <2>11. Full(g) <= tokens[g] + d * Window(g)
    BY <1>0, <1>2, <1>5, <1>6, <2>8, <2>10
  <2> QED BY <1>0, <1>1, <1>5, <1>6, <2>11
<1> QED BY <1>7, <1>8

LEMMA PacedOwedInit == Init => Paced /\ Owed
<1> SUFFICES ASSUME Init PROVE Paced /\ Owed
  OBVIOUS
<1>1. Inv
  BY InvInit
<1>2. \A g \in Gate : tokens[g] = Full(g)
  BY DEF Init
<1>3. Owed
  BY <1>1, <1>2, FullOwes DEF Owed, FullOwesNothing
<1>4. ASSUME NEW g \in Gate, NEW s \in 0 .. now, NEW t \in 0 .. now, s <= t
      PROVE  Cardinality(Within(g, s, t)) * Window(g) <= Full(g) + Per(g) * (t - s)
  <2>1. Within(g, s, t) = {} /\ s = 0 /\ t = 0
    BY DEF Init, Within, CountedSet
  <2>2. Cardinality(Within(g, s, t)) = 0
    BY <2>1, FS_EmptySet
  <2> QED BY <2>1, <2>2, GateSizes
<1> QED BY <1>3, <1>4 DEF Paced

-----------------------------------------------------------------------------
\* The first publishes of this minute.
FreshNow == {i \in DOMAIN written : written[i].fresh /\ written[i].at = now}

LEMMA FreshFinite ==
  ASSUME Inv
  PROVE  IsFiniteSet(FreshNow) /\ Cardinality(FreshNow) \in Nat
<1>1. DOMAIN written = 1 .. Len(written) /\ Len(written) \in Nat
  BY DEF Inv, Kept
<1>2. IsFiniteSet(DOMAIN written)
  BY <1>1, FS_Interval
<1>3. FreshNow \subseteq DOMAIN written
  BY DEF FreshNow
<1>4. IsFiniteSet(FreshNow)
  BY <1>2, <1>3, FS_Subset
<1> QED BY <1>4, FS_CardinalityType

Total == <<"total", "all">>

LEMMA TotalIs ==
  /\ Total \in Gate /\ Per(Total) = PerMinute /\ Window(Total) = 1 /\ Full(Total) = PerMinute
  /\ Reserve(Total, FALSE) = firstPublishReserve
<1>1. Total \in Gate /\ Per(Total) = PerMinute /\ Window(Total) = 1
  BY DEF Total, Gate, Per, Window
<1>2. Reserve(Total, FALSE) = firstPublishReserve
  BY DEF Total, Reserve
<1>3. PerMinute \in Nat /\ \A m \in Nat : m * 1 = m
  BY LimitAssumption
<1>4. Full(Total) = Per(Total) * Window(Total)
  BY DEF Full
<1> QED BY <1>1, <1>2, <1>3, <1>4

LEMMA RoomStep ==
  ASSUME Inv, RoomForFirst, [Next]_vars
  PROVE  RoomForFirst'
<1> USE DEF Inv
<1>0. /\ RoomForFirst <=> firstPublishReserve - tokens[Total] <= Cardinality(FreshNow)
      /\ RoomForFirst' <=> firstPublishReserve - tokens'[Total] <= Cardinality(FreshNow')
      /\ tokens[Total] \in Nat /\ firstPublishReserve \in Nat /\ firstPublishReserve <= PerMinute
      /\ PerMinute \in Nat /\ now \in Nat
  <2>1. /\ RoomForFirst <=> firstPublishReserve - tokens[Total] <= Cardinality(FreshNow)
        /\ RoomForFirst' <=> firstPublishReserve - tokens'[Total] <= Cardinality(FreshNow')
    BY DEF RoomForFirst, FreshNow, Total
  <2>2. tokens[Total] \in Nat /\ now \in Nat
    BY TotalIs DEF TypeOK
  <2> QED BY <2>1, <2>2, ReserveType, LimitAssumption
<1>1. CASE UNCHANGED <<tokens, written, now>>
  BY <1>0, <1>1 DEF FreshNow
<1>2. ASSUME NEW r \in Request, NEW addr \in Addr, Publish(r, addr)
      PROVE  RoomForFirst'
  <2>1. now' = now
    BY <1>2, Zenon DEF Publish
  <2>2. PICK fresh \in BOOLEAN :
           /\ Shut(Gates(r, addr, fresh), fresh) = {}
           /\ LET took == GateSet(r, addr, fresh) IN
              /\ took \subseteq Gate
              /\ \/ /\ tokens' = tokens /\ UNCHANGED <<entries, owners, written>>
                 \/ /\ Apply(r) /\ Write(r, took, fresh, FALSE) /\ tokens' = tokens
                 \/ /\ Apply(r) /\ Write(r, took, fresh, TRUE) /\ tokens' = Take(tokens, took)
    BY <1>2, PublishIs
  <2> DEFINE gs == Gates(r, addr, fresh)
             took == GateSet(r, addr, fresh)
             n == Len(written) + 1
  <2>3. CASE tokens' = tokens /\ UNCHANGED <<entries, owners, written>>
    BY <1>1, <2>1, <2>3
  <2>4. ASSUME NEW ok \in BOOLEAN, Write(r, took, fresh, ok),
               IF ok THEN tokens' = Take(tokens, took) ELSE tokens' = tokens
        PROVE  RoomForFirst'
    <3>1. /\ DOMAIN written = 1 .. Len(written) /\ DOMAIN written' = 1 .. Len(written) + 1
          /\ Len(written) \in Nat
          /\ \A i \in 1 .. Len(written) : written'[i] = written[i]
          /\ written'[n] = [gates |-> took, fresh |-> fresh, k |-> r.k, at |-> now, ok |-> ok]
      BY <2>1, <2>2, <2>4, Recorded
    <3>2. FreshNow' = FreshNow \cup (IF fresh THEN {n} ELSE {})
      BY <2>1, <3>1 DEF FreshNow
    <3>3. IsFiniteSet(FreshNow) /\ n \notin FreshNow /\ Cardinality(FreshNow) \in Nat
      <4>1. n \notin FreshNow
        BY <3>1 DEF FreshNow
      <4> QED BY <4>1, FreshFinite
    <3>4. Cardinality(FreshNow') = Cardinality(FreshNow) + (IF fresh THEN 1 ELSE 0)
      <4>1. CASE fresh
        BY <3>2, <3>3, <4>1, FS_AddElement
      <4>2. CASE ~fresh
        BY <3>2, <3>3, <4>2
      <4> QED BY <4>1, <4>2
    <3>5. /\ tokens'[Total] >= tokens[Total] - 1 /\ tokens'[Total] \in Nat
          /\ ok /\ ~fresh => tokens'[Total] >= firstPublishReserve
          /\ ~ok => tokens'[Total] = tokens[Total]
      <4>1. CASE ok
        <5>1. took = Passed(gs, fresh) /\ Total \in took
          BY <2>2, GatesAre DEF GateSet, Total
        <5>2. tokens'[Total] + 1 = tokens[Total] /\ tokens'[Total] \in Nat
          BY <2>2, <2>4, <4>1, <5>1, TakeType, TotalIs
        <5>3. ~fresh => tokens[Total] >= 1 + firstPublishReserve
          <6>1. SUFFICES ASSUME fresh = FALSE PROVE tokens[Total] >= 1 + firstPublishReserve
            OBVIOUS
          <6>2. PICK k \in DOMAIN gs : gs[k] = Total
            BY <2>2, <5>1 DEF Passed
          <6>3. tokens[Total] >= Window(Total) + Reserve(Total, fresh) * Window(Total)
            BY <2>2, <6>2, OpenHolds, TotalIs
          <6>4. \A m \in Nat : 1 + m * 1 = 1 + m
            OBVIOUS
          <6>5. tokens[Total] >= 1 + firstPublishReserve * 1
            BY <6>1, <6>3, TotalIs
          <6> QED BY <1>0, <6>4, <6>5
        <5> QED BY <1>0, <4>1, <5>2, <5>3
      <4>2. CASE ~ok
        BY <1>0, <2>4, <4>2
      <4> QED BY <4>1, <4>2
    <3> QED BY <1>0, <3>3, <3>4, <3>5
  <2> QED BY <2>2, <2>3, <2>4
<1>3. CASE Restart \/ Tick
  <2>1. tokens'[Total] \in Nat /\ tokens'[Total] >= PerMinute
    <3>1. CASE Restart
      BY <1>0, <3>1, TotalIs DEF Restart
    <3>2. CASE Tick
      BY <1>0, <3>2, TotalIs, RefillType DEF Tick
    <3> QED BY <1>3, <3>1, <3>2
  <2>2. Cardinality(FreshNow') \in Nat
    <3>1. Inv'
      BY InvStep
    <3>2. DOMAIN written' = 1 .. Len(written') /\ Len(written') \in Nat
      BY <3>1 DEF Kept
    <3>3. IsFiniteSet(DOMAIN written') /\ FreshNow' \subseteq DOMAIN written'
      BY <3>2, FS_Interval DEF FreshNow
    <3>4. IsFiniteSet(FreshNow')
      BY <3>3, FS_Subset
    <3> QED BY <3>4, FS_CardinalityType
  <2> QED BY <1>0, <2>1, <2>2
<1>4. CASE \/ Arrive \/ Junk \/ UNCHANGED vars
           \/ \E l \in Label, k \in Kind, addr \in Addr : Refused(l, k, addr)
           \/ \E k \in Owner \cap Mine : Steal(k)
  <2>1. UNCHANGED <<tokens, written, now>>
    BY <1>4, RefusedIs DEF Arrive, Junk, Steal, vars
  <2> QED BY <1>1, <2>1
<1> QED BY <1>2, <1>3, <1>4 DEF Next

-----------------------------------------------------------------------------
RecoverDay(l) == <<"perAccount", <<l, "recover">>>>

\* A bucket that a recovery left short refills by at least a unit a minute.
Refilling(l, i) ==
  /\ i \in DOMAIN written
  /\ written[i].k = "recover" /\ RecoverDay(l) \in written[i].gates
  /\ now - written[i].at < Day /\ tokens[RecoverDay(l)] >= now - written[i].at

RecoveryInv == \A l \in Label :
  tokens[RecoverDay(l)] >= Day \/ \E i : Refilling(l, i)

LEMMA RecoverDayIs ==
  ASSUME NEW l \in Label
  PROVE  /\ RecoverDay(l) \in Gate /\ Per(RecoverDay(l)) = PerDay /\ Window(RecoverDay(l)) = Day
         /\ Full(RecoverDay(l)) >= Day /\ Day \in Nat /\ PerDay \in Nat \ {0}
<1>1. /\ RecoverDay(l) \in Gate /\ Per(RecoverDay(l)) = PerDay /\ Window(RecoverDay(l)) = Day
  BY DEF RecoverDay, Gate, Per, Window
<1> QED BY <1>1, GateSizes, LimitAssumption

LEMMA RecoveryImplied == RecoveryInv => RecoveryLeft
  BY DEF RecoveryInv, Refilling, RecoveryLeft, RecoverDay, DayOf

LEMMA RecoveryInit == Init => RecoveryInv
  BY RecoverDayIs DEF Init, RecoveryInv

LEMMA RecoveryStep ==
  ASSUME Inv, RecoveryInv, [Next]_vars
  PROVE  RecoveryInv'
<1> USE DEF Inv
<1>0. now \in Nat /\ DOMAIN written = 1 .. Len(written) /\ \A i \in DOMAIN written : written[i].at \in Nat
  <2>1. \A i \in DOMAIN written : written[i] \in Publishing
    BY DEF Kept
  <2> QED BY <2>1 DEF TypeOK, Kept, Publishing
<1>1. CASE UNCHANGED <<tokens, written, now>>
  BY <1>1 DEF RecoveryInv, Refilling
<1>2. ASSUME NEW r \in Request, NEW addr \in Addr, Publish(r, addr), NEW l \in Label
      PROVE  tokens'[RecoverDay(l)] >= Day \/ \E i : Refilling(l, i)'
  <2>1. now' = now
    BY <1>2, Zenon DEF Publish
  <2>2. PICK fresh \in BOOLEAN :
           /\ Shut(Gates(r, addr, fresh), fresh) = {}
           /\ LET took == GateSet(r, addr, fresh) IN
              /\ took \subseteq Gate
              /\ \/ /\ tokens' = tokens /\ UNCHANGED <<entries, owners, written>>
                 \/ /\ Apply(r) /\ Write(r, took, fresh, FALSE) /\ tokens' = tokens
                 \/ /\ Apply(r) /\ Write(r, took, fresh, TRUE) /\ tokens' = Take(tokens, took)
    BY <1>2, PublishIs
  <2> DEFINE took == GateSet(r, addr, fresh)
             n == Len(written) + 1
             g == RecoverDay(l)
  <2>3. CASE tokens' = tokens /\ UNCHANGED <<entries, owners, written>>
    BY <1>1, <2>1, <2>3 DEF RecoveryInv
  <2>4. ASSUME NEW ok \in BOOLEAN, Write(r, took, fresh, ok),
               IF ok THEN tokens' = Take(tokens, took) ELSE tokens' = tokens
        PROVE  tokens'[g] >= Day \/ \E i : Refilling(l, i)'
    <3>1. /\ DOMAIN written' = 1 .. Len(written) + 1
          /\ Len(written) \in Nat
          /\ \A i \in 1 .. Len(written) : written'[i] = written[i]
          /\ written'[n] = [gates |-> took, fresh |-> fresh, k |-> r.k, at |-> now, ok |-> ok]
      BY <2>1, <2>2, <2>4, Recorded
    <3>2. CASE tokens'[g] = tokens[g]
      <4>1. CASE tokens[g] >= Day
        BY <3>2, <4>1
      <4>2. ASSUME NEW i, Refilling(l, i) PROVE Refilling(l, i)'
        <5>1. i \in DOMAIN written' /\ written'[i] = written[i]
          BY <1>0, <3>1, <4>2 DEF Refilling
        <5> QED BY <2>1, <3>2, <4>2, <5>1 DEF Refilling
      <4> QED BY <4>1, <4>2 DEF RecoveryInv
    <3>3. CASE tokens'[g] # tokens[g]
      <4>1. ok /\ g \in took
        BY <2>4, <3>3, RecoverDayIs DEF Take
      <4>2. g = DayOf(r)
        BY <4>1 DEF GateSet, RecoverDay
      <4>3. r.k = "recover"
        BY <4>2 DEF RecoverDay, DayOf
      <4>4. tokens'[g] \in Nat
        <5>1. took = Passed(Gates(r, addr, fresh), fresh)
          BY <2>2, GatesAre
        <5> QED BY <2>2, <2>4, <4>1, <5>1, TakeType, RecoverDayIs
      <4>5. n \in DOMAIN written' /\ written'[n].k = "recover" /\ g \in written'[n].gates /\ written'[n].at = now
        BY <3>1, <4>1, <4>3
      <4>6. now - now < Day /\ tokens'[g] >= now - now
        BY <1>0, <4>4, LimitAssumption
      <4> QED BY <2>1, <4>5, <4>6 DEF Refilling
    <3> QED BY <3>2, <3>3
  <2> QED BY <2>2, <2>3, <2>4
<1>3. CASE Restart
  BY <1>3, RecoverDayIs DEF Restart, RecoveryInv
<1>4. ASSUME Tick, NEW l \in Label
      PROVE  tokens'[RecoverDay(l)] >= Day \/ \E i : Refilling(l, i)'
  <2> DEFINE g == RecoverDay(l)
  <2>1. now' = now + 1 /\ written' = written
    BY <1>4 DEF Tick
  <2>2. /\ tokens'[g] \in {Full(g), tokens[g] + PerDay} /\ tokens'[g] >= tokens[g]
        /\ tokens[g] \in Nat /\ tokens'[g] \in Nat /\ Full(g) >= Day /\ Day \in Nat /\ PerDay \in Nat \ {0}
        /\ Full(g) \in Nat
    BY <1>4, RefillType, RecoverDayIs, GateSizes DEF Tick, TypeOK
  <2>3. CASE tokens[g] >= Day
    BY <2>2, <2>3
  <2>4. ASSUME NEW i, Refilling(l, i)
        PROVE  tokens'[g] >= Day \/ Refilling(l, i)'
    <3> DEFINE at == written[i].at
    <3>1. at \in Nat /\ now - at < Day /\ tokens[g] >= now - at
      BY <1>0, <2>4 DEF Refilling
    <3> HIDE DEF at
    <3>2. tokens'[g] >= Day \/ (tokens'[g] >= now + 1 - at /\ now + 1 - at < Day)
      BY <1>0, <2>2, <3>1
    <3>3. CASE tokens'[g] >= now + 1 - at /\ now + 1 - at < Day
      <4>1. /\ i \in DOMAIN written' /\ written'[i].k = "recover" /\ g \in written'[i].gates
            /\ written'[i].at = at
        BY <2>1, <2>4 DEF Refilling, at
      <4>2. now' - written'[i].at < Day /\ tokens'[g] >= now' - written'[i].at
        <5>1. now' = now + 1
          BY <2>1
        <5> QED BY <1>0, <3>1, <3>3, <4>1, <5>1
      <4> QED BY <4>1, <4>2 DEF Refilling
    <3> QED BY <3>2, <3>3
  <2> QED BY <2>3, <2>4 DEF RecoveryInv
<1>5. CASE \/ Arrive \/ Junk \/ UNCHANGED vars
           \/ \E l \in Label, k \in Kind, addr \in Addr : Refused(l, k, addr)
           \/ \E k \in Owner \cap Mine : Steal(k)
  <2>1. UNCHANGED <<tokens, written, now>>
    BY <1>5, RefusedIs DEF Arrive, Junk, Steal, vars
  <2> QED BY <1>1, <2>1
<1> QED BY <1>2, <1>3, <1>4, <1>5 DEF Next, RecoveryInv

-----------------------------------------------------------------------------
\* What the owner rule decides in KtHandles is a step of the registry.
LEMMA StolenStep ==
  ASSUME [Next]_vars
  PROVE  UNCHANGED stolen \/ \E k \in Owner \cap Mine : Steal(k)
<1>1. ASSUME NEW r \in Request, NEW addr \in Addr, Publish(r, addr)
      PROVE  UNCHANGED stolen
  BY <1>1, Zenon DEF Publish
<1> QED BY <1>1 DEF Next, Arrive, Junk, Restart, Tick, Refused, vars

LEMMA RegistryInit == Init => Registry!Init
  BY DEF Init, Registry!Init, RuleState, HasLabel

LEMMA RegistryStep ==
  ASSUME Inv, [Next]_vars
  PROVE  [Registry!Next]_(Registry!vars)
<1> USE DEF Inv
<1> DEFINE R == [l \in Label |-> RuleState(l)]
<1>1. CASE \A l \in Label : RuleState(l)' = RuleState(l)
  <2>1. R' = R
    BY <1>1
  <2>2. CASE UNCHANGED stolen
    BY <2>1, <2>2 DEF Registry!vars
  <2>3. ASSUME NEW k \in Owner \cap Mine, Steal(k) PROVE Registry!Next
    <3>1. Registry!Steal(k)
      BY <2>1, <2>3 DEF Registry!Steal, Steal
    <3> QED BY <3>1 DEF Registry!Next
  <2> QED BY <2>2, <2>3, StolenStep
<1>2. ASSUME NEW r \in Request,
             Apply(r), Signed(r), Allowed(RuleState(r.label), r), UNCHANGED stolen
      PROVE  Registry!Next
  <2> DEFINE l == r.label
             prev == RuleState(l)
  <2>1. /\ l \in Label /\ r.owner \in Owner /\ r.rc \in Recovery /\ r.v \in Nat
        /\ r.k \in Kind /\ r.rpub \in Recovery \cup {None} /\ (r.k = "recover" <=> r.rpub # None)
    BY LimitAssumption DEF Request
  <2>2. R[l] = prev /\ R' = [R EXCEPT ![l] = [owner |-> r.owner, rc |-> r.rc, version |-> r.v]]
    <3>1. /\ RuleState(l)' = [owner |-> r.owner, rc |-> r.rc, version |-> r.v]
          /\ \A m \in Label \ {l} : RuleState(m)' = RuleState(m)
      BY <1>2, Applied
    <3> QED BY <2>1, <3>1
  <2>3. /\ r.k = "claim" <=> prev = None
        /\ r.k = "update" => r.owner = prev.owner /\ r.rc = prev.rc
        /\ r.k = "recover" => r.rpub = prev.rc
        /\ r.v = IF prev = None THEN 1 ELSE prev.version + 1
    BY <1>2 DEF Allowed, Keeps, NextVersion
  <2> HIDE DEF prev, R
  <2>4. CASE r.k = "claim"
    <3>1. R[l] = None /\ R' = [R EXCEPT ![l] = [owner |-> r.owner, rc |-> r.rc, version |-> 1]]
      BY <2>2, <2>3, <2>4
    <3>2. Registry!Claim(l, r.owner, r.rc)
      BY <1>2, <3>1 DEF Registry!Claim, Registry!Becomes, R
    <3> QED BY <2>1, <3>2 DEF Registry!Next
  <2>5. CASE r.k = "update"
    <3>1. R[l] # None /\ R' = [R EXCEPT ![l] = [owner |-> R[l].owner, rc |-> R[l].rc, version |-> R[l].version + 1]]
      BY <2>2, <2>3, <2>5
    <3>2. Registry!Update(l)
      BY <1>2, <3>1 DEF Registry!Update, Registry!Becomes, R
    <3> QED BY <2>1, <3>2 DEF Registry!Next
  <2>6. CASE r.k = "recover"
    <3>1. R[l] # None /\ R' = [R EXCEPT ![l] = [owner |-> r.owner, rc |-> r.rc, version |-> R[l].version + 1]]
      BY <2>2, <2>3, <2>6
    <3>2. R[l].rc = r.rpub /\ r.rpub \in Recovery
      BY <2>1, <2>2, <2>3, <2>6
    <3>3. \/ r.owner \in Mine /\ r.rc \in Mine /\ r.rpub \in Mine
          \/ {r.owner, r.rpub} \cap Mine \subseteq stolen
      BY <1>2, <2>1, <3>2, KeyAssumption DEF Signed
    <3>4. Registry!OneHolds({R[l].rc, r.owner}) /\ (R[l].rc \in Mine => r.rc \in Mine)
      <4>1. r.rpub \notin stolen
        BY <3>2, KeyAssumption DEF TypeOK
      <4> QED BY <3>2, <3>3, <4>1 DEF Registry!OneHolds
    <3>5. Registry!Recover(l, r.owner, r.rc)
      BY <1>2, <3>1, <3>4 DEF Registry!Recover, Registry!Becomes, R
    <3> QED BY <2>1, <3>5 DEF Registry!Next
  <2> QED BY <2>1, <2>4, <2>5, <2>6 DEF Kind
<1> QED BY <1>1, <1>2, StepIs

LEMMA RuleStateType ==
  ASSUME Inv, NEW l \in Label
  PROVE  RuleState(l) \in State \cup {None}
<1>1. CASE HasLabel(l)
  <2>1. PICK i : i = Latest(l)
    OBVIOUS
  <2>2. entries[i] \in Request
    <3>1. i \in 1 .. Len(entries)
      BY <1>1, <2>1, LatestIsLast DEF Inv
    <3> QED BY <3>1 DEF Inv, TypeOK
  <2>3. RuleState(l) = [owner |-> entries[i].owner, rc |-> entries[i].rc, version |-> entries[i].v]
    BY <1>1, <2>1, RuleStateIs DEF Inv
  <2>4. Room \in Nat
    BY LimitAssumption
  <2>5. entries[i].owner \in Owner /\ entries[i].rc \in Recovery /\ entries[i].v \in Nat
    BY <2>2, <2>4 DEF Request
  <2> QED BY <2>3, <2>5 DEF State
<1>2. CASE ~HasLabel(l)
  BY <1>2 DEF RuleState
<1> QED BY <1>1, <1>2

\* Whose a name is changes by its recovery key only.
LEMMA MineStep ==
  ASSUME Inv, [Next]_vars
  PROVE  \A l \in Label : Registry!IsMine(l) => Registry!IsMine(l)'
<1> DEFINE R == [l \in Label |-> RuleState(l)]
<1> SUFFICES ASSUME NEW l \in Label, R[l] # None, R[l].owner \in Mine, R[l].rc \in Mine
             PROVE  R'[l] # None /\ R'[l].owner \in Mine /\ R'[l].rc \in Mine
  BY DEF Registry!IsMine
<1>0. R[l] \in State
  BY RuleStateType
<1>1. /\ R \in [Label -> State \cup {None}] /\ stolen \cap Recovery = {}
  BY RuleStateType, KeyAssumption DEF Inv, TypeOK
<1>2. \/ UNCHANGED <<R, stolen>>
      \/ \E m \in Label, o \in Owner, c \in Recovery : Registry!Claim(m, o, c) \/ Registry!Recover(m, o, c)
      \/ \E m \in Label : Registry!Update(m)
      \/ \E k \in Owner \cap Mine : Registry!Steal(k)
  BY RegistryStep DEF Registry!Next, Registry!vars
<1>3. ASSUME NEW o \in Mine, o \in Owner, NEW c \in Mine, c \in Recovery, NEW v \in Nat,
             R' = [R EXCEPT ![l] = [owner |-> o, rc |-> c, version |-> v]]
      PROVE  R'[l] # None /\ R'[l].owner \in Mine /\ R'[l].rc \in Mine
  <2>1. R'[l] = [owner |-> o, rc |-> c, version |-> v]
    BY <1>1, <1>3
  <2>2. R'[l] \in State
    BY <1>3, <2>1 DEF State
  <2> QED BY <1>3, <2>1, <2>2, KeyAssumption
<1>4. CASE R'[l] = R[l]
  BY <1>4
<1>5. ASSUME NEW m \in Label, NEW o \in Owner, NEW c \in Recovery, Registry!Claim(m, o, c)
      PROVE  R'[l] = R[l]
  BY <1>1, <1>5 DEF Registry!Claim, Registry!Becomes
<1>6. ASSUME NEW m \in Label, Registry!Update(m)
      PROVE  R'[l] # None /\ R'[l].owner \in Mine /\ R'[l].rc \in Mine
  <2>1. R' = [R EXCEPT ![m] = [owner |-> R[m].owner, rc |-> R[m].rc, version |-> R[m].version + 1]]
    BY <1>6 DEF Registry!Update, Registry!Becomes
  <2> HIDE DEF R
  <2>2. CASE m = l
    <3>1. R[l].owner \in Owner /\ R[l].rc \in Recovery /\ R[l].version + 1 \in Nat
      BY <1>0 DEF State
    <3> QED BY <1>3, <2>1, <2>2, <3>1
  <2>3. CASE m # l
    BY <1>1, <1>4, <2>1, <2>3
  <2> QED BY <2>2, <2>3
<1>7. ASSUME NEW m \in Label, NEW o \in Owner, NEW c \in Recovery, Registry!Recover(m, o, c)
      PROVE  R'[l] # None /\ R'[l].owner \in Mine /\ R'[l].rc \in Mine
  <2>1. /\ R' = [R EXCEPT ![m] = [owner |-> o, rc |-> c, version |-> R[m].version + 1]]
        /\ {R[m].rc, o} \subseteq Mine \/ {R[m].rc, o} \cap Mine \subseteq stolen
        /\ R[m].rc \in Mine => c \in Mine
    BY <1>7 DEF Registry!Recover, Registry!Becomes, Registry!OneHolds
  <2> HIDE DEF R
  <2>2. CASE m = l
    <3>1. R[l].rc \in Recovery /\ R[l].version + 1 \in Nat
      BY <1>0 DEF State
    <3>2. R[l].rc \notin stolen
      BY <1>1, <3>1
    <3>3. o \in Mine /\ c \in Mine
      BY <2>1, <2>2, <3>2
    <3> QED BY <1>3, <2>1, <2>2, <3>1, <3>3
  <2>3. CASE m # l
    BY <1>1, <1>4, <2>1, <2>3
  <2> QED BY <2>2, <2>3
<1>8. ASSUME NEW k, Registry!Steal(k) PROVE R'[l] = R[l]
  BY <1>8 DEF Registry!Steal
<1>9. CASE UNCHANGED <<R, stolen>>
  BY <1>4, <1>9
<1> QED BY <1>2, <1>4, <1>5, <1>6, <1>7, <1>8, <1>9

-----------------------------------------------------------------------------
\* Every reachable state of the handle log is well typed, the table of owners
\* is what a replay of the file makes it, and the disk's floor is missed by no
\* more than what may be in flight (kt/server.js: publish, log.js: OwnerTable).
THEOREM Typed == Spec => []Inv
<1>1. Init => Inv
  BY InvInit
<1>2. Inv /\ [Next]_vars => Inv'
  BY InvStep
<1> QED BY <1>1, <1>2, PTL DEF Spec

\* Every reachable state of the handle log is well typed.
THEOREM TypeCorrect == Spec => []TypeOK
<1>1. Inv => TypeOK
  BY DEF Inv
<1> QED BY <1>1, Typed, PTL

\* The floor checked before a body is read is missed by no more than the
\* bodies being read (kt/server.js: publish).
THEOREM FloorIsHeld == Spec => []FloorHeld
<1>1. Inv => FloorHeld
  BY DEF Inv
<1> QED BY <1>1, Typed, PTL

\* The entries of a label are its versions 1, 2, 3, ... (handles.js:
\* ownerRuleTransition).
THEOREM VersionsAreNext == Spec => []VersionsNext
<1>1. Init => VersionsNext
  BY DEF Init, VersionsNext
<1>2. Inv /\ VersionsNext /\ [Next]_vars => VersionsNext'
  BY VersionsStep
<1> QED BY <1>1, <1>2, Typed, PTL DEF Spec

\* No gate lets more through in any stretch of time than it holds and is
\* refilled with (kt/server.js: RateLimiter and the refunds of publish).
THEOREM RatesAreHeld == Spec => []RateHeld
<1>1. Init => Conserved
  BY ConservedInit
<1>2. Inv /\ Conserved /\ [Next]_vars => Conserved'
  BY ConservedStep
<1>3. Inv /\ Conserved => RateHeld
  BY RateImplied
<1> QED BY <1>1, <1>2, <1>3, Typed, PTL DEF Spec

\* A gate is short only of what was published in the last window: a refusal,
\* by a later gate, the rule, a failed append or a failed head, costs nobody
\* anything (kt/server.js: the refunds of publish).
THEOREM RefusalsAreFree == Spec => []RefusalsFree
<1>1. Init => Inv /\ Conserved /\ Paced /\ Owed
  BY InvInit, ConservedInit, PacedOwedInit
<1>2. Inv /\ Conserved /\ Paced /\ Owed /\ [Next]_vars => (Inv /\ Conserved /\ Paced /\ Owed)'
  <2> SUFFICES ASSUME Inv, Conserved, Paced, Owed, [Next]_vars
               PROVE  Inv' /\ Conserved' /\ Paced' /\ Owed'
    OBVIOUS
  <2>1. Inv' /\ Conserved'
    BY InvStep, ConservedStep
  <2> QED BY <2>1, PacedStep, OwedStep
<1>3. Inv /\ Paced /\ Owed => RefusalsFree
  BY RefusalsImplied
<1> QED BY <1>1, <1>2, <1>3, PTL DEF Spec

\* Republishing leaves the reserve to first publishes (kt/server.js:
\* firstPublishReserve).
THEOREM RoomIsLeft == Spec => []RoomForFirst
<1>1. Init => RoomForFirst
  <2> SUFFICES ASSUME Init PROVE RoomForFirst
    OBVIOUS
  <2>1. Inv
    BY InvInit
  <2>2. tokens[Total] = PerMinute
    BY TotalIs DEF Init
  <2>3. Cardinality(FreshNow) \in Nat
    BY <2>1, FreshFinite
  <2> QED BY <2>2, <2>3, ReserveType, LimitAssumption DEF RoomForFirst, FreshNow, Total
<1>2. Inv /\ RoomForFirst /\ [Next]_vars => RoomForFirst'
  BY RoomStep
<1> QED BY <1>1, <1>2, Typed, PTL DEF Spec

\* A handle that was not recovered today can be recovered, whatever is
\* published under its owner key (kt/server.js: the day of a recover).
THEOREM RecoveryIsLeft == Spec => []RecoveryLeft
<1>1. Init => RecoveryInv
  BY RecoveryInit
<1>2. Inv /\ RecoveryInv /\ [Next]_vars => RecoveryInv'
  BY RecoveryStep
<1>3. RecoveryInv => RecoveryLeft
  BY RecoveryImplied
<1> QED BY <1>1, <1>2, <1>3, Typed, PTL DEF Spec

\* The handle log implements HandleRegistry: every line it accepts, and every
\* restart, is a step of the registry or none (handles.js, log.js).
THEOREM Implements == Spec => HoldsNames
<1>1. Init => Registry!Init
  BY RegistryInit
<1>2. Inv /\ [Next]_vars => [Registry!Next]_(Registry!vars)
  BY RegistryStep
<1> QED BY <1>1, <1>2, Typed, PTL DEF Spec, HoldsNames, Registry!Spec

\* A name the user has stays the user's, whoever holds its owner key
\* (handles.js: ownerRuleTransition).
THEOREM MineStays == Spec => MineStaysMine
<1>1. Inv /\ [Next]_vars => [\A l \in Label : Registry!IsMine(l) => Registry!IsMine(l)']_(Registry!vars)
  BY MineStep
<1> QED BY <1>1, Typed, PTL DEF Spec, MineStaysMine, Registry!MineStaysMine
=============================================================================
