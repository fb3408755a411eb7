-------------------------- MODULE IntroKeysProofs --------------------------
(***************************************************************************)
(* What holds of introduction keys for every set of routing ids and        *)
(* instances, every life and cap: the types, that no instance keeps a copy *)
(* of a socket it has not, and that no entry outlives the OWNED_TTL its    *)
(* device earned.                                                          *)
(***************************************************************************)
EXTENDS IntroKeys, FiniteSetTheorems, WellFoundedInduction, TLAPS

-----------------------------------------------------------------------------
\* The inductive invariant.  LifeEarned needs that what an entry may come back
\* from, a copy or a reply not handled, is no newer than its device's last
\* login or publish.

Clocks ==
    /\ now \in 1 .. MaxNow /\ losses \in 0 .. MaxLosses /\ faults \in 0 .. MaxFaults
    /\ epoch \in {0, losses + 1}

Lives ==
    /\ dies \in [Rid -> {0} \cup now + 1 .. now + Ttl]
    /\ \A r \in Rid : dies[r] <= auth[r] + Ttl

Owners ==
    /\ owner \in [Rid -> SUBSET Inst]
    /\ \A r \in Rid : owner[r] = {} \/ \E i \in Inst : owner[r] = {i}

Sockets ==
    /\ local \in [Inst -> [Rid -> 0 .. MaxConn]]
    /\ sock \in [Rid -> 0 .. MaxConn] /\ stage \in [Rid -> {"off", "busy", "ready"}]

Kept ==
    /\ copies \in [Inst -> [Rid -> {None} \cup 1 .. now]]
    /\ \A i \in Inst, r \in Rid : copies[i][r] # None => local[i][r] # 0
    /\ \A i \in Inst, r \in Rid : copies[i][r] <= auth[r]

Passes ==
    /\ seen \in [Inst -> 0 .. losses + 1]
    /\ beat \in [Inst -> [pc : {"idle", "mint", "again", "put"}, done : SUBSET Rid]]
    /\ DOMAIN walk = Inst
    /\ \A i \in Inst : DOMAIN walk[i] \subseteq Rid

Under == [inst : Inst, rid : Rid, sock : 1 .. MaxConn, at : 1 .. now,
          got : {"none", "entry", "frame"} \cup Answers]

Traffic ==
    /\ kicks \subseteq [inst : Inst, rid : Rid, num : 1 .. MaxConn]
    /\ calls \subseteq Under
    /\ \A c \in calls : c.at <= auth[c.rid]

Ghosts == auth \in [Rid -> 0 .. now] /\ excused \subseteq Rid

Inv ==
    /\ Clocks /\ Lives /\ Owners /\ Sockets /\ Kept /\ Passes /\ Traffic /\ Ghosts

-----------------------------------------------------------------------------
\* A non-empty set of naturals has a least member.
LEMMA Smallest ==
  ASSUME NEW T, T \subseteq Nat, T # {}
  PROVE  \E x \in T : \A y \in T : x <= y
<1> DEFINE R == {p \in Nat \X Nat : p[1] < p[2]}
<1>1. IsWellFoundedOn(OpToRel(<, Nat), Nat)
  BY NatLessThanWellFounded
<1>2. OpToRel(<, Nat) = R
  BY DEF OpToRel
<1>3. IsWellFoundedOn(R, Nat)
  BY <1>1, <1>2
<1>4. \A x, y \in Nat : x < y => <<x, y>> \in R
  OBVIOUS
<1> HIDE DEF R
<1>5. PICK x \in T : \A y \in T : ~ (<<y, x>> \in R)
  BY <1>3, WFMin, Zenon
<1>6. \A y \in T : ~(y < x)
  BY <1>4, <1>5, Zenon
<1> QED
  BY <1>5, <1>6

\* The sockets opened are counted: no device's newest is numbered above.
LEMMA OpenedCounts ==
  ASSUME Sockets
  PROVE  Opened \in 0 .. MaxConn /\ \A r \in Rid : sock[r] <= Opened
<1> DEFINE Bounds == {n \in 0 .. MaxConn : \A r \in Rid : sock[r] <= n}
<1>1. MaxConn \in Bounds /\ Bounds \subseteq Nat
  BY IntroAssumption DEF Sockets
<1>2. PICK m \in Bounds : \A n \in Bounds : m <= n
  BY <1>1, Smallest, Zenon
<1>3. m = 0 \/ \E r \in Rid : sock[r] = m
  <2>1. SUFFICES ASSUME m # 0, \A r \in Rid : sock[r] # m
                 PROVE  FALSE
    OBVIOUS
  <2>2. m \in 1 .. MaxConn /\ \A r \in Rid : sock[r] \in Int /\ sock[r] <= m
    BY <1>2, <2>1, IntroAssumption DEF Sockets
  <2>3. m - 1 \in 0 .. MaxConn /\ \A r \in Rid : sock[r] <= m - 1
    BY <2>1, <2>2, IntroAssumption
  <2>4. m - 1 \in Bounds /\ ~(m <= m - 1)
    BY <2>2, <2>3
  <2> QED
    BY <1>2, <2>4
<1>4. \E n \in 0 .. MaxConn : /\ \A r \in Rid : sock[r] <= n
                              /\ n = 0 \/ \E r \in Rid : sock[r] = n
  BY <1>2, <1>3
<1> QED
  BY <1>4, Zenon DEF Opened

LEMMA InitInv == Init => Inv
<1> SUFFICES ASSUME Init PROVE Inv
  OBVIOUS
<1> USE IntroAssumption
<1>1. Clocks
  BY DEF Init, Clocks
<1>2. Lives /\ Owners /\ Ghosts
  BY DEF Init, Lives, Owners, Ghosts
<1>3. Sockets /\ Kept
  BY DEF Init, Sockets, Kept, None
<1>4. Passes /\ Traffic
  BY DEF Init, Passes, Traffic, Idle, NoWalk
<1> QED
  BY <1>1, <1>2, <1>3, <1>4 DEF Inv

-----------------------------------------------------------------------------
\* A step keeps each part.  In each proof: the actions that touch it, then the
\* others, which leave its variables as they were.

LEMMA ClocksStep == ASSUME Inv, Next PROVE Clocks'
<1> USE IntroAssumption
<1>1. ASSUME NEW i \in Inst, Crash(i) PROVE Clocks'
  BY <1>1 DEF Inv, Clocks, Crash, store
<1>2. ASSUME NEW i \in Inst, MintEpoch(i) PROVE Clocks'
  BY <1>2 DEF Inv, Clocks, MintEpoch, counts
<1>3. ASSUME NEW i \in Inst, NEW r \in Rid, PutBack(i, r) PROVE Clocks'
  BY <1>3 DEF Inv, Clocks, PutBack
<1>4. CASE LoseStore
  BY <1>4 DEF Inv, Clocks, LoseStore
<1>5. CASE Tick
  BY <1>5 DEF Inv, Clocks, Tick, counts
<1>6. CASE UNCHANGED <<now, losses, faults, epoch>>
  BY <1>6 DEF Inv, Clocks
<1> QED
  BY <1>1, <1>2, <1>3, <1>4, <1>5, <1>6 
     DEF Next, Heartbeat, Login, Unregister, OnKick, SetKey, Replied, AskEpoch, AskAgain,
         EndBeat, Walk, Evict, counts, store

LEMMA LivesStep == ASSUME Inv, Next PROVE Lives'
<1> USE IntroAssumption
<1>1. ASSUME NEW r \in Rid, NEW i \in Inst, Login(r, i) PROVE Lives'
  BY <1>1 DEF Inv, Clocks, Lives, Ghosts, Login, Renewed
<1>2. ASSUME NEW c \in calls, SetKey(c) PROVE Lives'
  <2>1. c.rid \in Rid
    BY DEF Inv, Traffic, Under
  <2>2. PICK o \in Outcomes(c.rid) : dies' = [dies EXCEPT ![c.rid] = o[2]]
    BY <1>2 DEF SetKey
  <2>3. o[2] = dies[c.rid] \/ o[2] = now + Ttl \/ o[2] = 0
    BY <2>2 DEF Outcomes
  <2>4. auth' = [auth EXCEPT ![c.rid] = now] /\ now' = now
    BY <1>2 DEF SetKey
  <2> QED
    BY <2>1, <2>2, <2>3, <2>4 DEF Inv, Clocks, Lives, Ghosts
<1>3. ASSUME NEW i \in Inst, NEW r \in Rid, PutBack(i, r) PROVE Lives'
  <2>1. dies' = dies \/ dies' = [dies EXCEPT ![r] = now + Life(i, r)]
    BY <1>3 DEF PutBack
  <2>2. auth' = auth /\ now' = now
    BY <1>3 DEF PutBack
  <2>3. CASE dies' = dies
    BY <2>2, <2>3 DEF Inv, Lives
  <2>4. CASE dies' # dies
    <3>1. Life(i, r) > 0 /\ copies[i][r] # None
      BY <1>3, <2>4 DEF PutBack, Copied
    <3>2. copies[i][r] \in 1 .. now /\ copies[i][r] <= auth[r]
      BY <3>1 DEF Inv, Kept
    <3>3. now + Life(i, r) \in now + 1 .. now + Ttl /\ now + Life(i, r) <= auth[r] + Ttl
      BY <3>1, <3>2 DEF Inv, Clocks, Ghosts, Life
    <3> QED
      BY <2>1, <2>2, <2>4, <3>3 DEF Inv, Lives
  <2> QED
    BY <2>3, <2>4
<1>4. ASSUME NEW i \in Inst, Evict(i) PROVE Lives'
  <2>1. PICK V : dies' = [r \in Rid |-> IF r \in V THEN 0 ELSE dies[r]]
    BY <1>4 DEF Evict
  <2>2. auth' = auth /\ now' = now
    BY <1>4 DEF Evict
  <2> QED
    BY <2>1, <2>2 DEF Inv, Clocks, Lives, Ghosts
<1>5. CASE LoseStore
  BY <1>5 DEF Inv, Clocks, Lives, Ghosts, LoseStore, ghosts
<1>6. CASE Tick
  BY <1>6 DEF Inv, Clocks, Lives, Ghosts, Tick
<1>7. CASE UNCHANGED <<dies, auth, now>>
  BY <1>7 DEF Inv, Lives
<1> QED
  BY <1>1, <1>2, <1>3, <1>4, <1>5, <1>6, <1>7
     DEF Next, Heartbeat, Unregister, OnKick, Crash, Replied, AskEpoch, MintEpoch, AskAgain,
         EndBeat, Walk, ghosts, store

LEMMA OwnersStep == ASSUME Inv, Next PROVE Owners'
<1>1. ASSUME NEW r \in Rid, NEW i \in Inst, Login(r, i) PROVE Owners'
  BY <1>1 DEF Inv, Owners, Login
<1>2. ASSUME NEW r \in Rid, NEW i \in Inst, Unregister(i, r) PROVE Owners'
  BY <1>2 DEF Inv, Owners, Unregister
<1>3. CASE LoseStore
  BY <1>3 DEF Inv, Owners, LoseStore
<1>4. CASE UNCHANGED owner
  BY <1>4 DEF Inv, Owners
<1> QED
  BY <1>1, <1>2, <1>3, <1>4
     DEF Next, Heartbeat, OnKick, Crash, SetKey, Replied, AskEpoch, MintEpoch, AskAgain,
         PutBack, EndBeat, Walk, Evict, Tick, store

LEMMA SocketsStep == ASSUME Inv, Next PROVE Sockets'
<1>1. ASSUME NEW r \in Rid, NEW i \in Inst, Login(r, i) PROVE Sockets'
  <2>1. Opened + 1 \in 0 .. MaxConn
    BY <1>1, OpenedCounts, IntroAssumption DEF Inv, Login
  <2> QED
    BY <1>1, <2>1 DEF Inv, Sockets, Login
<1>2. ASSUME NEW k \in kicks, OnKick(k) PROVE Sockets'
  <2>1. local' = local \/ local' = [local EXCEPT ![k.inst][k.rid] = 0]
    BY <1>2 DEF OnKick, Drop
  <2>2. 0 \in 0 .. MaxConn
    BY IntroAssumption
  <2> QED
    BY <1>2, <2>1, <2>2 DEF Inv, Sockets, OnKick, device
<1>3. ASSUME NEW r \in Rid, NEW i \in Inst, Unregister(i, r) PROVE Sockets'
  BY <1>3, IntroAssumption DEF Inv, Sockets, Unregister, Drop, OffIf
<1>4. ASSUME NEW i \in Inst, Crash(i) PROVE Sockets'
  BY <1>4, IntroAssumption DEF Inv, Sockets, Crash, OffIf
<1>5. ASSUME NEW c \in calls, Replied(c) PROVE Sockets'
  BY <1>5 DEF Inv, Sockets, Replied
<1>6. CASE UNCHANGED <<local, sock, stage>>
  BY <1>6 DEF Inv, Sockets
<1> QED
  BY <1>1, <1>2, <1>3, <1>4, <1>5, <1>6
     DEF Next, Heartbeat, SetKey, AskEpoch, MintEpoch, AskAgain, PutBack, EndBeat, Walk, Evict,
         LoseStore, Tick, device

LEMMA KeptStep == ASSUME Inv, Next PROVE Kept'
<1> USE IntroAssumption DEF None
<1>1. ASSUME NEW r \in Rid, NEW i \in Inst, Login(r, i) PROVE Kept'
  <2>1. Opened + 1 # 0
    BY OpenedCounts DEF Inv
  <2> QED
    BY <1>1, <2>1 DEF Inv, Clocks, Sockets, Kept, Ghosts, Login
<1>2. ASSUME NEW i \in Inst, NEW r \in Rid, Drop(i, r), UNCHANGED <<auth, now>> PROVE Kept'
  BY <1>2 DEF Inv, Sockets, Kept, Ghosts, Drop
<1>3. ASSUME NEW k \in kicks, OnKick(k) PROVE Kept'
  <2>1. Drop(k.inst, k.rid) \/ UNCHANGED <<local, copies>>
    BY <1>3 DEF OnKick
  <2>2. UNCHANGED <<auth, now>>
    BY <1>3 DEF OnKick, ghosts
  <2>3. k.inst \in Inst /\ k.rid \in Rid
    BY DEF Inv, Traffic
  <2> QED
    BY <1>2, <2>1, <2>2, <2>3 DEF Inv, Kept
<1>4. ASSUME NEW r \in Rid, NEW i \in Inst, Unregister(i, r) PROVE Kept'
  BY <1>2, <1>4 DEF Unregister, ghosts
<1>5. ASSUME NEW i \in Inst, Crash(i) PROVE Kept'
  BY <1>5 DEF Inv, Kept, Ghosts, Crash, ghosts
<1>6. ASSUME NEW c \in calls, SetKey(c) PROVE Kept'
  BY <1>6 DEF Inv, Clocks, Kept, Ghosts, SetKey
<1>7. ASSUME NEW c \in calls, Replied(c) PROVE Kept'
  <2>1. c.inst \in Inst /\ c.rid \in Rid /\ c.sock # 0 /\ c.at \in 1 .. now /\ c.at <= auth[c.rid]
    BY DEF Inv, Traffic, Under
  <2>2. copies' = [copies EXCEPT ![c.inst][c.rid] = Copy(c)]
    BY <1>7 DEF Replied
  <2>3. \/ Copy(c) = copies[c.inst][c.rid]
        \/ Copy(c) = c.at /\ local[c.inst][c.rid] = c.sock
    BY DEF Copy, IsLocal
  <2>4. UNCHANGED <<auth, now, local>>
    BY <1>7 DEF Replied, ghosts
  <2> QED
    BY <2>1, <2>2, <2>3, <2>4 DEF Inv, Kept
<1>8. ASSUME NEW i \in Inst, NEW r \in Rid, PutBack(i, r) PROVE Kept'
  <2>1. copies' = copies \/ copies' = [copies EXCEPT ![i][r] = None]
    BY <1>8 DEF PutBack
  <2>2. UNCHANGED <<auth, now, local>>
    BY <1>8 DEF PutBack
  <2> QED
    BY <2>1, <2>2 DEF Inv, Kept, Ghosts
<1>9. CASE Tick
  BY <1>9 DEF Inv, Clocks, Kept, Ghosts, Tick
<1>10. CASE UNCHANGED <<copies, local, auth, now>>
  BY <1>10 DEF Inv, Kept
<1> QED
  BY <1>1, <1>3, <1>4, <1>5, <1>6, <1>7, <1>8, <1>9, <1>10
     DEF Next, Heartbeat, AskEpoch, MintEpoch, AskAgain, EndBeat, Walk, Evict, LoseStore, ghosts

LEMMA PassesStep == ASSUME Inv, Next PROVE Passes'
<1> USE IntroAssumption DEF Idle
<1>1. ASSUME NEW i \in Inst, Crash(i) PROVE Passes'
  BY <1>1 DEF Inv, Clocks, Passes, Crash, NoWalk
<1>2. ASSUME NEW i \in Inst, NEW e \in 0 .. losses + 1, See(i, e), UNCHANGED <<walk, losses>>
      PROVE Passes'
  BY <1>2 DEF Inv, Passes, See, BeatTo
<1>3. ASSUME NEW i \in Inst, NEW b \in [pc : {"idle", "mint", "again", "put"}, done : SUBSET Rid],
             BeatTo(i, b), UNCHANGED <<seen, walk, losses>>
      PROVE Passes'
  BY <1>3 DEF Inv, Passes, BeatTo
<1>4. epoch \in 0 .. losses + 1
  BY DEF Inv, Clocks
<1>5. ASSUME NEW i \in Inst, AskEpoch(i) PROVE Passes'
  BY <1>2, <1>3, <1>4, <1>5 DEF AskEpoch, counts
<1>6. ASSUME NEW i \in Inst, MintEpoch(i) \/ EndBeat(i) PROVE Passes'
  BY <1>3, <1>6 DEF MintEpoch, EndBeat, counts
<1>7. ASSUME NEW i \in Inst, AskAgain(i) PROVE Passes'
  BY <1>2, <1>4, <1>7 DEF AskAgain, counts
<1>8. ASSUME NEW i \in Inst, NEW r \in Rid, PutBack(i, r) PROVE Passes'
  <2>1. [beat[i] EXCEPT !.done = @ \cup {r}]
          \in [pc : {"idle", "mint", "again", "put"}, done : SUBSET Rid]
    BY DEF Inv, Passes
  <2>2. BeatTo(i, [beat[i] EXCEPT !.done = @ \cup {r}]) /\ UNCHANGED <<seen, walk, losses>>
    BY <1>8 DEF PutBack, Done
  <2> QED
    BY <1>3, <2>1, <2>2
<1>9. ASSUME NEW i \in Inst, Walk(i) PROVE Passes'
  BY <1>9 DEF Inv, Passes, Walk, Held, counts
<1>10. ASSUME NEW i \in Inst, Evict(i) PROVE Passes'
  BY <1>10 DEF Inv, Passes, Evict, NoWalk, counts
<1>11. CASE LoseStore
  BY <1>11 DEF Inv, Clocks, Passes, LoseStore
<1>12. CASE UNCHANGED <<seen, beat, walk, losses>>
  BY <1>12 DEF Inv, Passes
<1> QED
  BY <1>1, <1>5, <1>6, <1>7, <1>8, <1>9, <1>10, <1>11, <1>12
     DEF Next, Heartbeat, Login, Unregister, OnKick, SetKey, Replied, Tick, counts

LEMMA TrafficStep == ASSUME Inv, Next PROVE Traffic'
<1> USE IntroAssumption
<1>1. ASSUME NEW r \in Rid, NEW i \in Inst, Login(r, i) PROVE Traffic'
  <2>1. PICK n \in 1 .. MaxConn : n = Opened + 1
    BY <1>1, OpenedCounts DEF Inv, Login
  <2>2. sock'[r] = n
    BY <1>1, <2>1 DEF Inv, Sockets, Login
  <2>3. kicks' = kicks \cup {[inst |-> j, rid |-> r, num |-> n] : j \in owner[r] \ {i}}
    BY <1>1, <2>2 DEF Login
  <2>4. PICK c \in Under : c.at = now /\ c.rid = r /\ calls' = calls \cup {c}
    <3>1. PICK got \in {"none", "entry"} : calls' = calls \cup {Call(i, r, n, got)}
      BY <1>1, <2>2 DEF Login
    <3>2. Call(i, r, n, got) \in Under /\ Call(i, r, n, got).at = now /\ Call(i, r, n, got).rid = r
      BY DEF Inv, Clocks, Call, Under
    <3> QED
      BY <3>1, <3>2
  <2>5. auth' = [auth EXCEPT ![r] = now] /\ now' = now
    BY <1>1 DEF Login
  <2>6. kicks' \subseteq [inst : Inst, rid : Rid, num : 1 .. MaxConn]
    BY <2>3 DEF Inv, Traffic, Owners
  <2>7. calls' \subseteq Under'
    BY <2>4, <2>5 DEF Inv, Traffic, Under
  <2>8. \A d \in calls' : d.at <= auth'[d.rid]
    BY <2>4, <2>5 DEF Inv, Clocks, Traffic, Ghosts, Under
  <2> QED
    BY <2>6, <2>7, <2>8 DEF Traffic
<1>2. ASSUME kicks' \subseteq kicks, calls' \subseteq calls, UNCHANGED <<auth, now>> PROVE Traffic'
  BY <1>2 DEF Inv, Traffic, Under
<1>3. ASSUME NEW k \in kicks, OnKick(k) PROVE Traffic'
  BY <1>2, <1>3 DEF OnKick, ghosts
<1>4. ASSUME NEW r \in Rid, NEW i \in Inst, Unregister(i, r) PROVE Traffic'
  BY <1>2, <1>4 DEF Unregister, ghosts
<1>5. ASSUME NEW i \in Inst, Crash(i) PROVE Traffic'
  BY <1>2, <1>5 DEF Crash, ghosts
<1>6. ASSUME NEW c \in calls, SetKey(c) PROVE Traffic'
  <2>1. c \in Under
    BY DEF Inv, Traffic
  <2>2. PICK o \in Outcomes(c.rid) :
          calls' = (calls \ {c}) \cup {Call(c.inst, c.rid, c.sock, o[1])}
    BY <1>6 DEF SetKey
  <2>3. o[1] \in Answers
    BY <2>2 DEF Outcomes, Answers
  <2>4. Call(c.inst, c.rid, c.sock, o[1]) \in Under
    BY <2>1, <2>3 DEF Inv, Clocks, Call, Under
  <2>5. UNCHANGED <<kicks, now>> /\ auth' = [auth EXCEPT ![c.rid] = now]
    BY <1>6 DEF SetKey
  <2>6. calls' \subseteq Under'
    BY <2>2, <2>4, <2>5 DEF Inv, Traffic, Under
  <2>7. \A d \in calls' : d.at <= auth'[d.rid]
    <3>1. Call(c.inst, c.rid, c.sock, o[1]).at = now /\ Call(c.inst, c.rid, c.sock, o[1]).rid = c.rid
      BY DEF Call
    <3>2. c.rid \in Rid
      BY <2>1 DEF Under
    <3>3. \A d \in calls : d.rid \in Rid /\ d.at \in 1 .. now
      BY DEF Inv, Traffic, Under
    <3> QED
      BY <2>2, <2>5, <3>1, <3>2, <3>3 DEF Inv, Clocks, Traffic, Ghosts
  <2> QED
    BY <2>5, <2>6, <2>7 DEF Inv, Traffic
<1>7. ASSUME NEW c \in calls, Replied(c) PROVE Traffic'
  <2>1. c \in Under /\ c.at <= auth[c.rid]
    BY DEF Inv, Traffic
  <2>2. [c EXCEPT !.got = "frame"] \in Under
    BY <2>1 DEF Under
  <2>3. calls' \subseteq calls \cup {[c EXCEPT !.got = "frame"]}
    BY <1>7 DEF Replied
  <2>4. UNCHANGED <<kicks, auth, now>>
    BY <1>7 DEF Replied, ghosts
  <2>5. [c EXCEPT !.got = "frame"].at = c.at /\ [c EXCEPT !.got = "frame"].rid = c.rid
    BY <2>1 DEF Under
  <2> QED
    BY <2>1, <2>2, <2>3, <2>4, <2>5 DEF Inv, Traffic, Under
<1>8. CASE Tick
  <2>1. kicks' = {} /\ calls' = {}
    BY <1>8 DEF Tick
  <2> QED
    BY <2>1 DEF Traffic
<1>9. CASE UNCHANGED <<kicks, calls, auth, now>>
  BY <1>2, <1>9
<1> QED
  BY <1>1, <1>3, <1>4, <1>5, <1>6, <1>7, <1>8, <1>9
     DEF Next, Heartbeat, AskEpoch, MintEpoch, AskAgain, PutBack, EndBeat, Walk, Evict, LoseStore,
         ghosts

LEMMA GhostsStep == ASSUME Inv, Next PROVE Ghosts'
<1>1. ASSUME NEW r \in Rid, NEW i \in Inst, Login(r, i) PROVE Ghosts'
  BY <1>1 DEF Inv, Clocks, Ghosts, Login
<1>2. ASSUME NEW c \in calls, SetKey(c) PROVE Ghosts'
  <2>1. c.rid \in Rid
    BY DEF Inv, Traffic, Under
  <2>2. auth' = [auth EXCEPT ![c.rid] = now] /\ now' = now /\ excused' \subseteq excused \cup {c.rid}
    BY <1>2 DEF SetKey
  <2> QED
    BY <2>1, <2>2 DEF Inv, Clocks, Ghosts
<1>3. ASSUME NEW i \in Inst, NEW r \in Rid, PutBack(i, r) PROVE Ghosts'
  BY <1>3 DEF Inv, Ghosts, PutBack
<1>4. ASSUME NEW i \in Inst, Evict(i) PROVE Ghosts'
  <2>1. PICK V \in Victims(walk[i]) : excused' = excused \cup V
    BY <1>4 DEF Evict
  <2>2. V \subseteq Rid
    BY <2>1 DEF Victims, Inv, Passes
  <2>3. auth' = auth /\ now' = now
    BY <1>4 DEF Evict
  <2> QED
    BY <2>1, <2>2, <2>3 DEF Inv, Ghosts
<1>5. CASE Tick
  BY <1>5 DEF Inv, Clocks, Ghosts, Tick, Held
<1>6. CASE UNCHANGED <<auth, excused, now>>
  BY <1>6 DEF Inv, Ghosts
<1> QED
  BY <1>1, <1>2, <1>3, <1>4, <1>5, <1>6
     DEF Next, Heartbeat, OnKick, Unregister, Crash, Replied, AskEpoch, MintEpoch, AskAgain,
         EndBeat, Walk, LoseStore, ghosts

\* Every step keeps the invariant.
LEMMA InvStep == Inv /\ [Next]_vars => Inv'
<1> SUFFICES ASSUME Inv, [Next]_vars PROVE Inv'
  OBVIOUS
<1>1. CASE Next
  BY <1>1, ClocksStep, LivesStep, OwnersStep, SocketsStep, KeptStep, PassesStep, TrafficStep,
     GhostsStep DEF Inv
<1>2. CASE UNCHANGED vars
  <2>1. UNCHANGED <<dies, epoch, owner, now, losses, faults, local, copies, seen, beat, walk,
                    kicks, calls, sock, stage, auth, excused>>
    BY <1>2 DEF vars, store, device, counts, ghosts
  <2>2. Clocks' /\ Lives' /\ Owners' /\ Ghosts'
    BY <2>1 DEF Inv, Clocks, Lives, Owners, Ghosts
  <2>3. Sockets' /\ Kept' /\ Passes' /\ Traffic'
    BY <2>1 DEF Inv, Sockets, Kept, Passes, Traffic, Under
  <2> QED
    BY <2>2, <2>3 DEF Inv
<1> QED
  BY <1>1, <1>2

LEMMA InvSays == Inv => TypeOK /\ CopiesHeld /\ LifeEarned
<1> SUFFICES ASSUME Inv PROVE TypeOK /\ CopiesHeld /\ LifeEarned
  OBVIOUS
<1>1. \A r \in Rid : owner[r] \subseteq Inst /\ Cardinality(owner[r]) <= 1
  <2> SUFFICES ASSUME NEW r \in Rid
               PROVE  owner[r] \subseteq Inst /\ Cardinality(owner[r]) <= 1
    OBVIOUS
  <2>1. CASE owner[r] = {}
    <3>1. Cardinality(owner[r]) = 0
      BY <2>1, FS_EmptySet, Zenon
    <3> QED
      BY <2>1, <3>1
  <2>2. ASSUME NEW i \in Inst, owner[r] = {i} PROVE owner[r] \subseteq Inst /\ Cardinality(owner[r]) <= 1
    <3>1. Cardinality(owner[r]) = 1
      BY <2>2, FS_Singleton, Zenon
    <3> QED
      BY <2>2, <3>1
  <2> QED
    BY <2>1, <2>2 DEF Inv, Owners
<1>2. TypeOK
  BY <1>1 DEF Inv, Clocks, Lives, Sockets, Kept, Passes, Traffic, Under, Ghosts, TypeOK
<1>3. CopiesHeld
  BY DEF Inv, Kept, CopiesHeld, Copied
<1>4. LifeEarned
  BY DEF Inv, Lives, LifeEarned, Held
<1> QED
  BY <1>2, <1>3, <1>4

-----------------------------------------------------------------------------
\* Every variable keeps its type: presence names at most one instance, no
\* entry's life exceeds OWNED_TTL, no copy is of the future (server.js
\* 2785-2851).
THEOREM TypeCorrect == Spec => []TypeOK
<1>1. Spec => []Inv
  BY InitInv, InvStep, PTL DEF Spec
<1> QED
  BY <1>1, InvSays, PTL

\* Whatever reply comes after a close, a kick or a crash, an instance holds no
\* copy of a socket that has left it (server.js 2624-2629).
THEOREM CopiesAreHeld == Spec => []CopiesHeld
<1>1. Spec => []Inv
  BY InitInv, InvStep, PTL DEF Spec
<1> QED
  BY <1>1, InvSays, PTL

\* Across replacements, store losses and put-backs, no entry lives more than
\* OWNED_TTL from its device's last login or publish (PROTOCOL 12.7;
\* server.js 2824-2842).
THEOREM LivesAreEarned == Spec => []LifeEarned
<1>1. Spec => []Inv
  BY InitInv, InvStep, PTL DEF Spec
<1> QED
  BY <1>1, InvSays, PTL
=============================================================================
