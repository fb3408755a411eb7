---------------------------- MODULE IntroKeys ----------------------------
(***************************************************************************)
(* Introduction keys in a deployment of several instances (server.js, the  *)
(* Redis coordinator): the shared store keeps one entry per routing id,    *)
(* with a life; each instance keeps a copy of the entry of every socket it *)
(* holds, and its heartbeat puts the copies back when `ik:epoch` says the  *)
(* store came back empty.  A device's key is one for its life, so an entry *)
(* is known by its routing id and only its life is kept here.              *)
(*                                                                         *)
(* Registration is one step (RelayPresence has its commands); a kick may   *)
(* be late or never come.  One connection carries an instance's commands,  *)
(* so their replies are handled in the order they ran: a heartbeat's       *)
(* command is one step and waits for the replies ahead of it.              *)
(***************************************************************************)
EXTENDS Integers, FiniteSets

CONSTANTS
    Rid, Inst,
    Sweepers,     \* the instances whose sweeps are followed
    Ttl,          \* OWNED_TTL, in ticks
    Cap,          \* IKEY_CAP
    MaxConn,      \* bound: the sockets opened
    MaxNow,       \* bound: the clock
    MaxLosses,    \* bound: times the store comes back empty
    MaxFaults     \* bound: crashes of an instance, commands the store refuses

ASSUME IntroAssumption ==
    /\ Sweepers \subseteq Inst
    /\ Ttl \in Nat \ {0} /\ MaxNow \in Nat \ {0}
    /\ {Cap, MaxConn, MaxLosses, MaxFaults} \subseteq Nat

VARIABLES
    dies,      \* the store: when rid's entry expires, 0 if it holds none
    epoch,     \* the store: `ik:epoch`, 0 if it holds none
    owner,     \* the store: the instances presence names for rid, at most one
    now, losses, faults,
    local,     \* instance -> rid -> the socket held, 0 if none
    copies,    \* instance -> rid -> the copy's `at`, None if no copy
    seen,      \* instance -> ikEpoch
    beat,      \* instance -> the epoch check under way
    walk,      \* instance -> the sweep's walk, entry -> life, or NoWalk
    kicks,     \* kicks published and not handled
    calls,     \* login and publish commands whose reply is not handled, and
               \* publish frames not read
    sock, stage,  \* device: its newest socket, and how far that one has come
    auth,      \* ghost: when the device last logged in or published
    excused    \* ghost: entries gone for a reason a heartbeat does not mend

store == <<dies, epoch, owner>>
device == <<sock, stage>>
counts == <<losses, faults>>
ghosts == <<auth, excused>>
vars == <<store, device, counts, ghosts, now, local, copies, seen, beat,
          walk, kicks, calls>>

None == -1
NoWalk == [r \in {} |-> 0]
Idle == [pc |-> "idle", done |-> {}]

Init ==
    /\ dies = [r \in Rid |-> 0] /\ epoch = 0 /\ owner = [r \in Rid |-> {}]
    /\ now = 1 /\ losses = 0 /\ faults = 0
    /\ local = [i \in Inst |-> [r \in Rid |-> 0]]
    /\ copies = [i \in Inst |-> [r \in Rid |-> None]]
    /\ seen = [i \in Inst |-> 0]
    /\ beat = [i \in Inst |-> Idle]
    /\ walk = [i \in Inst |-> NoWalk]
    /\ kicks = {} /\ calls = {}
    /\ sock = [r \in Rid |-> 0] /\ stage = [r \in Rid |-> "off"]
    /\ auth = [r \in Rid |-> 0] /\ excused = {}

\* What `ikey_get` answers a fetch: the entry, or that there is none.
Served(r) == dies[r] # 0
Held == {r \in Rid : Served(r)}
Copied(i) == {r \in Rid : copies[i][r] # None}
Opened == CHOOSE n \in 0 .. MaxConn :
            /\ \A r \in Rid : sock[r] <= n
            /\ n = 0 \/ \E r \in Rid : sock[r] = n
IsLocal(i, r, s) == local[i][r] = s
Waiting(i) == \E c \in calls : c.inst = i /\ c.got # "frame"

(* ----------------------------- sockets --------------------------------- *)

Call(i, r, n, got) == [inst |-> i, rid |-> r, sock |-> n, got |-> got, at |-> now]

\* The login script: an entry held lives OWNED_TTL from now.
Renewed(r) == IF dies[r] = 0 THEN 0 ELSE now + Ttl

\* The device opens a socket and registers; presence named another instance:
\* that one is told.  Then the login script runs, and its reply carries the
\* entry.
Login(r, i) ==
    /\ Opened < MaxConn
    /\ sock' = [sock EXCEPT ![r] = Opened + 1]
    /\ stage' = [stage EXCEPT ![r] = "busy"]
    /\ local' = [local EXCEPT ![i][r] = sock'[r]]
    /\ owner' = [owner EXCEPT ![r] = {i}]
    /\ kicks' = kicks \cup
         {[inst |-> j, rid |-> r, num |-> sock'[r]] : j \in owner[r] \ {i}}
    /\ dies' = [dies EXCEPT ![r] = Renewed(r)]
    /\ calls' = calls \cup
         {Call(i, r, sock'[r], IF dies[r] = 0 THEN "none" ELSE "entry")}
    /\ auth' = [auth EXCEPT ![r] = now]
    /\ excused' = excused \ {r}
    /\ UNCHANGED <<epoch, counts, now, copies, seen, beat, walk>>

Drop(i, r) ==
    /\ local' = [local EXCEPT ![i][r] = 0]
    /\ copies' = [copies EXCEPT ![i][r] = None]

OffIf(P(_)) == stage' = [r \in Rid |-> IF P(r) THEN "off" ELSE stage[r]]

OnKick(k) ==
    /\ kicks' = kicks \ {k}
    /\ IF local[k.inst][k.rid] \in 1 .. k.num - 1
       THEN Drop(k.inst, k.rid)
       ELSE UNCHANGED <<local, copies>>
    /\ UNCHANGED <<store, device, counts, ghosts, now, seen, beat, walk, calls>>

Unregister(i, r) ==
    /\ local[i][r] # 0
    /\ Drop(i, r)
    /\ OffIf(LAMBDA q : q = r /\ local[i][r] = sock[r])
    /\ owner' = [owner EXCEPT ![r] = @ \ {i}]
    /\ kicks' = {k \in kicks : k.inst # i \/ k.rid # r}   \* nothing to close
    /\ UNCHANGED <<dies, epoch, sock, counts, ghosts, now, seen, beat, walk,
                   calls>>

Crash(i) ==
    /\ faults < MaxFaults
    /\ faults' = faults + 1
    /\ OffIf(LAMBDA r : local[i][r] # 0 /\ local[i][r] = sock[r])
    /\ local' = [local EXCEPT ![i] = [r \in Rid |-> 0]]
    /\ copies' = [copies EXCEPT ![i] = [r \in Rid |-> None]]
    /\ seen' = [seen EXCEPT ![i] = 0]
    /\ beat' = [beat EXCEPT ![i] = Idle]
    /\ walk' = [walk EXCEPT ![i] = NoWalk]
    /\ calls' = {c \in calls : c.inst # i}
    /\ kicks' = {k \in kicks : k.inst # i}
    /\ UNCHANGED <<store, sock, losses, ghosts, now>>

(* ------------------------------ publish -------------------------------- *)

\* What the publish script can answer, and when the entry then expires: one
\* held is replaced and keeps its life; a new one is refused for an address
\* over its minute.
Outcomes(r) ==
    IF Served(r) THEN {<<"replaced", dies[r]>>}
    ELSE {<<"set", now + Ttl>>, <<"limited", 0>>}

\* A publish frame is read and the script runs.
SetKey(c) ==
    /\ c.got = "frame"
    /\ \E o \in Outcomes(c.rid) :
         /\ dies' = [dies EXCEPT ![c.rid] = o[2]]
         /\ calls' = (calls \ {c}) \cup {Call(c.inst, c.rid, c.sock, o[1])}
         /\ excused' = IF o[1] = "limited" THEN excused \cup {c.rid} ELSE excused
    /\ auth' = [auth EXCEPT ![c.rid] = now]
    /\ UNCHANGED <<epoch, owner, device, counts, now, local, copies, seen, beat,
                   walk, kicks>>

\* Mutant: a copy is kept whether or not its socket is still here.
CopyAnyway(c) ==
    CASE c.got \in {"none", "limited"} -> copies[c.inst][c.rid]
      [] c.got = "replaced" /\ c.rid \in Copied(c.inst) -> copies[c.inst][c.rid]
      [] OTHER -> c.at

\* The copy a reply leaves: none for no entry, and only while its socket is
\* here; a replacement keeps the life its copy had.
Copy(c) ==
    CASE c.got \in {"none", "limited"} \/ ~IsLocal(c.inst, c.rid, c.sock) ->
           copies[c.inst][c.rid]
      [] c.got = "replaced" /\ c.rid \in Copied(c.inst) -> copies[c.inst][c.rid]
      [] OTHER -> c.at

\* A reply is handled: `ready`, or `ikey_ok` or a refusal.  A device still
\* here whose entry `ready` does not name publishes.
Replied(c) ==
    LET publishes == c.got = "none" /\ IsLocal(c.inst, c.rid, c.sock)
    IN /\ c.got # "frame"
       /\ calls' = (calls \ {c}) \cup
            {f \in {[c EXCEPT !.got = "frame"]} : publishes}
       /\ copies' = [copies EXCEPT ![c.inst][c.rid] = Copy(c)]
       /\ stage' = IF c.sock = sock[c.rid] /\ stage[c.rid] = "busy" /\ ~publishes
                   THEN [stage EXCEPT ![c.rid] = "ready"] ELSE stage
       /\ UNCHANGED <<store, sock, counts, ghosts, now, local, seen, beat, walk,
                      kicks>>

(* --------------------------- the heartbeat ----------------------------- *)

At(i, pc) == beat[i].pc = pc /\ ~Waiting(i)
BeatTo(i, b) == beat' = [beat EXCEPT ![i] = b]

\* Mutant: the first epoch an instance reads is no change.
SeeFirst(i, e) ==
    /\ seen' = [seen EXCEPT ![i] = e]
    /\ BeatTo(i, IF e = seen[i] \/ seen[i] = 0 THEN Idle
                 ELSE [pc |-> "put", done |-> {}])

\* The epoch read: recorded before any copy goes back, which they do only if
\* it is not the one this instance last read.
See(i, e) ==
    /\ seen' = [seen EXCEPT ![i] = e]
    /\ BeatTo(i, IF e = seen[i] THEN Idle ELSE [pc |-> "put", done |-> {}])

AskEpoch(i) ==
    /\ At(i, "idle") /\ Copied(i) # {}
    /\ IF epoch = 0
       THEN BeatTo(i, [pc |-> "mint", done |-> {}]) /\ UNCHANGED seen
       ELSE See(i, epoch)
    /\ UNCHANGED <<store, device, counts, ghosts, now, local, copies, walk,
                   kicks, calls>>

MintEpoch(i) ==
    /\ At(i, "mint")
    /\ IF epoch = 0
       THEN epoch' = losses + 1
       ELSE UNCHANGED epoch
    /\ BeatTo(i, [pc |-> "again", done |-> {}])
    /\ UNCHANGED <<dies, owner, device, counts, ghosts, now, local,
                   copies, seen, walk, kicks, calls>>

AskAgain(i) ==
    /\ At(i, "again") /\ See(i, epoch)
    /\ UNCHANGED <<store, device, counts, ghosts, now, local, copies, walk,
                   kicks, calls>>

\* Mutant: a copy goes back for a whole life.
WholeLife(i, r) == Ttl

\* The life a copy has left.
Life(i, r) == Ttl - (now - copies[i][r])
Done(i, r) == BeatTo(i, [beat[i] EXCEPT !.done = @ \cup {r}])

\* One copy of the pass: it goes back for the life it had left, where the
\* store holds none.  A refusal is not tried again in this epoch.
PutBack(i, r) ==
    /\ At(i, "put") /\ r \in Copied(i) \ beat[i].done
    /\ Done(i, r)
    /\ \/ /\ local[i][r] = 0 \/ Life(i, r) <= 0
          /\ copies' = [copies EXCEPT ![i][r] = None]
          /\ UNCHANGED <<dies, excused, faults>>
       \/ /\ local[i][r] # 0 /\ Life(i, r) > 0
          /\ IF dies[r] # 0 THEN UNCHANGED dies
             ELSE dies' = [dies EXCEPT ![r] = now + Life(i, r)]
          /\ UNCHANGED <<copies, excused, faults>>
       \/ /\ local[i][r] # 0 /\ Life(i, r) > 0
          /\ faults < MaxFaults /\ faults' = faults + 1
          /\ excused' = excused \cup {r}
          /\ UNCHANGED <<dies, copies>>
    /\ UNCHANGED <<epoch, owner, device, losses, auth, now, local,
                   seen, walk, kicks, calls>>

EndBeat(i) ==
    /\ At(i, "put") /\ Copied(i) \subseteq beat[i].done
    /\ BeatTo(i, Idle)
    /\ UNCHANGED <<store, device, counts, ghosts, now, local, copies, seen,
                   walk, kicks, calls>>

Heartbeat(i) ==
    AskEpoch(i) \/ MintEpoch(i) \/ AskAgain(i) \/ EndBeat(i)
      \/ \E r \in Rid : PutBack(i, r)

(* ------------------------------ the sweep ------------------------------ *)

\* Past the cap, the sweep reads every entry's life ...
Walk(i) ==
    /\ i \in Sweepers /\ walk[i] = NoWalk
    /\ Cardinality(Held) > Cap
    /\ walk' = [walk EXCEPT ![i] = [r \in Held |-> dies[r]]]
    /\ UNCHANGED <<store, device, counts, ghosts, now, local,
                   copies, seen, beat, kicks, calls>>

\* Mutant: one entry too few is forgotten.
VictimsButOne(lives) ==
    LET all == DOMAIN lives
    IN {V \in SUBSET all :
          /\ Cardinality(V) = Cardinality(all) - Cap - 1
          /\ \A v \in V, s \in all \ V : lives[v] <= lives[s]}

\* The excess of the entries walked, those with the least life left.
Victims(lives) ==
    LET all == DOMAIN lives
    IN {V \in SUBSET all :
          /\ Cardinality(V) = Cardinality(all) - Cap
          /\ \A v \in V, s \in all \ V : lives[v] <= lives[s]}

\* ... and forgets the excess as the walk found it.
Evict(i) ==
    /\ walk[i] # NoWalk
    /\ \E V \in Victims(walk[i]) :
         /\ dies' = [r \in Rid |-> IF r \in V THEN 0 ELSE dies[r]]
         /\ excused' = excused \cup V
    /\ walk' = [walk EXCEPT ![i] = NoWalk]
    /\ UNCHANGED <<epoch, owner, device, counts, auth, now, local,
                   copies, seen, beat, kicks, calls>>

(* --------------------------- the environment --------------------------- *)

\* The store, run with persistence off, restarts.
LoseStore ==
    /\ losses < MaxLosses
    /\ losses' = losses + 1
    /\ dies' = [r \in Rid |-> 0] /\ epoch' = 0
    /\ owner' = [r \in Rid |-> {}]
    /\ UNCHANGED <<device, faults, ghosts, now, local, copies, seen,
                   beat, walk, kicks, calls>>

\* A tick is days and a command milliseconds: none is under way, and a kick
\* not handled by then is lost.
Tick ==
    /\ now < MaxNow /\ calls = {}
    /\ \A i \in Inst : beat[i] = Idle /\ walk[i] = NoWalk
    /\ now' = now + 1
    /\ dies' = [r \in Rid |-> IF dies[r] <= now + 1 THEN 0 ELSE dies[r]]
    /\ excused' = excused \cup {r \in Held : dies[r] <= now + 1}
                   \cup {r \in Rid : \E i \in Inst :
                           r \in Copied(i) /\ Life(i, r) <= 1}
    /\ kicks' = {}
    /\ UNCHANGED <<epoch, owner, device, counts, auth, local,
                   copies, seen, beat, walk, calls>>

Next ==
    \/ \E r \in Rid, i \in Inst :
         Login(r, i) \/ Unregister(i, r)
    \/ \E k \in kicks : OnKick(k)
    \/ \E c \in calls : SetKey(c) \/ Replied(c)
    \/ \E i \in Inst : Crash(i) \/ Heartbeat(i) \/ Walk(i) \/ Evict(i)
    \/ LoseStore \/ Tick

Spec == Init /\ [][Next]_vars

\* The heartbeat and the sweep run on timers and their passes end; the store answers, and
\* a frame sent is read.
FairSpec ==
    /\ Spec
    /\ \A i \in Inst : WF_vars(Heartbeat(i))
    /\ \A i \in Sweepers : WF_vars(Walk(i) \/ Evict(i))
    /\ WF_vars(\E c \in calls : SetKey(c) \/ Replied(c))

(* ------------------------------ properties ----------------------------- *)

Answers == {"set", "replaced", "limited"}

\* Every variable has its type: an entry lives at most OWNED_TTL from now, a
\* copy's `at` is past and there is at most one presence (server.js
\* 2785-2851).
TypeOK ==
    /\ dies \in [Rid -> {0} \cup now + 1 .. now + Ttl]
    /\ epoch \in {0, losses + 1}
    /\ \A r \in Rid : owner[r] \subseteq Inst /\ Cardinality(owner[r]) <= 1
    /\ now \in 1 .. MaxNow /\ losses \in 0 .. MaxLosses
    /\ faults \in 0 .. MaxFaults
    /\ local \in [Inst -> [Rid -> 0 .. MaxConn]]
    /\ copies \in [Inst -> [Rid -> {None} \cup 1 .. now]]
    /\ seen \in [Inst -> 0 .. losses + 1]
    /\ beat \in [Inst -> [pc : {"idle", "mint", "again", "put"}, done : SUBSET Rid]]
    /\ \A i \in Inst : DOMAIN walk[i] \subseteq Rid
    /\ kicks \subseteq [inst : Inst, rid : Rid, num : 1 .. MaxConn]
    /\ calls \subseteq [inst : Inst, rid : Rid, sock : 1 .. MaxConn, at : 1 .. now,
                        got : {"none", "entry", "frame"} \cup Answers]
    /\ sock \in [Rid -> 0 .. MaxConn] /\ stage \in [Rid -> {"off", "busy", "ready"}]
    /\ auth \in [Rid -> 0 .. now] /\ excused \subseteq Rid

\* A copy goes with its socket: whatever reply comes after a close or a kick,
\* an instance holds no copy of a socket that has left it (server.js
\* 2624-2629), so that no heartbeat puts a departed device's key back.
CopiesHeld ==
    \A i \in Inst : \A r \in Copied(i) : local[i][r] # 0

\* An entry says that its device authenticated within OWNED_TTL (PROTOCOL
\* 12.7): across replacements, store losses and put-backs, none outlives that
\* much from its device's last login or publish.
LifeEarned == \A r \in Held : dies[r] <= auth[r] + Ttl

\* The store refuses no new entry for being full, and comes back under
\* IKEY_CAP by the sweep alone, though entries are put back, renewed and
\* expire between its walk and its deletes (server.js 3386-3389, 3400-3408).
CapReturns == []<>(Cardinality(Held) <= Cap)

\* A connected device's key comes back after every store loss: at each login
\* and publish raced by a loss, and whichever instance makes the new epoch,
\* unless the cap, its month, a refusal or a failed put-back took it
\* (server.js 2817-2830).
Connected(r) ==
    /\ stage[r] = "ready"
    /\ \E i \in Inst : IsLocal(i, r, sock[r])
KeysReturn ==
    \A r \in Rid : []<>(Connected(r) => (r \in Held \/ r \in excused))
=============================================================================
