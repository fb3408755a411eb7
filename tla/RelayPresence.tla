--------------------------- MODULE RelayPresence ---------------------------
(***************************************************************************)
(* Who is connected where: the registration of sockets by several relay    *)
(* instances that share one Redis store (RedisCoordinator in               *)
(* server/server.js, with the auth and close handlers that call it).       *)
(*                                                                         *)
(* An instance keeps `local`, the socket it holds for a routing id; the    *)
(* store keeps presence:{rid}, the instance that last claimed it, and      *)
(* z:reg, the counter registrations are ordered by.  Every `await` of a    *)
(* store command is an interleaving point.  An instance sends its commands *)
(* over one connection, so they execute in the order it issued them        *)
(* (`cmd`), and publishes over a second one (`pub`); an instance reads its *)
(* own channel z:inst:{id} in order (`chan`).  One action is one store     *)
(* command together with the code that runs when its answer arrives, up to *)
(* the next await.                                                         *)
(***************************************************************************)
EXTENDS Naturals, Sequences

CONSTANTS Inst,     \* relay instances
          Sock,     \* WebSocket connections, each used for one login at most
          Rid,      \* routing ids
          None,     \* no instance, no socket, no routing id
          Faults,   \* the kinds of fault that may happen
          MaxFaults \* bound: how many faults

ASSUME NoneAssumption == None \notin Inst \cup Sock \cup Rid
ASSUME FaultsAssumption == Faults \subseteq {"crash", "full", "fail"} /\ MaxFaults \in Nat

VARIABLES
  st,       \* st[s]: "new", "open" (authenticated, registering), "ready"
            \* (welcomed), "failed" (its register threw), "dead" (readyState
            \* no longer OPEN), "gone" (its close handler has run)
  at,       \* at[s]: the instance s is connected to
  rid,      \* rid[s]: the routing id s authenticated as
  zReg,     \* zReg[s]: ws.zReg, the registration number; 0 if it has none
  up,       \* up[i]: the process is running
  local,    \* local[i][r]: the socket i holds for r
  stale,    \* stale[i]: presenceStale, rids whose presence write was refused
  cmd,      \* cmd[i]: store commands issued and not yet executed
  pub,      \* pub[i]: publishes issued and not yet executed
  chan,     \* chan[i]: published messages i has not handled yet
  presence, \* presence[r]: the instance presence:{rid} names
  reg,      \* z:reg
  full,     \* the store is at its memory limit: it refuses what takes memory
  spent     \* faults so far

sockVars  == <<st, at, rid, zReg>>
storeVars == <<presence, reg, full>>
vars == <<st, at, rid, zReg, up, local, stale, cmd, pub, chan, presence, reg, full, spent>>

Status == {"new", "open", "ready", "failed", "dead", "gone"}
Op     == {"incr", "own", "find", "claim", "check", "del", "beat"}
Cmd    == [op: Op, rid: Rid, ws: Sock \cup {None}, prev: Sock \cup {None}]
Kick   == [to: Inst, rid: Rid, token: Nat, cont: Cmd]
Msg    == [rid: Rid, token: Nat]

TypeOK ==
  /\ st \in [Sock -> Status]
  /\ at \in [Sock -> Inst \cup {None}]
  /\ rid \in [Sock -> Rid \cup {None}]
  /\ zReg \in [Sock -> Nat]
  /\ up \in [Inst -> BOOLEAN]
  /\ local \in [Inst -> [Rid -> Sock \cup {None}]]
  /\ stale \in [Inst -> SUBSET Rid]
  /\ cmd \in [Inst -> Seq(Cmd)]
  /\ pub \in [Inst -> Seq(Kick)]
  /\ chan \in [Inst -> Seq(Msg)]
  /\ presence \in [Rid -> Inst \cup {None}]
  /\ reg \in Nat
  /\ full \in BOOLEAN
  /\ spent \in Nat

Init ==
  /\ st = [s \in Sock |-> "new"]
  /\ at = [s \in Sock |-> None]
  /\ rid = [s \in Sock |-> None]
  /\ zReg = [s \in Sock |-> 0]
  /\ up = [i \in Inst |-> TRUE]
  /\ local = [i \in Inst |-> [r \in Rid |-> None]]
  /\ stale = [i \in Inst |-> {}]
  /\ cmd = [i \in Inst |-> <<>>]
  /\ pub = [i \in Inst |-> <<>>]
  /\ chan = [i \in Inst |-> <<>>]
  /\ presence = [r \in Rid |-> None]
  /\ reg = 0
  /\ full = FALSE
  /\ spent = 0

-----------------------------------------------------------------------------
\* The socket is one the instance can still send on.
Alive(s) == st[s] \in {"open", "ready", "failed"}

\* ws.close(): the close handler runs later, in a turn of its own.
Closed(S) == [s \in Sock |-> IF s \in S /\ Alive(s) THEN "dead" ELSE st[s]]

Issue(i, c) == cmd' = [cmd EXCEPT ![i] = Append(@, c)]

\* The head of i's connection executes; its continuation issues `next`.
Answer(i, next) == cmd' = [cmd EXCEPT ![i] = Tail(@) \o next]

Executes(i, op) == up[i] /\ cmd[i] # <<>> /\ Head(cmd[i]).op = op

Then(c, op) == <<[c EXCEPT !.op = op]>>

-----------------------------------------------------------------------------
\* A socket of i proves it holds r's key; register begins with INCR z:reg.
Auth(s, i, r) ==
  /\ st[s] = "new" /\ up[i]
  /\ st' = [st EXCEPT ![s] = "open"]
  /\ at' = [at EXCEPT ![s] = i]
  /\ rid' = [rid EXCEPT ![s] = r]
  /\ Issue(i, [op |-> "incr", rid |-> r, ws |-> s, prev |-> None])
  /\ UNCHANGED <<zReg, up, local, stale, pub, chan, storeVars, spent>>

\* A full store refuses the counter: the registration keeps 0 and goes on.
RegisterToken(i) ==
  LET c == Head(cmd[i]) IN
  /\ Executes(i, "incr")
  /\ reg' = IF full THEN reg ELSE reg + 1
  /\ zReg' = [zReg EXCEPT ![c.ws] = IF full THEN @ ELSE reg + 1]
  /\ Answer(i, Then(c, "own"))
  /\ UNCHANGED <<st, at, rid, up, local, stale, pub, chan, presence, full, spent>>

\* SET owned:{rid} has answered (or was refused, which is swallowed): the
\* socket takes the routing id over locally, then asks who has presence.
RegisterLocal(i) ==
  LET c == Head(cmd[i]) IN
  /\ Executes(i, "own")
  /\ local' = [local EXCEPT ![i][c.rid] = c.ws]
  /\ Answer(i, <<[c EXCEPT !.op = "find", !.prev = local[i][c.rid]]>>)
  /\ UNCHANGED <<sockVars, up, stale, pub, chan, storeVars, spent>>

\* GET presence:{rid}: another instance's socket is to be kicked first.
RegisterFind(i) ==
  LET c == Head(cmd[i])
      owner == presence[c.rid]
  IN
  /\ Executes(i, "find")
  /\ IF owner \in {None, i}
       THEN Answer(i, Then(c, "claim")) /\ pub' = pub
       ELSE /\ Answer(i, <<>>)
            /\ pub' = [pub EXCEPT ![i] = Append(@,
                 [to |-> owner, rid |-> c.rid, token |-> zReg[c.ws],
                  cont |-> [c EXCEPT !.op = "claim"]])]
  /\ UNCHANGED <<sockVars, up, local, stale, chan, storeVars, spent>>

\* PUBLISH kick: lost if nobody listens on that channel.
RegisterKick(i) ==
  LET k == Head(pub[i]) IN
  /\ up[i] /\ pub[i] # <<>>
  /\ pub' = [pub EXCEPT ![i] = Tail(@)]
  /\ chan' = IF up[k.to]
               THEN [chan EXCEPT ![k.to] = Append(@, [rid |-> k.rid, token |-> k.token])]
               ELSE chan
  /\ Issue(i, k.cont)
  /\ UNCHANGED <<sockVars, up, local, stale, storeVars, spent>>

\* SET presence:{rid}; the auth handler then closes the socket this one
\* replaced on its own instance and welcomes the new one.  The look-up of the
\* account's identity key in between is left out: it changes nothing here and
\* its failure is swallowed.
RegisterClaim(i) ==
  LET c == Head(cmd[i]) IN
  /\ Executes(i, "claim")
  /\ presence' = IF full THEN presence ELSE [presence EXCEPT ![c.rid] = i]
  /\ stale' = IF full THEN [stale EXCEPT ![i] = @ \cup {c.rid}] ELSE stale
  /\ st' = [Closed({c.prev} \ {c.ws}) EXCEPT ![c.ws] = IF @ = "open" THEN "ready" ELSE @]
  /\ Answer(i, <<>>)
  /\ UNCHANGED <<at, rid, zReg, up, local, pub, chan, reg, full, spent>>

-----------------------------------------------------------------------------
\* A client leaves, or the heartbeat terminates a socket that missed a pong.
SocketDies(s) ==
  /\ Alive(s)
  /\ st' = [st EXCEPT ![s] = "dead"]
  /\ UNCHANGED <<at, rid, zReg, up, local, stale, cmd, pub, chan, storeVars, spent>>

\* Mutant: `=== ws` guards the local map and not the presence record.
CloseChecksAlways(s) ==
  LET i == at[s]
      r == rid[s]
  IN
  /\ st[s] = "dead"
  /\ st' = [st EXCEPT ![s] = "gone"]
  /\ local' = IF local[i][r] = s THEN [local EXCEPT ![i][r] = None] ELSE local
  /\ stale' = IF local[i][r] = s THEN [stale EXCEPT ![i] = @ \ {r}] ELSE stale
  /\ Issue(i, [op |-> "check", rid |-> r, ws |-> s, prev |-> None])
  /\ UNCHANGED <<at, rid, zReg, up, pub, chan, storeVars, spent>>

\* The close handler: unregister, which acts only for the socket held.
OnClose(s) ==
  LET i == at[s]
      r == rid[s]
  IN
  /\ st[s] = "dead"
  /\ st' = [st EXCEPT ![s] = "gone"]
  /\ IF local[i][r] = s
       THEN /\ local' = [local EXCEPT ![i][r] = None]
            /\ stale' = [stale EXCEPT ![i] = @ \ {r}]
            /\ Issue(i, [op |-> "check", rid |-> r, ws |-> s, prev |-> None])
       ELSE UNCHANGED <<local, stale, cmd>>
  /\ UNCHANGED <<at, rid, zReg, up, pub, chan, storeVars, spent>>

\* unregister deletes the presence record only if it names this instance.
UnregisterCheck(i) ==
  LET c == Head(cmd[i]) IN
  /\ Executes(i, "check")
  /\ Answer(i, IF presence[c.rid] = i THEN Then(c, "del") ELSE <<>>)
  /\ UNCHANGED <<sockVars, up, local, stale, pub, chan, storeVars, spent>>

UnregisterDel(i) ==
  LET c == Head(cmd[i]) IN
  /\ Executes(i, "del")
  /\ presence' = [presence EXCEPT ![c.rid] = None]
  /\ Answer(i, <<>>)
  /\ UNCHANGED <<sockVars, up, local, stale, pub, chan, reg, full, spent>>

\* Mutant: every kick closes what is held, as before registrations had numbers.
KickAnyway(i) ==
  LET m == Head(chan[i])
      s == local[i][m.rid]
  IN
  /\ up[i] /\ chan[i] # <<>>
  /\ chan' = [chan EXCEPT ![i] = Tail(@)]
  /\ st' = Closed({s})
  /\ local' = [local EXCEPT ![i][m.rid] = None]
  /\ stale' = [stale EXCEPT ![i] = @ \ {m.rid}]
  /\ UNCHANGED <<at, rid, zReg, up, cmd, pub, storeVars, spent>>

\* A kick closes the socket held here only if its registration is older.
OnKick(i) ==
  LET m == Head(chan[i])
      s == local[i][m.rid]
  IN
  /\ up[i] /\ chan[i] # <<>>
  /\ chan' = [chan EXCEPT ![i] = Tail(@)]
  /\ IF s # None /\ zReg[s] >= m.token
       THEN UNCHANGED <<st, local, stale>>
       ELSE /\ st' = Closed({s})
            /\ local' = [local EXCEPT ![i][m.rid] = None]
            /\ stale' = [stale EXCEPT ![i] = @ \ {m.rid}]
  /\ UNCHANGED <<at, rid, zReg, up, cmd, pub, storeVars, spent>>

\* One turn of the heartbeat's loop over `local`; it awaits each write.
Beating(i) == \E k \in DOMAIN cmd[i] : cmd[i][k].op = "beat"

Heartbeat(i, r) ==
  /\ up[i] /\ local[i][r] # None /\ ~Beating(i)
  /\ Issue(i, [op |-> "beat", rid |-> r, ws |-> None, prev |-> None])
  /\ UNCHANGED <<sockVars, up, local, stale, pub, chan, storeVars, spent>>

\* Mutant: the heartbeat writes only the records whose last write was refused.
BeatStaleOnly(i) ==
  LET c == Head(cmd[i]) IN
  /\ Executes(i, "beat")
  /\ presence' = IF full \/ c.rid \notin stale[i] THEN presence ELSE [presence EXCEPT ![c.rid] = i]
  /\ stale' = [stale EXCEPT ![i] = IF full THEN @ \cup {c.rid} ELSE @ \ {c.rid}]
  /\ Answer(i, <<>>)
  /\ UNCHANGED <<sockVars, up, local, pub, chan, reg, full, spent>>

HeartbeatSet(i) ==
  LET c == Head(cmd[i]) IN
  /\ Executes(i, "beat")
  /\ presence' = IF full THEN presence ELSE [presence EXCEPT ![c.rid] = i]
  /\ stale' = [stale EXCEPT ![i] = IF full THEN @ \cup {c.rid} ELSE @ \ {c.rid}]
  /\ Answer(i, <<>>)
  /\ UNCHANGED <<sockVars, up, local, pub, chan, reg, full, spent>>

-----------------------------------------------------------------------------
\* One more fault of this kind.
Fault(kind) == kind \in Faults /\ spent < MaxFaults /\ spent' = spent + 1

\* EX 60 runs out.  The heartbeat writes every 25 s, so a record its instance
\* still refreshes does not.
Expire(r) ==
  LET i == presence[r] IN
  /\ i # None
  /\ ~up[i] \/ local[i][r] = None \/ full
  /\ presence' = [presence EXCEPT ![r] = None]
  /\ UNCHANGED <<sockVars, up, local, stale, cmd, pub, chan, reg, full, spent>>

\* A command fails outright: register's rejection leaves the socket open and
\* unwelcomed, unregister's is swallowed, the heartbeat's marks the rid.
CommandFails(i) ==
  LET c == Head(cmd[i]) IN
  /\ up[i] /\ cmd[i] # <<>> /\ Fault("fail")
  /\ Answer(i, <<>>)
  /\ st' = IF c.op \in {"incr", "own", "find", "claim"}
             THEN [st EXCEPT ![c.ws] = IF @ = "open" THEN "failed" ELSE @]
             ELSE st
  /\ stale' = IF c.op = "beat" THEN [stale EXCEPT ![i] = @ \cup {c.rid}] ELSE stale
  /\ UNCHANGED <<at, rid, zReg, up, local, pub, chan, storeVars>>

\* The store reaches its memory limit, or has room again.
StoreFills ==
  /\ ~full /\ full' = TRUE /\ Fault("full")
  /\ UNCHANGED <<sockVars, up, local, stale, cmd, pub, chan, presence, reg>>

StoreHasRoom ==
  /\ full /\ full' = FALSE
  /\ UNCHANGED <<sockVars, up, local, stale, cmd, pub, chan, presence, reg, spent>>

\* A process dies: its sockets, its RAM and what it had not sent are gone.
Crash(i) ==
  /\ up[i] /\ Fault("crash")
  /\ up' = [up EXCEPT ![i] = FALSE]
  /\ st' = [s \in Sock |-> IF at[s] = i THEN "gone" ELSE st[s]]
  /\ local' = [local EXCEPT ![i] = [r \in Rid |-> None]]
  /\ stale' = [stale EXCEPT ![i] = {}]
  /\ cmd' = [cmd EXCEPT ![i] = <<>>]
  /\ pub' = [pub EXCEPT ![i] = <<>>]
  /\ chan' = [chan EXCEPT ![i] = <<>>]
  /\ UNCHANGED <<at, rid, zReg, storeVars>>

\* It comes back under the same INSTANCE_ID with nothing in RAM.
Restart(i) ==
  /\ ~up[i] /\ up' = [up EXCEPT ![i] = TRUE]
  /\ UNCHANGED <<sockVars, local, stale, cmd, pub, chan, storeVars, spent>>

-----------------------------------------------------------------------------
\* What instance i does with its next store answer.
StoreStep(i) ==
  \/ RegisterToken(i) \/ RegisterLocal(i) \/ RegisterFind(i) \/ RegisterClaim(i)
  \/ UnregisterCheck(i) \/ UnregisterDel(i) \/ HeartbeatSet(i)

InstStep(i) == StoreStep(i) \/ RegisterKick(i) \/ OnKick(i)

Environment ==
  \/ \E s \in Sock : SocketDies(s)
  \/ \E i \in Inst : CommandFails(i) \/ Crash(i) \/ Restart(i)
  \/ StoreFills \/ StoreHasRoom

Next ==
  \/ \E s \in Sock, i \in Inst, r \in Rid : Auth(s, i, r)
  \/ \E s \in Sock : OnClose(s)
  \/ \E i \in Inst : InstStep(i)
  \/ \E i \in Inst, r \in Rid : Heartbeat(i, r)
  \/ \E r \in Rid : Expire(r)
  \/ Environment

Spec == Init /\ [][Next]_vars

\* Replies arrive while the process runs, its socket events and its heartbeat
\* timer (25 s) fire, a key's TTL runs out, a full store is drained by acks and
\* expiry.  Clients, crashes and command failures are left alone.
Fairness ==
  /\ \A i \in Inst : WF_vars(StoreStep(i)) /\ WF_vars(RegisterKick(i)) /\ WF_vars(OnKick(i))
  /\ \A i \in Inst, r \in Rid : SF_vars(Heartbeat(i, r))
  /\ \A s \in Sock : WF_vars(OnClose(s))
  /\ \A r \in Rid : WF_vars(Expire(r))
  /\ WF_vars(StoreHasRoom)

FairSpec == Spec /\ Fairness

-----------------------------------------------------------------------------
\* A socket that has not authenticated is nowhere; one that has is placed.
Placed ==
  \A s \in Sock : IF st[s] = "new" THEN at[s] = None /\ rid[s] = None /\ zReg[s] = 0
                                   ELSE at[s] \in Inst /\ rid[s] \in Rid

\* What an instance holds for r authenticated there, as r.
HeldIsOwn ==
  \A i \in Inst, r \in Rid :
    local[i][r] # None => at[local[i][r]] = i /\ rid[local[i][r]] = r

\* A pending step of a registration is taken for a socket of this instance.
OwnStep(i, c) ==
  c.op \in {"incr", "own", "find", "claim"} =>
    c.ws \in Sock /\ at[c.ws] = i /\ rid[c.ws] = c.rid

\* Some registration of the same routing id is as new as the kick says.
Backed(k) == \E t \in Sock : rid[t] = k.rid /\ zReg[t] >= k.token

OwnCmd(i)  == {c \in Cmd : OwnStep(i, c)}
OwnKick(i) == {k \in Kick : OwnStep(i, k.cont) /\ Backed(k)}
BackedMsg  == {m \in Msg : Backed(m)}

\* The order of registrations: the numbers in use are at most the store's
\* counter, every pending registration step belongs to a socket of its
\* instance and its routing id, and every kick under way carries a number
\* some registration of that routing id holds (server.js register).
RegistrationOrder ==
  /\ Placed
  /\ HeldIsOwn
  /\ \A s \in Sock : zReg[s] <= reg
  /\ \A i \in Inst :
       /\ cmd[i] \in Seq(OwnCmd(i))
       /\ pub[i] \in Seq(OwnKick(i))
       /\ chan[i] \in Seq(BackedMsg)

\* s holds the newest registration of its routing id that has a number.
Newest(s) ==
  /\ zReg[s] # 0
  /\ \A t \in Sock \ {s} : rid[t] = rid[s] => zReg[t] < zReg[s]

\* The newest login of a routing id is never taken out of its instance's hands
\* while its socket is open: not by a kick some other move sent, however late
\* it arrives (a client that moves A, B, A), and not by the close of the
\* socket it replaced.  Only another login on that instance, or the death of
\* the process, ends it (server.js register, _onPub, unregister).
NewestStands ==
  \A i \in Inst, r \in Rid :
    LET s == local[i][r] IN
    s # None /\ Alive(s) /\ Newest(s) /\ up'[i] => local'[i][r] # None

NewestStandsProperty == [][NewestStands]_vars

\* Once a login has been welcomed, no deletion of its presence record by its
\* own instance is on its way: unregister of the socket it replaced was
\* either skipped (it no longer held the routing id) or its GET and DEL were
\* issued before the login's SET on the same connection (server.js
\* unregister, register).
WelcomedStays ==
  \A i \in Inst, r \in Rid :
    local[i][r] # None /\ st[local[i][r]] = "ready" =>
      \A k \in DOMAIN cmd[i] : cmd[i][k].rid = r => cmd[i][k].op \notin {"check", "del"}

\* Some running instance holds a socket for r, or believes it does.
Held(r) == \E i \in Inst : up[i] /\ local[i][r] # None

\* If a routing id stays held by some instance, then from some moment on its
\* presence record names an instance that holds it: whatever deleted or
\* overwrote the record on the way (a registration elsewhere between the GET
\* and the DEL of an unregister, a refused write, a crash), the heartbeat
\* repairs it.
PresenceSettles ==
  \A r \in Rid :
    <>[]Held(r) => <>[](presence[r] # None /\ local[presence[r]][r] # None)

\* The record that someone was connected expires: once none of a routing id's
\* sockets is open any more, its presence record goes for good
\* (docs/DATA_MAP.md:192).
PresenceExpires ==
  \A r \in Rid :
    <>[](\A s \in Sock : rid[s] = r => ~Alive(s)) => <>[](presence[r] = None)
=============================================================================
