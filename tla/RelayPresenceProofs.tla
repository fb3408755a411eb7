----------------------- MODULE RelayPresenceProofs -------------------------
(***************************************************************************)
(* Proofs about RelayPresence, for every set of instances, sockets and     *)
(* routing ids and every number of faults.  The inductive invariant is     *)
(* TypeOK /\ RegistrationOrder: from "every kick under way carries a       *)
(* number some registration of its routing id holds" it follows that no    *)
(* kick can reach the newest registration, which is NewestStands.  For     *)
(* WelcomedStays, Flows adds the order of an instance's queued commands.   *)
(***************************************************************************)
EXTENDS RelayPresence, SequenceTheorems, TLAPS

Inv == TypeOK /\ RegistrationOrder

USE NoneAssumption

\* A relay that starts with no sockets and an empty store satisfies the
\* inductive invariant (server.js RedisCoordinator constructor).
THEOREM InitInv == Init => Inv
<1>. SUFFICES ASSUME Init PROVE Inv
  OBVIOUS
<1>1. TypeOK
  BY EmptySeq DEF Init, TypeOK, Status
<1>2. RegistrationOrder
  BY EmptySeq DEF Init, RegistrationOrder, Placed, HeldIsOwn
<1>. QED  BY <1>1, <1>2 DEF Inv

\* What a store answer leaves pending: the rest of the queue and what the
\* continuation issues.
LEMMA AnswerSeq ==
  ASSUME NEW S, NEW q \in Seq(S), q # <<>>, NEW next \in Seq(S)
  PROVE  Tail(q) \o next \in Seq(S) /\ Head(q) \in S
<1>1. Tail(q) \in Seq(S) /\ Head(q) \in S
  BY HeadTailProperties
<1>. QED  BY <1>1, ConcatProperties

\* Queues of one element and of none.
LEMMA OneSeq == ASSUME NEW S, NEW e \in S PROVE <<e>> \in Seq(S) /\ <<>> \in Seq(S)
BY EmptySeq

\* The command at the head of a connection, and the step that follows it.
LEMMA HeadCmd ==
  ASSUME TypeOK, NEW i \in Inst, cmd[i] # <<>>
  PROVE  /\ Head(cmd[i]) \in Cmd
         /\ \A op \in Op : Then(Head(cmd[i]), op) \in Seq(Cmd)
<1>1. Head(cmd[i]) \in Cmd
  BY HeadTailProperties DEF TypeOK
<1>2. \A op \in Op : [Head(cmd[i]) EXCEPT !.op = op] \in Cmd
  BY <1>1 DEF Cmd
<1>. QED  BY <1>1, <1>2, OneSeq DEF Then

\* A store answer leaves queues of commands (the await of a store command).
LEMMA AnswerTyped ==
  ASSUME TypeOK, NEW i \in Inst, cmd[i] # <<>>, NEW next \in Seq(Cmd), Answer(i, next)
  PROVE  cmd' \in [Inst -> Seq(Cmd)]
<1>1. Tail(cmd[i]) \o next \in Seq(Cmd)
  BY AnswerSeq DEF TypeOK
<1>. QED  BY <1>1 DEF Answer, TypeOK

\* So does a command issued to the store.
LEMMA IssueTyped ==
  ASSUME TypeOK, NEW i \in Inst, NEW c \in Cmd, Issue(i, c)
  PROVE  cmd' \in [Inst -> Seq(Cmd)]
<1>1. Append(cmd[i], c) \in Seq(Cmd)
  BY AppendProperties DEF TypeOK
<1>. QED  BY <1>1 DEF Issue, TypeOK

-----------------------------------------------------------------------------
\* The registration step at the head of a connection is one of its own.
LEMMA HeadOwn ==
  ASSUME Inv, NEW i \in Inst, cmd[i] # <<>>,
         Head(cmd[i]).op \in {"incr", "own", "find", "claim"}
  PROVE  /\ Head(cmd[i]).ws \in Sock
         /\ Head(cmd[i]).rid \in Rid
         /\ at[Head(cmd[i]).ws] = i
         /\ rid[Head(cmd[i]).ws] = Head(cmd[i]).rid
<1>1. Head(cmd[i]) \in OwnCmd(i)
  BY HeadTailProperties DEF Inv, RegistrationOrder
<1>. QED  BY <1>1 DEF OwnCmd, OwnStep, Cmd

\* The steps of register keep the state typed.
LEMMA RegisterTyped ==
  ASSUME Inv, NEW i \in Inst,
         RegisterToken(i) \/ RegisterLocal(i) \/ RegisterFind(i)
           \/ RegisterKick(i) \/ RegisterClaim(i)
  PROVE  TypeOK'
<1>. USE DEF sockVars, storeVars
<1>. TypeOK
  BY DEF Inv
<1>1. CASE RegisterToken(i)
  <2>1. cmd' \in [Inst -> Seq(Cmd)]
    BY <1>1, HeadCmd, AnswerTyped DEF RegisterToken, Executes, Op
  <2>2. zReg' \in [Sock -> Nat] /\ reg' \in Nat
    <3>1. CASE full
      BY <1>1, <3>1 DEF RegisterToken, TypeOK
    <3>2. CASE ~full
      <4>1. reg' = reg + 1 /\ zReg' = [zReg EXCEPT ![Head(cmd[i]).ws] = reg + 1]
        BY <1>1, <3>2, Zenon DEF RegisterToken
      <4>2. reg + 1 \in Nat
        BY DEF TypeOK
      <4>. QED  BY <4>1, <4>2 DEF TypeOK
    <3>. QED  BY <3>1, <3>2
  <2>. QED  BY <1>1, <2>1, <2>2 DEF RegisterToken, TypeOK
<1>2. CASE RegisterLocal(i)
  <2>1. PICK c \in Cmd : c = Head(cmd[i])
    BY <1>2, HeadCmd DEF RegisterLocal, Executes
  <2>2. c.rid \in Rid /\ c.ws \in Sock
    BY <1>2, <2>1, HeadOwn DEF RegisterLocal, Executes
  <2>3. local[i][c.rid] \in Sock \cup {None}
    BY <2>2 DEF TypeOK
  <2>4. [c EXCEPT !.op = "find", !.prev = local[i][c.rid]] \in Cmd
    BY <2>3 DEF Cmd, Op
  <2>5. cmd' \in [Inst -> Seq(Cmd)]
    BY <1>2, <2>1, <2>4, OneSeq, AnswerTyped DEF RegisterLocal, Executes
  <2>6. local' \in [Inst -> [Rid -> Sock \cup {None}]]
    BY <1>2, <2>1, <2>2 DEF RegisterLocal, TypeOK
  <2>. QED  BY <1>2, <2>5, <2>6 DEF RegisterLocal, TypeOK
<1>3. CASE RegisterFind(i)
  <2>1. PICK c \in Cmd : c = Head(cmd[i])
    BY <1>3, HeadCmd DEF RegisterFind, Executes
  <2>2. c.rid \in Rid /\ c.ws \in Sock
    BY <1>3, <2>1, HeadOwn DEF RegisterFind, Executes
  <2>3. cmd' \in [Inst -> Seq(Cmd)]
    BY <1>3, HeadCmd, EmptySeq, AnswerTyped DEF RegisterFind, Executes, Op
  <2>4. pub' \in [Inst -> Seq(Kick)]
    <3>1. CASE presence[c.rid] \in {None, i}
      BY <1>3, <2>1, <3>1 DEF RegisterFind, TypeOK
    <3>2. CASE presence[c.rid] \notin {None, i}
      <4>. DEFINE k == [to |-> presence[c.rid], rid |-> c.rid, token |-> zReg[c.ws],
                        cont |-> [c EXCEPT !.op = "claim"]]
      <4>1. pub' = [pub EXCEPT ![i] = Append(@, k)]
        BY <1>3, <2>1, <3>2 DEF RegisterFind
      <4>2. zReg[c.ws] \in Nat /\ presence[c.rid] \in Inst
        BY <2>2, <3>2 DEF TypeOK
      <4>3. [c EXCEPT !.op = "claim"] \in Cmd
        BY DEF Cmd, Op
      <4>4. k \in Kick
        BY <2>2, <4>2, <4>3 DEF Kick
      <4>5. Append(pub[i], k) \in Seq(Kick)
        BY <4>4, AppendProperties DEF TypeOK
      <4>. QED  BY <4>1, <4>5 DEF TypeOK
    <3>. QED  BY <3>1, <3>2
  <2>. QED  BY <1>3, <2>3, <2>4 DEF RegisterFind, TypeOK
<1>4. CASE RegisterKick(i)
  <2>1. Tail(pub[i]) \in Seq(Kick) /\ Head(pub[i]) \in Kick
    BY <1>4, HeadTailProperties DEF RegisterKick, TypeOK
  <2>2. cmd' \in [Inst -> Seq(Cmd)]
    BY <1>4, <2>1, IssueTyped DEF RegisterKick, Kick
  <2>3. \A m \in Msg : Append(chan[Head(pub[i]).to], m) \in Seq(Msg)
    BY <2>1, AppendProperties DEF Kick, TypeOK
  <2>4. [rid |-> Head(pub[i]).rid, token |-> Head(pub[i]).token] \in Msg
    BY <2>1 DEF Kick, Msg
  <2>5. chan' \in [Inst -> Seq(Msg)] /\ pub' \in [Inst -> Seq(Kick)]
    BY <1>4, <2>1, <2>3, <2>4 DEF RegisterKick, TypeOK
  <2>. QED  BY <1>4, <2>2, <2>5 DEF RegisterKick, TypeOK
<1>5. CASE RegisterClaim(i)
  <2>1. Head(cmd[i]).rid \in Rid /\ cmd[i] # <<>>
    BY <1>5, HeadOwn DEF RegisterClaim, Executes
  <2>2. cmd' \in [Inst -> Seq(Cmd)]
    BY <1>5, <2>1, EmptySeq, AnswerTyped DEF RegisterClaim
  <2>3. st' \in [Sock -> Status]
    BY <1>5 DEF RegisterClaim, Closed, Status, TypeOK
  <2>4. presence' \in [Rid -> Inst \cup {None}] /\ stale' \in [Inst -> SUBSET Rid]
    BY <1>5, <2>1 DEF RegisterClaim, TypeOK
  <2>. QED  BY <1>5, <2>2, <2>3, <2>4 DEF RegisterClaim, TypeOK
<1>. QED  BY <1>1, <1>2, <1>3, <1>4, <1>5

\* So do logins, closed sockets, unregister and a kick received.
LEMMA DepartTyped ==
  ASSUME Inv, Next,
         \/ \E s \in Sock, i \in Inst, r \in Rid : Auth(s, i, r)
         \/ \E s \in Sock : OnClose(s) \/ SocketDies(s)
         \/ \E i \in Inst : UnregisterCheck(i) \/ UnregisterDel(i) \/ OnKick(i)
  PROVE  TypeOK'
<1>. USE DEF sockVars, storeVars
<1>. TypeOK
  BY DEF Inv
<1>1. ASSUME NEW s \in Sock, NEW i \in Inst, NEW r \in Rid, Auth(s, i, r)
      PROVE  TypeOK'
  <2>1. [op |-> "incr", rid |-> r, ws |-> s, prev |-> None] \in Cmd
    BY DEF Cmd, Op
  <2>2. cmd' \in [Inst -> Seq(Cmd)]
    BY <1>1, <2>1, IssueTyped DEF Auth
  <2>. QED  BY <1>1, <2>2 DEF Auth, TypeOK, Status
<1>2. ASSUME NEW s \in Sock, OnClose(s)
      PROVE  TypeOK'
  <2>1. at[s] \in Inst /\ rid[s] \in Rid
    BY <1>2 DEF OnClose, Inv, RegistrationOrder, Placed
  <2>2. [op |-> "check", rid |-> rid[s], ws |-> s, prev |-> None] \in Cmd
    BY <2>1 DEF Cmd, Op
  <2>3. cmd' \in [Inst -> Seq(Cmd)]
    BY <1>2, <2>1, <2>2, IssueTyped DEF OnClose, TypeOK
  <2>4. local' \in [Inst -> [Rid -> Sock \cup {None}]] /\ stale' \in [Inst -> SUBSET Rid]
    <3>1. CASE local[at[s]][rid[s]] = s
      <4>1. local' = [local EXCEPT ![at[s]][rid[s]] = None]
        BY <1>2, <3>1 DEF OnClose
      <4>2. stale' = [stale EXCEPT ![at[s]] = @ \ {rid[s]}]
        BY <1>2, <3>1 DEF OnClose
      <4>. QED  BY <2>1, <4>1, <4>2 DEF TypeOK
    <3>2. CASE local[at[s]][rid[s]] # s
      BY <1>2, <3>2 DEF OnClose, TypeOK
    <3>. QED  BY <3>1, <3>2
  <2>. QED  BY <1>2, <2>3, <2>4 DEF OnClose, TypeOK, Status
<1>3. ASSUME NEW s \in Sock, SocketDies(s)
      PROVE  TypeOK'
  BY <1>3 DEF SocketDies, TypeOK, Status
<1>4. ASSUME NEW i \in Inst, UnregisterCheck(i)
      PROVE  TypeOK'
  <2>1. cmd' \in [Inst -> Seq(Cmd)]
    <3>1. CASE presence[Head(cmd[i]).rid] = i
      BY <1>4, <3>1, HeadCmd, AnswerTyped DEF UnregisterCheck, Executes, Op
    <3>2. CASE presence[Head(cmd[i]).rid] # i
      BY <1>4, <3>2, EmptySeq, AnswerTyped DEF UnregisterCheck, Executes
    <3>. QED  BY <3>1, <3>2
  <2>. QED  BY <1>4, <2>1 DEF UnregisterCheck, TypeOK
<1>5. ASSUME NEW i \in Inst, UnregisterDel(i)
      PROVE  TypeOK'
  <2>1. cmd' \in [Inst -> Seq(Cmd)]
    BY <1>5, EmptySeq, AnswerTyped DEF UnregisterDel, Executes
  <2>. QED  BY <1>5, <2>1 DEF UnregisterDel, TypeOK
<1>6. ASSUME NEW i \in Inst, OnKick(i)
      PROVE  TypeOK'
  <2>1. Tail(chan[i]) \in Seq(Msg) /\ Head(chan[i]) \in Msg
    BY <1>6, HeadTailProperties DEF OnKick, TypeOK
  <2>2. chan' \in [Inst -> Seq(Msg)]
    BY <1>6, <2>1 DEF OnKick, TypeOK
  <2>. DEFINE r == Head(chan[i]).rid
  <2>3. r \in Rid
    BY <2>1 DEF Msg
  <2>4. CASE UNCHANGED <<st, local, stale>>
    BY <1>6, <2>2, <2>4 DEF OnKick, TypeOK
  <2>5. CASE /\ st' = Closed({local[i][r]})
             /\ local' = [local EXCEPT ![i][r] = None]
             /\ stale' = [stale EXCEPT ![i] = @ \ {r}]
    <3>1. st' \in [Sock -> Status]
      BY <2>5 DEF Closed, Status, TypeOK
    <3>2. local' \in [Inst -> [Rid -> Sock \cup {None}]] /\ stale' \in [Inst -> SUBSET Rid]
      BY <2>3, <2>5 DEF TypeOK
    <3>. QED  BY <1>6, <2>2, <3>1, <3>2 DEF OnKick, TypeOK
  <2>. QED  BY <1>6, <2>4, <2>5 DEF OnKick
<1>. QED  BY <1>1, <1>2, <1>3, <1>4, <1>5, <1>6

\* So do the heartbeat, failed commands, crashes and what the store does.
LEMMA UpkeepTyped ==
  ASSUME Inv,
         \/ \E i \in Inst, r \in Rid : Heartbeat(i, r)
         \/ \E i \in Inst : HeartbeatSet(i) \/ CommandFails(i) \/ Crash(i) \/ Restart(i)
         \/ \E r \in Rid : Expire(r)
         \/ StoreFills
         \/ StoreHasRoom
  PROVE  TypeOK'
<1>. USE DEF sockVars, storeVars
<1>. TypeOK
  BY DEF Inv
<1>1. ASSUME NEW i \in Inst, NEW r \in Rid, Heartbeat(i, r)
      PROVE  TypeOK'
  <2>1. [op |-> "beat", rid |-> r, ws |-> None, prev |-> None] \in Cmd
    BY DEF Cmd, Op
  <2>2. cmd' \in [Inst -> Seq(Cmd)]
    BY <1>1, <2>1, IssueTyped DEF Heartbeat
  <2>. QED  BY <1>1, <2>2 DEF Heartbeat, TypeOK
<1>2. ASSUME NEW i \in Inst, HeartbeatSet(i)
      PROVE  TypeOK'
  <2>1. Head(cmd[i]).rid \in Rid
    BY <1>2, HeadCmd DEF HeartbeatSet, Executes, Cmd
  <2>2. cmd' \in [Inst -> Seq(Cmd)]
    BY <1>2, EmptySeq, AnswerTyped DEF HeartbeatSet, Executes
  <2>3. presence' \in [Rid -> Inst \cup {None}] /\ stale' \in [Inst -> SUBSET Rid]
    BY <1>2, <2>1 DEF HeartbeatSet, TypeOK
  <2>. QED  BY <1>2, <2>2, <2>3 DEF HeartbeatSet, TypeOK
<1>3. ASSUME NEW i \in Inst, CommandFails(i)
      PROVE  TypeOK'
  <2>1. Head(cmd[i]).rid \in Rid
    BY <1>3, HeadCmd DEF CommandFails, Cmd
  <2>2. cmd' \in [Inst -> Seq(Cmd)]
    BY <1>3, EmptySeq, AnswerTyped DEF CommandFails
  <2>3. st' \in [Sock -> Status]
    BY <1>3 DEF CommandFails, TypeOK, Status
  <2>4. stale' \in [Inst -> SUBSET Rid]
    BY <1>3, <2>1 DEF CommandFails, TypeOK
  <2>5. spent' \in Nat
    BY <1>3 DEF CommandFails, Fault, TypeOK
  <2>. QED  BY <1>3, <2>2, <2>3, <2>4, <2>5 DEF CommandFails, TypeOK
<1>4. ASSUME NEW i \in Inst, Crash(i)
      PROVE  TypeOK'
  <2>1. st' \in [Sock -> Status] /\ spent' \in Nat /\ up' \in [Inst -> BOOLEAN]
    BY <1>4 DEF Crash, Fault, TypeOK, Status
  <2>2. local' \in [Inst -> [Rid -> Sock \cup {None}]] /\ stale' \in [Inst -> SUBSET Rid]
    BY <1>4 DEF Crash, TypeOK
  <2>3. cmd' \in [Inst -> Seq(Cmd)] /\ pub' \in [Inst -> Seq(Kick)] /\ chan' \in [Inst -> Seq(Msg)]
    BY <1>4, EmptySeq DEF Crash, TypeOK
  <2>. QED  BY <1>4, <2>1, <2>2, <2>3 DEF Crash, TypeOK
<1>5. ASSUME NEW i \in Inst, Restart(i)
      PROVE  TypeOK'
  BY <1>5 DEF Restart, TypeOK
<1>6. ASSUME NEW r \in Rid, Expire(r)
      PROVE  TypeOK'
  BY <1>6 DEF Expire, TypeOK
<1>7. CASE StoreFills
  BY <1>7 DEF StoreFills, Fault, TypeOK
<1>8. CASE StoreHasRoom
  BY <1>8 DEF StoreHasRoom, TypeOK
<1>. QED  BY <1>1, <1>2, <1>3, <1>4, <1>5, <1>6, <1>7, <1>8

\* Every step keeps the state typed.
LEMMA NextTyped == Inv /\ Next => TypeOK'
<1>. SUFFICES ASSUME Inv, Next PROVE TypeOK'
  OBVIOUS
<1>. QED  BY RegisterTyped, DepartTyped, UpkeepTyped DEF Next, InstStep, StoreStep, Environment

-----------------------------------------------------------------------------
\* Where a socket is connected and as whom never changes once it has
\* authenticated, and a registration number is only ever given once.
Grown ==
  \A s \in Sock : /\ zReg[s] <= zReg'[s]
                  /\ st[s] # "new" => at'[s] = at[s] /\ rid'[s] = rid[s] /\ st'[s] # "new"

\* INCR hands out a number above all others, so no earlier order changes.
LEMMA TokenStep ==
  ASSUME Inv, NEW i \in Inst, RegisterToken(i)
  PROVE  Placed' /\ Grown /\ \A s \in Sock : zReg'[s] <= reg'
<1>. TypeOK /\ Placed /\ \A s \in Sock : zReg[s] <= reg
  BY DEF Inv, RegistrationOrder
<1>1. PICK w \in Sock : w = Head(cmd[i]).ws /\ at[w] = i
  BY HeadOwn DEF RegisterToken, Executes
<1>2. st[w] # "new"
  BY <1>1 DEF Placed
<1>3. CASE full
  BY <1>1, <1>2, <1>3 DEF RegisterToken, TypeOK, Placed, Grown
<1>4. CASE ~full
  <2>1. reg' = reg + 1 /\ zReg' = [zReg EXCEPT ![w] = reg + 1]
    BY <1>1, <1>4, Zenon DEF RegisterToken
  <2>2. \A s \in Sock : zReg[s] \in Nat /\ reg \in Nat /\ zReg[s] <= reg
    BY DEF TypeOK
  <2>3. \A s \in Sock : zReg'[s] = (IF s = w THEN reg + 1 ELSE zReg[s])
    BY <2>1 DEF TypeOK
  <2>4. UNCHANGED <<st, at, rid>>
    BY DEF RegisterToken
  <2>5. \A s \in Sock : zReg[s] <= zReg'[s] /\ zReg'[s] <= reg'
    BY <2>1, <2>2, <2>3
  <2>. QED  BY <1>2, <2>3, <2>4, <2>5 DEF Placed, Grown
<1>. QED  BY <1>3, <1>4

\* The same of every step: sockets keep their place and numbers only grow.
LEMMA GrowthStep ==
  ASSUME Inv, Next
  PROVE  Placed' /\ Grown /\ \A s \in Sock : zReg'[s] <= reg'
<1>. USE DEF sockVars, storeVars
<1>. TypeOK /\ Placed /\ \A s \in Sock : zReg[s] <= reg
  BY DEF Inv, RegistrationOrder
<1>. \A s \in Sock : zReg[s] \in Nat /\ zReg[s] <= zReg[s]
  BY DEF TypeOK
<1>1. ASSUME NEW s \in Sock, NEW i \in Inst, NEW r \in Rid, Auth(s, i, r)
      PROVE  Placed' /\ Grown /\ \A t \in Sock : zReg'[t] <= reg'
  BY <1>1 DEF Auth, Placed, Grown, TypeOK
<1>2. ASSUME NEW i \in Inst, RegisterToken(i)
      PROVE  Placed' /\ Grown /\ \A s \in Sock : zReg'[s] <= reg'
  BY <1>2, TokenStep
<1>3. ASSUME UNCHANGED <<at, rid, zReg, reg>>,
             \A s \in Sock : st'[s] = "new" <=> st[s] = "new"
      PROVE  Placed' /\ Grown /\ \A s \in Sock : zReg'[s] <= reg'
  BY <1>3 DEF Placed, Grown
<1>4. ASSUME NEW i \in Inst, RegisterLocal(i) \/ RegisterFind(i) \/ RegisterKick(i)
                              \/ UnregisterCheck(i) \/ UnregisterDel(i) \/ HeartbeatSet(i)
      PROVE  Placed' /\ Grown /\ \A s \in Sock : zReg'[s] <= reg'
  BY <1>3, <1>4 DEF RegisterLocal, RegisterFind, RegisterKick,
                    UnregisterCheck, UnregisterDel, HeartbeatSet
<1>5. ASSUME NEW i \in Inst, RegisterClaim(i) \/ OnKick(i) \/ CommandFails(i)
      PROVE  Placed' /\ Grown /\ \A s \in Sock : zReg'[s] <= reg'
  <2>1. UNCHANGED <<at, rid, zReg, reg>>
    BY <1>5 DEF RegisterClaim, OnKick, CommandFails
  <2>2. \A s \in Sock : st'[s] = "new" <=> st[s] = "new"
    <3>1. \A S : \A s \in Sock : Closed(S)[s] = "new" <=> st[s] = "new"
      BY DEF Closed, Alive
    <3>2. CASE RegisterClaim(i)
      BY <3>1, <3>2 DEF RegisterClaim, Closed
    <3>3. CASE OnKick(i)
      BY <3>1, <3>3 DEF OnKick
    <3>4. CASE CommandFails(i)
      BY <3>4 DEF CommandFails, TypeOK
    <3>. QED  BY <1>5, <3>2, <3>3, <3>4
  <2>. QED  BY <1>3, <2>1, <2>2
<1>6. ASSUME NEW i \in Inst, Crash(i)
      PROVE  Placed' /\ Grown /\ \A s \in Sock : zReg'[s] <= reg'
  <2>1. \A s \in Sock : st'[s] = "new" <=> st[s] = "new"
    BY <1>6 DEF Crash, Placed
  <2>. QED  BY <1>3, <1>6, <2>1 DEF Crash
<1>7. ASSUME NEW s \in Sock, OnClose(s) \/ SocketDies(s)
      PROVE  Placed' /\ Grown /\ \A t \in Sock : zReg'[t] <= reg'
  <2>1. \A t \in Sock : st'[t] = "new" <=> st[t] = "new"
    BY <1>7 DEF OnClose, SocketDies, Alive, TypeOK
  <2>. QED  BY <1>3, <1>7, <2>1 DEF OnClose, SocketDies
<1>8. CASE \/ \E i \in Inst : Restart(i) \/ \E r \in Rid : Heartbeat(i, r)
           \/ \E r \in Rid : Expire(r)
           \/ StoreFills \/ StoreHasRoom
  BY <1>3, <1>8 DEF Restart, Heartbeat, Expire, StoreFills, StoreHasRoom
<1>. QED  BY <1>1, <1>2, <1>4, <1>5, <1>6, <1>7, <1>8
          DEF Next, InstStep, StoreStep, Environment

\* So what was recorded about a pending step or a kick stays true of it.
LEMMA QueuesKeep ==
  ASSUME Inv, Next, NEW i \in Inst
  PROVE  /\ \A q \in Seq(OwnCmd(i)) : q \in Seq(OwnCmd(i)')
         /\ \A q \in Seq(OwnKick(i)) : q \in Seq(OwnKick(i)')
         /\ \A q \in Seq(BackedMsg) : q \in Seq(BackedMsg')
<1>1. Grown /\ Placed /\ TypeOK /\ TypeOK'
  BY GrowthStep, NextTyped DEF Inv, RegistrationOrder
<1>2. ASSUME NEW c \in Cmd, OwnStep(i, c)
      PROVE  OwnStep(i, c)'
  BY <1>1, <1>2 DEF OwnStep, Grown, Placed, Cmd
<1>3. ASSUME NEW m, m.rid \in Rid, m.token \in Nat, Backed(m)
      PROVE  Backed(m)'
  <2>1. PICK t \in Sock : rid[t] = m.rid /\ zReg[t] >= m.token
    BY <1>3 DEF Backed
  <2>2. rid'[t] = m.rid
    BY <1>1, <1>3, <2>1 DEF Grown, Placed
  <2>3. zReg'[t] >= m.token
    BY <1>1, <1>3, <2>1 DEF Grown, TypeOK
  <2>. QED  BY <2>2, <2>3 DEF Backed
<1>4. OwnCmd(i) \subseteq OwnCmd(i)'
  BY <1>2 DEF OwnCmd
<1>5. OwnKick(i) \subseteq OwnKick(i)'
  BY <1>2, <1>3 DEF OwnKick, Kick
<1>6. BackedMsg \subseteq BackedMsg'
  BY <1>3 DEF BackedMsg, Msg
<1>. QED  BY <1>4, <1>5, <1>6, SeqMonotonic

\* Letting go of one socket touches nothing else an instance holds.
LEMMA LetGo ==
  ASSUME TypeOK, NEW i \in Inst, NEW r \in Rid, NEW j \in Inst, NEW q \in Rid,
         local' = [local EXCEPT ![i][r] = None]
  PROVE  local'[j][q] \in {local[j][q], None}
BY DEF TypeOK

\* An instance only ever holds its own sockets, under their routing ids.
LEMMA HeldStep ==
  ASSUME Inv, Next
  PROVE  HeldIsOwn'
<1>. USE DEF sockVars, storeVars
<1>. TypeOK /\ Placed /\ HeldIsOwn /\ Grown
  BY GrowthStep DEF Inv, RegistrationOrder
<1>1. ASSUME \A i \in Inst, r \in Rid : local'[i][r] \in {local[i][r], None}
      PROVE  HeldIsOwn'
  BY <1>1 DEF HeldIsOwn, Grown, Placed, TypeOK
<1>2. ASSUME NEW i \in Inst, RegisterLocal(i)
      PROVE  HeldIsOwn'
  <2>1. PICK w \in Sock, r \in Rid : /\ w = Head(cmd[i]).ws /\ r = Head(cmd[i]).rid
                                     /\ at[w] = i /\ rid[w] = r
    BY <1>2, HeadOwn DEF RegisterLocal, Executes
  <2>2. local' = [local EXCEPT ![i][r] = w] /\ UNCHANGED <<at, rid>>
    BY <1>2, <2>1 DEF RegisterLocal
  <2>. QED  BY <2>1, <2>2 DEF HeldIsOwn, TypeOK
<1>3. ASSUME NEW s \in Sock, OnClose(s)
      PROVE  HeldIsOwn'
  <2>1. local' = local \/ local' = [local EXCEPT ![at[s]][rid[s]] = None]
    BY <1>3 DEF OnClose
  <2>2. at[s] \in Inst /\ rid[s] \in Rid
    BY <1>3 DEF OnClose, Placed
  <2>3. \A i \in Inst, r \in Rid : local'[i][r] \in {local[i][r], None}
    BY <2>1, <2>2, LetGo
  <2>. QED  BY <1>1, <2>3
<1>4. ASSUME NEW i \in Inst, OnKick(i)
      PROVE  HeldIsOwn'
  <2>1. local' = local \/ local' = [local EXCEPT ![i][Head(chan[i]).rid] = None]
    BY <1>4 DEF OnKick
  <2>2. Head(chan[i]) \in Msg
    BY <1>4, HeadTailProperties DEF OnKick, TypeOK
  <2>3. Head(chan[i]).rid \in Rid
    BY <2>2 DEF Msg
  <2>4. \A j \in Inst, r \in Rid : local'[j][r] \in {local[j][r], None}
    BY <2>1, <2>3, LetGo
  <2>. QED  BY <1>1, <2>4
<1>5. ASSUME NEW i \in Inst, Crash(i)
      PROVE  HeldIsOwn'
  BY <1>1, <1>5 DEF Crash, TypeOK
<1>6. CASE UNCHANGED local
  BY <1>1, <1>6
<1>. QED  BY <1>2, <1>3, <1>4, <1>5, <1>6
          DEF Next, InstStep, StoreStep, Environment, Auth, RegisterToken, RegisterFind,
              RegisterKick, RegisterClaim, SocketDies, UnregisterCheck, UnregisterDel,
              Heartbeat, HeartbeatSet, Expire, CommandFails, StoreFills, StoreHasRoom, Restart

-----------------------------------------------------------------------------
QueuesOwn == \A i \in Inst : /\ cmd[i] \in Seq(OwnCmd(i))
                             /\ pub[i] \in Seq(OwnKick(i))
                             /\ chan[i] \in Seq(BackedMsg)

\* After an answer every queue still holds its own instance's steps.
LEMMA AnswerOwn ==
  ASSUME Inv, Next, NEW i \in Inst, cmd[i] # <<>>,
         NEW next \in Seq(OwnCmd(i)'), Answer(i, next)
  PROVE  \A j \in Inst : cmd'[j] \in Seq(OwnCmd(j)')
<1>1. \A j \in Inst : cmd[j] \in Seq(OwnCmd(j)')
  BY QueuesKeep DEF Inv, RegistrationOrder
<1>2. Tail(cmd[i]) \o next \in Seq(OwnCmd(i)')
  BY <1>1, AnswerSeq
<1>. QED  BY <1>1, <1>2 DEF Answer, Inv, TypeOK

\* And after a command is issued.
LEMMA IssueOwn ==
  ASSUME Inv, Next, NEW i \in Inst, NEW c \in OwnCmd(i)', Issue(i, c)
  PROVE  \A j \in Inst : cmd'[j] \in Seq(OwnCmd(j)')
<1>1. \A j \in Inst : cmd[j] \in Seq(OwnCmd(j)')
  BY QueuesKeep DEF Inv, RegistrationOrder
<1>2. Append(cmd[i], c) \in Seq(OwnCmd(i)')
  BY <1>1, AppendProperties
<1>. QED  BY <1>1, <1>2 DEF Issue, Inv, TypeOK

\* The next step of a registration belongs to the same socket.
LEMMA ThenOwn ==
  ASSUME Inv, Next, NEW i \in Inst, cmd[i] # <<>>,
         NEW op \in Op, NEW prev \in Sock \cup {None}, NEW c,
         \/ c = [Head(cmd[i]) EXCEPT !.op = op]
         \/ c = [Head(cmd[i]) EXCEPT !.op = op, !.prev = prev],
         op \in {"check", "del", "beat"} \/ Head(cmd[i]).op \in {"incr", "own", "find", "claim"}
  PROVE  c \in OwnCmd(i)'
<1>1. Head(cmd[i]) \in OwnCmd(i)'
  BY QueuesKeep, HeadTailProperties DEF Inv, RegistrationOrder
<1>2. c \in Cmd
  BY <1>1 DEF OwnCmd, Cmd
<1>3. c.op = op /\ c.ws = Head(cmd[i]).ws /\ c.rid = Head(cmd[i]).rid
  BY <1>1 DEF OwnCmd, Cmd
<1>4. OwnStep(i, c)'
  BY <1>1, <1>3 DEF OwnCmd, OwnStep
<1>. QED  BY <1>2, <1>4 DEF OwnCmd

\* The steps of register leave every pending step its own and every kick backed.
LEMMA RegisterQueues ==
  ASSUME Inv, Next, NEW i \in Inst,
         \/ RegisterToken(i) \/ RegisterLocal(i) \/ RegisterFind(i)
         \/ RegisterKick(i) \/ RegisterClaim(i)
  PROVE  QueuesOwn'
<1>. USE DEF sockVars, storeVars
<1>. /\ TypeOK
     /\ \A j \in Inst : /\ cmd[j] \in Seq(OwnCmd(j)')
                        /\ pub[j] \in Seq(OwnKick(j)')
                        /\ chan[j] \in Seq(BackedMsg')
  BY QueuesKeep DEF Inv, RegistrationOrder
<1>1. ASSUME RegisterToken(i) \/ RegisterLocal(i) \/ RegisterClaim(i)
      PROVE  QueuesOwn'
  <2>1. CASE RegisterToken(i)
    <3>1. Then(Head(cmd[i]), "own") \in Seq(OwnCmd(i)')
      BY <2>1, ThenOwn, OneSeq DEF RegisterToken, Executes, Then, Op
    <3>. QED  BY <2>1, <3>1, AnswerOwn DEF RegisterToken, Executes, QueuesOwn
  <2>2. CASE RegisterLocal(i)
    <3>. DEFINE c == [Head(cmd[i]) EXCEPT !.op = "find", !.prev = local[i][Head(cmd[i]).rid]]
    <3>1. local[i][Head(cmd[i]).rid] \in Sock \cup {None}
      BY <2>2, HeadOwn DEF RegisterLocal, Executes, TypeOK
    <3>2. c \in OwnCmd(i)'
      BY <2>2, <3>1, ThenOwn DEF RegisterLocal, Executes, Op
    <3>3. Answer(i, <<c>>) /\ UNCHANGED <<pub, chan>> /\ cmd[i] # <<>>
      BY <2>2 DEF RegisterLocal, Executes
    <3>. HIDE DEF c
    <3>4. <<c>> \in Seq(OwnCmd(i)')
      BY <3>2, OneSeq
    <3>. QED  BY <3>3, <3>4, AnswerOwn DEF QueuesOwn
  <2>3. CASE RegisterClaim(i)
    BY <2>3, EmptySeq, AnswerOwn DEF RegisterClaim, Executes, QueuesOwn
  <2>. QED  BY <1>1, <2>1, <2>2, <2>3
<1>2. ASSUME RegisterFind(i)
      PROVE  QueuesOwn'
  <2>. DEFINE c == Head(cmd[i])
  <2>1. cmd[i] # <<>> /\ c.op = "find" /\ UNCHANGED <<rid, zReg, at, chan>>
    BY <1>2 DEF RegisterFind, Executes
  <2>2. CASE presence[c.rid] \in {None, i}
    <3>1. Then(c, "claim") \in Seq(OwnCmd(i)')
      BY <2>1, ThenOwn, OneSeq DEF Then, Op
    <3>2. Answer(i, Then(c, "claim")) /\ pub' = pub
      BY <1>2, <2>2 DEF RegisterFind
    <3>. QED  BY <2>1, <3>1, <3>2, AnswerOwn DEF QueuesOwn
  <2>3. CASE presence[c.rid] \notin {None, i}
    <3>. DEFINE d == [c EXCEPT !.op = "claim"]
                sent == [to |-> presence[c.rid], rid |-> c.rid, token |-> zReg[c.ws], cont |-> d]
    <3>1. c.ws \in Sock /\ c.rid \in Rid /\ rid[c.ws] = c.rid
      BY <2>1, HeadOwn
    <3>2. d \in OwnCmd(i)'
      BY <2>1, ThenOwn DEF Op
    <3>3. zReg[c.ws] \in Nat /\ presence[c.rid] \in Inst
      BY <2>3, <3>1 DEF TypeOK
    <3>4. sent \in Kick
      BY <3>1, <3>2, <3>3 DEF Kick, OwnCmd
    <3>5. PICK k \in Kick : k = sent
      BY <3>4
    <3>6. k \in OwnKick(i)'
      <4>1. \E t \in Sock : rid'[t] = k.rid /\ zReg'[t] >= k.token
        BY <2>1, <3>1, <3>3, <3>5
      <4>2. k.cont = d
        BY <3>5
      <4>3. OwnStep(i, k.cont)'
        BY <3>2, <4>2 DEF OwnCmd, OwnStep
      <4>. QED  BY <4>1, <4>3 DEF OwnKick, Backed
    <3>7. pub' = [pub EXCEPT ![i] = Append(@, k)] /\ Answer(i, <<>>)
      BY <1>2, <2>3, <3>5 DEF RegisterFind
    <3>8. \A j \in Inst : pub'[j] \in Seq(OwnKick(j)')
      BY <3>6, <3>7, AppendProperties DEF TypeOK
    <3>. QED  BY <2>1, <3>7, <3>8, EmptySeq, AnswerOwn DEF QueuesOwn
  <2>. QED  BY <2>2, <2>3
<1>3. ASSUME RegisterKick(i)
      PROVE  QueuesOwn'
  <2>. DEFINE k == Head(pub[i])
              m == [rid |-> k.rid, token |-> k.token]
  <2>1. k \in OwnKick(i)' /\ Tail(pub[i]) \in Seq(OwnKick(i)')
    BY <1>3, HeadTailProperties DEF RegisterKick
  <2>2. k.cont \in OwnCmd(i)' /\ k.to \in Inst
    BY <2>1 DEF OwnKick, OwnCmd, Kick
  <2>3. m \in BackedMsg'
    BY <2>1 DEF OwnKick, BackedMsg, Backed, Kick, Msg
  <2>4. \A j \in Inst : pub'[j] \in Seq(OwnKick(j)')
    BY <1>3, <2>1 DEF RegisterKick, TypeOK
  <2>5. Append(chan[k.to], m) \in Seq(BackedMsg')
    BY <2>2, <2>3, AppendProperties
  <2>6. \A j \in Inst : chan'[j] \in Seq(BackedMsg')
    BY <1>3, <2>2, <2>5 DEF RegisterKick, TypeOK
  <2>7. Issue(i, k.cont)
    BY <1>3 DEF RegisterKick
  <2>. QED  BY <2>2, <2>4, <2>6, <2>7, IssueOwn DEF QueuesOwn
<1>. QED  BY <1>1, <1>2, <1>3

\* So does everything else that can happen.
LEMMA OtherQueues ==
  ASSUME Inv, Next,
         \/ \E s \in Sock, i \in Inst, r \in Rid : Auth(s, i, r)
         \/ \E s \in Sock : OnClose(s) \/ SocketDies(s)
         \/ \E i \in Inst : \/ UnregisterCheck(i) \/ UnregisterDel(i) \/ OnKick(i)
                            \/ HeartbeatSet(i) \/ CommandFails(i) \/ Crash(i) \/ Restart(i)
         \/ \E i \in Inst, r \in Rid : Heartbeat(i, r)
         \/ \E r \in Rid : Expire(r)
         \/ StoreFills \/ StoreHasRoom
  PROVE  QueuesOwn'
<1>. USE DEF sockVars, storeVars
<1>. /\ TypeOK /\ Placed
     /\ \A j \in Inst : /\ cmd[j] \in Seq(OwnCmd(j)')
                        /\ pub[j] \in Seq(OwnKick(j)')
                        /\ chan[j] \in Seq(BackedMsg')
  BY QueuesKeep DEF Inv, RegistrationOrder
<1>1. ASSUME NEW s \in Sock, NEW i \in Inst, NEW r \in Rid, Auth(s, i, r)
      PROVE  QueuesOwn'
  <2>. DEFINE c == [op |-> "incr", rid |-> r, ws |-> s, prev |-> None]
  <2>1. at'[s] = i /\ rid'[s] = r
    BY <1>1 DEF Auth, TypeOK
  <2>2. c \in OwnCmd(i)'
    BY <2>1 DEF OwnCmd, OwnStep, Cmd, Op
  <2>. QED  BY <1>1, <2>2, IssueOwn DEF Auth, QueuesOwn
<1>2. ASSUME NEW s \in Sock, OnClose(s)
      PROVE  QueuesOwn'
  <2>. DEFINE c == [op |-> "check", rid |-> rid[s], ws |-> s, prev |-> None]
  <2>1. at[s] \in Inst /\ rid[s] \in Rid
    BY <1>2 DEF OnClose, Placed
  <2>2. c \in OwnCmd(at[s])'
    BY <2>1 DEF OwnCmd, OwnStep, Cmd, Op
  <2>3. UNCHANGED <<pub, chan>> /\ (Issue(at[s], c) \/ UNCHANGED cmd)
    BY <1>2 DEF OnClose
  <2>4. PICK i \in Inst : i = at[s] /\ i = at'[s]
    BY <1>2, <2>1 DEF OnClose
  <2>5. PICK d : d = c
    OBVIOUS
  <2>6. d \in OwnCmd(i)' /\ (Issue(i, d) \/ UNCHANGED cmd)
    BY <2>1, <2>3, <2>4, <2>5 DEF OwnCmd, OwnStep, Cmd, Op
  <2>. QED  BY <2>3, <2>6, IssueOwn DEF QueuesOwn
<1>3. ASSUME NEW i \in Inst, UnregisterCheck(i)
      PROVE  QueuesOwn'
  <2>1. Then(Head(cmd[i]), "del") \in Seq(OwnCmd(i)') /\ <<>> \in Seq(OwnCmd(i)')
    BY <1>3, ThenOwn, OneSeq DEF UnregisterCheck, Executes, Then, Op
  <2>2. Answer(i, Then(Head(cmd[i]), "del")) \/ Answer(i, <<>>)
    BY <1>3 DEF UnregisterCheck
  <2>. QED  BY <1>3, <2>1, <2>2, AnswerOwn DEF UnregisterCheck, Executes, QueuesOwn
<1>4. ASSUME NEW i \in Inst, UnregisterDel(i) \/ HeartbeatSet(i) \/ CommandFails(i)
      PROVE  QueuesOwn'
  <2>1. Answer(i, <<>>) /\ cmd[i] # <<>> /\ UNCHANGED <<pub, chan>>
    BY <1>4 DEF UnregisterDel, HeartbeatSet, CommandFails, Executes
  <2>. QED  BY <2>1, EmptySeq, AnswerOwn DEF QueuesOwn
<1>5. ASSUME NEW i \in Inst, OnKick(i)
      PROVE  QueuesOwn'
  <2>1. Tail(chan[i]) \in Seq(BackedMsg')
    BY <1>5, HeadTailProperties DEF OnKick
  <2>2. \A j \in Inst : chan'[j] \in Seq(BackedMsg')
    BY <1>5, <2>1 DEF OnKick, TypeOK
  <2>. QED  BY <1>5, <2>2 DEF OnKick, QueuesOwn
<1>6. ASSUME NEW i \in Inst, Crash(i)
      PROVE  QueuesOwn'
  <2>1. \A j \in Inst : /\ cmd'[j] = cmd[j] \/ cmd'[j] = <<>>
                        /\ pub'[j] = pub[j] \/ pub'[j] = <<>>
                        /\ chan'[j] = chan[j] \/ chan'[j] = <<>>
    BY <1>6 DEF Crash, TypeOK
  <2>. QED  BY <2>1, EmptySeq DEF QueuesOwn
<1>7. ASSUME NEW i \in Inst, NEW r \in Rid, Heartbeat(i, r)
      PROVE  QueuesOwn'
  <2>1. [op |-> "beat", rid |-> r, ws |-> None, prev |-> None] \in OwnCmd(i)'
    BY DEF OwnCmd, OwnStep, Cmd, Op
  <2>. QED  BY <1>7, <2>1, IssueOwn DEF Heartbeat, QueuesOwn
<1>8. CASE UNCHANGED <<cmd, pub, chan>>
  BY <1>8 DEF QueuesOwn
<1>. QED  BY <1>1, <1>2, <1>3, <1>4, <1>5, <1>6, <1>7, <1>8
          DEF SocketDies, Restart, Expire, StoreFills, StoreHasRoom

-----------------------------------------------------------------------------
\* The invariant is inductive.
LEMMA NextInv == Inv /\ [Next]_vars => Inv'
<1>1. ASSUME Inv, Next PROVE Inv'
  <2>1. QueuesOwn'
    BY <1>1, RegisterQueues, OtherQueues DEF Next, InstStep, StoreStep, Environment
  <2>2. TypeOK' /\ Placed' /\ HeldIsOwn' /\ \A s \in Sock : zReg'[s] <= reg'
    BY <1>1, NextTyped, GrowthStep, HeldStep
  <2>. QED  BY <2>1, <2>2 DEF Inv, RegistrationOrder, QueuesOwn
<1>2. ASSUME Inv, UNCHANGED vars PROVE Inv'
  <2>1. \A i \in Inst : OwnCmd(i)' = OwnCmd(i) /\ OwnKick(i)' = OwnKick(i)
    BY <1>2 DEF vars, OwnCmd, OwnKick, OwnStep, Backed
  <2>2. BackedMsg' = BackedMsg
    BY <1>2 DEF vars, BackedMsg, Backed
  <2>3. TypeOK' /\ Placed' /\ HeldIsOwn'
    BY <1>2 DEF vars, Inv, TypeOK, RegistrationOrder, Placed, HeldIsOwn
  <2>4. UNCHANGED <<cmd, pub, chan, zReg, reg>>
    BY <1>2 DEF vars
  <2>. QED  BY <1>2, <2>1, <2>2, <2>3, <2>4 DEF Inv, RegistrationOrder
<1>. QED  BY <1>1, <1>2

\* Every reachable state is well typed: queues hold commands, kicks and
\* messages, and presence names instances (server.js RedisCoordinator).
THEOREM TypeCorrect == Spec => []TypeOK
<1>1. Inv => TypeOK
  BY DEF Inv
<1>. QED  BY <1>1, InitInv, NextInv, PTL DEF Spec

\* Registrations stay ordered by the store's counter, and every kick under
\* way is backed by a registration of its routing id that is as new as the
\* kick claims (server.js register, _onPub).
THEOREM RegistrationsOrdered == Spec => []RegistrationOrder
<1>1. Inv => RegistrationOrder
  BY DEF Inv
<1>. QED  BY <1>1, InitInv, NextInv, PTL DEF Spec

\* A kick that acts on what i holds is from a newer registration of it.
LEMMA KickIsNewer ==
  ASSUME Inv, NEW i \in Inst, NEW r \in Rid, OnKick(i),
         local[i][r] # None, local'[i][r] = None
  PROVE  ~Newest(local[i][r])
<1>. DEFINE m == Head(chan[i])  s == local[i][r]
<1>. TypeOK /\ HeldIsOwn
  BY DEF Inv, RegistrationOrder
<1>1. m \in BackedMsg
  BY HeadTailProperties DEF OnKick, Inv, RegistrationOrder
<1>2. m.rid \in Rid /\ m.token \in Nat /\ Backed(m)
  BY <1>1 DEF BackedMsg, Msg
<1>3. local' # local
  OBVIOUS
<1>4. /\ local' = [local EXCEPT ![i][m.rid] = None]
      /\ ~(local[i][m.rid] # None /\ zReg[local[i][m.rid]] >= m.token)
  <2>1. CASE local[i][m.rid] # None /\ zReg[local[i][m.rid]] >= m.token
    BY <1>3, <2>1 DEF OnKick
  <2>2. CASE ~(local[i][m.rid] # None /\ zReg[local[i][m.rid]] >= m.token)
    BY <2>2 DEF OnKick
  <2>. QED  BY <2>1, <2>2
<1>5. m.rid = r
  BY <1>2, <1>4 DEF TypeOK
<1>6. s \in Sock /\ rid[s] = r /\ zReg[s] < m.token
  BY <1>2, <1>4, <1>5 DEF HeldIsOwn, TypeOK
<1>7. PICK t \in Sock : rid[t] = r /\ zReg[t] >= m.token
  BY <1>2, <1>5 DEF Backed
<1>8. zReg[t] > zReg[s]
  BY <1>2, <1>6, <1>7 DEF TypeOK
<1>9. t # s /\ ~(zReg[t] < zReg[s])
  BY <1>6, <1>8 DEF TypeOK
<1>. QED  BY <1>6, <1>7, <1>9 DEF Newest

\* No step takes the newest login away: a kick that acts is from a newer one,
\* a close acts on its own socket only.
LEMMA NewestStep == Inv /\ [Next]_vars => NewestStands
<1>. SUFFICES ASSUME Inv, [Next]_vars, NEW i \in Inst, NEW r \in Rid,
                     local[i][r] # None, Alive(local[i][r]), Newest(local[i][r]), up'[i],
                     local'[i][r] = None
              PROVE  FALSE
  BY DEF NewestStands
<1>. USE DEF sockVars, storeVars
<1>. TypeOK /\ HeldIsOwn
  BY DEF Inv, RegistrationOrder
<1>. DEFINE s == local[i][r]
<1>0. local' # local
  OBVIOUS
<1>1. ASSUME NEW j \in Inst, RegisterLocal(j) PROVE FALSE
  <2>1. Head(cmd[j]).ws \in Sock /\ Head(cmd[j]).rid \in Rid
    BY <1>1, HeadOwn DEF RegisterLocal, Executes
  <2>2. local' = [local EXCEPT ![j][Head(cmd[j]).rid] = Head(cmd[j]).ws]
    BY <1>1 DEF RegisterLocal
  <2>. QED  BY <2>1, <2>2 DEF TypeOK
<1>2. ASSUME NEW t \in Sock, OnClose(t) PROVE FALSE
  <2>1. local[at[t]][rid[t]] = t /\ local' = [local EXCEPT ![at[t]][rid[t]] = None]
    BY <1>0, <1>2 DEF OnClose
  <2>2. at[t] \in Inst /\ rid[t] \in Rid
    BY <1>2 DEF OnClose, Inv, RegistrationOrder, Placed
  <2>3. at[t] = i /\ rid[t] = r
    BY <2>1, <2>2 DEF TypeOK
  <2>. QED  BY <1>2, <2>1, <2>3 DEF OnClose, Alive
<1>3. ASSUME NEW j \in Inst, OnKick(j) PROVE FALSE
  <2>1. local' = [local EXCEPT ![j][Head(chan[j]).rid] = None]
    BY <1>0, <1>3 DEF OnKick
  <2>2. Head(chan[j]) \in Msg
    BY <1>3, HeadTailProperties DEF OnKick, TypeOK
  <2>3. Head(chan[j]).rid \in Rid
    BY <2>2 DEF Msg
  <2>4. j = i
    BY <2>1, <2>3 DEF TypeOK
  <2>. QED  BY <1>3, <2>4, KickIsNewer
<1>4. ASSUME NEW j \in Inst, Crash(j) PROVE FALSE
  <2>1. j # i
    BY <1>4 DEF Crash, TypeOK
  <2>. QED  BY <1>4, <2>1 DEF Crash, TypeOK
<1>. QED  BY <1>0, <1>1, <1>2, <1>3, <1>4
          DEF Next, InstStep, StoreStep, Environment, vars, Auth, RegisterToken, RegisterFind,
              RegisterKick, RegisterClaim, SocketDies, UnregisterCheck, UnregisterDel,
              Heartbeat, HeartbeatSet, Expire, CommandFails, StoreFills, StoreHasRoom, Restart

\* The newest login of a routing id is never taken out of its instance's
\* hands by a kick or by the close of another socket, whatever the number of
\* instances and moves and however late the kicks arrive (server.js _onPub).
THEOREM NewestNeverTaken == Spec => NewestStandsProperty
<1>. QED  BY InitInv, NextInv, NewestStep, PTL DEF Spec, NewestStandsProperty

-----------------------------------------------------------------------------
(* WelcomedStays.  In a connection's queue q, the kicks p its instance has   *)
(* to publish, what it holds l and the sockets' states w: a socket's         *)
(* registration is at one place of q or p; the check of what an instance let *)
(* go runs before the look-up of what it holds now, so the deletion runs     *)
(* before the claim.                                                         *)

Registers == {"incr", "own", "find", "claim"}

\* No step of s's registration is pending, and none of them welcomed it.
Idle(q, p, w, s) ==
  /\ \A j \in DOMAIN q : q[j].op \in Registers => q[j].ws # s
  /\ \A n \in DOMAIN p : p[n].cont.ws # s
  /\ w[s] # "ready"

Once(q, p) ==
  /\ \A j, k \in DOMAIN q :
       j # k /\ q[j].op \in Registers /\ q[k].op \in Registers => q[j].ws # q[k].ws
  /\ \A j \in DOMAIN q, n \in DOMAIN p : q[j].op \in Registers => q[j].ws # p[n].cont.ws
  /\ \A m, n \in DOMAIN p : m # n => p[m].cont.ws # p[n].cont.ws
  /\ \A n \in DOMAIN p : p[n].cont.op = "claim"

Unwelcomed(q, p, w) ==
  /\ \A j \in DOMAIN q : q[j].op \in Registers => w[q[j].ws] # "ready"
  /\ \A n \in DOMAIN p : w[p[n].cont.ws] # "ready"

\* What the queue may still do to the record of a routing id that is held.
ChecksFirst(q, p, l) ==
  \A k \in DOMAIN q : q[k].op = "check" /\ l[q[k].rid] # None =>
    /\ \A j \in DOMAIN q : q[j].ws = l[q[k].rid] =>
         q[j].op # "claim" /\ (q[j].op = "find" => k < j)
    /\ \A n \in DOMAIN p : p[n].cont.ws # l[q[k].rid]

DeletesFirst(q, l) ==
  \A k \in DOMAIN q : q[k].op = "del" /\ l[q[k].rid] # None =>
    \A j \in DOMAIN q : q[j].ws = l[q[k].rid] /\ q[j].op = "claim" => k < j

Quiet(q, l, w) ==
  \A k \in DOMAIN q : l[q[k].rid] # None /\ w[l[q[k].rid]] = "ready" =>
    q[k].op \notin {"check", "del"}

Flow(q, p, l, w) ==
  /\ Once(q, p) /\ Unwelcomed(q, p, w)
  /\ ChecksFirst(q, p, l) /\ DeletesFirst(q, l) /\ Quiet(q, l, w)

\* What the head of a queue, once it executes, leaves true of the rest.
HeadSays(h, q, p, l, w) ==
  /\ h.op \in Registers => Idle(q, p, w, h.ws)
  /\ h.op \in {"find", "claim"} =>
       \A k \in DOMAIN q : q[k].op = "check" => l[q[k].rid] = None \/ l[q[k].rid] # h.ws
  /\ h.op = "claim" =>
       \A k \in DOMAIN q : q[k].op = "del" => l[q[k].rid] = None \/ l[q[k].rid] # h.ws
  /\ h.op = "check" /\ l[h.rid] # None =>
       /\ \A j \in DOMAIN q : q[j].op = "claim" => q[j].ws # l[h.rid]
       /\ w[l[h.rid]] # "ready"

\* The sockets a queue, the kicks and the holdings of an instance are about are
\* those, S, that are connected to it.
Formed(q, p, l, S) ==
  /\ \A k \in DOMAIN q : q[k].rid \in Rid /\ (q[k].op \in Registers => q[k].ws \in S)
  /\ \A n \in DOMAIN p : p[n].cont.ws \in S
  /\ \A r \in Rid : l[r] \in S \cup {None}

\* Sockets close and are let go of.
LEMMA FlowEbbs ==
  ASSUME NEW q, NEW p, NEW l, NEW w, NEW m, NEW v, NEW S,
         Flow(q, p, l, w), Formed(q, p, l, S), 
         \A r \in Rid : m[r] = l[r] \/ m[r] = None,
         \A s \in S : v[s] = "ready" => w[s] = "ready"
  PROVE  Flow(q, p, m, v)
<1>1. Once(q, p) /\ Unwelcomed(q, p, v)
  BY Zenon DEF Flow, Unwelcomed, Formed
<1>2. ChecksFirst(q, p, m)
  BY Zenon DEF Flow, ChecksFirst, Formed
<1>3. DeletesFirst(q, m)
  BY Zenon DEF Flow, DeletesFirst, Formed
<1>4. Quiet(q, m, v)
  BY DEF Flow, Quiet, Formed
<1>. QED  BY <1>1, <1>2, <1>3, <1>4 DEF Flow

\* The head of the queue executes.
LEMMA FlowTaken ==
  ASSUME NEW C, NEW q \in Seq(C), q # <<>>, NEW p, NEW l, NEW w, Flow(q, p, l, w)
  PROVE  Flow(Tail(q), p, l, w) /\ HeadSays(Head(q), Tail(q), p, l, w)
<1>1. PICK t, h : t = Tail(q) /\ h = Head(q)
  OBVIOUS
<1>2. /\ \A k \in DOMAIN t : k + 1 \in DOMAIN q /\ k + 1 # 1 /\ t[k] = q[k + 1]
      /\ 1 \in DOMAIN q /\ h = q[1] /\ DOMAIN t \subseteq Nat
  <2>1. Len(q) \in Nat /\ q # <<>> /\ DOMAIN q = 1 .. Len(q)
    BY LenProperties
  <2>2. Len(q) # 0
    BY <2>1, EmptySeq
  <2>3. t \in Seq(C) /\ Len(t) = Len(q) - 1 /\ \A i \in 1 .. Len(t) : t[i] = q[i + 1]
    BY <1>1, HeadTailProperties
  <2>4. DOMAIN t = 1 .. Len(t) /\ Len(t) \in Nat
    BY <2>3, LenProperties
  <2>5. h = q[1]
    BY <1>1
  <2>. QED  BY <2>1, <2>2, <2>3, <2>4, <2>5
<1>3. Once(t, p) /\ Unwelcomed(t, p, w)
  BY <1>2 DEF Flow, Once, Unwelcomed
<1>4. ChecksFirst(t, p, l)
  BY <1>2 DEF Flow, ChecksFirst
<1>5. DeletesFirst(t, l)
  BY <1>2 DEF Flow, DeletesFirst
<1>6. Quiet(t, l, w)
  BY <1>2 DEF Flow, Quiet
<1>7. HeadSays(h, t, p, l, w)
  <2>1. h.op \in Registers => Idle(t, p, w, h.ws)
    BY <1>2 DEF Flow, Once, Unwelcomed, Idle
  <2>2. h.op \in {"find", "claim"} =>
          \A k \in DOMAIN t : t[k].op = "check" => l[t[k].rid] = None \/ l[t[k].rid] # h.ws
    BY <1>2 DEF Flow, ChecksFirst
  <2>3. h.op = "claim" =>
          \A k \in DOMAIN t : t[k].op = "del" => l[t[k].rid] = None \/ l[t[k].rid] # h.ws
    BY <1>2 DEF Flow, DeletesFirst
  <2>4. h.op = "check" /\ l[h.rid] # None =>
          /\ \A j \in DOMAIN t : t[j].op = "claim" => t[j].ws # l[h.rid]
          /\ w[l[h.rid]] # "ready"
    BY <1>2 DEF Flow, ChecksFirst, Quiet
  <2>. QED  BY <2>1, <2>2, <2>3, <2>4 DEF HeadSays
<1>. QED  BY <1>1, <1>3, <1>4, <1>5, <1>6, <1>7 DEF Flow

\* A command is issued, behind all others.
LEMMA FlowIssued ==
  ASSUME NEW C, NEW q \in Seq(C), NEW c \in C, NEW p, NEW l, NEW w, Flow(q, p, l, w),
         c.op \in Registers => Idle(q, p, w, c.ws),
         c.op = "claim" => \A k \in DOMAIN q : q[k].op = "check" =>
                             l[q[k].rid] = None \/ l[q[k].rid] # c.ws,
         c.op = "check" => l[c.rid] = None,
         c.op = "del" /\ l[c.rid] # None =>
           /\ \A j \in DOMAIN q : q[j].op = "claim" => q[j].ws # l[c.rid]
           /\ w[l[c.rid]] # "ready"
  PROVE  Flow(Append(q, c), p, l, w)
<1>1. PICK t : t = Append(q, c)
  OBVIOUS
<1>2. PICK n \in Nat : /\ DOMAIN q = 1 .. n /\ DOMAIN t = 1 .. n + 1
                       /\ \A k \in 1 .. n : t[k] = q[k]
                       /\ t[n + 1] = c
  <2>1. Len(q) \in Nat /\ DOMAIN q = 1 .. Len(q)
    BY LenProperties
  <2>2. t \in Seq(C) /\ Len(t) = Len(q) + 1 /\ t[Len(q) + 1] = c
        /\ \A k \in 1 .. Len(q) : t[k] = q[k]
    BY <1>1, AppendProperties
  <2>3. DOMAIN t = 1 .. Len(t)
    BY <2>2, LenProperties
  <2>. QED  BY <2>1, <2>2, <2>3
<1>3. Once(t, p) /\ Unwelcomed(t, p, w)
  BY <1>2 DEF Flow, Once, Unwelcomed, Idle
<1>4. ChecksFirst(t, p, l)
  BY <1>2 DEF Flow, ChecksFirst, Registers
<1>5. DeletesFirst(t, l)
  BY <1>2 DEF Flow, DeletesFirst
<1>6. Quiet(t, l, w)
  BY <1>2 DEF Flow, Quiet
<1>. QED  BY <1>1, <1>3, <1>4, <1>5, <1>6 DEF Flow

TakesOver(q, l, m, r, s) ==
  \A k \in DOMAIN q : /\ q[k].rid = r => m[q[k].rid] = s
                      /\ q[k].rid # r => m[q[k].rid] = l[q[k].rid]

\* An instance takes a routing id over for a socket nothing else is pending
\* for.
LEMMA FlowHeld ==
  ASSUME NEW q, NEW p, NEW l, NEW w, Flow(q, p, l, w), NEW m, NEW s, NEW r,
         Idle(q, p, w, s),
         TakesOver(q, l, m, r, s)
  PROVE  Flow(q, p, m, w)
<1>. USE DEF TakesOver
<1>1. ChecksFirst(q, p, m)
  BY DEF Flow, ChecksFirst, Idle, Registers
<1>2. DeletesFirst(q, m)
  BY DEF Flow, DeletesFirst, Idle, Registers
<1>3. Quiet(q, m, w)
  BY DEF Flow, Quiet, Idle
<1>. QED  BY <1>1, <1>2, <1>3 DEF Flow

\* A login is welcomed.
LEMMA FlowWelcomed ==
  ASSUME NEW q, NEW p, NEW l, NEW w, NEW v, NEW S, NEW h,
         Flow(q, p, l, w), Formed(q, p, l, S), h.op = "claim", HeadSays(h, q, p, l, w),
         \A t \in S : v[t] = "ready" => w[t] = "ready" \/ t = h.ws
  PROVE  Flow(q, p, l, v)
<1>1. Unwelcomed(q, p, v)
  BY DEF Flow, Unwelcomed, Formed, HeadSays, Idle, Registers
<1>2. Quiet(q, l, v)
  BY DEF Flow, Quiet, Formed, HeadSays
<1>. QED  BY <1>1, <1>2 DEF Flow

\* A kick waits to be published, and after it the claim it carries.
LEMMA FlowSent ==
  ASSUME NEW K, NEW q, NEW p \in Seq(K), NEW k \in K, NEW l, NEW w, NEW h, Flow(q, p, l, w),
         h.op = "find", HeadSays(h, q, p, l, w), k.cont.op = "claim", k.cont.ws = h.ws
  PROVE  Flow(q, Append(p, k), l, w)
<1>1. PICK t : t = Append(p, k)
  OBVIOUS
<1>2. PICK n \in Nat : /\ DOMAIN p = 1 .. n /\ DOMAIN t = 1 .. n + 1
                       /\ \A j \in 1 .. n : t[j] = p[j]
                       /\ t[n + 1] = k
  <2>1. Len(p) \in Nat /\ DOMAIN p = 1 .. Len(p)
    BY LenProperties
  <2>2. t \in Seq(K) /\ Len(t) = Len(p) + 1 /\ t[Len(p) + 1] = k
        /\ \A j \in 1 .. Len(p) : t[j] = p[j]
    BY <1>1, AppendProperties
  <2>3. DOMAIN t = 1 .. Len(t)
    BY <2>2, LenProperties
  <2>. QED  BY <2>1, <2>2, <2>3
<1>3. Once(q, t) /\ Unwelcomed(q, t, w)
  BY <1>2 DEF Flow, Once, Unwelcomed, HeadSays, Idle, Registers
<1>4. ChecksFirst(q, t, l)
  BY <1>2 DEF Flow, ChecksFirst, HeadSays
<1>. QED  BY <1>1, <1>3, <1>4 DEF Flow

\* The oldest kick is published: its claim is issued.
LEMMA FlowKicked ==
  ASSUME NEW K, NEW q, NEW p \in Seq(K), p # <<>>, NEW l, NEW w, Flow(q, p, l, w)
  PROVE  /\ Flow(q, Tail(p), l, w)
         /\ Head(p).cont.op = "claim" /\ Idle(q, Tail(p), w, Head(p).cont.ws)
         /\ \A k \in DOMAIN q : q[k].op = "check" =>
              l[q[k].rid] = None \/ l[q[k].rid] # Head(p).cont.ws
<1>1. PICK t, h : t = Tail(p) /\ h = Head(p)
  OBVIOUS
<1>2. /\ \A k \in DOMAIN t : k + 1 \in DOMAIN p /\ k + 1 # 1 /\ t[k] = p[k + 1]
      /\ 1 \in DOMAIN p /\ h = p[1] /\ DOMAIN t \subseteq Nat
  <2>1. Len(p) \in Nat /\ p # <<>> /\ DOMAIN p = 1 .. Len(p)
    BY LenProperties
  <2>2. Len(p) # 0
    BY <2>1, EmptySeq
  <2>3. t \in Seq(K) /\ Len(t) = Len(p) - 1 /\ \A i \in 1 .. Len(t) : t[i] = p[i + 1]
    BY <1>1, HeadTailProperties
  <2>4. DOMAIN t = 1 .. Len(t) /\ Len(t) \in Nat
    BY <2>3, LenProperties
  <2>5. h = p[1]
    BY <1>1
  <2>. QED  BY <2>1, <2>2, <2>3, <2>4, <2>5
<1>3. Once(q, t) /\ Unwelcomed(q, t, w)
  BY <1>2 DEF Flow, Once, Unwelcomed
<1>4. ChecksFirst(q, t, l)
  BY <1>2 DEF Flow, ChecksFirst
<1>5. h.cont.op = "claim" /\ Idle(q, t, w, h.cont.ws)
  BY <1>2 DEF Flow, Once, Unwelcomed, Idle
<1>6. \A k \in DOMAIN q : q[k].op = "check" => l[q[k].rid] = None \/ l[q[k].rid] # h.cont.ws
  BY <1>2 DEF Flow, ChecksFirst
<1>. QED  BY <1>1, <1>3, <1>4, <1>5, <1>6 DEF Flow

-----------------------------------------------------------------------------
Here(i) == {s \in Sock : at[s] = i}

Flows == \A i \in Inst : Flow(cmd[i], pub[i], local[i], st)

LEMMA AllFormed ==
  ASSUME Inv, Flows, NEW i \in Inst
  PROVE  Formed(cmd[i], pub[i], local[i], Here(i))
<1>1. \A k \in DOMAIN cmd[i] : cmd[i][k] \in OwnCmd(i)
  BY ElementOfSeq, LenProperties DEF Inv, RegistrationOrder
<1>2. \A n \in DOMAIN pub[i] : pub[i][n] \in OwnKick(i)
  BY ElementOfSeq, LenProperties DEF Inv, RegistrationOrder
<1>3. \A n \in DOMAIN pub[i] : pub[i][n].cont.op = "claim"
  BY DEF Flows, Flow, Once
<1>4. \A k \in DOMAIN cmd[i] : /\ cmd[i][k].rid \in Rid
                               /\ cmd[i][k].op \in Registers => cmd[i][k].ws \in Here(i)
  BY <1>1 DEF OwnCmd, OwnStep, Cmd, Registers, Here
<1>5. \A n \in DOMAIN pub[i] : pub[i][n].cont.ws \in Here(i)
  BY <1>2, <1>3 DEF OwnKick, OwnStep, Here
<1>6. \A r \in Rid : local[i][r] \in Here(i) \cup {None}
  BY DEF Inv, TypeOK, RegistrationOrder, HeldIsOwn, Here
<1>. QED  BY <1>4, <1>5, <1>6 DEF Formed

\* An instance that nothing new is asked of: its sockets may close and it may
\* let go of them.
LEMMA FlowRests ==
  ASSUME Inv, Flows, NEW i \in Inst, cmd'[i] = cmd[i], pub'[i] = pub[i],
         \A r \in Rid : local'[i][r] = local[i][r] \/ local'[i][r] = None,
         \A s \in Here(i) : st'[s] = "ready" => st[s] = "ready"
  PROVE  Flow(cmd'[i], pub'[i], local'[i], st')
BY AllFormed, FlowEbbs DEF Flows

LEMMA FlowLess ==
  ASSUME Inv, Flows, NEW i \in Inst, NEW m, NEW v,
         \A r \in Rid : m[r] = local[i][r] \/ m[r] = None,
         \A s \in Here(i) : v[s] = "ready" => st[s] = "ready"
  PROVE  Flow(cmd[i], pub[i], m, v)
BY AllFormed, FlowEbbs DEF Flows

LEMMA FlowEmpty == ASSUME NEW l, NEW w PROVE Flow(<<>>, <<>>, l, w)
BY DEF Flow, Once, Unwelcomed, ChecksFirst, DeletesFirst, Quiet

\* What one instance does disturbs no other.
LEMMA FlowElsewhere ==
  ASSUME Inv, Flows, NEW i \in Inst, Flow(cmd'[i], pub'[i], local'[i], st'),
         \A j \in Inst \ {i} : cmd'[j] = cmd[j] /\ pub'[j] = pub[j] /\ local'[j] = local[j],
         \A s \in Sock : at[s] # i /\ st'[s] = "ready" => st[s] = "ready"
  PROVE  Flows'
<1>1. SUFFICES ASSUME NEW j \in Inst \ {i}
               PROVE  Flow(cmd'[j], pub'[j], local'[j], st')
  BY DEF Flows
<1>2. \A s \in Here(j) : st'[s] = "ready" => st[s] = "ready"
  BY DEF Here
<1>. QED  BY <1>1, <1>2, FlowRests

\* The head of a connection's queue, executed.
LEMMA HeadFlow ==
  ASSUME Inv, Flows, NEW i \in Inst, cmd[i] # <<>>
  PROVE  /\ Head(cmd[i]) \in Cmd /\ Tail(cmd[i]) \in Seq(Cmd)
         /\ Flow(Tail(cmd[i]), pub[i], local[i], st)
         /\ Formed(Tail(cmd[i]), pub[i], local[i], Here(i))
         /\ HeadSays(Head(cmd[i]), Tail(cmd[i]), pub[i], local[i], st)
<1>1. cmd[i] \in Seq(Cmd)
  BY DEF Inv, TypeOK
<1>2. Head(cmd[i]) \in Cmd /\ Tail(cmd[i]) \in Seq(Cmd)
  BY <1>1, HeadTailProperties
<1>3. Flow(Tail(cmd[i]), pub[i], local[i], st)
      /\ HeadSays(Head(cmd[i]), Tail(cmd[i]), pub[i], local[i], st)
  BY <1>1, FlowTaken DEF Flows
<1>4. \A k \in DOMAIN Tail(cmd[i]) : k + 1 \in DOMAIN cmd[i] /\ Tail(cmd[i])[k] = cmd[i][k + 1]
  <2>1. Len(Tail(cmd[i])) = Len(cmd[i]) - 1 /\ Len(cmd[i]) \in Nat
        /\ \A k \in 1 .. Len(Tail(cmd[i])) : Tail(cmd[i])[k] = cmd[i][k + 1]
    BY <1>1, HeadTailProperties, LenProperties
  <2>2. DOMAIN Tail(cmd[i]) = 1 .. Len(Tail(cmd[i])) /\ DOMAIN cmd[i] = 1 .. Len(cmd[i])
    BY <1>1, <1>2, LenProperties
  <2>. QED  BY <2>1, <2>2
<1>5. Formed(cmd[i], pub[i], local[i], Here(i))
  BY AllFormed
<1>6. Formed(Tail(cmd[i]), pub[i], local[i], Here(i))
  BY <1>4, <1>5 DEF Formed
<1>. QED  BY <1>2, <1>3, <1>6

\* An answer whose continuation issues nothing, or one command.
LEMMA Answered ==
  ASSUME Inv, NEW i \in Inst, cmd[i] # <<>>
  PROVE  /\ Answer(i, <<>>) => /\ cmd'[i] = Tail(cmd[i])
                               /\ \A j \in Inst \ {i} : cmd'[j] = cmd[j]
         /\ \A c \in Cmd : Answer(i, <<c>>) => /\ cmd'[i] = Append(Tail(cmd[i]), c)
                                               /\ \A j \in Inst \ {i} : cmd'[j] = cmd[j]
<1>1. Tail(cmd[i]) \in Seq(Cmd)
  BY HeadTailProperties DEF Inv, TypeOK
<1>2. Tail(cmd[i]) \o <<>> = Tail(cmd[i])
  BY <1>1, ConcatEmptySeq
<1>3. ASSUME NEW c \in Cmd PROVE Tail(cmd[i]) \o <<c>> = Append(Tail(cmd[i]), c)
  BY <1>1, AppendIsConcat
<1>. QED  BY <1>2, <1>3 DEF Answer, Inv, TypeOK

\* The steps of a registration keep the order.
LEMMA RegisterFlow ==
  ASSUME Inv, Flows, NEW i \in Inst,
         RegisterToken(i) \/ RegisterLocal(i) \/ RegisterFind(i) \/ RegisterClaim(i)
  PROVE  Flows'
<1>. USE DEF sockVars, storeVars
<1>0. cmd[i] # <<>>
  BY DEF RegisterToken, RegisterLocal, RegisterFind, RegisterClaim, Executes
<1>. DEFINE h == Head(cmd[i])
            q == Tail(cmd[i])
<1>1. /\ h \in Cmd /\ q \in Seq(Cmd) /\ Flow(q, pub[i], local[i], st)
      /\ Formed(q, pub[i], local[i], Here(i)) /\ HeadSays(h, q, pub[i], local[i], st)
  BY <1>0, HeadFlow
<1>2. CASE RegisterToken(i)
  <2>1. PICK c : c = [h EXCEPT !.op = "own"]
    OBVIOUS
  <2>2. c \in Cmd /\ c.op = "own" /\ c.ws = h.ws
    BY <1>1, <2>1 DEF Cmd, Op
  <2>3. h.op = "incr" /\ Answer(i, <<c>>) /\ UNCHANGED <<pub, local, st>>
    BY <1>2, <2>1 DEF RegisterToken, Executes, Then
  <2>4. Flow(Append(q, c), pub[i], local[i], st)
    BY <1>1, <2>2, <2>3, FlowIssued DEF HeadSays, Registers
  <2>. QED  BY <1>0, <2>2, <2>3, <2>4, Answered, FlowElsewhere
<1>3. CASE RegisterLocal(i)
  <2>1. PICK c : c = [h EXCEPT !.op = "find", !.prev = local[i][h.rid]]
    OBVIOUS
  <2>2. h.op = "own" /\ Answer(i, <<c>>) /\ UNCHANGED <<pub, st>>
        /\ local' = [local EXCEPT ![i][h.rid] = h.ws]
    BY <1>3, <2>1 DEF RegisterLocal, Executes
  <2>3. c \in Cmd /\ c.op = "find" /\ c.ws = h.ws
    <3>1. h.rid \in Rid
      BY <1>1 DEF Cmd
    <3>2. local[i][h.rid] \in Sock \cup {None}
      BY <3>1 DEF Inv, TypeOK
    <3>. QED  BY <1>1, <2>1, <3>2 DEF Cmd, Op
  <2>4. Idle(q, pub[i], st, h.ws)
    BY <1>1, <2>2 DEF HeadSays, Registers
  <2>5. TakesOver(q, local[i], local'[i], h.rid, h.ws)
    BY <1>1, <2>2 DEF TakesOver, Formed, Cmd, Inv, TypeOK
  <2>6. Flow(q, pub[i], local'[i], st)
    BY <1>1, <2>4, <2>5, FlowHeld
  <2>7. Flow(Append(q, c), pub[i], local'[i], st)
    BY <1>1, <2>3, <2>4, <2>6, FlowIssued DEF Registers
  <2>8. \A j \in Inst \ {i} : local'[j] = local[j]
    BY <2>2 DEF Inv, TypeOK
  <2>. QED  BY <1>0, <2>2, <2>3, <2>7, <2>8, Answered, FlowElsewhere
<1>4. CASE RegisterFind(i)
  <2>1. PICK c : c = [h EXCEPT !.op = "claim"]
    OBVIOUS
  <2>2. c \in Cmd /\ c.op = "claim" /\ c.ws = h.ws /\ h.op = "find"
    BY <1>1, <1>4, <2>1 DEF Cmd, Op, RegisterFind, Executes
  <2>3. UNCHANGED <<local, st>>
    BY <1>4 DEF RegisterFind
  <2>4. CASE Answer(i, <<c>>) /\ pub' = pub
    <3>1. Flow(Append(q, c), pub[i], local[i], st)
      BY <1>1, <2>2, FlowIssued DEF HeadSays, Registers
    <3>. QED  BY <1>0, <2>2, <2>3, <2>4, <3>1, Answered, FlowElsewhere
  <2>5. ASSUME Answer(i, <<>>), NEW k \in Kick, k.cont = c, pub' = [pub EXCEPT ![i] = Append(@, k)]
        PROVE  Flows'
    <3>1. Flow(q, Append(pub[i], k), local[i], st)
      BY <1>1, <2>2, <2>5, FlowSent DEF Inv, TypeOK
    <3>2. pub'[i] = Append(pub[i], k) /\ \A j \in Inst \ {i} : pub'[j] = pub[j]
      BY <2>5 DEF Inv, TypeOK
    <3>. QED  BY <1>0, <2>3, <2>5, <3>1, <3>2, Answered, FlowElsewhere
  <2>6. CASE presence[h.rid] \notin {None, i}
    <3>1. PICK k : k = [to |-> presence[h.rid], rid |-> h.rid, token |-> zReg[h.ws], cont |-> c]
      OBVIOUS
    <3>2. h.ws \in Sock /\ h.rid \in Rid
      BY <1>0, <2>2, HeadOwn
    <3>3. k \in Kick /\ k.cont = c
      BY <2>2, <2>6, <3>1, <3>2 DEF Kick, Inv, TypeOK
    <3>4. Answer(i, <<>>) /\ pub' = [pub EXCEPT ![i] = Append(@, k)]
      BY <1>4, <2>1, <2>6, <3>1 DEF RegisterFind
    <3>. QED  BY <2>5, <3>3, <3>4
  <2>7. CASE presence[h.rid] \in {None, i}
    <3>1. Answer(i, <<c>>) /\ pub' = pub
      BY <1>4, <2>1, <2>7 DEF RegisterFind, Then
    <3>. QED  BY <2>4, <3>1
  <2>. QED  BY <2>6, <2>7
<1>5. CASE RegisterClaim(i)
  <2>1. h.op = "claim" /\ Answer(i, <<>>) /\ UNCHANGED <<pub, local>>
    BY <1>5 DEF RegisterClaim, Executes
  <2>2. h.ws \in Sock /\ at[h.ws] = i
    BY <1>0, <2>1, HeadOwn
  <2>3. \A t \in Sock : st'[t] = "ready" => st[t] = "ready" \/ t = h.ws
    BY <1>5 DEF RegisterClaim, Closed
  <2>4. Flow(q, pub[i], local[i], st')
    BY <1>1, <2>1, <2>3, FlowWelcomed DEF Here
  <2>. QED  BY <1>0, <2>1, <2>2, <2>3, <2>4, Answered, FlowElsewhere
<1>. QED  BY <1>2, <1>3, <1>4, <1>5

\* So does everything else that can happen.
LEMMA OtherFlow ==
  ASSUME Inv, Flows, Next,
         \/ \E s \in Sock, i \in Inst, r \in Rid : Auth(s, i, r)
         \/ \E s \in Sock : OnClose(s) \/ SocketDies(s)
         \/ \E i \in Inst : \/ UnregisterCheck(i) \/ UnregisterDel(i) \/ OnKick(i)
                            \/ HeartbeatSet(i) \/ CommandFails(i) \/ Crash(i) \/ Restart(i)
                            \/ RegisterKick(i)
         \/ \E i \in Inst, r \in Rid : Heartbeat(i, r)
         \/ \E r \in Rid : Expire(r)
         \/ StoreFills \/ StoreHasRoom
  PROVE  Flows'
<1>. USE DEF sockVars, storeVars
<1>0. TypeOK /\ Placed
  BY DEF Inv, RegistrationOrder
<1>1. ASSUME NEW s \in Sock, NEW i \in Inst, NEW r \in Rid, Auth(s, i, r)
      PROVE  Flows'
  <2>1. PICK c : c = [op |-> "incr", rid |-> r, ws |-> s, prev |-> None]
    OBVIOUS
  <2>2. c \in Cmd /\ c.op = "incr" /\ c.ws = s
    BY <2>1 DEF Cmd, Op
  <2>3. Issue(i, c) /\ UNCHANGED <<pub, local>> /\ st' = [st EXCEPT ![s] = "open"] /\ st[s] = "new"
    BY <1>1, <2>1 DEF Auth
  <2>4. s \notin Here(i)
    <3>1. at[s] = None
      BY <1>0, <2>3, Zenon DEF Placed
    <3>. QED  BY <3>1, NoneAssumption DEF Here
  <2>5. \A t \in Sock : st'[t] = "ready" => st[t] = "ready"
    BY <1>0, <2>3 DEF TypeOK
  <2>6. Flow(cmd[i], pub[i], local[i], st')
    BY <2>5, FlowLess DEF Here
  <2>7. Idle(cmd[i], pub[i], st', s)
    BY <1>0, <2>3, <2>4, AllFormed DEF Idle, Formed, TypeOK
  <2>8. Flow(Append(cmd[i], c), pub[i], local[i], st')
    BY <1>0, <2>2, <2>6, <2>7, FlowIssued DEF TypeOK
  <2>. QED  BY <1>0, <2>3, <2>5, <2>8, FlowElsewhere DEF Issue, TypeOK
<1>2. ASSUME NEW s \in Sock, OnClose(s)
      PROVE  Flows'
  <2>1. PICK i \in Inst, r \in Rid : i = at[s] /\ r = rid[s]
    BY <1>0, <1>2 DEF OnClose, Placed
  <2>2. PICK c : c = [op |-> "check", rid |-> r, ws |-> s, prev |-> None]
    OBVIOUS
  <2>3. c \in Cmd /\ c.op = "check" /\ c.rid = r
    BY <2>2 DEF Cmd, Op
  <2>4. UNCHANGED pub /\ \A t \in Sock : st'[t] = "ready" => st[t] = "ready"
    BY <1>0, <1>2 DEF OnClose, TypeOK
  <2>5. CASE local[i][r] = s
    <3>1. local' = [local EXCEPT ![i][r] = None] /\ Issue(i, c)
      BY <1>2, <2>1, <2>2, <2>5 DEF OnClose
    <3>2. \A x \in Rid : local'[i][x] = local[i][x] \/ local'[i][x] = None
      BY <1>0, <3>1 DEF TypeOK
    <3>3. Flow(cmd[i], pub[i], local'[i], st')
      BY <2>4, <3>2, FlowLess DEF Here
    <3>4. local'[i][r] = None /\ \A j \in Inst \ {i} : local'[j] = local[j]
      BY <1>0, <3>1 DEF TypeOK
    <3>5. Flow(Append(cmd[i], c), pub[i], local'[i], st')
      BY <1>0, <2>3, <3>3, <3>4, FlowIssued DEF TypeOK, Registers
    <3>. QED  BY <1>0, <2>4, <3>1, <3>4, <3>5, FlowElsewhere DEF Issue, TypeOK
  <2>6. CASE local[i][r] # s
    <3>1. UNCHANGED <<local, cmd>>
      BY <1>2, <2>1, <2>6 DEF OnClose
    <3>. QED  BY <2>4, <3>1, FlowRests DEF Flows, Here
  <2>. QED  BY <2>5, <2>6
<1>3. ASSUME NEW i \in Inst, UnregisterCheck(i)
      PROVE  Flows'
  <2>1. PICK c : c = [Head(cmd[i]) EXCEPT !.op = "del"]
    OBVIOUS
  <2>2. cmd[i] # <<>> /\ Head(cmd[i]).op = "check" /\ UNCHANGED <<pub, local, st>>
        /\ (Answer(i, <<c>>) \/ Answer(i, <<>>))
    BY <1>3, <2>1 DEF UnregisterCheck, Executes, Then
  <2>3. c \in Cmd /\ c.op = "del" /\ c.rid = Head(cmd[i]).rid
    BY <2>1, <2>2, HeadFlow DEF Cmd, Op
  <2>4. Flow(Tail(cmd[i]), pub[i], local[i], st)
    BY <2>2, HeadFlow
  <2>5. Flow(Append(Tail(cmd[i]), c), pub[i], local[i], st)
    BY <2>2, <2>3, <2>4, HeadFlow, FlowIssued DEF HeadSays, Registers
  <2>. QED  BY <2>2, <2>3, <2>4, <2>5, Answered, FlowElsewhere
<1>4. ASSUME NEW i \in Inst, UnregisterDel(i) \/ HeartbeatSet(i) \/ CommandFails(i)
      PROVE  Flows'
  <2>1. Answer(i, <<>>) /\ cmd[i] # <<>> /\ UNCHANGED <<pub, local>>
    BY <1>4 DEF UnregisterDel, HeartbeatSet, CommandFails, Executes
  <2>2. \A t \in Sock : st'[t] = "ready" => st[t] = "ready"
    BY <1>0, <1>4 DEF UnregisterDel, HeartbeatSet, CommandFails, TypeOK
  <2>3. Flow(Tail(cmd[i]), pub[i], local[i], st')
    <3>1. PICK q, l, v : q = Tail(cmd[i]) /\ l = local[i] /\ v = st'
      OBVIOUS
    <3>2. Flow(q, pub[i], l, st) /\ Formed(q, pub[i], l, Here(i))
      BY <2>1, <3>1, HeadFlow
    <3>3. \A t \in Here(i) : v[t] = "ready" => st[t] = "ready"
      BY <2>2, <3>1 DEF Here
    <3>4. Flow(q, pub[i], l, v)
      BY <3>2, <3>3, FlowEbbs
    <3>. QED  BY <3>1, <3>4
  <2>. QED  BY <2>1, <2>2, <2>3, Answered, FlowElsewhere
<1>5. ASSUME NEW i \in Inst, OnKick(i)
      PROVE  Flows'
  <2>. DEFINE r == Head(chan[i]).rid
  <2>0. UNCHANGED <<st, local>>
        \/ (st' = Closed({local[i][r]}) /\ local' = [local EXCEPT ![i][r] = None])
    BY <1>5, Zenon DEF OnKick
  <2>1. UNCHANGED <<cmd, pub>> /\ \A t \in Sock : st'[t] = "ready" => st[t] = "ready"
    <3>1. UNCHANGED <<cmd, pub>>
      BY <1>5 DEF OnKick
    <3>2. \A t \in Sock : st'[t] = "ready" => st[t] = "ready"
      BY <2>0 DEF Closed
    <3>. QED  BY <3>1, <3>2
  <2>3. \A j \in Inst, x \in Rid : local'[j][x] = local[j][x] \/ local'[j][x] = None
    <3>1. CASE local' = local
      BY <3>1
    <3>2. CASE local' = [local EXCEPT ![i][r] = None]
      BY <1>0, <3>2 DEF TypeOK
    <3>. QED  BY <2>0, <3>1, <3>2
  <2>. QED  BY <2>1, <2>3, FlowRests DEF Flows, Here
<1>6. ASSUME NEW i \in Inst, Crash(i)
      PROVE  Flows'
  <2>1. cmd'[i] = <<>> /\ pub'[i] = <<>>
        /\ \A j \in Inst \ {i} : cmd'[j] = cmd[j] /\ pub'[j] = pub[j] /\ local'[j] = local[j]
    BY <1>0, <1>6 DEF Crash, TypeOK
  <2>2. \A t \in Sock : st'[t] = "ready" => st[t] = "ready"
    BY <1>0, <1>6 DEF Crash, TypeOK
  <2>. QED  BY <2>1, <2>2, FlowEmpty, FlowElsewhere
<1>7. ASSUME NEW i \in Inst, RegisterKick(i)
      PROVE  Flows'
  <2>. DEFINE k == Head(pub[i])
  <2>1. pub[i] # <<>> /\ pub[i] \in Seq(Kick) /\ Issue(i, k.cont) /\ UNCHANGED <<local, st>>
        /\ pub' = [pub EXCEPT ![i] = Tail(@)]
    BY <1>0, <1>7 DEF RegisterKick, TypeOK
  <2>2. k \in Kick
    BY <2>1, HeadTailProperties
  <2>3. PICK c \in Cmd : c = k.cont
    BY <2>2 DEF Kick
  <2>4. Flow(cmd[i], pub[i], local[i], st)
    BY DEF Flows
  <2>5. /\ Flow(cmd[i], Tail(pub[i]), local[i], st)
        /\ c.op = "claim" /\ Idle(cmd[i], Tail(pub[i]), st, c.ws)
        /\ \A n \in DOMAIN cmd[i] : cmd[i][n].op = "check" =>
             local[i][cmd[i][n].rid] = None \/ local[i][cmd[i][n].rid] # c.ws
    <3>1. PICK p, l : p = pub[i] /\ l = local[i]
      OBVIOUS
    <3>2. p \in Seq(Kick) /\ p # <<>> /\ Flow(cmd[i], p, l, st) /\ c = Head(p).cont
      BY <2>1, <2>3, <2>4, <3>1
    <3>3. /\ Flow(cmd[i], Tail(p), l, st)
          /\ c.op = "claim" /\ Idle(cmd[i], Tail(p), st, c.ws)
          /\ \A n \in DOMAIN cmd[i] : cmd[i][n].op = "check" =>
               l[cmd[i][n].rid] = None \/ l[cmd[i][n].rid] # c.ws
      BY <3>2, FlowKicked
    <3>. QED  BY <3>1, <3>3
  <2>6. cmd[i] \in Seq(Cmd)
    BY <1>0 DEF TypeOK
  <2>7. Flow(Append(cmd[i], c), Tail(pub[i]), local[i], st)
    BY <2>5, <2>6, FlowIssued
  <2>8. /\ cmd'[i] = Append(cmd[i], c) /\ pub'[i] = Tail(pub[i])
        /\ \A j \in Inst \ {i} : cmd'[j] = cmd[j] /\ pub'[j] = pub[j]
    BY <1>0, <2>1, <2>3 DEF Issue, TypeOK
  <2>. QED  BY <2>1, <2>7, <2>8, FlowElsewhere
<1>8. ASSUME NEW i \in Inst, NEW r \in Rid, Heartbeat(i, r)
      PROVE  Flows'
  <2>1. PICK c : c = [op |-> "beat", rid |-> r, ws |-> None, prev |-> None]
    OBVIOUS
  <2>2. c \in Cmd /\ c.op = "beat"
    BY <2>1 DEF Cmd, Op
  <2>3. Issue(i, c) /\ UNCHANGED <<pub, local, st>>
    BY <1>8, <2>1 DEF Heartbeat
  <2>4. Flow(Append(cmd[i], c), pub[i], local[i], st)
    BY <1>0, <2>2, FlowIssued DEF Flows, TypeOK, Registers
  <2>. QED  BY <1>0, <2>3, <2>4, FlowElsewhere DEF Issue, TypeOK
<1>9. ASSUME UNCHANGED <<cmd, pub, local>>, \A t \in Sock : st'[t] = "ready" => st[t] = "ready"
      PROVE  Flows'
  BY <1>9, FlowRests DEF Flows, Here
<1>10. ASSUME NEW s \in Sock, SocketDies(s)
       PROVE  Flows'
  BY <1>0, <1>9, <1>10 DEF SocketDies, TypeOK
<1>. QED  BY <1>1, <1>2, <1>3, <1>4, <1>5, <1>6, <1>7, <1>8, <1>9, <1>10
          DEF Restart, Expire, StoreFills, StoreHasRoom

LEMMA NextFlows == Inv /\ Flows /\ [Next]_vars => Flows'
<1>1. ASSUME Inv, Flows, Next PROVE Flows'
  BY <1>1, RegisterFlow, OtherFlow DEF Next, InstStep, StoreStep, Environment
<1>2. ASSUME Inv, Flows, UNCHANGED vars PROVE Flows'
  BY <1>2 DEF vars, Flows
<1>. QED  BY <1>1, <1>2

LEMMA InitFlows == Init => Flows
<1>. SUFFICES ASSUME Init, NEW i \in Inst PROVE Flow(cmd[i], pub[i], local[i], st)
  BY DEF Flows
<1>1. cmd[i] = <<>> /\ pub[i] = <<>>
  BY DEF Init
<1>. QED  BY <1>1, FlowEmpty

LEMMA FlowsSay == Inv /\ Flows => WelcomedStays
<1>. SUFFICES ASSUME Inv, Flows, NEW i \in Inst, NEW r \in Rid, local[i][r] # None,
                     st[local[i][r]] = "ready", NEW k \in DOMAIN cmd[i], cmd[i][k].rid = r
              PROVE  cmd[i][k].op \notin {"check", "del"}
  BY DEF WelcomedStays
<1>. QED  BY DEF Flows, Flow, Quiet

\* Once a login is welcomed, no unregister of its own instance is on its way to
\* its presence record, however many sockets of the routing id opened and
\* closed there before it (server.js unregister, register).
THEOREM WelcomedKept == Spec => []WelcomedStays
<1>1. Init => Inv /\ Flows
  BY InitInv, InitFlows
<1>2. Inv /\ Flows /\ [Next]_vars => (Inv /\ Flows)'
  BY NextInv, NextFlows
<1>. QED  BY <1>1, <1>2, FlowsSay, PTL DEF Spec
=============================================================================
