--------------------------- MODULE RelayDelivery ---------------------------
(***************************************************************************)
(* How an envelope gets from `send` to the recipient's acknowledgement     *)
(* through instances that share one Redis store: deliverEnqueue, _push,    *)
(* ack, flush, reflushStalled and the `deliver` half of _onPub of          *)
(* RedisCoordinator (server/server.js), with the Lua scripts they call.    *)
(*                                                                         *)
(* One mailbox, that of a recipient who connects, disconnects and moves    *)
(* between instances.  A script is atomic; the awaits between a script and *)
(* what follows it are interleaving points.  A list of keys and a hash of  *)
(* bodies under them are one sequence of entries.  What presence says may  *)
(* be stale, missing or wrong, as RelayPresence shows, so a read of it may *)
(* return anything.  Senders, and the recipient's app, are external.       *)
(***************************************************************************)
EXTENDS Naturals, Sequences, FiniteSets, SequencesExt

CONSTANTS
  Inst,       \* relay instances
  Sealed,     \* envelopes stored without a sender
  Attributed, \* envelopes stamped with the routing id of their sender
  Shared,     \* sealed envelopes for which their senders picked one id
  None,       \* no owner
  Slots,      \* ID_SLOTS: how many sealed envelopes may share an id, less one
  Cap,        \* MAX_QUEUE_MSGS_PER_USER
  Page,       \* FLUSH_PAGE
  Faults,     \* the kinds of fault that may happen
  MaxFaults, MaxConn, MaxSends, \* bounds
  MaxIds,     \* bound: how many of the envelopes are sent at all
  MaxEvents   \* bound: connections and sends together

Env == Sealed \cup Attributed

ASSUME ParamAssumption ==
  /\ Sealed \cap Attributed = {} /\ Shared \subseteq Sealed
  /\ None \notin Inst
  /\ {Slots, Cap, MaxFaults, MaxConn, MaxSends, MaxIds, MaxEvents} \subseteq Nat
  /\ Page \in Nat \ {0}
  /\ Faults \subseteq {"crash", "full", "expire"}

VARIABLES
  queue,    \* q:{rid} with qe:{rid}: the entries, in arrival order
  full,     \* the store is at its memory limit
  conn,     \* conn[i]: the connection in local.get(rid), 0 if none
  task,     \* task[i]: sends under way: <<"push", e>>, then <<"route", e>>
  chan,     \* chan[i]: envelopes published to i and not yet handled
  flushes,  \* flushes[i]: what is left of the flush of a login and of a re-flush
  lastLen,  \* lastLen[i]: lastMailboxLen, 0 if it has none
  client,   \* the connection the recipient's app reads
  inbox,    \* envelopes in frames on their way to it
  acks,     \* its acknowledgements on their way to the relay
  answered, \* envelopes whose sender was told `sent`
  got,      \* envelopes the recipient has persisted
  lapsed,   \* envelopes that outlived QUEUE_TTL_HOURS
  sends,    \* the sends so far
  conns, spent \* how many so far

store == <<queue, full>>
relay == <<conn, task, chan, flushes, lastLen>>
app   == <<client, inbox, acks>>
told  == <<answered, got, lapsed>>
count == <<conns, sends, spent>>
vars  == <<store, relay, app, told, count>>

Entry == [env: Env, slot: 0 .. Slots]
Flush == [todo: Seq(Entry), read: BOOLEAN]

TypeOK ==
  /\ queue \in Seq(Entry) /\ full \in BOOLEAN
  /\ conn \in [Inst -> 0 .. MaxConn]
  /\ task \in [Inst -> SUBSET ({"push", "route"} \X Env)]
  /\ chan \in [Inst -> Seq(Env)]
  /\ \A i \in Inst : DOMAIN flushes[i] \subseteq {"login", "stalled"}
                     /\ \A k \in DOMAIN flushes[i] : flushes[i][k] \in Flush
  /\ lastLen \in [Inst -> Nat]
  /\ client \in 0 .. MaxConn /\ inbox \subseteq Env /\ acks \subseteq Env
  /\ answered \subseteq Env /\ got \subseteq Env /\ lapsed \subseteq Env
  /\ sends \in Seq(Env) /\ {conns, spent} \subseteq Nat

Init ==
  /\ queue = <<>> /\ full = FALSE
  /\ conn = [i \in Inst |-> 0]
  /\ task = [i \in Inst |-> {}]
  /\ chan = [i \in Inst |-> <<>>]
  /\ flushes = [i \in Inst |-> <<>>]
  /\ lastLen = [i \in Inst |-> 0]
  /\ client = 0 /\ inbox = {} /\ acks = {}
  /\ answered = {} /\ got = {} /\ lapsed = {}
  /\ conns = 0 /\ sends = <<>> /\ spent = 0

-----------------------------------------------------------------------------
Listed(k) == \E n \in DOMAIN queue : queue[n] = k

Holds(e) == \E n \in DOMAIN queue : queue[n].env = e

\* entryKey: whether two envelopes want the same key.  An attributed one names
\* its sender in it.
SameKey(e, f) == e = f \/ {e, f} \subseteq Shared

Taken(e) == {queue[n].slot : n \in {n \in DOMAIN queue : SameKey(queue[n].env, e)}}

\* sendJson: into the socket if it is open; what reaches a connection the app
\* has left is lost without a sign.  A second copy on the wire changes nothing
\* for an app that drops copies, so frames are a set, read in any order.
Frames(c, s) == IF c = client /\ client # 0 THEN inbox \cup s ELSE inbox

Fault(kind) == kind \in Faults /\ spent < MaxFaults /\ spent' = spent + 1

-----------------------------------------------------------------------------
\* A sender whose envelope was not answered `sent` (yet) sends it, again if
\* need be, to any instance.
Send(i, e) ==
  /\ e \notin answered /\ Len(sends) < MaxSends /\ conns + Len(sends) < MaxEvents
  /\ Cardinality(ToSet(sends) \cup {e}) <= MaxIds
  /\ task[i] \cap {<<"push", e>>, <<"route", e>>} = {}
  /\ task' = [task EXCEPT ![i] = @ \cup {<<"push", e>>}]
  /\ sends' = Append(sends, e)
  /\ UNCHANGED <<store, conn, chan, flushes, lastLen, app, told, conns, spent>>

\* The base key, or the first `#dup` that is free.
FreeSlot(e) ==
  CHOOSE n \in 0 .. Slots : n \notin Taken(e) /\ \A m \in 0 .. n - 1 : m \in Taken(e)

\* Mutant of Repeated: every envelope gets a slot of its own, as a sealed one does.
RepeatedNever(e) == FALSE

\* An attributed envelope that is there already is a retry.
Repeated(e) == e \in Attributed /\ Taken(e) # {}

Room(e) == Len(queue) < Cap /\ (e \in Sealed => ~(0 .. Slots \subseteq Taken(e)))

\* REDIS_PUSH_LUA.  Refused at a cap or a full store: the sender is told to
\* retry.
Push(i, e) ==
  /\ <<"push", e>> \in task[i]
  /\ task' = [task EXCEPT ![i] = (@ \ {<<"push", e>>}) \cup
       (IF ~full /\ (Repeated(e) \/ Room(e)) THEN {<<"route", e>>} ELSE {})]
  /\ queue' = IF ~full /\ ~Repeated(e) /\ Room(e)
                THEN Append(queue, [env |-> e, slot |-> FreeSlot(e)]) ELSE queue
  /\ UNCHANGED <<full, conn, chan, flushes, lastLen, app, told, count>>

\* GET presence:{rid}, then the live push: over this instance's own socket, or
\* published to the owner.  Either way the sender is told `sent`.
Route(i, e, owner) ==
  /\ <<"route", e>> \in task[i]
  /\ task' = [task EXCEPT ![i] = @ \ {<<"route", e>>}]
  /\ inbox' = IF owner \in {i, None} THEN Frames(conn[i], {e}) ELSE inbox
  /\ chan' = IF owner \in Inst \ {i} THEN [chan EXCEPT ![owner] = Append(@, e)] ELSE chan
  /\ answered' = answered \cup {e}
  /\ UNCHANGED <<store, conn, flushes, lastLen, client, acks, got, lapsed, count>>

\* _onPub deliver: dropped if this instance holds no socket for the mailbox.
OnDeliver(i) ==
  /\ chan[i] # <<>>
  /\ chan' = [chan EXCEPT ![i] = Tail(@)]
  /\ inbox' = Frames(conn[i], {Head(chan[i])})
  /\ UNCHANGED <<store, conn, task, flushes, lastLen, client, acks, told, count>>

-----------------------------------------------------------------------------
\* The app persists what it reads and acknowledges it.
Read(e) ==
  /\ e \in inbox /\ inbox' = inbox \ {e}
  /\ got' = got \cup {e}
  /\ acks' = acks \cup {e}
  /\ UNCHANGED <<store, relay, client, answered, lapsed, count>>

\* Where the entry is that an acknowledgement names: one key for an attributed
\* envelope; for a sealed one the first slot of its id that is there.
Acked(e) ==
  CHOOSE n \in DOMAIN queue :
    /\ SameKey(queue[n].env, e)
    /\ \A m \in DOMAIN queue : SameKey(queue[m].env, e) => queue[n].slot <= queue[m].slot

\* recv: REDIS_ACK_LUA, sent over the connection the app reads.
Ack(i, e) ==
  /\ conn[i] = client /\ client # 0 /\ e \in acks
  /\ acks' = acks \ {e}
  /\ queue' = IF Taken(e) = {} THEN queue ELSE RemoveAt(queue, Acked(e))
  /\ UNCHANGED <<full, relay, client, inbox, told, count>>

-----------------------------------------------------------------------------
Begin == [todo |-> <<>>, read |-> FALSE]

End(i, kind) == [k \in DOMAIN flushes[i] \ {kind} |-> flushes[i][k]]

\* A re-flush begins beside the flush of a login.
Stalled(i) == [k \in DOMAIN flushes[i] \cup {"stalled"} |->
                 IF k = "stalled" THEN Begin ELSE flushes[i][k]]

\* The app connects to i: registered there, welcomed, and flushed.  Its earlier
\* socket there is closed, which ends what was being flushed to it.
Login(i) ==
  /\ conns < MaxConn /\ conns + Len(sends) < MaxEvents
  /\ conns' = conns + 1 /\ client' = conns + 1
  /\ conn' = [conn EXCEPT ![i] = client']
  /\ inbox' = {} /\ acks' = {}
  /\ flushes' = [flushes EXCEPT ![i] = [login |-> Begin]]
  /\ UNCHANGED <<store, task, chan, lastLen, told, sends, spent>>

\* LRANGE: the keys as they are now.
FlushKeys(i, kind) ==
  /\ kind \in DOMAIN flushes[i] /\ ~flushes[i][kind].read
  /\ flushes' = [flushes EXCEPT ![i][kind].todo = queue, ![i][kind].read = TRUE]
  /\ UNCHANGED <<store, conn, task, chan, lastLen, app, told, count>>

Least(m, n) == IF m < n THEN m ELSE n

\* Mutant of FlushPage: what was written to the socket is taken for delivered,
\* as a receipt is.
FlushAndDrop(i, kind) ==
  /\ kind \in DOMAIN flushes[i] /\ flushes[i][kind].read
  /\ inbox' = Frames(conn[i], {e \in Env : Holds(e)})
  /\ queue' = <<>>
  /\ flushes' = [flushes EXCEPT ![i] = End(i, kind)]
  /\ UNCHANGED <<full, conn, task, chan, lastLen, client, acks, told, count>>

\* HMGET of a page and its frames, as far as the bodies are still there; an
\* envelope stays until it is acknowledged.
FlushPage(i, kind) ==
  LET f == flushes[i][kind]
      page == SubSeq(f.todo, 1, Least(Page, Len(f.todo)))
      rest == SubSeq(f.todo, Len(page) + 1, Len(f.todo))
  IN
  /\ kind \in DOMAIN flushes[i] /\ f.read
  /\ inbox' = Frames(conn[i], {page[n].env : n \in {n \in DOMAIN page : Listed(page[n])}})
  /\ flushes' = [flushes EXCEPT ![i] =
       IF rest = <<>> THEN End(i, kind) ELSE [@ EXCEPT ![kind].todo = rest]]
  /\ UNCHANGED <<store, conn, task, chan, lastLen, client, acks, told, count>>

\* Mutant of Reflush: the length of the last pass is not kept.
ReflushForgets(i) ==
  /\ "stalled" \notin DOMAIN flushes[i]
  /\ flushes' = IF conn[i] # 0 /\ queue # <<>> /\ lastLen[i] = Len(queue)
                  THEN [flushes EXCEPT ![i] = Stalled(i)] ELSE flushes
  /\ UNCHANGED <<store, conn, task, chan, lastLen, app, told, count>>

\* One turn of reflushStalled: only a length that has not moved since the last
\* pass costs a flush.
Reflush(i) ==
  /\ "stalled" \notin DOMAIN flushes[i]
  /\ IF conn[i] = 0 \/ queue = <<>>
       THEN lastLen' = [lastLen EXCEPT ![i] = 0] /\ UNCHANGED flushes
       ELSE /\ lastLen' = [lastLen EXCEPT ![i] = Len(queue)]
            /\ flushes' = IF lastLen[i] = Len(queue)
                            THEN [flushes EXCEPT ![i] = Stalled(i)] ELSE flushes
  /\ UNCHANGED <<store, conn, task, chan, app, told, count>>

-----------------------------------------------------------------------------
\* The app goes away; what was on the wire is gone.  The relay may learn later.
Leave ==
  /\ client # 0 /\ client' = 0 /\ inbox' = {} /\ acks' = {}
  /\ UNCHANGED <<store, relay, told, count>>

\* A connection the app no longer reads closes, or is kicked: a flush to it ends.
OnClose(i) ==
  /\ conn[i] \notin {0, client}
  /\ conn' = [conn EXCEPT ![i] = 0]
  /\ flushes' = [flushes EXCEPT ![i] = <<>>]
  /\ UNCHANGED <<store, task, chan, lastLen, app, told, count>>

\* The process dies and comes back with nothing.
Crash(i) ==
  /\ Fault("crash")
  /\ conn' = [conn EXCEPT ![i] = 0] /\ task' = [task EXCEPT ![i] = {}]
  /\ chan' = [chan EXCEPT ![i] = <<>>] /\ flushes' = [flushes EXCEPT ![i] = <<>>]
  /\ lastLen' = [lastLen EXCEPT ![i] = 0]
  /\ IF conn[i] = client /\ client # 0
       THEN client' = 0 /\ inbox' = {} /\ acks' = {}
       ELSE UNCHANGED app
  /\ UNCHANGED <<store, told, conns, sends>>

StoreFills ==
  /\ ~full /\ full' = TRUE /\ Fault("full")
  /\ UNCHANGED <<queue, relay, app, told, conns, sends>>

StoreHasRoom ==
  /\ full /\ full' = FALSE
  /\ UNCHANGED <<queue, relay, app, told, count>>

\* REDIS_EXPIRE_LUA, from a sweep or a flush: the oldest entry is past its TTL.
Expire ==
  /\ queue # <<>> /\ Fault("expire")
  /\ queue' = Tail(queue) /\ lapsed' = lapsed \cup {Head(queue).env}
  /\ UNCHANGED <<full, relay, app, answered, got, conns, sends>>

-----------------------------------------------------------------------------
Flushing(i) == \E kind \in DOMAIN flushes[i] : FlushKeys(i, kind) \/ FlushPage(i, kind)

Sending(i) == \E e \in Env :
  \/ Push(i, e)
  \/ \E owner \in Inst \cup {None} : Route(i, e, owner)

Next ==
  \/ \E i \in Inst, e \in Env : Send(i, e) \/ Ack(i, e)
  \/ \E e \in Env : Read(e)
  \/ \E i \in Inst : \/ Sending(i) \/ OnDeliver(i) \/ Flushing(i) \/ Reflush(i)
                     \/ Login(i) \/ OnClose(i) \/ Crash(i)
  \/ Leave
  \/ StoreFills \/ StoreHasRoom \/ Expire

Spec == Init /\ [][Next]_vars

\* A running process answers its callbacks and its re-flush timer fires; a
\* connected app reads and acknowledges.  Senders, logins and faults are left
\* alone.
Fairness ==
  /\ \A i \in Inst : /\ WF_vars(Sending(i)) /\ WF_vars(OnDeliver(i))
                     /\ WF_vars(Flushing(i)) /\ WF_vars(Reflush(i))
  /\ \A e \in Env : WF_vars(Read(e)) /\ WF_vars(\E i \in Inst : Ack(i, e))

FairSpec == Spec /\ Fairness

-----------------------------------------------------------------------------
\* Whatever a sender was told `sent` for is held until the recipient has
\* persisted it, through lost live pushes, dead sockets, moves between
\* instances, retries, crashes and a full store; only its TTL ends it.
HeldUntilGot == \A e \in answered : Holds(e) \/ e \in got \/ e \in lapsed

\* However often its sender retries, and wherever, an attributed envelope is
\* queued at most once, and the sealed envelopes of one id sit in different slots.
KeysUnique ==
  \A m, n \in DOMAIN queue :
    m # n /\ SameKey(queue[m].env, queue[n].env)
      => queue[m].env \in Sealed /\ queue[m].slot # queue[n].slot

\* The app stays connected, and the instance still holds its connection.
Connected == client # 0 /\ \E i \in Inst : conn[i] = client

\* An envelope whose live push went nowhere reaches a recipient who stays
\* connected, without a reconnection (the claim of reflushStalled).
Delivered == <>[]Connected => []<>(answered \subseteq got \cup lapsed)
=============================================================================
