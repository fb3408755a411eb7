------------------------- MODULE RelayDeliveryProofs -------------------------
(***************************************************************************)
(* What holds of delivery for every set of instances and envelopes and     *)
(* every limit: the types, that no two entries share a key and no          *)
(* attributed envelope is queued twice, and, if no two envelopes share an  *)
(* id, that an envelope answered `sent` is held until its recipient has it.*)
(***************************************************************************)
EXTENDS RelayDelivery, SequenceTheorems, WellFoundedInduction, TLAPS

\* What an instance is flushing.
Flushes == UNION {[D -> Flush] : D \in SUBSET {"login", "stalled"}}

Typed == TypeOK /\ flushes \in [Inst -> Flushes]

\* Entry k of the queue after one is gone is entry Past(n, k) of the one before.
Past(n, k) == IF k < n THEN k ELSE k + 1

Lost(q, n, p) ==
  /\ n \in DOMAIN q /\ p \in Seq(Entry) /\ Len(p) = Len(q) - 1
  /\ \A k \in DOMAIN p : Past(n, k) \in DOMAIN q /\ p[k] = q[Past(n, k)]

-----------------------------------------------------------------------------
\* A set of numbers has a smallest.
LEMMA Smallest ==
  ASSUME NEW T, T \subseteq Nat, T # {}
  PROVE  \E x \in T : \A y \in T : x <= y
<1> DEFINE R == {p \in Nat \X Nat : p[1] < p[2]}
<1>1. IsWellFoundedOn(OpToRel(<, Nat), Nat)
  BY NatLessThanWellFounded
<1>2. OpToRel(<, Nat) = R
  BY DEF OpToRel
<1>3. IsWellFoundedOn(R, Nat)
  BY <1>1, <1>2
<1>4. \A x, y \in Nat : x < y => <<x, y>> \in R
  OBVIOUS
<1> HIDE DEF R
<1>5. PICK x \in T : \A y \in T : ~ (<<y, x>> \in R)
  BY <1>3, WFMin, Zenon
<1>6. \A y \in T : ~(y < x)
  BY <1>4, <1>5, Zenon
<1> QED
  BY <1>6

\* A queue is a function on its positions.
LEMMA QueueIs ==
  ASSUME NEW q \in Seq(Entry)
  PROVE  /\ Len(q) \in Nat /\ DOMAIN q = 1 .. Len(q)
         /\ \A n \in DOMAIN q : q[n] \in Entry /\ q[n].env \in Env /\ q[n].slot \in 0 .. Slots
<1>1. \A n \in 1 .. Len(q) : q[n] \in Entry
  OBVIOUS
<1> QED
  BY <1>1 DEF Entry

LEMMA RemoveAtIs ==
  ASSUME NEW q \in Seq(Entry), NEW n \in DOMAIN q
  PROVE  Lost(q, n, RemoveAt(q, n))
<1> DEFINE f == SubSeq(q, 1, n - 1)
           t == SubSeq(q, n + 1, Len(q))
<1>1. n \in 1 .. Len(q) /\ Len(q) \in Nat
  BY QueueIs
<1>2. /\ f \in Seq(Entry) /\ Len(f) = n - 1
      /\ \A k \in 1 .. n - 1 : f[k] = q[k]
  BY <1>1
<1>3. /\ t \in Seq(Entry) /\ Len(t) = Len(q) - n
      /\ \A k \in 1 .. Len(q) - n : t[k] = q[n + k]
  BY <1>1
<1>4. RemoveAt(q, n) = f \o t
  BY DEF RemoveAt
<1> HIDE DEF f, t
<1>5. /\ f \o t \in Seq(Entry) /\ Len(f \o t) = Len(q) - 1
      /\ \A k \in 1 .. Len(q) - 1 : (f \o t)[k] = IF k < n THEN f[k] ELSE t[k - (n - 1)]
  BY <1>1, <1>2, <1>3, SMTT(30)
<1>6. DOMAIN (f \o t) = 1 .. Len(q) - 1
  BY <1>5
<1>7. ASSUME NEW k \in 1 .. Len(q) - 1
      PROVE  Past(n, k) \in DOMAIN q /\ (f \o t)[k] = q[Past(n, k)]
  <2>1. CASE k < n
    BY <1>1, <1>2, <1>5, <2>1 DEF Past
  <2>2. CASE ~(k < n)
    <3>1. /\ k - (n - 1) \in 1 .. Len(q) - n /\ n + (k - (n - 1)) = k + 1
          /\ k + 1 \in 1 .. Len(q)
      BY <1>1, <2>2
    <3>2. t[k - (n - 1)] = q[k + 1]
      BY <1>3, <3>1
    <3> QED
      BY <1>1, <1>5, <2>2, <3>1, <3>2 DEF Past
  <2> QED
    BY <2>1, <2>2
<1> QED
  BY <1>4, <1>5, <1>6, <1>7 DEF Lost

LEMMA TailIs ==
  ASSUME NEW q \in Seq(Entry), q # <<>>
  PROVE  Lost(q, 1, Tail(q))
<1>1. /\ Tail(q) \in Seq(Entry) /\ Len(Tail(q)) = Len(q) - 1 /\ Len(q) \in Nat \ {0}
      /\ \A k \in 1 .. Len(q) - 1 : Tail(q)[k] = q[k + 1]
  OBVIOUS
<1> QED
  BY <1>1, QueueIs DEF Lost, Past

\* No entry that is left is two that were.
LEMMA PastApart ==
  ASSUME NEW n \in Nat, NEW k \in Nat, NEW m \in Nat, k # m
  PROVE  Past(n, k) # Past(n, m)
  BY DEF Past

\* Every entry but the one that goes is left.
LEMMA PastAll ==
  ASSUME NEW q \in Seq(Entry), NEW n, NEW p, Lost(q, n, p), NEW m \in DOMAIN q, m # n
  PROVE  \E k \in DOMAIN p : p[k] = q[m]
<1>1. /\ Len(q) \in Nat /\ DOMAIN q = 1 .. Len(q) /\ n \in 1 .. Len(q)
      /\ DOMAIN p = 1 .. Len(q) - 1
  BY QueueIs DEF Lost
<1>2. PICK k \in 1 .. Len(q) - 1 : Past(n, k) = m
  <2>1. CASE m < n
    BY <1>1, <2>1 DEF Past
  <2>2. CASE m > n
    <3>1. m - 1 \in 1 .. Len(q) - 1 /\ Past(n, m - 1) = m
      BY <1>1, <2>2 DEF Past
    <3> QED
      BY <3>1
  <2> QED
    BY <1>1, <2>1, <2>2
<1> QED
  BY <1>1, <1>2 DEF Lost

-----------------------------------------------------------------------------
LEMMA SameKeySym == \A e, f : SameKey(e, f) => SameKey(f, e)
  BY DEF SameKey

\* What is gone from the queue frees its key and no other.
LEMMA LostKeepsUnique ==
  ASSUME queue \in Seq(Entry), KeysUnique, NEW n, Lost(queue, n, queue')
  PROVE  queue' \in Seq(Entry) /\ KeysUnique'
<1>1. queue' \in Seq(Entry)
  BY DEF Lost
<1>2. ASSUME NEW k \in DOMAIN queue', NEW m \in DOMAIN queue', k # m,
             SameKey(queue'[k].env, queue'[m].env)
      PROVE  queue'[k].env \in Sealed /\ queue'[k].slot # queue'[m].slot
  <2>1. n \in Nat /\ k \in Nat /\ m \in Nat
    BY <1>1, QueueIs DEF Lost
  <2>2. Past(n, k) # Past(n, m)
    BY <1>2, <2>1, PastApart
  <2>3. /\ Past(n, k) \in DOMAIN queue /\ queue'[k] = queue[Past(n, k)]
        /\ Past(n, m) \in DOMAIN queue /\ queue'[m] = queue[Past(n, m)]
    BY <1>2 DEF Lost
  <2> QED
    BY <1>2, <2>2, <2>3 DEF KeysUnique
<1> QED
  BY <1>1, <1>2 DEF KeysUnique

\* A slot that is free when one is.
LEMMA FreeSlotIs ==
  ASSUME NEW e, ~(0 .. Slots \subseteq Taken(e))
  PROVE  FreeSlot(e) \in 0 .. Slots /\ FreeSlot(e) \notin Taken(e)
<1> DEFINE T == (0 .. Slots) \ Taken(e)
<1>1. T \subseteq Nat /\ T # {}
  BY ParamAssumption
<1>2. PICK x \in T : \A y \in T : x <= y
  BY <1>1, Smallest, Zenon
<1>3. x \in 0 .. Slots /\ x \notin Taken(e) /\ \A m \in 0 .. x - 1 : m \in Taken(e)
  <2>1. x \in 0 .. Slots /\ x \notin Taken(e)
    BY <1>2
  <2>2. ASSUME NEW m \in 0 .. x - 1, m \notin Taken(e)
        PROVE  FALSE
    <3>1. m \in T /\ ~(x <= m)
      BY <2>1, <2>2, ParamAssumption
    <3> QED
      BY <1>2, <3>1
  <2> QED
    BY <2>1, <2>2
<1> QED
  BY <1>3 DEF FreeSlot

\* An acknowledgement names an entry of its key, if there is one.
LEMMA AckedIs ==
  ASSUME queue \in Seq(Entry), NEW e, Taken(e) # {}
  PROVE  Acked(e) \in DOMAIN queue /\ SameKey(queue[Acked(e)].env, e)
<1>1. Taken(e) \subseteq Nat
  BY QueueIs, ParamAssumption DEF Taken
<1>2. PICK x \in Taken(e) : \A y \in Taken(e) : x <= y
  BY <1>1, Smallest
<1>3. PICK n \in DOMAIN queue : SameKey(queue[n].env, e) /\ queue[n].slot = x
  BY <1>2 DEF Taken
<1>4. \A m \in DOMAIN queue : SameKey(queue[m].env, e) => queue[n].slot <= queue[m].slot
  BY <1>2, <1>3 DEF Taken
<1> QED
  BY <1>3, <1>4 DEF Acked

LEMMA NoneTaken ==
  ASSUME NEW e
  PROVE  Taken(e) = {} <=> \A n \in DOMAIN queue : ~SameKey(queue[n].env, e)
  BY DEF Taken

\* A push appends an entry with a key of its own.
LEMMA PushUnique ==
  ASSUME queue \in Seq(Entry), KeysUnique, NEW e \in Env, ~Repeated(e), Room(e),
         queue' = Append(queue, [env |-> e, slot |-> FreeSlot(e)])
  PROVE  queue' \in Seq(Entry) /\ KeysUnique'
<1> DEFINE x == [env |-> e, slot |-> FreeSlot(e)]
<1>1. ~(0 .. Slots \subseteq Taken(e))
  <2>1. CASE e \in Sealed
    BY <2>1 DEF Room
  <2>2. CASE e \in Attributed
    <3>1. 0 \in 0 .. Slots /\ Taken(e) = {}
      BY <2>2, ParamAssumption DEF Repeated
    <3> QED
      BY <3>1
  <2> QED
    BY <2>1, <2>2 DEF Env
<1>2. FreeSlot(e) \in 0 .. Slots /\ FreeSlot(e) \notin Taken(e)
  BY <1>1, FreeSlotIs
<1>3. x \in Entry /\ x.env = e /\ x.slot = FreeSlot(e)
  BY <1>2 DEF Entry
<1> HIDE DEF x
<1>4. queue' = Append(queue, x)
  BY DEF x
<1>5. /\ queue' \in Seq(Entry) /\ Len(queue') = Len(queue) + 1 /\ Len(queue) \in Nat
      /\ \A n \in 1 .. Len(queue) : queue'[n] = queue[n]
      /\ queue'[Len(queue) + 1] = x
  BY <1>3, <1>4
<1>6. DOMAIN queue = 1 .. Len(queue) /\ DOMAIN queue' = 1 .. Len(queue) + 1
  BY <1>5, QueueIs
<1>7. \A n \in DOMAIN queue : SameKey(queue[n].env, e) =>
         e \in Sealed /\ queue[n].env \in Sealed /\ queue[n].slot # FreeSlot(e)
  <2> SUFFICES ASSUME NEW n \in DOMAIN queue, SameKey(queue[n].env, e)
               PROVE  e \in Sealed /\ queue[n].env \in Sealed /\ queue[n].slot # FreeSlot(e)
    OBVIOUS
  <2>1. queue[n].slot \in Taken(e)
    BY DEF Taken
  <2>2. e \in Sealed
    BY <2>1 DEF Repeated, Env
  <2>3. queue[n].env \in Sealed
    BY <2>2, ParamAssumption DEF SameKey
  <2> QED
    BY <1>2, <2>1, <2>2, <2>3
<1>8. ASSUME NEW m \in DOMAIN queue', NEW n \in DOMAIN queue', m # n,
             SameKey(queue'[m].env, queue'[n].env)
      PROVE  queue'[m].env \in Sealed /\ queue'[m].slot # queue'[n].slot
  <2>1. CASE m \in DOMAIN queue /\ n \in DOMAIN queue
    BY <1>5, <1>6, <1>8, <2>1 DEF KeysUnique
  <2>2. CASE m = Len(queue) + 1 /\ n \in DOMAIN queue
    <3>1. SameKey(queue[n].env, e)
      BY <1>3, <1>5, <1>6, <1>8, <2>2, SameKeySym
    <3> QED
      BY <1>3, <1>5, <1>6, <1>7, <2>2, <3>1
  <2>3. CASE n = Len(queue) + 1 /\ m \in DOMAIN queue
    BY <1>3, <1>5, <1>6, <1>7, <1>8, <2>3
  <2> QED
    BY <1>5, <1>6, <1>8, <2>1, <2>2, <2>3
<1> QED
  BY <1>5, <1>8 DEF KeysUnique

-----------------------------------------------------------------------------
\* What a step may do to the queue: append to it under a key of its own, lose
\* one entry, or leave it.
LEMMA QueueStep ==
  ASSUME queue \in Seq(Entry), KeysUnique, [Next]_vars
  PROVE  queue' \in Seq(Entry) /\ KeysUnique'
<1>1. ASSUME UNCHANGED queue
      PROVE  queue' \in Seq(Entry) /\ KeysUnique'
  BY <1>1 DEF KeysUnique
<1>2. ASSUME NEW i \in Inst, NEW e \in Env, Push(i, e)
      PROVE  queue' \in Seq(Entry) /\ KeysUnique'
  <2>1. CASE ~full /\ ~Repeated(e) /\ Room(e)
    BY <1>2, <2>1, PushUnique DEF Push
  <2>2. CASE ~(~full /\ ~Repeated(e) /\ Room(e))
    <3>1. queue' = queue
      BY <1>2, <2>2, Zenon DEF Push
    <3> QED
      BY <1>1, <3>1
  <2> QED
    BY <2>1, <2>2
<1>3. ASSUME NEW i \in Inst, NEW e \in Env, Ack(i, e)
      PROVE  queue' \in Seq(Entry) /\ KeysUnique'
  <2>1. CASE Taken(e) = {}
    BY <1>1, <1>3, <2>1 DEF Ack
  <2>2. CASE Taken(e) # {}
    <3>1. queue' = RemoveAt(queue, Acked(e)) /\ Acked(e) \in DOMAIN queue
      BY <1>3, <2>2, AckedIs DEF Ack
    <3> QED
      BY <3>1, RemoveAtIs, LostKeepsUnique
  <2> QED
    BY <2>1, <2>2
<1>4. CASE Expire
  <2>1. queue # <<>> /\ queue' = Tail(queue)
    BY <1>4 DEF Expire
  <2> QED
    BY <2>1, TailIs, LostKeepsUnique
<1>5. CASE \/ \E i \in Inst, e \in Env : Send(i, e)
           \/ \E e \in Env : Read(e)
           \/ \E i \in Inst : \/ \E e \in Env, owner \in Inst \cup {None} : Route(i, e, owner)
                              \/ OnDeliver(i) \/ Flushing(i) \/ Reflush(i)
                              \/ Login(i) \/ OnClose(i) \/ Crash(i)
           \/ Leave \/ StoreFills \/ StoreHasRoom
  <2>1. UNCHANGED queue
    BY <1>5, ZenonT(40) DEF Send, Read, Route, OnDeliver, Flushing, FlushKeys, FlushPage, Reflush, Login,
                OnClose, Crash, Leave, StoreFills, StoreHasRoom, store
  <2> QED
    BY <1>1, <2>1
<1>6. CASE UNCHANGED vars
  BY <1>1, <1>6 DEF vars, store
<1> QED
  BY <1>2, <1>3, <1>4, <1>5, <1>6 DEF Next, Sending

-----------------------------------------------------------------------------
LEMMA FramesType ==
  ASSUME TypeOK, NEW c, NEW s \in SUBSET Env
  PROVE  Frames(c, s) \subseteq Env
  BY DEF Frames, TypeOK

\* What a flush has begun, has still to do, or has done.
LEMMA FlushesType ==
  ASSUME Typed, NEW i \in Inst
  PROVE  /\ flushes[i] \in Flushes
         /\ [login |-> Begin] \in Flushes /\ <<>> \in Flushes
         /\ \A kind : End(i, kind) \in Flushes
         /\ \A kind \in DOMAIN flushes[i], f \in Flush : [flushes[i] EXCEPT ![kind] = f] \in Flushes
         /\ Stalled(i) \in Flushes
<1>1. flushes[i] \in Flushes
  BY DEF Typed
<1>2. PICK D \in SUBSET {"login", "stalled"} : flushes[i] \in [D -> Flush]
  BY <1>1 DEF Flushes
<1>3. \A E \in SUBSET {"login", "stalled"} : \A f \in [E -> Flush] : f \in Flushes
  BY DEF Flushes
<1>4. Begin \in Flush
  BY DEF Begin, Flush
<1>5. [login |-> Begin] \in Flushes
  <2>1. [login |-> Begin] \in [{"login"} -> Flush]
    BY <1>4
  <2> QED
    BY <1>3, <2>1
<1>6. <<>> \in Flushes
  <2>1. <<>> \in [{} -> Flush]
    OBVIOUS
  <2> QED
    BY <1>3, <2>1
<1>7. ASSUME NEW kind
      PROVE  End(i, kind) \in Flushes
  <2>1. End(i, kind) \in [D \ {kind} -> Flush]
    BY <1>2 DEF End
  <2> QED
    BY <1>3, <2>1
<1>8. ASSUME NEW kind \in DOMAIN flushes[i], NEW f \in Flush
      PROVE  [flushes[i] EXCEPT ![kind] = f] \in Flushes
  <2>1. [flushes[i] EXCEPT ![kind] = f] \in [D -> Flush]
    BY <1>2
  <2> QED
    BY <1>3, <2>1
<1>9. Stalled(i) \in Flushes
  <2>1. Stalled(i) \in [D \cup {"stalled"} -> Flush]
    BY <1>2, <1>4 DEF Stalled
  <2>2. D \cup {"stalled"} \in SUBSET {"login", "stalled"}
    OBVIOUS
  <2> QED
    BY <1>3, <2>1, <2>2
<1> QED
  BY <1>1, <1>5, <1>6, <1>7, <1>8, <1>9

LEMMA FlushesSay ==
  ASSUME NEW f \in [Inst -> Flushes]
  PROVE  \A i \in Inst : /\ DOMAIN f[i] \subseteq {"login", "stalled"}
                         /\ \A k \in DOMAIN f[i] : f[i][k] \in Flush
<1> SUFFICES ASSUME NEW i \in Inst
             PROVE  /\ DOMAIN f[i] \subseteq {"login", "stalled"}
                    /\ \A k \in DOMAIN f[i] : f[i][k] \in Flush
  OBVIOUS
<1>1. PICK D \in SUBSET {"login", "stalled"} : f[i] \in [D -> Flush]
  BY DEF Flushes
<1> QED
  BY <1>1

-----------------------------------------------------------------------------
\* Everything but the queue.
Rest ==
  /\ full \in BOOLEAN /\ conn \in [Inst -> 0 .. MaxConn]
  /\ task \in [Inst -> SUBSET ({"push", "route"} \X Env)]
  /\ chan \in [Inst -> Seq(Env)] /\ flushes \in [Inst -> Flushes]
  /\ lastLen \in [Inst -> Nat]
  /\ client \in 0 .. MaxConn /\ inbox \subseteq Env /\ acks \subseteq Env
  /\ answered \subseteq Env /\ got \subseteq Env /\ lapsed \subseteq Env
  /\ conns \in Nat /\ sends \in Seq(Env) /\ spent \in Nat

LEMMA RestIs == Typed <=> queue \in Seq(Entry) /\ Rest
<1>1. Typed => queue \in Seq(Entry) /\ Rest
  BY DEF Typed, TypeOK, Rest
<1>2. Rest => \A i \in Inst : /\ DOMAIN flushes[i] \subseteq {"login", "stalled"}
                             /\ \A k \in DOMAIN flushes[i] : flushes[i][k] \in Flush
  BY FlushesSay DEF Rest
<1>3. queue \in Seq(Entry) /\ Rest => Typed
  BY <1>2 DEF Typed, TypeOK, Rest
<1> QED
  BY <1>1, <1>3

\* The relay's callbacks, the store's scripts and the app keep the types.
LEMMA RestStep ==
  ASSUME Typed, [Next]_vars
  PROVE  Rest'
<1>0. queue \in Seq(Entry) /\ Rest /\ TypeOK
  BY RestIs DEF Typed
<1> USE DEF Rest
<1>1. ASSUME NEW i \in Inst, NEW e \in Env, Send(i, e)
      PROVE  Rest'
  <2>1. task[i] \cup {<<"push", e>>} \in SUBSET ({"push", "route"} \X Env)
    BY <1>0
  <2> QED
    BY <1>0, <1>1, <2>1 DEF Send, store, app, told
<1>2. ASSUME NEW i \in Inst, NEW e \in Env, Ack(i, e)
      PROVE  Rest'
  BY <1>0, <1>2 DEF Ack, relay, told, count
<1>3. ASSUME NEW e \in Env, Read(e)
      PROVE  Rest'
  BY <1>0, <1>3 DEF Read, store, relay, count
<1>4. ASSUME NEW i \in Inst, NEW e \in Env, Push(i, e)
      PROVE  Rest'
  <2>1. PICK t \in SUBSET ({"push", "route"} \X Env) : task' = [task EXCEPT ![i] = t]
    <3>1. /\ task[i] \ {<<"push", e>>} \in SUBSET ({"push", "route"} \X Env)
          /\ <<"route", e>> \in {"push", "route"} \X Env
      BY <1>0
    <3>2. \E t \in {{<<"route", e>>}, {}} :
             task' = [task EXCEPT ![i] = (task[i] \ {<<"push", e>>}) \cup t]
      BY <1>4, Zenon DEF Push
    <3> QED
      BY <3>1, <3>2
  <2>2. UNCHANGED <<full, conn, chan, flushes, lastLen, app, told, count>>
    BY <1>4 DEF Push
  <2> QED
    BY <1>0, <2>1, <2>2 DEF app, told, count
<1>5. ASSUME NEW i \in Inst, NEW e \in Env, NEW owner \in Inst \cup {None}, Route(i, e, owner)
      PROVE  Rest'
  <2>1. inbox' \subseteq Env
    BY <1>0, <1>5, FramesType DEF Route
  <2>2. chan' \in [Inst -> Seq(Env)]
    <3>1. CASE owner \in Inst \ {i}
      <4>1. Append(chan[owner], e) \in Seq(Env)
        BY <1>0, <3>1
      <4>2. chan' = [chan EXCEPT ![owner] = Append(chan[owner], e)]
        BY <1>5, <3>1 DEF Route
      <4> QED
        BY <1>0, <4>1, <4>2
    <3>2. CASE owner \notin Inst \ {i}
      BY <1>0, <1>5, <3>2 DEF Route
    <3> QED
      BY <3>1, <3>2
  <2>3. task' \in [Inst -> SUBSET ({"push", "route"} \X Env)]
    <3>1. task[i] \ {<<"route", e>>} \in SUBSET ({"push", "route"} \X Env)
      BY <1>0
    <3>2. task' = [task EXCEPT ![i] = task[i] \ {<<"route", e>>}]
      BY <1>5 DEF Route
    <3> QED
      BY <1>0, <3>1, <3>2
  <2>4. answered' = answered \cup {e} /\ UNCHANGED <<full, conn, flushes, lastLen, client, acks, got, lapsed, count>>
    BY <1>5 DEF Route, store
  <2> QED
    BY <1>0, <2>1, <2>2, <2>3, <2>4 DEF count
<1>6. ASSUME NEW i \in Inst, OnDeliver(i)
      PROVE  Rest'
  <2>1. chan[i] \in Seq(Env) /\ chan[i] # <<>>
    BY <1>0, <1>6 DEF OnDeliver
  <2>2. Head(chan[i]) \in Env /\ Tail(chan[i]) \in Seq(Env)
    BY <2>1
  <2>3. inbox' \subseteq Env
    BY <1>0, <1>6, <2>2, FramesType DEF OnDeliver
  <2>4. chan' \in [Inst -> Seq(Env)]
    BY <1>0, <1>6, <2>2 DEF OnDeliver
  <2> QED
    BY <1>0, <1>6, <2>3, <2>4 DEF OnDeliver, store, told, count
<1>7. ASSUME NEW i \in Inst, NEW kind, FlushKeys(i, kind)
      PROVE  Rest'
  <2>1. /\ kind \in DOMAIN flushes[i] /\ flushes[i] \in Flushes
        /\ flushes[i][kind] \in Flush
    BY <1>0, <1>7, FlushesType DEF FlushKeys, TypeOK
  <2>2. PICK f \in Flush : flushes' = [flushes EXCEPT ![i] = [flushes[i] EXCEPT ![kind] = f]]
    <3> DEFINE f == [flushes[i][kind] EXCEPT !.todo = queue, !.read = TRUE]
    <3>1. f \in Flush
      BY <1>0, <2>1 DEF Flush
    <3>2. flushes' = [flushes EXCEPT ![i] = [flushes[i] EXCEPT ![kind] = f]]
      BY <1>0, <1>7, <2>1 DEF FlushKeys
    <3> QED
      BY <3>1, <3>2
  <2>3. [flushes[i] EXCEPT ![kind] = f] \in Flushes
    BY <2>1, FlushesType
  <2>4. flushes' \in [Inst -> Flushes]
    BY <1>0, <2>2, <2>3
  <2>5. UNCHANGED <<store, conn, task, chan, lastLen, app, told, count>>
    BY <1>7 DEF FlushKeys
  <2> QED
    BY <1>0, <2>4, <2>5 DEF store, app, told, count
<1>8. ASSUME NEW i \in Inst, NEW kind, FlushPage(i, kind)
      PROVE  Rest'
  <2>1. /\ kind \in DOMAIN flushes[i] /\ flushes[i][kind] \in Flush
        /\ flushes[i][kind].todo \in Seq(Entry)
    BY <1>0, <1>8 DEF FlushPage, TypeOK, Flush
  <2>2. PICK p, rest : /\ p = SubSeq(flushes[i][kind].todo, 1, Least(Page, Len(flushes[i][kind].todo)))
                       /\ rest = SubSeq(flushes[i][kind].todo, Len(p) + 1, Len(flushes[i][kind].todo))
    OBVIOUS
  <2>3. p \in Seq(Entry) /\ rest \in Seq(Entry)
    <3>1. Least(Page, Len(flushes[i][kind].todo)) \in 0 .. Len(flushes[i][kind].todo)
      BY <2>1, ParamAssumption DEF Least
    <3>2. p \in Seq(Entry)
      BY <2>1, <2>2, <3>1
    <3> QED
      BY <2>1, <2>2, <3>2
  <2>4. /\ inbox' = Frames(conn[i], {p[n].env : n \in {n \in DOMAIN p : Listed(p[n])}})
        /\ flushes' = [flushes EXCEPT ![i] = IF rest = <<>> THEN End(i, kind)
                          ELSE [flushes[i] EXCEPT ![kind] = [flushes[i][kind] EXCEPT !.todo = rest]]]
        /\ UNCHANGED <<store, conn, task, chan, lastLen, client, acks, told, count>>
    BY <1>0, <1>8, <2>2 DEF FlushPage
  <2>5. inbox' \subseteq Env
    <3>1. {p[n].env : n \in {n \in DOMAIN p : Listed(p[n])}} \in SUBSET Env
      BY <2>3, QueueIs
    <3> QED
      BY <1>0, <2>4, <3>1, FramesType
  <2>6. flushes' \in [Inst -> Flushes]
    <3>1. [flushes[i][kind] EXCEPT !.todo = rest] \in Flush
      BY <2>1, <2>3 DEF Flush
    <3>2. /\ End(i, kind) \in Flushes
          /\ [flushes[i] EXCEPT ![kind] = [flushes[i][kind] EXCEPT !.todo = rest]] \in Flushes
      BY <2>1, <3>1, FlushesType
    <3> QED
      BY <1>0, <2>4, <3>2
  <2> QED
    BY <1>0, <2>4, <2>5, <2>6 DEF store, told, count
<1>9. ASSUME NEW i \in Inst, Reflush(i)
      PROVE  Rest'
  <2>1. lastLen' \in [Inst -> Nat]
    <3>1. Len(queue) \in Nat /\ 0 \in Nat
      BY <1>0
    <3>2. lastLen' = [lastLen EXCEPT ![i] = 0] \/ lastLen' = [lastLen EXCEPT ![i] = Len(queue)]
      BY <1>9 DEF Reflush
    <3> QED
      BY <1>0, <3>1, <3>2
  <2>2. flushes' \in [Inst -> Flushes]
    BY <1>0, <1>9, FlushesType DEF Reflush
  <2> QED
    BY <1>0, <1>9, <2>1, <2>2 DEF Reflush, store, app, told, count
<1>10. ASSUME NEW i \in Inst, Login(i)
       PROVE  Rest'
  <2>1. conns + 1 \in 0 .. MaxConn /\ client' = conns + 1 /\ conns' = conns + 1
    <3>1. conns < MaxConn /\ client' = conns + 1 /\ conns' = conns + 1
      BY <1>10 DEF Login
    <3>2. conns \in Nat /\ MaxConn \in Nat
      BY <1>0, ParamAssumption
    <3> QED
      BY <3>1, <3>2
  <2>2. conn' \in [Inst -> 0 .. MaxConn]
    BY <1>0, <1>10, <2>1 DEF Login
  <2>3. flushes' \in [Inst -> Flushes]
    BY <1>0, <1>10, FlushesType DEF Login
  <2> QED
    BY <1>0, <1>10, <2>1, <2>2, <2>3 DEF Login, store, told
<1>11. CASE Leave
  BY <1>0, <1>11, ParamAssumption DEF Leave, store, relay, told, count
<1>12. ASSUME NEW i \in Inst, OnClose(i)
       PROVE  Rest'
  <2>1. flushes' \in [Inst -> Flushes]
    BY <1>0, <1>12, FlushesType DEF OnClose
  <2>2. conn' \in [Inst -> 0 .. MaxConn]
    BY <1>0, <1>12, ParamAssumption DEF OnClose
  <2> QED
    BY <1>0, <1>12, <2>1, <2>2 DEF OnClose, store, app, told, count
<1>13. ASSUME NEW i \in Inst, Crash(i)
       PROVE  Rest'
  <2>1. flushes' \in [Inst -> Flushes]
    BY <1>0, <1>13, FlushesType DEF Crash
  <2>2. /\ task' \in [Inst -> SUBSET ({"push", "route"} \X Env)]
        /\ chan' \in [Inst -> Seq(Env)] /\ conn' \in [Inst -> 0 .. MaxConn]
        /\ lastLen' \in [Inst -> Nat]
    BY <1>0, <1>13, ParamAssumption DEF Crash
  <2>3. client' \in 0 .. MaxConn /\ inbox' \subseteq Env /\ acks' \subseteq Env
    BY <1>0, <1>13, ParamAssumption DEF Crash, app
  <2>4. spent' = spent + 1 /\ UNCHANGED <<store, told, conns, sends>>
    BY <1>13 DEF Crash, Fault
  <2> QED
    BY <1>0, <2>1, <2>2, <2>3, <2>4 DEF store, told
<1>14. CASE StoreFills \/ StoreHasRoom
  <2>1. UNCHANGED <<conn, task, chan, flushes, lastLen, client, inbox, acks, answered, got, lapsed,
                    conns, sends>>
    BY <1>14 DEF StoreFills, StoreHasRoom, relay, app, told, count
  <2>2. full' \in BOOLEAN
    BY <1>14 DEF StoreFills, StoreHasRoom
  <2>3. spent' = spent + 1 \/ spent' = spent
    BY <1>14 DEF StoreFills, StoreHasRoom, Fault, count
  <2>4. spent' \in Nat
    BY <1>0, <2>3
  <2> QED
    BY <1>0, <2>1, <2>2, <2>4
<1>15. CASE Expire
  <2>1. Head(queue).env \in Env
    BY <1>0, <1>15, QueueIs DEF Expire
  <2> QED
    BY <1>0, <1>15, <2>1 DEF Expire, Fault, relay, app
<1>16. CASE UNCHANGED vars
  BY <1>0, <1>16 DEF vars, store, relay, app, told, count
<1> QED
  BY <1>1, <1>2, <1>3, <1>4, <1>5, <1>6, <1>7, <1>8, <1>9, <1>10, <1>11, <1>12, <1>13, <1>14,
     <1>15, <1>16 DEF Next, Sending, Flushing

Inv == Typed /\ KeysUnique

LEMMA InvInit == Init => Inv
<1> SUFFICES ASSUME Init PROVE Inv
  OBVIOUS
<1>1. \A i \in Inst : flushes[i] \in [{} -> Flush]
  BY DEF Init
<1>2. flushes \in [Inst -> Flushes]
  BY <1>1 DEF Init, Flushes
<1>3. queue \in Seq(Entry) /\ Rest
  <2>1. full \in BOOLEAN /\ task \in [Inst -> SUBSET ({"push", "route"} \X Env)]
    BY DEF Init
  <2>2. /\ queue \in Seq(Entry) /\ chan \in [Inst -> Seq(Env)]
        /\ conn \in [Inst -> 0 .. MaxConn] /\ lastLen \in [Inst -> Nat]
    BY ParamAssumption DEF Init
  <2>3. /\ client \in 0 .. MaxConn /\ inbox \subseteq Env /\ acks \subseteq Env
        /\ answered \subseteq Env /\ got \subseteq Env /\ lapsed \subseteq Env
        /\ conns \in Nat /\ sends \in Seq(Env) /\ spent \in Nat
    BY ParamAssumption DEF Init
  <2> QED
    BY <1>2, <2>1, <2>2, <2>3 DEF Rest
<1>4. KeysUnique
  BY DEF Init, KeysUnique
<1> QED
  BY <1>3, <1>4, RestIs DEF Inv

LEMMA InvStep == Inv /\ [Next]_vars => Inv'
<1> SUFFICES ASSUME Inv, [Next]_vars PROVE Inv'
  OBVIOUS
<1>1. queue \in Seq(Entry)
  BY DEF Inv, Typed, TypeOK
<1>2. queue' \in Seq(Entry) /\ KeysUnique'
  BY <1>1, QueueStep DEF Inv
<1>3. Rest'
  BY RestStep DEF Inv
<1>4. Typed'
  <2>1. \A i \in Inst : /\ DOMAIN flushes'[i] \subseteq {"login", "stalled"}
                       /\ \A k \in DOMAIN flushes'[i] : flushes'[i][k] \in Flush
    BY <1>3, FlushesSay DEF Rest
  <2> QED
    BY <1>2, <1>3, <2>1 DEF Rest, Typed, TypeOK
<1> QED
  BY <1>2, <1>4 DEF Inv

-----------------------------------------------------------------------------
\* No two envelopes share an id (docs/PROTOCOL.md 2922 is about those that do).
OwnIds == \A e, f \in Shared : e = f

Safe(e) == Holds(e) \/ e \in got \/ e \in lapsed

\* What has been pushed and not answered yet is as safe as what was answered,
\* and an app acknowledges only what it has persisted.
Careful ==
  /\ \A i \in Inst, e \in Env : <<"route", e>> \in task[i] => Safe(e)
  /\ \A e \in answered : Safe(e)
  /\ acks \subseteq got

LEMMA OwnKey ==
  ASSUME OwnIds, NEW e, NEW f, SameKey(e, f)
  PROVE  e = f
  BY DEF OwnIds, SameKey

\* No step makes what is safe unsafe.
LEMMA SafeStays ==
  ASSUME OwnIds, queue \in Seq(Entry), acks \subseteq got, [Next]_vars, NEW e, Safe(e)
  PROVE  Safe(e)'
<1>1. ASSUME UNCHANGED queue, got \subseteq got', lapsed \subseteq lapsed'
      PROVE  Safe(e)'
  BY <1>1 DEF Safe, Holds
<1>2. ASSUME NEW i \in Inst, NEW f \in Env, Push(i, f)
      PROVE  Safe(e)'
  <2>1. got' = got /\ lapsed' = lapsed
    BY <1>2 DEF Push, told
  <2>2. CASE queue' = queue
    BY <1>1, <2>1, <2>2
  <2>3. CASE queue' = Append(queue, [env |-> f, slot |-> FreeSlot(f)])
    <3>1. \A n \in DOMAIN queue : n \in DOMAIN queue' /\ queue'[n] = queue[n]
      BY <2>3
    <3> QED
      BY <2>1, <3>1 DEF Safe, Holds
  <2> QED
    BY <1>2, <2>2, <2>3, Zenon DEF Push
<1>3. ASSUME NEW i \in Inst, NEW f \in Env, Ack(i, f)
      PROVE  Safe(e)'
  <2>1. got' = got /\ lapsed' = lapsed /\ f \in got
    BY <1>3 DEF Ack, told
  <2>2. CASE Taken(f) = {}
    BY <1>1, <1>3, <2>1, <2>2 DEF Ack
  <2>3. CASE Taken(f) # {}
    <3>1. /\ queue' = RemoveAt(queue, Acked(f)) /\ Acked(f) \in DOMAIN queue
          /\ queue[Acked(f)].env = f
      BY <1>3, <2>3, AckedIs, OwnKey DEF Ack
    <3>2. Lost(queue, Acked(f), queue')
      BY <3>1, RemoveAtIs
    <3>3. CASE e = f
      BY <2>1, <3>3 DEF Safe
    <3>4. CASE e # f
      BY <2>1, <3>1, <3>2, <3>4, PastAll DEF Safe, Holds
    <3> QED
      BY <3>3, <3>4
  <2> QED
    BY <2>2, <2>3
<1>4. CASE Expire
  <2>1. /\ queue # <<>> /\ queue' = Tail(queue) /\ got' = got
        /\ lapsed' = lapsed \cup {queue[1].env}
    BY <1>4 DEF Expire
  <2>2. Lost(queue, 1, queue')
    BY <2>1, TailIs
  <2>3. CASE e = queue[1].env
    BY <2>1, <2>3 DEF Safe
  <2>4. CASE e # queue[1].env
    <3>1. CASE Holds(e)
      <4>1. PICK n \in DOMAIN queue : queue[n].env = e
        BY <3>1 DEF Holds
      <4>2. n # 1
        BY <2>4, <4>1
      <4>3. \E k \in DOMAIN queue' : queue'[k] = queue[n]
        BY <2>2, <4>1, <4>2, PastAll
      <4> QED
        BY <4>1, <4>3 DEF Safe, Holds
    <3>2. CASE e \in got \/ e \in lapsed
      BY <2>1, <3>2 DEF Safe
    <3> QED
      BY <3>1, <3>2 DEF Safe
  <2> QED
    BY <2>3, <2>4
<1>5. CASE \/ \E i \in Inst, f \in Env : Send(i, f)
           \/ \E i \in Inst : \/ OnDeliver(i) \/ Flushing(i) \/ Reflush(i)
                              \/ Login(i) \/ OnClose(i)
           \/ Leave \/ StoreFills \/ StoreHasRoom
  <2>1. UNCHANGED <<queue, got, lapsed>>
    BY <1>5, ZenonT(40) DEF Send, OnDeliver, Flushing, FlushKeys, FlushPage, Reflush, Login, OnClose, Leave,
                StoreFills, StoreHasRoom, store, told
  <2> QED
    BY <1>1, <2>1
<1>6. ASSUME NEW f \in Env, Read(f)
      PROVE  Safe(e)'
  <2>1. UNCHANGED <<queue, lapsed>> /\ got' = got \cup {f}
    BY <1>6 DEF Read, store
  <2> QED
    BY <1>1, <2>1
<1>7. ASSUME NEW i \in Inst, NEW f \in Env, NEW owner, Route(i, f, owner)
      PROVE  Safe(e)'
  <2>1. UNCHANGED <<queue, got, lapsed>>
    BY <1>7, Zenon DEF Route, store
  <2> QED
    BY <1>1, <2>1
<1>8. ASSUME NEW i \in Inst, Crash(i)
      PROVE  Safe(e)'
  <2>1. UNCHANGED <<queue, got, lapsed>>
    BY <1>8, Zenon DEF Crash, store, told
  <2> QED
    BY <1>1, <2>1
<1>9. CASE UNCHANGED vars
  BY <1>1, <1>9 DEF vars, store, told
<1> QED
  BY <1>2, <1>3, <1>4, <1>5, <1>6, <1>7, <1>8, <1>9 DEF Next, Sending

LEMMA CarefulInit == Init => Careful
  BY DEF Init, Careful

LEMMA CarefulStep ==
  ASSUME OwnIds, Inv, Careful, [Next]_vars
  PROVE  Careful'
<1>0. queue \in Seq(Entry) /\ acks \subseteq got /\ task \in [Inst -> SUBSET ({"push", "route"} \X Env)]
  BY DEF Inv, Typed, TypeOK, Careful
<1>1. \A e : Safe(e) => Safe(e)'
  BY <1>0, SafeStays
<1>2. acks' \subseteq got'
  <2>1. ASSUME got' = got, acks' \subseteq acks
        PROVE  acks' \subseteq got'
    BY <1>0, <2>1
  <2>2. ASSUME NEW f \in Env, Read(f) PROVE acks' \subseteq got'
    BY <1>0, <2>2 DEF Read
  <2>3. ASSUME NEW i \in Inst, NEW f \in Env, Ack(i, f) PROVE acks' \subseteq got'
    BY <1>0, <2>3 DEF Ack, told
  <2>4. ASSUME NEW i \in Inst, Sending(i) PROVE acks' \subseteq got'
    <3>1. UNCHANGED <<got, acks>>
      BY <2>4, Zenon DEF Sending, Push, Route, app, told
    <3> QED
      BY <2>1, <3>1
  <2>5. ASSUME NEW i \in Inst, Crash(i) PROVE acks' \subseteq got'
    <3>1. got' = got /\ (acks' = {} \/ acks' = acks)
      BY <2>5, Zenon DEF Crash, app, told
    <3> QED
      BY <2>1, <3>1
  <2>6. CASE \/ \E i \in Inst, f \in Env : Send(i, f)
             \/ \E i \in Inst : OnDeliver(i) \/ Flushing(i) \/ Reflush(i) \/ OnClose(i)
             \/ StoreFills \/ StoreHasRoom \/ Expire \/ UNCHANGED vars
    <3>1. UNCHANGED <<got, acks>>
      BY <2>6 DEF Send, OnDeliver, Flushing, FlushKeys, FlushPage, Reflush, OnClose, StoreFills,
                  StoreHasRoom, Expire, app, told, vars
    <3> QED
      BY <2>1, <3>1
  <2>7. CASE Leave \/ \E i \in Inst : Login(i)
    <3>1. got' = got /\ acks' = {}
      BY <2>7 DEF Leave, Login, told
    <3> QED
      BY <2>1, <3>1
  <2> QED
    BY <2>2, <2>3, <2>4, <2>5, <2>6, <2>7 DEF Next
<1>3. ASSUME NEW e \in answered'
      PROVE  Safe(e)'
  <2>1. e \in answered \/ \E i \in Inst : e \in Env /\ <<"route", e>> \in task[i]
    <3>1. CASE answered' = answered
      BY <1>3, <3>1
    <3>2. ASSUME NEW i \in Inst, NEW f \in Env, NEW owner, Route(i, f, owner)
          PROVE  e \in answered \/ (f = e /\ <<"route", e>> \in task[i])
      <4>1. answered' = answered \cup {f} /\ <<"route", f>> \in task[i]
        BY <3>2, Zenon DEF Route
      <4> QED
        BY <1>3, <4>1
    <3>3. ASSUME NEW i \in Inst, NEW f \in Env, Push(i, f) PROVE answered' = answered
      BY <3>3, Zenon DEF Push, told
    <3>4. ASSUME NEW i \in Inst, Crash(i) PROVE answered' = answered
      BY <3>4, Zenon DEF Crash, told
    <3>5. ASSUME \/ \E i \in Inst, f \in Env : Send(i, f) \/ Ack(i, f)
                 \/ \E f \in Env : Read(f)
                 \/ \E i \in Inst : \/ OnDeliver(i) \/ Flushing(i) \/ Reflush(i)
                                    \/ Login(i) \/ OnClose(i)
                 \/ Leave \/ StoreFills \/ StoreHasRoom \/ Expire \/ UNCHANGED vars
          PROVE  answered' = answered
      BY <3>5, ZenonT(40) DEF Send, Ack, Read, OnDeliver, Flushing, FlushKeys, FlushPage, Reflush, Login,
                  OnClose, Leave, StoreFills, StoreHasRoom, Expire, told, vars
    <3> QED
      BY <3>1, <3>2, <3>3, <3>4, <3>5 DEF Next, Sending
  <2> QED
    BY <1>1, <2>1 DEF Careful
<1>4. ASSUME NEW i \in Inst, NEW e \in Env, <<"route", e>> \in task'[i]
      PROVE  Safe(e)'
  <2>1. CASE <<"route", e>> \in task[i]
    BY <1>1, <2>1 DEF Careful
  <2>2. CASE <<"route", e>> \notin task[i]
    <3>1. Push(i, e) /\ ~full /\ (Repeated(e) \/ Room(e))
      <4>1. ASSUME UNCHANGED task PROVE FALSE
        BY <1>4, <2>2, <4>1
      <4>2. ASSUME NEW j \in Inst, NEW f \in Env, Send(j, f) PROVE FALSE
        <5>1. task' = [task EXCEPT ![j] = task[j] \cup {<<"push", f>>}]
          BY <4>2 DEF Send
        <5> QED
          BY <1>0, <1>4, <2>2, <5>1
      <4>3. ASSUME NEW j \in Inst, NEW f \in Env, NEW owner, Route(j, f, owner) PROVE FALSE
        <5>1. task' = [task EXCEPT ![j] = task[j] \ {<<"route", f>>}]
          BY <4>3 DEF Route
        <5> QED
          BY <1>0, <1>4, <2>2, <5>1
      <4>4. ASSUME NEW j \in Inst, Crash(j) PROVE FALSE
        BY <1>0, <1>4, <2>2, <4>4 DEF Crash
      <4>5. ASSUME NEW j \in Inst, NEW f \in Env, Push(j, f)
            PROVE  j = i /\ f = e /\ ~full /\ (Repeated(e) \/ Room(e))
        <5>1. CASE ~full /\ (Repeated(f) \/ Room(f))
          <6>1. task' = [task EXCEPT ![j] = (task[j] \ {<<"push", f>>}) \cup {<<"route", f>>}]
            BY <4>5, <5>1, Zenon DEF Push
          <6>2. j = i /\ <<"route", e>> = <<"route", f>>
            BY <1>0, <1>4, <2>2, <6>1
          <6> QED
            BY <5>1, <6>2
        <5>2. CASE ~(~full /\ (Repeated(f) \/ Room(f)))
          <6>1. task' = [task EXCEPT ![j] = (task[j] \ {<<"push", f>>}) \cup {}]
            BY <4>5, <5>2, Zenon DEF Push
          <6> QED
            BY <1>0, <1>4, <2>2, <6>1
        <5> QED
          BY <5>1, <5>2
      <4>6. CASE \/ \E j \in Inst, f \in Env : Ack(j, f)
                 \/ \E f \in Env : Read(f)
                 \/ \E j \in Inst : \/ OnDeliver(j) \/ Flushing(j) \/ Reflush(j)
                                    \/ Login(j) \/ OnClose(j)
                 \/ Leave \/ StoreFills \/ StoreHasRoom \/ Expire \/ UNCHANGED vars
        <5>1. UNCHANGED task
          BY <4>6 DEF Ack, Read, OnDeliver, Flushing, FlushKeys, FlushPage, Reflush, Login, OnClose,
                      Leave, StoreFills, StoreHasRoom, Expire, relay, vars
        <5> QED
          BY <4>1, <5>1
      <4> QED
        BY <4>2, <4>3, <4>4, <4>5, <4>6 DEF Next, Sending
    <3>2. CASE Repeated(e)
      <4>1. \E n \in DOMAIN queue : SameKey(queue[n].env, e)
        BY <3>2 DEF Repeated, Taken
      <4>2. Safe(e)
        BY <4>1, OwnKey DEF Safe, Holds
      <4> QED
        BY <1>1, <4>2
    <3>3. CASE ~Repeated(e)
      <4>1. queue' = Append(queue, [env |-> e, slot |-> FreeSlot(e)])
        BY <3>1, <3>3, Zenon DEF Push
      <4>2. Len(queue) + 1 \in DOMAIN queue' /\ queue'[Len(queue) + 1].env = e
        BY <1>0, <4>1
      <4> QED
        BY <4>2 DEF Safe, Holds
    <3> QED
      BY <3>2, <3>3
  <2> QED
    BY <2>1, <2>2
<1> QED
  BY <1>2, <1>3, <1>4 DEF Careful

-----------------------------------------------------------------------------
\* Every variable keeps its type (server.js 2946-3130).
THEOREM TypeCorrect == Spec => []TypeOK
<1>1. Spec => []Inv
  BY InvInit, InvStep, PTL DEF Spec
<1> QED
  BY <1>1, PTL DEF Inv, Typed

\* An attributed envelope is queued at most once, however often and wherever it
\* is retried, and whatever the ids senders pick, each sealed envelope of an id
\* has a slot of its own.
THEOREM KeysAreUnique == Spec => []KeysUnique
<1>1. Spec => []Inv
  BY InvInit, InvStep, PTL DEF Spec
<1> QED
  BY <1>1, PTL DEF Inv

\* If no two envelopes share an id, one that was answered `sent` is held until
\* its recipient has persisted it, through every loss, move, retry, crash and
\* refusal; only its TTL ends it.
THEOREM SentIsHeld ==
  ASSUME OwnIds
  PROVE  Spec => []HeldUntilGot
<1>1. Init => Inv /\ Careful
  BY InvInit, CarefulInit
<1>2. Inv /\ Careful /\ [Next]_vars => (Inv /\ Careful)'
  BY InvStep, CarefulStep
<1>3. Careful => HeldUntilGot
  BY DEF Careful, HeldUntilGot, Safe
<1> QED
  BY <1>1, <1>2, <1>3, PTL DEF Spec
=============================================================================
