----------------------------- MODULE RelayMemory -----------------------------
(***************************************************************************)
(* The relay in one process: MemoryCoordinator in server/server.js with    *)
(* the mailbox-creation gate, the set of mailboxes seen, the per-address   *)
(* budget of unowned bytes, and the frame handlers that call them.         *)
(*                                                                         *)
(* A call runs to its end before the next, except a flush, which waits     *)
(* between pages for its socket to drain.  So the coordinator is one       *)
(* record, `this`, and what a call does to it is an operator from record   *)
(* to record; nested calls compose.  Its byte and envelope totals are kept *)
(* as the code keeps them, by adding and subtracting, and never recomputed *)
(* from the queues.  The apps at both ends are external.                   *)
(***************************************************************************)
EXTENDS Naturals, Sequences, FiniteSets, FiniteSetsExt, SequencesExt

CONSTANTS
  Rid,  \* routing ids
  Env,  \* envelopes: [id, to, from (None if sealed), size, bits (of its stamp)]
  None, \* the sender of a sealed envelope
  IdSlots, MaxQueueMsgs, MaxQueueBytes, UnownedMailboxBytes, UnownedStoreBytes,
  IntroMailboxBytes, IntroEnvelopeBytes, MaxStoreBytes, OwnedCap, IntroCap,
  SeenCap, NewMailboxPerMin, UnownedPerIp, FlushPage, \* the settings of these names
  OwnedTtl, QueueTtl, SeenTtl, \* in ticks of the clock
  Bits, \* the difficulties owners ask for
  MaxTime, MaxSends, MaxLogins, MaxIntros \* bounds

ASSUME ParamAssumption ==
  /\ \A e \in Env : e.to \in Rid /\ e.from \in (Rid \cup {None}) \ {e.to} /\ e.size \in Nat
  /\ IsFiniteSet(Rid) /\ None \notin Rid
  /\ {IdSlots, MaxQueueMsgs, MaxQueueBytes, UnownedMailboxBytes, UnownedStoreBytes,
      IntroMailboxBytes, IntroEnvelopeBytes, MaxStoreBytes, NewMailboxPerMin, UnownedPerIp,
      OwnedTtl, QueueTtl, SeenTtl, MaxTime, MaxSends, MaxLogins, MaxIntros} \subseteq Nat
  /\ {OwnedCap, IntroCap, SeenCap, FlushPage} \cup Bits \subseteq Nat \ {0}

VARIABLES
  this,   \* the coordinator
  now,    \* the clock
  online, \* the mailboxes with an open socket
  flush,  \* flush[r]: what the flush to its socket has still to look at
  wire,   \* wire[r]: frames on their way to its app, in order
  acks,   \* acks[r]: envelopes its app has persisted and is acknowledging, in order
  sent,   \* envelopes some sender was told `sent` for
  got,    \* envelopes their recipient has persisted
  lapsed, \* envelopes that outlived QUEUE_TTL_HOURS
  sends, logins, intros \* how many so far

net  == <<online, flush, wire, acks>>
told == <<sent, got, lapsed>>
vars == <<this, now, net, told, sends, logins, intros>>

Entry == [kind: {"msg", "receipt"}, env: Env, slot: 0 .. IdSlots, ts: 0 .. MaxTime, ph: BOOLEAN]

TypeOK ==
  /\ this.queue \in [Rid -> Seq(Entry)]
  /\ {this.bytes, this.count, this.unowned, this.tokens, this.ip} \subseteq Nat
  /\ this.owned \in Seq([rid: Rid, at: 0 .. MaxTime])
  /\ this.intro \in Seq([rid: Rid, at: 0 .. MaxTime, bits: Bits, shadow: BOOLEAN])
  /\ this.seen \in Seq([rid: Rid, at: 0 .. MaxTime])
  /\ this.push \subseteq Rid /\ this.paid \subseteq Rid
  /\ online \subseteq Rid
  /\ \A r \in Rid : flush[r] \in Seq(Entry) /\ wire[r] \in Seq(Entry)
  /\ acks \in [Rid -> Seq(Env)]
  /\ sent \cup got \cup lapsed \subseteq Env

Init ==
  /\ this = [queue |-> [r \in Rid |-> <<>>], bytes |-> 0, count |-> 0, unowned |-> 0,
             owned |-> <<>>, intro |-> <<>>, seen |-> <<>>, tokens |-> NewMailboxPerMin,
             ip |-> 0, push |-> {}, paid |-> {}]
  /\ now = 0
  /\ online = {}
  /\ flush = [r \in Rid |-> <<>>] /\ wire = [r \in Rid |-> <<>>] /\ acks = [r \in Rid |-> <<>>]
  /\ sent = {} /\ got = {} /\ lapsed = {}
  /\ sends = 0 /\ logins = 0 /\ intros = 0

-----------------------------------------------------------------------------
Size(x) == IF x.kind = "receipt" THEN 1 ELSE x.env.size

QBytes(q) == SumFunction([n \in DOMAIN q |-> Size(q[n])])

Minus(a, b) == IF a > b THEN a - b ELSE 0

Rids(list) == {list[n].rid : n \in DOMAIN list}

\* What a sequence has at these places, in its order; the k-th of them.
Place(places, k) == CHOOSE n \in places : Cardinality({m \in places : m <= n}) = k

Only(list, places) == [k \in 1 .. Cardinality(places) |-> list[Place(places, k)]]

Others(list, r) == Only(list, {n \in DOMAIN list : list[n].rid # r})

\* An entry without its key: what entryKey looks at.
Base(x) == <<x.kind, x.env.id, IF x.kind = "receipt" THEN x.env.to ELSE x.env.from>>

Key(x) == <<Base(x), x.slot>>

\* entryDedupes: one the relay can attribute, there already, is a retry.
Dedupes(x) == x.kind = "receipt" \/ x.env.from # None

-----------------------------------------------------------------------------
\* _flagged, _owns, introBits.
Flagged(m, r) == \E n \in DOMAIN m.intro : m.intro[n].rid = r /\ ~m.intro[n].shadow

Owns(m, r) == r \in Rids(m.owned) \/ Flagged(m, r)

IntroBits(m, r) ==
  LET held == {n \in DOMAIN m.intro : m.intro[n].rid = r /\ now - m.intro[n].at <= 2 * OwnedTtl}
  IN IF held = {} THEN 0 ELSE m.intro[CHOOSE n \in held : TRUE].bits

\* What goes back into the unowned total for the mailboxes of a list.
Returned(m, rids) == SumFunctionOnSet([r \in Rid |-> QBytes(m.queue[r])], rids)

\* How many leading members of a list a walk from its head forgets, when those
\* at these places are to go.
Leading(list, going) ==
  CHOOSE k \in 0 .. Len(list) : 1 .. k \subseteq going /\ k + 1 \notin going

\* _trimOwned: the forgotten owners' mailboxes are unowned again, unless flagged.
TrimOwned(m) ==
  LET k == Leading(m.owned, {n \in DOMAIN m.owned : \/ Len(m.owned) - n + 1 > OwnedCap
                                                   \/ now - m.owned[n].at > OwnedTtl})
      gone == {r \in Rids(SubSeq(m.owned, 1, k)) : ~Flagged(m, r)}
  IN [m EXCEPT !.owned = SubSeq(@, k + 1, Len(@)), !.unowned = @ + Returned(m, gone)]

\* Mutant of Listed: an owner who is there keeps its place.
ListedInPlace(list, r) ==
  IF r \in Rids(list)
    THEN [n \in DOMAIN list |-> IF list[n].rid = r THEN [rid |-> r, at |-> now] ELSE list[n]]
    ELSE Append(list, [rid |-> r, at |-> now])

\* A Map entry deleted and set again: newest last.
Listed(list, r) == Append(Others(list, r), [rid |-> r, at |-> now])

\* claimOwner.  Its mailbox leaves the unowned total once, when it was not
\* owned in either way.
ClaimOwner(m, r) ==
  LET was == r \in Rids(m.owned)
      q == IF Flagged(m, r) THEN <<>> ELSE m.queue[r]
      listed == [m EXCEPT !.owned = Listed(@, r)]
  IN IF was THEN listed ELSE TrimOwned([listed EXCEPT !.unowned = Minus(@, QBytes(q))])

\* _unflag, for flags that have just stopped counting.
Unflag(m, rids) == [m EXCEPT !.unowned = @ + Returned(m, rids \ Rids(m.owned))]

\* _forgetIntro of the first k entries.
ForgetIntro(m, k) ==
  LET lost == {m.intro[n].rid : n \in {n \in 1 .. k : ~m.intro[n].shadow}}
  IN Unflag([m EXCEPT !.intro = SubSeq(@, k + 1, Len(@))], lost)

\* _trimIntro: from the head, a flag past its time becomes a shadow, a shadow
\* past its own is forgotten.
TrimIntro(m) ==
  LET k == Leading(m.intro, {n \in DOMAIN m.intro : now - m.intro[n].at > OwnedTtl})
      dead == Leading(m.intro, {n \in DOMAIN m.intro : now - m.intro[n].at > 2 * OwnedTtl})
      shaded == [n \in DOMAIN m.intro |->
                   IF n <= k THEN [m.intro[n] EXCEPT !.shadow = TRUE] ELSE m.intro[n]]
      lost == {m.intro[n].rid : n \in {n \in 1 .. k : ~m.intro[n].shadow}}
  IN Unflag([m EXCEPT !.intro = SubSeq(shaded, dead + 1, Len(shaded))], lost)

\* Mutant of Unwoken: the token stays.
StillWoken(m, r) == m

Unwoken(m, r) == [m EXCEPT !.push = @ \ {r}]

\* setIntro for an address that is not over its minute of new flags.
SetIntro(m, r, bits) ==
  LET t == TrimIntro(m)
      over == IF r \in Rids(t.intro) \/ Len(t.intro) < IntroCap THEN 0
              ELSE Len(t.intro) - IntroCap + 1
      c == ClaimOwner(ForgetIntro(t, over), r)
      flag == [rid |-> r, at |-> now, bits |-> bits, shadow |-> FALSE]
  IN Unwoken([c EXCEPT !.intro = Append(Others(@, r), flag)], r)

-----------------------------------------------------------------------------
\* SeenMailboxes.has and touch.
Known(m, r) == \E n \in DOMAIN m.seen : m.seen[n].rid = r /\ now - m.seen[n].at < SeenTtl

Touch(m, r) ==
  LET s == Listed(m.seen, r)
  IN [m EXCEPT !.seen = IF Len(s) > SeenCap THEN Tail(s) ELSE s]

SlotsTaken(m, r, x) == {m.queue[r][n].slot : n \in {n \in DOMAIN m.queue[r] : Base(m.queue[r][n]) = Base(x)}}

\* The limits of a mailbox nobody owns.
OverUnowned(m, r, x) ==
  /\ ~Owns(m, r)
  /\ \/ m.unowned + Size(x) > UnownedStoreBytes
     \/ QBytes(m.queue[r]) + Size(x) > UnownedMailboxBytes

\* Why _enqueue refuses x, in the order it asks, or "there" or "new".
Verdict(m, r, x) ==
  LET held == QBytes(m.queue[r]) + Size(x) IN
  IF OverUnowned(m, r, x) THEN "unowned"
  ELSE IF ~Known(m, r) /\ m.queue[r] = <<>> /\ m.tokens = 0 THEN "gate"
  ELSE IF m.bytes + Size(x) > MaxStoreBytes THEN "full"
  ELSE IF Dedupes(x) /\ SlotsTaken(m, r, x) # {} THEN "there"
  ELSE IF 0 .. IdSlots \subseteq SlotsTaken(m, r, x) THEN "refused"
  ELSE IF \/ Len(m.queue[r]) + 1 > MaxQueueMsgs
          \/ held > MaxQueueBytes
          \/ held > IntroMailboxBytes /\ IntroBits(m, r) > 0 THEN "refused"
  ELSE "new"

\* Mutant of Charged: a token is taken from an empty bucket.
ChargedOnCredit(m, r, x) ==
  IF Known(m, r) \/ m.queue[r] # <<>> THEN m
  ELSE [m EXCEPT !.tokens = @ - 1, !.paid = @ \cup {r}]

\* NewMailboxGate.take, for a mailbox that neither is there nor was seen.
Charged(m, r, x) ==
  IF Known(m, r) \/ m.queue[r] # <<>> \/ m.tokens = 0 \/ OverUnowned(m, r, x) THEN m
  ELSE [m EXCEPT !.tokens = @ - 1, !.paid = @ \cup {r}]

\* Mutant of Refused: the attempt is remembered.
RefusedButSeen(m, r) == Touch(m, r)

\* What a refusal leaves behind, besides the token spent on it.
Refused(m, r) == m

\* _enqueue.
Enqueue(m, r, x) ==
  LET c == Charged(m, r, x)
      slot == CHOOSE k \in 0 .. IdSlots :
                k \notin SlotsTaken(m, r, x) /\ 0 .. k - 1 \subseteq SlotsTaken(m, r, x)
  IN IF Verdict(m, r, x) = "there" THEN c
     ELSE IF Verdict(m, r, x) # "new" THEN Refused(c, r)
     ELSE Touch([c EXCEPT !.queue[r] = Append(@, [x EXCEPT !.slot = slot]),
                          !.bytes = @ + Size(x), !.count = @ + 1,
                          !.unowned = IF Owns(m, r) THEN @ ELSE @ + Size(x)], r)

\* What these mailboxes hold without these entries.
Left(m, rids, gone) ==
  [r \in Rid |-> Only(m.queue[r], {n \in DOMAIN m.queue[r] : r \notin rids \/ m.queue[r][n] \notin gone})]

\* Mutant of Freed: expiry that leaves the store's own total alone.
FreedFromQueue(m, rids, gone) ==
  LET q == Left(m, rids, gone)
      freed == [r \in Rid |-> QBytes(m.queue[r]) - QBytes(q[r])]
  IN [m EXCEPT !.queue = q, !.unowned = Minus(@, SumFunctionOnSet(freed, {r \in Rid : ~Owns(m, r)})),
               !.count = Minus(@, SumFunction([r \in Rid |-> Len(m.queue[r]) - Len(q[r])]))]

\* _removeKey and _retain: these mailboxes lose these entries, and the totals
\* what they were charged.
Freed(m, rids, gone) ==
  LET q == Left(m, rids, gone)
      freed == [r \in Rid |-> QBytes(m.queue[r]) - QBytes(q[r])]
  IN [m EXCEPT !.queue = q, !.bytes = Minus(@, SumFunction(freed)),
               !.unowned = Minus(@, SumFunctionOnSet(freed, {r \in Rid : ~Owns(m, r)})),
               !.count = Minus(@, SumFunction([r \in Rid |-> Len(m.queue[r]) - Len(q[r])]))]

\* _removeKey.
RemoveKey(m, r, x) == Freed(m, {r}, {y \in ToSet(m.queue[r]) : Key(y) = Key(x)})

Fresh(x) == now - x.ts <= QueueTtl

Stale(m, rids) == {x \in UNION {ToSet(m.queue[r]) : r \in rids} : ~Fresh(x)}

\* _expireFor, of each of these mailboxes.
Expire(m, rids) == Freed(m, rids, Stale(m, rids))

Gone(rids) == {x.env : x \in {x \in Stale(this, rids) : x.kind = "msg"}}

-----------------------------------------------------------------------------
Msg(e, ph) == [kind |-> "msg", env |-> e, slot |-> 0, ts |-> now, ph |-> ph]

Receipt(e) == [kind |-> "receipt", env |-> e, slot |-> 0, ts |-> now, ph |-> FALSE]

\* What an introduction mailbox refuses before anything else is looked at, and
\* the copy of what it holds that it answers as stored.
Screened(e) ==
  LET need == IntroBits(this, e.to) IN
  IF need = 0 THEN "no"
  ELSE IF e.size > IntroEnvelopeBytes THEN "too_large"
  ELSE IF e.bits < need THEN "pow_required"
  ELSE IF \E x \in ToSet(this.queue[e.to]) : x.ph /\ x.env = e THEN "copy"
  ELSE "no"

\* deliverEnqueue, for a `send` frame.  One without a sealed payload needs an
\* authenticated connection.
Send(e) ==
  LET x == Msg(e, IntroBits(this, e.to) > 0)
      unowned == ~Owns(this, e.to)
      over == unowned /\ this.ip >= UnownedPerIp
      stored == Enqueue(this, e.to, x)
      taken == Verdict(this, e.to, x) \in {"there", "new"}
  IN
  /\ sends < MaxSends /\ sends' = sends + 1
  /\ e.from \in online \cup {None}
  /\ \/ /\ Screened(e) # "no"
        /\ sent' = IF Screened(e) = "copy" THEN sent \cup {e} ELSE sent
        /\ UNCHANGED <<this, wire>>
     \/ Screened(e) = "no" /\ over /\ UNCHANGED <<this, sent, wire>>
     \/ /\ Screened(e) = "no" /\ ~over
        /\ this' = IF taken /\ unowned THEN [stored EXCEPT !.ip = @ + e.size] ELSE stored
        /\ sent' = IF taken THEN sent \cup {e} ELSE sent
        /\ wire' = IF taken /\ e.to \in online THEN [wire EXCEPT ![e.to] = Append(@, x)] ELSE wire
  /\ UNCHANGED <<now, online, flush, acks, got, lapsed, logins, intros>>

-----------------------------------------------------------------------------
\* One page of a flush, as far as its entries are still queued.
Paged(m, r, todo) ==
  LET live == {n \in DOMAIN todo : todo[n] \in ToSet(m.queue[r])}
  IN {n \in live : Cardinality({k \in live : k <= n}) <= FlushPage}

PageOf(m, r, todo) == Only(todo, Paged(m, r, todo))

\* Mutant of AfterPage: nothing, whatever is left.
FirstPageOnly(m, r, todo) == <<>>

AfterPage(m, r, todo) ==
  LET page == Paged(m, r, todo)
  IN IF Cardinality(page) < FlushPage THEN <<>> ELSE SubSeq(todo, Max(page) + 1, Len(todo))

\* Mutant of DropReceipts: what was written is taken for delivered.
DropPage(m, r, page) == Freed(m, {r}, ToSet(page))

\* A receipt is gone once it is written; an envelope stays.
DropReceipts(m, r, page) == Freed(m, {r}, {x \in ToSet(page) : x.kind = "receipt"})

\* An `auth` that verifies: register, the socket it replaces closed, and the
\* flush as far as its first page.
Login(r) ==
  LET m == Expire(ClaimOwner(this, r), {r})
      page == PageOf(m, r, m.queue[r])
  IN
  /\ logins < MaxLogins /\ logins' = logins + 1
  /\ online' = online \cup {r}
  /\ lapsed' = lapsed \cup Gone({r})
  /\ this' = DropReceipts(m, r, page)
  /\ wire' = [wire EXCEPT ![r] = page]
  /\ acks' = [acks EXCEPT ![r] = <<>>]
  /\ flush' = [flush EXCEPT ![r] = AfterPage(m, r, m.queue[r])]
  /\ UNCHANGED <<now, sent, got, sends, intros>>

\* The socket has drained: the next page.
FlushOn(r) ==
  /\ flush[r] # <<>> /\ r \in online
  /\ LET page == PageOf(this, r, flush[r]) IN
       /\ this' = DropReceipts(this, r, page)
       /\ wire' = [wire EXCEPT ![r] = @ \o page]
       /\ flush' = [flush EXCEPT ![r] = AfterPage(this, r, flush[r])]
  /\ UNCHANGED <<now, online, acks, told, sends, logins, intros>>

\* The connection is lost, closed or dropped for not reading.  Until its `close`
\* event unregisters it, sendJson refuses it as if it were gone.
Lose(r) ==
  /\ r \in online /\ online' = online \ {r}
  /\ wire' = [wire EXCEPT ![r] = <<>>] /\ acks' = [acks EXCEPT ![r] = <<>>]
  /\ flush' = [flush EXCEPT ![r] = <<>>]
  /\ UNCHANGED <<this, now, told, sends, logins, intros>>

\* The app takes a frame; what it persists it acknowledges.
Read(r) ==
  /\ wire[r] # <<>>
  /\ LET x == Head(wire[r]) IN
       IF x.kind = "msg"
         THEN got' = got \cup {x.env} /\ acks' = [acks EXCEPT ![r] = Append(@, x.env)]
         ELSE UNCHANGED <<got, acks>>
  /\ wire' = [wire EXCEPT ![r] = Tail(@)]
  /\ UNCHANGED <<this, now, online, flush, sent, lapsed, sends, logins, intros>>

\* The entry an acknowledgement names: ackCandidateKeys in order, `from`
\* checked.
Candidates(r, e) == {x \in ToSet(this.queue[r]) : Base(x) = Base(Msg(e, FALSE))}

\* Mutant of Named: what came last.
NamedNewest(r, e) == Last(this.queue[r])

Named(r, e) == CHOOSE x \in Candidates(r, e) : \A y \in Candidates(r, e) : x.slot <= y.slot

\* recv: ack, and the receipt to a sender the relay can name, over its socket
\* or queued for it; lost if its queue or the store is full.
Ack(r) ==
  /\ acks[r] # <<>> /\ acks' = [acks EXCEPT ![r] = Tail(@)]
  /\ LET x == Named(r, Head(acks[r]))
         from == x.env.from
         freed == RemoveKey(this, r, x)
     IN IF Candidates(r, Head(acks[r])) = {} THEN UNCHANGED <<this, wire>>
        ELSE IF from = None THEN this' = freed /\ UNCHANGED wire
        ELSE IF from \in online
          THEN this' = freed /\ wire' = [wire EXCEPT ![from] = Append(@, Receipt(x.env))]
          ELSE this' = Enqueue(freed, from, Receipt(x.env)) /\ UNCHANGED wire
  /\ UNCHANGED <<now, online, flush, told, sends, logins, intros>>

\* The rate limit drops an acknowledgement unread.
AckDropped(r) ==
  /\ acks[r] # <<>> /\ acks' = [acks EXCEPT ![r] = Tail(@)]
  /\ UNCHANGED <<this, now, online, flush, wire, told, sends, logins, intros>>

\* `intro`, of an authenticated socket for its own mailbox.
Intro(r, bits) ==
  /\ r \in online /\ intros < MaxIntros /\ intros' = intros + 1
  /\ this' = SetIntro(this, r, bits)
  /\ UNCHANGED <<now, net, told, sends, logins>>

\* `push-register`: refused to an introduction mailbox.
RegisterPush(r) ==
  /\ r \in online /\ r \notin this.push /\ IntroBits(this, r) = 0
  /\ this' = [this EXCEPT !.push = @ \cup {r}]
  /\ UNCHANGED <<now, net, told, sends, logins, intros>>

\* sweep.
Sweep ==
  /\ this' = TrimIntro(TrimOwned(Expire(this, Rid)))
  /\ this' # this
  /\ lapsed' = lapsed \cup Gone(Rid)
  /\ UNCHANGED <<now, net, sent, got, sends, logins, intros>>

\* Time goes by: the gate refills and the address's window rolls over.
Tick ==
  /\ now < MaxTime /\ now' = now + 1
  /\ this' = [this EXCEPT !.tokens = NewMailboxPerMin, !.ip = 0]
  /\ UNCHANGED <<net, told, sends, logins, intros>>

-----------------------------------------------------------------------------
Next ==
  \/ \E e \in Env : Send(e)
  \/ \E r \in Rid :
       \/ Login(r) \/ FlushOn(r) \/ Lose(r)
       \/ Read(r) \/ Ack(r) \/ AckDropped(r)
       \/ RegisterPush(r)
       \/ \E bits \in Bits : Intro(r, bits)
  \/ Sweep \/ Tick

Spec == Init /\ [][Next]_vars
-----------------------------------------------------------------------------
Sum(m, rids) == Returned(m, rids)

\* The running totals are what the queues hold: of bytes, of envelopes, and of
\* bytes in mailboxes nobody owns, through claims, flags, shadows, expiry,
\* acknowledgements and owners forgotten.  A total that drifts up refuses mail
\* the relay has room for until it is restarted.
Accounted ==
  /\ this.bytes = Sum(this, Rid)
  /\ this.unowned = Sum(this, {r \in Rid : ~Owns(this, r)})
  /\ this.count = SumFunction([r \in Rid |-> Len(this.queue[r])])

Queued(e) == \E x \in ToSet(this.queue[e.to]) : x.kind = "msg" /\ x.env = e

\* An envelope somebody was told `sent` for is held until its recipient has
\* persisted it; only its TTL ends it before.
HeldUntilGot == \A e \in sent : Queued(e) \/ e \in got \/ e \in lapsed

\* While a socket is open, whatever is queued for its mailbox and was not
\* persisted is in a frame on its way to it or still to come in its flush:
\* nothing waits for a reconnection.
NothingStranded ==
  \A r \in Rid : r \in online =>
    \A x \in ToSet(this.queue[r]) :
      \/ x.kind = "msg" /\ x.env \in got
      \/ \E y \in ToSet(wire[r] \o flush[r]) : y.kind = x.kind /\ y.env = x.env

\* A mailbox that holds mail or counts as seen was paid for with a token of
\* the creation gate: a send that is refused leaves no way round it.
SeenPaid == \A r \in Rid : this.queue[r] # <<>> \/ r \in Rids(this.seen) => r \in this.paid

\* A sender is only told of a delivery, over its socket or from its mailbox,
\* when the recipient has persisted that envelope.
ReceiptTrue ==
  \A r \in Rid : \A x \in ToSet(wire[r] \o this.queue[r] \o flush[r]) :
    x.kind = "receipt" => x.env \in got

\* The walks that forget owners and flags stop at the first that stays: what
\* follows it is no older.  So a flag past its time never outlives a sweep.
Aged(list) == \A j, k \in DOMAIN list : j < k => list[j].at <= list[k].at

WalksSorted == Aged(this.owned) /\ Aged(this.intro) /\ Aged(this.seen)

\* No introduction mailbox, flag or shadow, has a token it could be woken by.
NeverWoken == \A r \in this.push : IntroBits(this, r) = 0

=============================================================================
