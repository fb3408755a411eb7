-------------------------- MODULE RelayAdmission --------------------------
(***************************************************************************)
(* What a send must pass before an envelope is queued, in a deployment of  *)
(* several instances (server.js, the Redis coordinator): the allowance for *)
(* creating mailboxes, held in the store's window (NEW_MAILBOX_SHARED) or, *)
(* when that cannot be consulted, in the instance's own bucket; the flag   *)
(* of an introduction mailbox; and the budget for the bytes of mailboxes   *)
(* nobody has authenticated for, counted live in z:ub and recounted by the *)
(* sweep.  A script is atomic; an instance awaits each.                    *)
(*                                                                         *)
(* Every envelope has one size; an address's own budget is left out (see   *)
(* RelayMemory), and so is the refill of an instance's bucket: it is       *)
(* looked at over less than one token's time.                              *)
(***************************************************************************)
EXTENDS Integers, FiniteSets, Functions

CONSTANTS
    Rid, Inst,
    Sweepers,     \* the instances whose sweeps are followed
    Allowance,    \* NEW_MAILBOX_PER_MIN
    BoxCap,       \* MAX_QUEUE_MSGS_PER_USER
    UnownedBox,   \* UNOWNED_MAILBOX_BYTES
    UnownedStore, \* UNOWNED_STORE_BYTES
    MaxSends, MaxNow, MaxChanges, MaxFaults, \* bounds
    MaxEvents     \* bound: changes and faults together

ASSUME AdmissionAssumption ==
    /\ Sweepers \subseteq Inst /\ IsFiniteSet(Rid)
    /\ {Allowance, BoxCap, UnownedBox, UnownedStore} \subseteq Nat
    /\ {MaxSends, MaxNow, MaxChanges, MaxFaults, MaxEvents} \subseteq Nat

VARIABLES
    box,      \* the store: envelopes queued for rid; an empty list is no key
    ub,       \* the store: z:ub
    win,      \* the store: z:nm, the window's number and its creations
    owned,    \* the store: owned:{rid}
    flagged,  \* the store: intro:{rid}, flag or shadow
    now,      \* the store's clock, in windows
    tokens,   \* instance -> its own bucket
    seen,     \* instance -> the routing ids it has queued for lately
    calls,    \* sends under way
    walk,     \* instance -> the sweep's walk
    sends, changes, faults,
    made,     \* ghost: instance -> mailboxes made with a token of its bucket
    kept,     \* ghost: mailboxes made with a slot of the window `win` is in
    leaked,   \* ghost: slots of that window that were lost
    came, went, \* ghost: unowned bytes that came and went, unseen by z:ub
    extra     \* ghost: bytes that the last recount added up and should not have

gate == <<win, tokens, made, kept, leaked>>
boxes == <<box, ub, owned, flagged>>
counts == <<sends, changes, faults>>
drift == <<came, went, extra>>
vars == <<boxes, gate, now, seen, calls, walk, counts, drift>>

None == -1
Still == [todo |-> {}, at |-> {}, sum |-> 0, whole |-> FALSE, on |-> FALSE,
          came |-> 0, went |-> 0, extra |-> 0]

Init ==
    /\ box = [r \in Rid |-> 0] /\ ub = 0
    /\ win = [w |-> 0, n |-> 0]
    /\ owned = {} /\ flagged = {}
    /\ now = 0
    /\ tokens = [i \in Inst |-> Allowance]
    /\ seen = [i \in Inst |-> {}]
    /\ calls = {}
    /\ walk = [i \in Inst |-> Still]
    /\ sends = 0 /\ changes = 0 /\ faults = 0
    /\ made = [i \in Inst |-> 0] /\ kept = 0 /\ leaked = 0
    /\ came = 0 /\ went = 0 /\ extra = 0

Fault ==
    /\ faults < MaxFaults /\ changes + faults < MaxEvents
    /\ faults' = faults + 1
Change ==
    /\ changes < MaxChanges /\ changes + faults < MaxEvents
    /\ changes' = changes + 1

Unowned == Rid \ owned
UnownedBytes == SumFunctionOnSet(box, Unowned)

\* c bytes have become unowned bytes, g have ceased to be, and z:ub does not
\* show it; a walk under way may miss them too.
Unseen(c, g, walks) ==
    /\ came' = came + c /\ went' = went + g /\ extra' = extra
    /\ walk' = [i \in Inst |-> IF walks[i].on
                  THEN [walks[i] EXCEPT !.came = @ + c, !.went = @ + g]
                  ELSE walks[i]]

(* ------------------------------ admission ------------------------------ *)

Becomes(c, d) == calls' = (calls \ {c}) \cup {d}
Ends(c) == calls' = calls \ {c}

\* A send reaches an instance.  One that has queued for the mailbox lately
\* spends nothing; on first contact the flag is asked for, and a stamp that
\* is short is refused there.
Send(i, r, stamp) ==
    /\ sends < MaxSends
    /\ sends' = sends + 1
    /\ LET known == r \in seen[i]
           c == [id |-> sends', inst |-> i, rid |-> r, stamp |-> stamp,
                 pc |-> IF known THEN "push" ELSE "take",
                 fresh |-> known, local |-> FALSE, window |-> None]
       IN /\ known \/ stamp \/ r \notin flagged
          /\ calls' = calls \cup {c}
    /\ UNCHANGED <<boxes, gate, now, seen, walk, changes, faults, drift>>

\* The script's count for the window the store is in.
CountNow == IF win.w = now THEN win.n ELSE 0

\* A slot of the current window is taken; the window before is over.
TakeSlot ==
    /\ CountNow < Allowance
    /\ win' = [w |-> now, n |-> CountNow + 1]
    /\ kept' = IF win.w = now THEN kept ELSE 0

\* The instance's own bucket.
TakeToken(c) ==
    IF tokens[c.inst] >= 1
    THEN /\ tokens' = [tokens EXCEPT ![c.inst] = @ - 1]
         /\ Becomes(c, [c EXCEPT !.pc = "push", !.fresh = TRUE, !.local = TRUE])
    ELSE /\ Becomes(c, [c EXCEPT !.pc = "push"]) /\ UNCHANGED tokens

\* _takeShared: a list that exists is exempt; a full window grants nothing; a
\* window that cannot be consulted leaves it to the instance's bucket, also
\* when the script ran and its answer was lost.
Take(c) ==
    /\ c.pc = "take"
    /\ \/ /\ box[c.rid] > 0
          /\ Becomes(c, [c EXCEPT !.pc = "push", !.fresh = TRUE])
          /\ UNCHANGED <<gate, faults>>
       \/ /\ box[c.rid] = 0 /\ TakeSlot
          /\ leaked' = IF win.w = now THEN leaked ELSE 0
          /\ Becomes(c, [c EXCEPT !.pc = "push", !.fresh = TRUE, !.window = now])
          /\ UNCHANGED <<tokens, made, faults>>
       \/ /\ box[c.rid] = 0 /\ CountNow >= Allowance
          /\ Becomes(c, [c EXCEPT !.pc = "push"])
          /\ UNCHANGED <<gate, faults>>
       \/ /\ Fault /\ TakeToken(c)
          /\ \/ UNCHANGED <<win, kept, leaked>>
             \/ /\ box[c.rid] = 0 /\ TakeSlot
                /\ leaked' = (IF win.w = now THEN leaked ELSE 0) + 1
          /\ UNCHANGED made
    /\ UNCHANGED <<boxes, now, seen, walk, sends, changes, drift>>

\* What the push script answers: -3 for a short stamp, -1 for a mailbox that
\* may not be made, -2 for a limit of unowned mailboxes, 0 for a full mailbox,
\* 2 for one it made and 1 for one that was there.
Code(c) ==
    LET r == c.rid IN
    CASE r \in flagged /\ ~c.stamp -> -3
      [] box[r] = 0 /\ ~c.fresh -> -1
      [] r \in Unowned /\ (ub + 1 > UnownedStore \/ box[r] + 1 > UnownedBox) -> -2
      [] box[r] + 1 > BoxCap -> 0
      [] OTHER -> IF box[r] = 0 THEN 2 ELSE 1

\* The script's writes: the entry, and the live count of unowned bytes.
Enters(r, stored) ==
    IF ~stored THEN UNCHANGED <<box, ub, walk, drift>>
    ELSE /\ box' = [box EXCEPT ![r] = @ + 1]
         /\ IF r \in Unowned
            THEN /\ ub' = ub + 1
                 /\ walk' = [i \in Inst |-> IF walk[i].on
                       THEN [walk[i] EXCEPT !.came = @ + 1] ELSE walk[i]]
                 /\ UNCHANGED drift
            ELSE UNCHANGED <<ub, walk, drift>>

\* Mutant: a token that made no mailbox does not come back.
SettleNone(c, created) ==
    /\ made' = [made EXCEPT ![c.inst] = @ + (IF c.local /\ created THEN 1 ELSE 0)]
    /\ Ends(c) /\ UNCHANGED <<win, kept, leaked, tokens>>

\* What was spent goes back unless a mailbox was made with it: a token at once,
\* a slot with another command.
Settle(c, created) ==
    /\ tokens' = [tokens EXCEPT ![c.inst] = @ + (IF c.local /\ ~created THEN 1 ELSE 0)]
    /\ made' = [made EXCEPT ![c.inst] = @ + (IF c.local /\ created THEN 1 ELSE 0)]
    /\ kept' = IF created /\ c.window = win.w THEN kept + 1 ELSE kept
    /\ IF c.window # None /\ ~created THEN Becomes(c, [c EXCEPT !.pc = "refund"])
       ELSE Ends(c)
    /\ UNCHANGED <<win, leaked>>

\* _push.  A copy of what the mailbox holds is accepted and not stored.  A push
\* that fails, the script having run or not, gives back too.
Push(c) ==
    /\ c.pc = "push"
    /\ \/ /\ Settle(c, Code(c) = 2)
          /\ Enters(c.rid, Code(c) \in {1, 2})
          /\ seen' = [seen EXCEPT ![c.inst] =
                        IF Code(c) \in {1, 2} THEN @ \cup {c.rid} ELSE @]
          /\ UNCHANGED faults
       \/ /\ box[c.rid] > 0 /\ (c.rid \in flagged => c.stamp)
          /\ Settle(c, FALSE) /\ Enters(c.rid, FALSE)
          /\ seen' = [seen EXCEPT ![c.inst] = @ \cup {c.rid}]
          /\ UNCHANGED faults
       \/ /\ Fault /\ Settle(c, FALSE)
          /\ \E ran \in BOOLEAN : Enters(c.rid, ran /\ Code(c) \in {1, 2})
          /\ UNCHANGED seen
    /\ UNCHANGED <<owned, flagged, now, sends, changes>>

\* Mutant: a slot comes back whatever window it is of.
RefundLate(c) ==
    /\ c.pc = "refund" /\ Ends(c)
    /\ win' = IF win.n > 0 THEN [win EXCEPT !.n = @ - 1] ELSE win
    /\ UNCHANGED <<boxes, tokens, made, kept, leaked, now, seen, walk, counts, drift>>

\* _refundShared: only in the window the slot is of; lost if the store does
\* not answer.
Refund(c) ==
    /\ c.pc = "refund" /\ Ends(c)
    /\ \/ /\ win' = IF win.w = c.window /\ win.n > 0
                    THEN [win EXCEPT !.n = @ - 1] ELSE win
          /\ UNCHANGED <<leaked, faults>>
       \/ /\ Fault
          /\ leaked' = IF win.w = c.window THEN leaked + 1 ELSE leaked
          /\ UNCHANGED win
    /\ UNCHANGED <<boxes, tokens, made, kept, now, seen, walk, sends, changes, drift>>

(* ------------------------------ the sweep ------------------------------ *)

StartSweep(i) ==
    /\ i \in Sweepers /\ ~walk[i].on
    /\ walk' = [walk EXCEPT ![i] = [Still EXCEPT !.on = TRUE, !.todo = Rid,
                                                 !.whole = TRUE]]
    /\ UNCHANGED <<boxes, gate, now, seen, calls, counts, drift>>

\* SCAN gives a mailbox, one the walk has behind it too, and EXISTS owned: is
\* answered; an answer that does not come spoils the recount.
AskOwned(i, r) ==
    /\ walk[i].on /\ walk[i].at = {}
    /\ IF r \in walk[i].todo THEN UNCHANGED changes ELSE Change
    /\ \/ /\ r \in owned
          /\ walk' = [walk EXCEPT ![i].todo = @ \ {r}]
          /\ UNCHANGED faults
       \/ /\ r \in Unowned
          /\ walk' = [walk EXCEPT ![i].at = {r}]
          /\ UNCHANGED faults
       \/ /\ Fault
          /\ walk' = [walk EXCEPT ![i].todo = @ \ {r}, ![i].whole = FALSE]
    /\ UNCHANGED <<boxes, gate, now, seen, calls, sends, drift>>

\* What the walk should not add: what a mailbox holds that it has behind it, or
\* that was claimed since it asked.
Excess(i, r) == IF r \in walk[i].todo /\ r \in Unowned THEN 0 ELSE box[r]

\* GET qb: is answered for the mailbox found unowned, or is not.
AddBytes(i, r) ==
    /\ r \in walk[i].at
    /\ \/ /\ walk' = [walk EXCEPT ![i].at = {}, ![i].todo = @ \ {r},
                        ![i].sum = @ + box[r], ![i].extra = @ + Excess(i, r)]
          /\ UNCHANGED faults
       \/ /\ Fault
          /\ walk' = [walk EXCEPT ![i].at = {}, ![i].todo = @ \ {r},
                        ![i].whole = FALSE]
    /\ UNCHANGED <<boxes, gate, now, seen, calls, sends, changes, drift>>

\* Mutant: a recount that missed a mailbox is believed.
ReconcilePartial(i) ==
    /\ walk[i].on /\ walk[i].todo = {} /\ walk[i].at = {}
    /\ ub' = walk[i].sum
    /\ came' = walk[i].came /\ went' = walk[i].went /\ extra' = walk[i].extra
    /\ walk' = [walk EXCEPT ![i] = Still]
    /\ UNCHANGED <<box, owned, flagged, gate, now, seen, calls, counts>>

\* The recount replaces the live count.  What moved since the walk began is
\* what it may not show.  (Its TTL, which ends it if the sweeps stop, is left
\* out.)
Reconcile(i) ==
    /\ walk[i].on /\ walk[i].todo = {} /\ walk[i].at = {}
    /\ IF walk[i].whole
       THEN /\ ub' = walk[i].sum
            /\ came' = walk[i].came /\ went' = walk[i].went /\ extra' = walk[i].extra
       ELSE UNCHANGED <<ub, drift>>
    /\ walk' = [walk EXCEPT ![i] = Still]
    /\ UNCHANGED <<box, owned, flagged, gate, now, seen, calls, counts>>

\* The SCAN or the SET itself fails: the live count stays.
Abandon(i) ==
    /\ walk[i].on /\ walk[i].at = {} /\ Fault
    /\ walk' = [walk EXCEPT ![i] = Still]
    /\ UNCHANGED <<boxes, gate, now, seen, calls, sends, changes, drift>>

(* --------------------------- the environment --------------------------- *)

\* An envelope is acknowledged or expires.
Free(r) ==
    /\ Change /\ box[r] > 0
    /\ box' = [box EXCEPT ![r] = @ - 1]
    /\ Unseen(0, IF r \in Unowned THEN 1 ELSE 0, walk)
    /\ UNCHANGED <<ub, owned, flagged, gate, now, seen, calls, sends, faults>>

\* The owner authenticates; with an `intro` frame, it flags the mailbox.
Own(r, intro) ==
    /\ Change /\ (r \in Unowned \/ (intro /\ r \notin flagged))
    /\ owned' = owned \cup {r}
    /\ flagged' = IF intro THEN flagged \cup {r} ELSE flagged
    /\ Unseen(0, IF r \in Unowned THEN box[r] ELSE 0, walk)
    /\ UNCHANGED <<box, ub, gate, now, seen, calls, sends, faults>>

\* Ownership lapses, or a flag's shadow does.
Lapse(r) ==
    /\ Change
    /\ \/ /\ r \in owned
          /\ owned' = owned \ {r} /\ Unseen(box[r], 0, walk)
          /\ UNCHANGED flagged
       \/ /\ r \in flagged
          /\ flagged' = flagged \ {r}
          /\ UNCHANGED <<owned, walk, drift>>
    /\ UNCHANGED <<box, ub, gate, now, seen, calls, sends, faults>>

\* An instance restarts; what its sends held of the window is lost.
Crash(i) ==
    /\ Fault
    /\ tokens' = [tokens EXCEPT ![i] = Allowance]
    /\ made' = [made EXCEPT ![i] = 0]
    /\ seen' = [seen EXCEPT ![i] = {}]
    /\ walk' = [walk EXCEPT ![i] = Still]
    /\ calls' = {c \in calls : c.inst # i}
    /\ leaked' = leaked +
         Cardinality({c \in calls : c.inst = i /\ c.window = win.w})
    /\ UNCHANGED <<boxes, win, kept, now, sends, changes, drift>>

\* The store's clock enters the next window.
Tick ==
    /\ now < MaxNow /\ now' = now + 1
    /\ UNCHANGED <<boxes, gate, seen, calls, walk, counts, drift>>

Next ==
    \/ \E i \in Inst, r \in Rid, stamp \in BOOLEAN : Send(i, r, stamp)
    \/ \E c \in calls : Take(c) \/ Push(c) \/ Refund(c)
    \/ \E i \in Inst : \/ StartSweep(i) \/ Reconcile(i) \/ Abandon(i) \/ Crash(i)
                       \/ \E r \in Rid : AskOwned(i, r) \/ AddBytes(i, r)
    \/ \E r \in Rid : Free(r) \/ Lapse(r) \/ \E intro \in BOOLEAN : Own(r, intro)
    \/ Tick

Spec == Init /\ [][Next]_vars

(* ------------------------------ properties ----------------------------- *)

\* Every variable has its type; no bucket is past its allowance and no window
\* grants more than it (server.js 1156-1180, 2346-2364).
TypeOK ==
    /\ box \in [Rid -> 0 .. BoxCap] /\ ub \in Nat
    /\ win \in [w : 0 .. MaxNow, n : 0 .. Allowance]
    /\ owned \subseteq Rid /\ flagged \subseteq Rid /\ now \in 0 .. MaxNow
    /\ tokens \in [Inst -> 0 .. Allowance]
    /\ seen \in [Inst -> SUBSET Rid]
    /\ calls \subseteq [id : 1 .. MaxSends, inst : Inst, rid : Rid, stamp : BOOLEAN,
                        pc : {"take", "push", "refund"}, fresh : BOOLEAN,
                        local : BOOLEAN, window : {None} \cup 0 .. now]
    /\ walk \in [Inst -> [todo : SUBSET Rid, at : SUBSET Rid, sum : Nat,
                          whole : BOOLEAN, on : BOOLEAN, came : Nat,
                          went : Nat, extra : Nat]]
    /\ made \in [Inst -> Nat] /\ {kept, leaked, came, went, extra} \subseteq Nat

\* A bucket's tokens are where they should be: with a send under way, or spent
\* on a mailbox that a send made.  No path after the push keeps a token it
\* should give back or gives one back twice (server.js 3013-3053).
TokensExact ==
    \A i \in Inst :
        tokens[i] + made[i]
          + Cardinality({c \in calls : c.inst = i /\ c.local}) = Allowance

\* So are the window's slots, across instances and windows: those of the window
\* counted are held by sends under way, spent on mailboxes made, or lost with
\* an instance or an answer; a slot of a window that is over frees none of the
\* next (server.js 2366-2375, 2898-2905).
SlotsExact ==
    win.n = kept + leaked + Cardinality({c \in calls : c.window = win.w})

\* z:ub strays from the bytes unowned mailboxes hold by no more than came or
\* went unseen since the walk of the last recount began, and above them by what
\* that walk added up for mailboxes it had read before or whose owner came
\* between its two commands: the live count and any overlap of sweeps add up
\* (server.js 3319-3366).
CounterFollows ==
    /\ UnownedBytes <= ub + came
    /\ ub <= UnownedBytes + (went + extra)
=============================================================================
