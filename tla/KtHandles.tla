----------------------------- MODULE KtHandles -----------------------------
(***************************************************************************)
(* The handle log: KtLog of kt/lib/log.js in its `handles` mode, under the *)
(* owner rule of kt/lib/handles.js, behind POST /kt/v1/publish and its     *)
(* gates in kt/server.js.                                                  *)
(*                                                                         *)
(* A request's body is awaited; all that follows it is synchronous, and is *)
(* one action.  A signature is its keys: a request is one that a party who *)
(* holds them could have sent.  Gates refill when they are looked at,      *)
(* which is the same as when the clock moves; a token is `Window` units,   *)
(* so that a part of one is an integer too.                                *)
(***************************************************************************)
EXTENDS Naturals, Sequences, FiniteSets

CONSTANTS
  Label, Owner, Recovery, Mine, None, \* see HandleRegistry
  Addr,               \* clients' addresses
  PerAddress,         \* publishPerMinute
  PerDay,             \* publishPerAccountPerDay
  NewPerAddress,      \* newAccountsPerAddressPerMinute
  NewPerMinute,       \* newAccountsPerMinute
  PerMinute,          \* publishPerMinuteTotal
  Day,                \* a day, in minutes
  MaxInFlight,        \* maxPublishInFlight
  Room, Floor,        \* the disk, and minFreeBytes, in lines
  Faults, MaxFaults,  \* what may fail, and how often
  MaxTime             \* a bound

\* What the rule knows of a label: {owner, rc, version}, or None.
State == [owner: Owner, rc: Recovery, version: Nat]

\* A key is an owner's or a recovery key, as the apps make them.
ASSUME KeyAssumption ==
  /\ None \notin Owner \cup Recovery /\ None \notin State
  /\ Owner \cap Recovery = {}

ASSUME LimitAssumption ==
  /\ {PerAddress, PerDay, NewPerAddress, NewPerMinute, PerMinute} \subseteq Nat \ {0}
  /\ {Day, MaxInFlight} \subseteq Nat \ {0} /\ {Room, Floor, MaxFaults, MaxTime} \subseteq Nat
  /\ Faults \subseteq {"append", "head", "kill"}

\* What may be in flight fits under the floor, a record being at most 1 KiB;
\* and a log is given a disk with more than the floor free.
ASSUME FloorAssumption == MaxInFlight <= Floor /\ Floor <= Room

VARIABLES
  entries, \* the log, oldest first
  owners,  \* OwnerTable: label -> owner and commitment
  tokens,  \* what each gate holds
  reading, \* inFlight: bodies being read, past the floor
  stolen,  \* the user's owner keys that the stranger holds too
  now,     \* in minutes
  written, \* since the start: the publishes whose entries were written
  spent    \* faults so far

vars == <<entries, owners, tokens, reading, stolen, now, written, spent>>

Kind == {"claim", "update", "recover"}

\* The requests checkEntry lets past, but for their signatures.
Request ==
  {r \in [label: Label, v: 1 .. Room + 1, k: Kind, owner: Owner, rc: Recovery, rpub: Recovery \cup {None}] :
     r.k = "recover" <=> r.rpub # None}

-----------------------------------------------------------------------------
\* The gates: a limiter, and a key of it.
Gate == ({"limiter", "newPerAddress"} \X Addr)
          \cup ({"perAccount"} \X (Label \X {"publish", "recover"}))
          \cup ({"newAccounts", "total"} \X {"all"})

Per(g) == CASE g[1] = "limiter" -> PerAddress
            [] g[1] = "perAccount" -> PerDay
            [] g[1] = "newPerAddress" -> NewPerAddress
            [] g[1] = "newAccounts" -> NewPerMinute
            [] OTHER -> PerMinute

Window(g) == IF g[1] = "perAccount" THEN Day ELSE 1

Full(g) == Per(g) * Window(g)

AtMost(m, n) == IF n < m THEN n ELSE m

Refilled(t) == [g \in Gate |-> AtMost(Full(g), t[g] + Per(g))]

\* Mutant: a token is given back on top of a full bucket.
OverRefund(t, gs) == [g \in Gate |-> IF g \in gs THEN t[g] + 2 * Window(g) ELSE t[g]]

\* Mutant: what earlier gates took is kept when a later one refuses.
NoRefund(t, gs) == t

Refund(t, gs) == [g \in Gate |-> IF g \in gs THEN AtMost(Full(g), t[g] + Window(g)) ELSE t[g]]

Take(t, gs) == [g \in Gate |-> IF g \in gs THEN t[g] - Window(g) ELSE t[g]]

firstPublishReserve == AtMost(NewPerMinute, PerMinute \div 2)

HasLabel(l) == \E i \in DOMAIN entries : entries[i].label = l

\* Mutant: a recover spends its handle's ordinary day, as it did until 2026-10-10.
OneDay(r) == <<"perAccount", <<r.label, "publish">>>>

\* The day of an account: a recover has one of its own.
DayOf(r) == <<"perAccount", <<r.label, IF r.k = "recover" THEN "recover" ELSE "publish">>>>

\* The gates of a publish, in order.
Gates(r, addr, fresh) ==
  IF fresh
  THEN << <<"limiter", addr>>, DayOf(r), <<"newPerAddress", addr>>, <<"newAccounts", "all">>, <<"total", "all">> >>
  ELSE << <<"limiter", addr>>, DayOf(r), <<"total", "all">> >>

Reserve(g, fresh) == IF g[1] = "total" /\ ~fresh THEN firstPublishReserve ELSE 0

Shut(gs, fresh) == {n \in DOMAIN gs : tokens[gs[n]] < (1 + Reserve(gs[n], fresh)) * Window(gs[n])}

\* The gates taken before the first that refuses; all, if none does.
Passed(gs, fresh) == {gs[n] : n \in {n \in DOMAIN gs : \A m \in Shut(gs, fresh) : n < m}}

-----------------------------------------------------------------------------
\* The owner rule.  A label's state: who owns it, from the table, and its
\* version, from its latest entry.
Latest(l) == CHOOSE i \in DOMAIN entries :
               entries[i].label = l /\ \A j \in DOMAIN entries : entries[j].label = l => j <= i

RuleState(l) ==
  IF HasLabel(l)
  THEN [owner |-> owners[l].owner, rc |-> owners[l].rc, version |-> entries[Latest(l)].v]
  ELSE None

NextVersion(prev, r) == r.v = IF prev = None THEN 1 ELSE prev.version + 1

\* Mutant: an update may name another commitment.
OwnerOnly(prev, r) == r.owner = prev.owner

Keeps(prev, r) == r.owner = prev.owner /\ r.rc = prev.rc

\* ownerRuleTransition.
Allowed(prev, r) ==
  /\ r.k = "claim" <=> prev = None
  /\ r.k = "update" => Keeps(prev, r)
  /\ r.k = "recover" => r.rpub = prev.rc
  /\ NextVersion(prev, r)

\* What a replay makes of the entries: every line the log wrote passes the
\* rule again, so a label's last line is what the table holds.
Replay(f) == [l \in Label |->
  LET of == {i \in DOMAIN f : f[i].label = l}
      last == f[CHOOSE i \in of : \A j \in of : j <= i]
  IN IF of = {} THEN None ELSE [owner |-> last.owner, rc |-> last.rc]]

\* checkEntry: the signatures are there.  A party has the keys, or has seen
\* the request.
Signed(r) ==
  \/ {r.owner, r.rc, r.rpub} \ {None} \subseteq Mine
  \/ (Mine \ stolen) \cap {r.owner, r.rpub} = {}

-----------------------------------------------------------------------------
Init ==
  /\ entries = <<>> /\ owners = [l \in Label |-> None]
  /\ tokens = [g \in Gate |-> Full(g)]
  /\ reading = 0 /\ stolen = {} /\ now = 0 /\ written = <<>> /\ spent = 0

Fault(kind) == kind \in Faults /\ spent < MaxFaults /\ spent' = spent + 1

Free == Room - Len(entries)

\* A publish arrives: the floor and the bound are checked, the body awaited.
Arrive ==
  /\ Free >= Floor
  /\ reading < MaxInFlight /\ reading' = reading + 1
  /\ UNCHANGED <<entries, owners, tokens, stolen, now, written, spent>>

\* A body that does not arrive whole, or is no signed publish: nothing is charged.
Junk ==
  /\ reading > 0 /\ reading' = reading - 1
  /\ UNCHANGED <<entries, owners, tokens, stolen, now, written, spent>>

\* _applyHandle: the line is appended and the table told.
Apply(r) ==
  /\ entries' = Append(entries, r)
  /\ owners' = [owners EXCEPT ![r.label] = [owner |-> r.owner, rc |-> r.rc]]

Write(r, took, fresh, ok) ==
  written' = Append(written, [gates |-> took, fresh |-> fresh, k |-> r.k, at |-> now, ok |-> ok])

\* A publish past its body that a gate refuses, or the rule: whatever the
\* label, anybody can sign one for a version it does not have.
Refused(l, k, addr) ==
  LET r == [label |-> l, k |-> k]
      fresh == ~HasLabel(l)
      took == Passed(Gates(r, addr, fresh), fresh)
  IN
  /\ reading > 0 /\ reading' = reading - 1
  /\ tokens' = Refund(Take(tokens, took), took)
  /\ UNCHANGED <<entries, owners, stolen, now, written, spent>>

\* A publish past its body that the gates let through and the rule allows:
\* its append fails, or its head does, or it is written.
Publish(r, addr) ==
  LET fresh == ~HasLabel(r.label)
      gs == Gates(r, addr, fresh)
      took == Passed(gs, fresh)
      back == Refund(Take(tokens, took), took)
  IN
  /\ reading > 0 /\ reading' = reading - 1
  /\ Signed(r) /\ Allowed(RuleState(r.label), r) /\ Shut(gs, fresh) = {}
  /\ \/ Fault("append") /\ tokens' = back /\ UNCHANGED <<entries, owners, written>>
     \/ Fault("head") /\ tokens' = back /\ Apply(r) /\ Write(r, took, fresh, FALSE)
     \/ tokens' = Take(tokens, took) /\ Apply(r) /\ Write(r, took, fresh, TRUE) /\ UNCHANGED spent
  /\ UNCHANGED <<stolen, now>>

\* The process dies and is started again: the file is replayed, and the
\* gates are those of a new process.
Restart ==
  /\ Fault("kill")
  /\ owners' = Replay(entries)
  /\ tokens' = [g \in Gate |-> Full(g)]
  /\ reading' = 0 /\ written' = <<>>
  /\ UNCHANGED <<entries, stolen, now>>

Tick ==
  /\ now < MaxTime /\ now' = now + 1
  /\ tokens' = Refilled(tokens)
  /\ UNCHANGED <<entries, owners, reading, stolen, written, spent>>

Steal(k) ==
  /\ k \notin stolen /\ stolen' = stolen \cup {k}
  /\ UNCHANGED <<entries, owners, tokens, reading, now, written, spent>>

Next ==
  \/ Arrive \/ Junk \/ Restart \/ Tick
  \/ \E l \in Label, k \in Kind, addr \in Addr : Refused(l, k, addr)
  \/ \E r \in Request, addr \in Addr : Publish(r, addr)
  \/ \E k \in Owner \cap Mine : Steal(k)

Spec == Init /\ [][Next]_vars

-----------------------------------------------------------------------------
TypeOK ==
  /\ entries \in Seq(Request) /\ Len(entries) <= Room
  /\ owners \in [Label -> [owner: Owner, rc: Recovery] \cup {None}]
  /\ tokens \in [Gate -> Nat] /\ \A g \in Gate : tokens[g] <= Full(g)
  /\ reading \in 0 .. MaxInFlight
  /\ stolen \subseteq Owner \cap Mine
  /\ now \in Nat /\ spent \in Nat /\ Len(written) <= Len(entries)

Registry == INSTANCE HandleRegistry WITH registry <- [l \in Label |-> RuleState(l)]

\* The log implements the registry.
HoldsNames == Registry!Spec

\* A name the user has stays the user's, through every entry the log accepts.
MineStaysMine == Registry!MineStaysMine

\* The entries of a label are its versions 1, 2, 3, ...: nobody uses up the
\* versions a recover will need.
VersionsNext ==
  \A i \in DOMAIN entries :
    entries[i].v = Cardinality({j \in 1 .. i : entries[j].label = entries[i].label})

Counted(g, since) ==
  Cardinality({i \in DOMAIN written : written[i].ok /\ g \in written[i].gates /\ written[i].at >= since})

\* What a gate lets through in any stretch of time is what it holds and what
\* it was refilled meanwhile.
RateHeld == \A g \in Gate, t \in 0 .. now :
  Counted(g, t) * Window(g) <= Full(g) + Per(g) * (now - t)

\* A gate is short only of what was published in the last window: refusals,
\* of whatever kind, cost nobody anything.
RefusalsFree == \A g \in Gate :
  Full(g) - tokens[g] <= Window(g) * Cardinality({i \in DOMAIN written :
                            written[i].ok /\ g \in written[i].gates /\ now - written[i].at < Window(g)})

\* Whoever holds a handle's owner key cannot spend the recoveries of it: they
\* are there unless the handle was recovered today.
RecoveryLeft == \A l \in Label :
  \/ \E i \in DOMAIN written : written[i].k = "recover" /\ now - written[i].at < Day
                                 /\ DayOf([label |-> l, k |-> "recover"]) \in written[i].gates
  \/ tokens[DayOf([label |-> l, k |-> "recover"])] >= Day

\* Republishing leaves room for first publishes: only they spend the reserve.
RoomForFirst ==
  firstPublishReserve - tokens[<<"total", "all">>]
    <= Cardinality({i \in DOMAIN written : written[i].fresh /\ written[i].at = now})

\* The floor is checked before the body is read and used after it; the bound
\* on bodies being read is what the floor can be missed by.
FloorHeld == Free + MaxInFlight >= Floor + reading
=============================================================================
