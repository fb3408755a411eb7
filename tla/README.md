# Z Messenger: formal models

TLA+ models of the parts of Z Messenger whose correctness depends on the order
of things: relay instances that share one Redis store, the relay in one
process, the key-transparency log on a disk that can fail, the trees it proves
its answers with, the mirror that checks it, and the handle log with its gates.
TLC checks them on small instances; TLAPS proves the invariants of presence, of
delivery, of admission, of the log on its disk, of its proofs, of the mirror
and of the handle log for all values of their constants. All paths below are
relative to the repository root (`server/...` is the relay, `kt/...` the log).
The models follow the JavaScript code, not the documents; where the two
disagree it is listed under *Disagreements* or *Known limits*.

## The system

| Part | State | Operations | Module |
|---|---|---|---|
| Relay, presence (`server/server.js`, `RedisCoordinator`) | `local` (rid → socket) and `presenceStale` per instance; `presence:{rid}`, `z:reg` in the store | `auth` → `register`, `close` → `unregister`, `_onPub` kick, `heartbeat` | `RelayPresence` |
| Relay, delivery (same class and its Lua scripts) | `q:{rid}`, `qe:{rid}`, `qb:{rid}` in the store; `lastMailboxLen` and flushes under way per instance | `send` → `deliverEnqueue`, `_push`; `recv` → `ack`; `flush`, `reflushStalled`, `_onPub` deliver, expiry | `RelayDelivery` |
| Relay, admission (same class) | the shared window `z:nm`, each instance's bucket and `seen`, `owned:{rid}`, `intro:{rid}`, `z:ub` | take, push, refund; the sweep's recount | `RelayAdmission` |
| Relay, introduction keys (same class) | `ik:{rid}`, `ik:epoch`, `ikCopies` | `ikey`, `ikey_get`, login, epoch check and put-back, eviction | `IntroKeys` |
| Relay in memory (`MemoryCoordinator`) | mailboxes, owners, flags, seen mailboxes, running totals | login, flush, send, ack, receipts, intro, push-register, sweep | `RelayMemory` |
| Push wake-ups and pages (`server/push.js`, `pages.js`) | push tokens | HTTP calls | who is woken: `RelayMemory` |
| Key-transparency log (`kt/lib/log.js`, `kt/server.js`, `kt/tools/repair.js`) | `entries`, `_boundary`, `_recordedTs`; `entries.jsonl`, `head.json` | `publish`, `sth`, `keepAlive`, start, stop, repair | `KtLog` |
| Trees and answers (`kt/lib/merkle.js`, `smt.js`, `log.js`) | a log tree and a sparse map | root, inclusion, consistency, presence, absence, buckets, history pages | `MerkleLog`, `SparseMap`, `KtServe` |
| Mirror and witness (`kt/lib/mirror.js`, `kt/tools/mirror.js`) | a copy of the log, its last verified head, the divergence latch | `load`, `sync`, recovery, the witness's answers | `KtMirror` |
| Handle log and publish gates (`kt/lib/handles.js`, `log.js`, `kt/server.js`) | records of each handle; five limiters; bodies in flight | claim, update, recover, refund, replay | `HandleRegistry`, `KtHandles` |
| Client protocol (`protocol/lib/src`), app core (`app/lib/core`), UI | ratchets, sessions, SQLite | - | not modelled |

How they interact. A client authenticates to one relay instance, which claims
presence for its routing id and then flushes its mailbox to it. A sender, on
any instance, passes the gates of admission and pushes an envelope into the
mailbox (one atomic script), after which the instance reads presence and tries
a live push, on its own socket or by publishing to the instance presence names.
The recipient persists a frame and then acknowledges it, which frees the
mailbox slot. The log is separate: accounts publish signed bindings or handle
records, everybody reads heads and proofs, mirrors and witnesses follow its
heads.

What is hard. In the relay every `await` is an interleaving point: presence is
read in one command and written in another, flushes work on lists read
earlier, an allowance is taken two commands before it is spent, pushes are
published to instances that may have lost the socket or died, any single
command can be refused by a full store while its neighbours succeed, and the
store itself may come back empty. In memory nothing is concurrent but a flush,
and the difficulty is that six methods keep the same counters and lists by
hand. In the log nothing is concurrent, but between any two system calls the
process or the machine may die, and what a start finds may be older, shorter or
longer than what was served. The mirror has both: it awaits a log that moves,
lies or is replaced, and commits to a disk that fails. `PROJECT.json` lists the
hazards one by one with their lines.

## The modules

| Module | Depends on |
|---|---|
| `RelayPresence`, `RelayPresenceProofs` | TLAPS for the proofs |
| `RelayDelivery`, `RelayDeliveryProofs` | TLAPS for the proofs |
| `RelayAdmission`, `RelayAdmissionProofs` | TLAPS for the proofs |
| `IntroKeys`, `IntroKeysProofs` | TLAPS for the proofs |
| `RelayMemory`, `RelayMemoryProofs` | TLAPS for the proofs |
| `AppendOnlyLog` (abstract: what the holder of a head is promised) | - |
| `KtLog`, `KtMirror` (each instantiates `AppendOnlyLog` with what it last vouched for) | `AppendOnlyLog` |
| `KtMirrorProofs` | `KtMirror`, TLAPS |
| `MerkleLog`, `SparseMap` (pure algorithms), `KtServe` (the state they are used on) | each other |
| `KtLogProofs` (the log on its disk, and its answers) | `KtLog`, `KtServe`, TLAPS |
| `HandleRegistry` (abstract: who has which name) | - |
| `KtHandles`, `KtHandlesProofs` (implements `HandleRegistry`) | `HandleRegistry`, TLAPS |
| `MC...` (values for TLC, symmetry) | their module |

In each module the definitions headed "Mutant" are not part of the system:
each is a plausible bug in the definition below it, and substituting it makes
TLC find a violation of the property `PROJECT.json` names beside it.

### RelayPresence

One action is one store command together with the code that runs when its
answer arrives, up to the next `await`. `cmd[i]` is the connection of instance
`i`: commands issued and not yet executed, in order, because ioredis pipelines
on one socket. `pub[i]` is the same for the publishing connection and
`chan[i]` for the channel an instance reads. `register` is the chain
`RegisterToken` (INCR) → `RegisterLocal` (SET owned) → `RegisterFind` (GET
presence) → `RegisterKick` (PUBLISH) → `RegisterClaim` (SET presence and the
end of the auth handler); `unregister` is `OnClose` → `UnregisterCheck` →
`UnregisterDel`; the heartbeat is `Heartbeat` → `HeartbeatSet`. A store at its
memory limit (`full`) refuses INCR and SET and not GET, DEL or PUBLISH; a
failed command (`CommandFails`) rejects whatever chain it is part of; a crash
loses an instance's sockets, RAM, commands and channel.

### RelayDelivery

The mailbox is one sequence of entries, an entry being an envelope and its
slot (`m:<id>`, `m:<id>#1`, ...). `Push` is the push script, `Route` the read of
presence and the live push, `FlushKeys` the LRANGE, `FlushPage` an HMGET and its
frames, `Reflush` one turn of `reflushStalled`, `Ack` the acknowledgement
script. Presence is not a variable: its read may return any instance or none,
which covers everything `RelayPresence` can make it say. Frames on the wire are
a set, because an app drops copies by the inner id; frames towards a
connection the app has left are lost without the relay noticing.

### RelayAdmission

One action is one script and what its reply makes the instance do: `Take`
(`_takeShared`, falling back to the instance's own bucket when the store cannot
be asked), `Push` with `Settle` (the four ways `_push` ends) and `Refund`.
`Own`, `Free` and `Lapse` change whose bytes count as unowned. The sweep is a
step per command: `AskOwned` (EXISTS), `AddBytes` (GET), `Reconcile` (SET), or
`Abandon` if one of them fails. The mailbox asked about may be claimed and
written to before its bytes are read, and SCAN may give a mailbox a second time;
`extra` counts what the walk then adds beyond the unowned bytes. Other ghosts
count the mailboxes made with each kind of allowance, the slots lost with a
crash or a lost answer, and the bytes `z:ub` cannot see come and go.

### IntroKeys

An entry is known by its routing id, and the module follows its life: `dies` in
the store, the moment `at` in each instance's copy. The epoch check is one
step per command (`AskEpoch`, `MintEpoch`, `AskAgain`, `PutBack`), as is the
sweep (`Walk` reads lives, `Evict` deletes by them later). `Copy` is the reply
to a login or a publish, which may come after its socket has left.

### RelayMemory

A call runs to its end before the next, so the coordinator is one record and
each method an operator from record to record; the only state between calls is
what a flush has still to send. Its totals are added to and subtracted from as
the code does, and `Accounted` compares them with the queues. `Screened` is the
order of `deliverEnqueue`'s early returns, `Enqueue` the order of `_enqueue`'s.
What leaves a mailbox leaves by `Freed`, which is `_removeKey` and `_retain`
both: it takes a set of entries out of a set of mailboxes (`Left`) and
subtracts from each total what it was charged, so that the sweep, which the
code writes as a loop over mailboxes, is `Expire` of all of them.

### KtLog

One action is one system call that reaches the disk. `file` holds the complete
lines, `torn` whether bytes without a newline follow; the first `synced` lines
are on the disk, and the file itself is if its directory entry is (`name`).
`came` is the set of head files a power loss may leave. `pc` says which call
comes next, `job` who is waiting for the head to be recorded. `promised` and
`acked` are history variables: the history of the last head given out, and of
the last publish answered 201. A root is identified with the history it
commits to (ideal hashes) and nothing signed can be forged, so a line that
something else appends is unsigned. `OpenNew` and `Open` are a start without
and with a head beside the entries. `Confirmed` stands for an operator who
follows SELF_HOSTING.md: who sets `KT_CONFIRM_HEAD` only if nobody has seen a
larger head. `SyncDir` may fail without anyone hearing of it, as `_syncDir` goes
on when the directory cannot be opened or synced: the head is then given out,
and the publish answered, while a power loss may still undo the rename. Three
ghosts follow what comes of that: `loose`, the last answer rests on a directory
that was not synced; `lost`, a power loss has since taken the head back; `bare`,
one has left a file without any head that holds a line of somebody else's.

### MerkleLog, SparseMap, KtServe

The algorithms as they are written: by halves of a range in the log tree,
compact in the map (a lone leaf sits high and is pushed down when another parts
from it). Recursion is written as functions over ranges, hashes up a way from a
leaf, or nodes down it, so that it can be reasoned about. A hash is the term it
is the hash of, so two are equal exactly if what was hashed is. In `KtServe`
both trees are built by publishing (`ApplyNext` is `KtLog._apply`), with
`byLabel` the index that histories are served from, and its properties compare
every root and proof with a definition over the whole history. A reader who
walks a label's history is one more process: each page is cut by count and
bytes against the log as it is then, and brings the count and the head's size.

### KtMirror

`pc` is the answer a sync awaits (`head`, `proof`, `page`) or the system call
that comes next (`append`, `rename`, `dir`). `told` is the history the log
would answer with now; it may be replaced by another (`Fork`) or an impostor
with another key may answer once. `honest` says neither has happened to its
signed history. `attested` is the history of the last head the witness showed
anybody. `came` is the set of head records a power loss may leave. It keeps the
old record if the directory's sync fails (`SyncDirFails`), which the code does
not hear of, and if the process is killed before it. `cut` marks either, and
`lost` that a power loss has since brought an old record back.

### HandleRegistry, KtHandles

`HandleRegistry` is the promise: a name is claimed once, updated by its owner,
and changes hands only by its recovery key. `KtHandles` is a request passing
the five gates (`Shut`, `Passed`, `Refund`), the rule (`Allowed`) over the
owner table and the label's last entry, and the append; `Replay` is what a
start rebuilds the table from. The table and the latest entry are separate
state in the code, kept in step by hand, and the refinement maps a name to
both. A stranger may come to hold the user's owner keys, never a recovery key.

## The runs

| Run | Expected | Shows | Bounds |
|---|---|---|---|
| `presence` | holds | no kick or close takes the newest login away, a welcomed socket's record is not about to be deleted, presence settles | 2 instances, 2 sockets, 1 routing id, one fault (crash, full store, failed command) |
| `presence_expires` | violated | a socket that closes while registering keeps its presence alive | as above, no fault |
| `delivery` | holds | answered `sent` means held, got or lapsed; no key names two entries and an attributed retry queues nothing; a lost live push is made up for | 2 instances, a sealed and an attributed envelope of which one is sent, 2 connections, 2 sends, 3 of either in all, one fault (crash, full store, expiry) |
| `delivery_shared_id` | violated | two sealed envelopes under one id: an acknowledgement frees the wrong one | one connection, two sends, no fault |
| `ktlog` | holds | 201 stands and no foreign line is served, but for a power loss after a directory sync that failed; heads implement `AppendOnlyLog`; the log comes back | one label, an empty or a legacy file, 3 lines, 2 versions, time to 3, two failures of any kind, a directory that goes on failing to sync counted once |
| `ktlog_fork` | violated | kill then power loss: a smaller history is signed | two failures, 2 lines |
| `memory` | holds | the totals agree with the queues; nothing is stranded, unpaid, misreported or woken | 2 routing ids, 2 envelopes of one id, 3 sends, 2 logins, 1 introduction, every cap within reach, time to 2 |
| `handles` | holds | budgets are what was written, a refusal is free, recoveries are left, names implement `HandleRegistry` | 2 names, 3 owner and 2 recovery keys, one address, 4 lines, time to 2, one fault |
| `serve` | holds | proofs show what they should and nothing else; walks and buckets are whole | 3 labels of 3 bits, 6 entries, pages of 2 |
| `mirror` | holds | no false alarm, nothing served is taken back but by a power loss before its directory is synced, recovery always repairs, an honest log is followed | 2 labels, 3 lines, a page of 2, a cap of 2, three faults of any kind |
| `intro` | holds | keys come back after a store loss and live no longer than earned; the table returns under its cap | 2 identities, 2 instances, one sweeper, 2 sockets each, one loss, one crash or refusal |
| `admission` | holds | allowances and slots are conserved; `z:ub` strays only by what it cannot see | 2 mailboxes, 2 instances, one sweeper, 2 sends, 2 changes of ownership, one fault, 2 of changes and faults together, two windows; SCAN gives any mailbox again |

Why the bounds are enough to be of use. Presence: routing ids share only the
counter `z:reg` and the connection, and both are there with one; two sockets
leave room for every race of two logins (three, for a client that moves
A → B → A, are what the proofs of *What is proved* are for). Delivery: a page of
one, two entries and one extra slot make a flush span pages, fill the cap and
exhaust the slots; three events are a send, a retry and a login, or a send and
a move. Log: its interesting failures are pairs (a failed append and a restore,
a kill and a power loss); two versions are an acknowledged line and one in
progress, or a legacy line and one of these, and a third line is garbage or
another's; time runs one unit past the age limit. Memory: two envelopes
share an id and differ in sender, stamp and size, and every cap is at most two,
so each check of `_enqueue` both passes and fails, and each list forgets.
Handles: two names contend for the totals of one minute, and two minutes are a
day, so that the ordinary day, the recovery's day and the minute are told
apart; the owner keys are two of the user's and one of the stranger's. Serve:
labels part at the first bit and at the last; six leaves are two over a power of
two, and every size below is an old head. Mirror: three faults are, for
instance, a failed append, a kill and a power loss. Introduction keys: two
sockets let a login replace another while its reply is under way; a loss then
makes two instances race for the epoch. Admission: one slot and one token make
every second send wait on a refund.

Instances larger than those of the runs were checked too and hold: the safety of
the log with three versions (7.5 million states) and with three failures (11.3
million); the relay in memory with time to 3 (1.5 million); introduction keys
with two losses (1.4 million) and with a life of two ticks; admission with
three sends and no change of ownership (8.5 million) and with two faults and one
change (6.3 million); delivery with both its envelopes sent and no fault (0.6
million).

Deadlock is not checked: every one of these systems may come to rest when its
bounded sockets, sends, lines or faults are used up.

Restrictions that are deliberate. In `KtLog` a snapshot is taken at a moment
when everything on the disk is synced, `KT_MIN_SIZE` is set once the log has
served that many entries, and only a log that has can lose its directory;
`AppendOnly` is claimed until a power loss, because with one `ktlog_fork` is the
counterexample. A power loss that finds the directory unsynced may take back
the head last given out: `AckedStands` then claims nothing until the next
publish is answered (`lost`), and `NoForgedLine` nothing once a file was left
without a head and with a foreign line (`bare`). Both exceptions are no wider
than they must be: without its own, each is violated, `AckedStands` within
the two failures of the run and `NoForgedLine` with three, for which it was
checked apart. In `KtMirror` the changes to a directory reach the disk in
their order, as on the journalled file systems it is run on; `AppendOnly` and
`ServedKept` except a power loss after a rename whose directory was not synced,
because the process was killed before or because the sync failed (`cut`), until
the next head is served (`lost`). Of `RelayDelivery`, `Delivered` is about
connections and sends that come to an end, since the instance bounds them. In
`RelayAdmission` and `IntroKeys` the sweeps of one instance are followed; the
code has each instance sweep, and the two only share the store.

### Fairness

* `RelayPresence`: a reply to a command arrives while the process runs, an
  event handler runs, the heartbeat timer fires for every routing id held
  (strong fairness, since a previous round may be under way each time), a TTL
  ends, a full store gets room again (acks and expiry drain it). Clients,
  crashes, restarts and command failures are under no obligation.
* `RelayDelivery`: callbacks of a running process, its re-flush timer, and an
  app that reads and acknowledges while it is connected. Senders, logins,
  departures and faults are under no obligation; `Delivered` asks for the
  recipient to stay connected.
* `KtLog`: the process runs on, the host restarts it, the operator repairs a
  torn tail. Publishes, stops and failures are under no obligation.
* `KtMirror`: the process runs on and its timer starts a sync, the host
  restarts it, the operator deletes a directory that load refuses, as its
  message asks. An answer may be lost as often as the fault bound allows.
* `IntroKeys`: replies arrive, kicks are delivered, the heartbeat and the
  sweeper's timer fire. Clients, losses, crashes and the clock are under no
  obligation.
* The other specifications state none, and no liveness is claimed of them.

## Disagreements with documents and comments

Each is a run that TLC refutes; `PROJECT.json` quotes the lines.

1. *A connection record expires within a minute* (`docs/DATA_MAP.md:192`): a
   socket that closes during `register` is entered in `local` after its close
   event, and the heartbeat refreshes its record from then on.
2. *Both envelopes are kept and delivered* (`docs/PROTOCOL.md:2922`): a sealed
   acknowledgement names an id, and frees the lowest slot of it whatever that
   slot holds.
3. *Refuse to sign a history smaller than the one already signed*
   (`kt/lib/log.js:855`): a start after a kill serves a line that only the page
   cache holds.

## Known limits of the code

Seen while modelling, small, and without a run of their own.

* *One active connection per identity* (`server/server.js:1992`): GET and SET
  of presence are two commands, and two logins that overlap on two instances
  both stay until one of them ends.
* *A kick with no token is treated as newer* (`server/server.js:2670`): an
  instance the store refused the counter publishes 0, a number, and is ignored.
* A push whose script ran and whose answer was lost gives its allowance back
  (`server/server.js:3013`) although the mailbox was made; `leaked` and `made`
  account for it.
* An introduction flag and a push registration are two commands each in Redis
  mode (`server/server.js:2766`); `NeverWoken` is checked in memory.
* The sweep evicts introduction keys by lives it read earlier, and a key put
  back after a replacement is dated `now` (`server/server.js:2802`, `3430`):
  the table's size is claimed, the order of eviction is not.
* A head that cannot be recorded refunds its publish although the entry is
  written (`kt/server.js:801`): `RateHeld` and `RefusalsFree` count what was
  answered 201.
* `_syncDir` of the log and of the mirror go on when the directory cannot be
  opened or synced (`kt/lib/log.js:590`, `kt/lib/mirror.js:788`), whatever the
  reason. A power loss may then bring the old head back: the log loses an entry
  it answered 201, or, if that was its only head, adopts a line that something
  else appended; the witness serves a head smaller than one it served.
* The sweep of `z:ub` asks whether a mailbox is owned and then for its bytes
  (`server/server.js:3348`): one claimed and written to in between is counted
  with what its owner was sent, and one that SCAN gives twice (`3376`) is
  counted twice. The next sweep puts it right; `CounterFollows` bounds it by
  `extra`.
* `_recover` and a first sync (`kt/lib/mirror.js:700`, "Either both land or
  neither does"): a machine that dies after the first entries are synced and
  before the first head is renamed leaves entries without a head, which load
  refuses until the operator deletes the directory.

## What is proved

### RelayPresenceProofs

For every finite or infinite set of instances, sockets and routing ids, every
fault set and every bound, from `NoneAssumption` (the value `None` is not an
instance, socket or routing id) alone: `TypeCorrect` (`TypeOK`),
`RegistrationsOrdered` (`RegistrationOrder`) and `NewestNeverTaken`
(`NewestStandsProperty`: no step except a crash takes the newest open login out
of its instance's hands).

The inductive invariant is `Inv == TypeOK /\ RegistrationOrder`. Types alone
do not carry over a kick: to know that a message `m` handled by `OnKick`
cannot be for a registration newer than the newest one, one must know that its
number was held by some registration of that routing id when it was
published and that numbers never go down. `RegistrationOrder` says so for every
place a number can wait (`pub`, `chan`), and that a pending step of a
registration belongs to a socket of its own instance, without which
`RegisterLocal` could put a foreign socket into `local`. The proof goes over
the actions in three groups for types, then shows that numbers only grow
(`GrowthStep`), that queues of backed messages stay so (`QueuesKeep`), and that
every action keeps what instances hold and what is queued.

`WelcomedKept` (`WelcomedStays`: no deletion of a welcomed login's presence is
on its way from its own instance) needs `Flows` besides, which is about the
commands queued on an instance's connection: a registration has at most one
step pending and is not yet welcomed, and a check or a deletion for a routing
id that is held stands before what its holder's registration has still to ask,
so the store answers it first.

### RelayDeliveryProofs

For every set of instances and envelopes, any slots, caps and page size, from
`ParamAssumption` (a sealed envelope is not an attributed one, `None` is not an
instance, limits are naturals and a page is not empty): `TypeCorrect`
(`TypeOK`) and `KeysAreUnique` (`KeysUnique`), which hold whatever ids the
senders pick: no key names two entries, and the entries that share an id under
different slots are sealed, so that an attributed envelope is never queued
twice, however often it is sent. `SentIsHeld` (`HeldUntilGot`) assumes in
addition that no two envelopes share an id (`OwnIds`), without which
disagreement 2 is the counterexample.

`KeysUnique` is inductive with the types once two facts about a list are at
hand: an entry of the list with one taken out is an entry of the list before
(`PastApart`, and `PastAll` for the converse), and a push with room finds a
free slot (`FreeSlotIs`, from the least element of a set of numbers,
`Smallest`, which the well-foundedness of `<` gives). `HeldUntilGot` is not
inductive: it is strengthened by `Careful`, that what has been pushed and not
yet answered is already as safe as what was answered, and that an
acknowledgement under way is of something the recipient has persisted.
`SafeStays` then shows that no step of any actor makes a safe envelope unsafe:
an acknowledgement takes out the entry it names (`AckedIs`), which has been
persisted, and expiry records what it takes.

### RelayMemoryProofs

For every finite set of mailboxes, any envelopes, settings and bounds, from
`ParamAssumption` (nobody sends to himself, limits are naturals, the caps of
the lists and the page are not zero), all eight properties the run checks:
`TypeCorrect` (`TypeOK`), `TotalsExact` (`Accounted`), `NothingWaits`
(`NothingStranded`), `MailboxesPaid` (`SeenPaid`), `ListsSorted`
(`WalksSorted`), `IntroUnwoken` (`NeverWoken`), and, if no two envelopes share
an id (`OwnIds`, as `docs/PROTOCOL.md` asks of clients), `SentIsHeld`
(`HeldUntilGot`) and `ReceiptsEarned` (`ReceiptTrue`).

`InvHolds` proves the inductive invariant `Inv`. None of the properties but
`SeenPaid` is inductive alone:

* `Lists` says that the three lists are in the order of last use and name each
  mailbox once, without which a walk that stops at the first member that stays
  would forget too little, and `TrimOwned` would return a mailbox's bytes to the
  unowned total twice. `Accounted` rests on it: a claim, a flag, a shadow or a
  trim moves a mailbox between owned and unowned with all it holds.
* `Carried` says where each entry queued for an open socket is: persisted, in a
  frame, or in what the flush has still to look at. The page cut by `AfterPage`
  needs `PageFull`, that a full page is all that is live up to its last place.
* `Addressed`, `AcksTrue`: an entry, a frame and an acknowledgement are of the
  mailbox they are in, and what is acknowledged has been persisted. `Earned` and
  `Secured` are then preserved by `Named`, the entry an acknowledgement picks,
  which by `OwnIds` is the envelope's own.
* `Quiet`: a mailbox with a flag or shadow that still counts has no token,
  at the clock's time and after it.

Since every call is an operator from record to record, each operator has a
lemma (`ClaimSound`, `TrimOwnedSound`, `SetIntroSound`, `EnqueueSound`,
`FreedSound`, ...): a coordinator that is well formed and balanced stays so,
and what the owners, the queues and the totals of the result are. Calls
compose, and so do the lemmas. The totals are compared with sums over finite
sets. The library's sum is a recursive function; `SumPick` unfolds it, and the
laws of sums (`SumRemove`, `SumAdd`, `SumParts`, `SumMoved`) are proved by a
least counterexample in the cardinality (`ByCardinality`), which stands in for
induction.

### IntroKeysProofs

For every set of instances, devices and routing ids, any lives and bounds:
`TypeCorrect` (`TypeOK`), `CopiesAreHeld` (`CopiesHeld`) and `LivesAreEarned`
(`LifeEarned`). `Inv` has a part for each place a key can be: `Lives` (the
store's entries), `Owners` and `Sockets` (who is connected where), `Kept` (the
instances' copies), `Passes` (a put-back or a sweep under way) and `Traffic`
(commands and replies). Each says that what is there is no newer than the
device's last login or publish, so a put-back, which gives what life is left by
the instance's clock, cannot lengthen it, and that a copy's socket is one the
instance holds.

### RelayAdmissionProofs

For every set of instances and finite set of mailboxes, any limits and sends,
from `AdmissionAssumption` (limits are naturals): `TypeCorrect` (`TypeOK`, so
that no bucket is ever past its allowance and no window grants more),
`TokensAreExact` and `SlotsAreExact`. The invariant is `Inv == BoxesOK /\
GateOK /\ Numbered /\ Holding /\ Sums`. `Sums` is the two properties;
`Numbered` says that the sends under way are finitely many with numbers of
their own, so that one that goes on neither merges with another nor is counted
twice; `Holding` that a send holds a token or a slot or neither, that one still
asking holds nothing, and that no slot is of a window after the store's. Without
the last, a window that begins could find slots of its own already taken.
`Leaves` and `GoesOn` count what one send takes with it, once for all actions;
`CrashKeeps` splits the window's slots into those of the instance that dies and
the rest.

`CounterIsFollowed` (`CounterFollows`) needs `Recounts`: what each walk has
added up is what the unowned mailboxes behind it hold, but for what came and
went since it began and for what it added that it should not have (`extra`):
the bytes of a mailbox claimed after it was asked about, or given a second
time. When the walk is over, all are behind it, and the recount is as near as
the live count was. A push is counted live and noted by every walk; whatever
the environment does is a `Shift` of c bytes one way and g the other, which
drift and walks note alike (`UnseenFollows`). The routing ids are finitely
many, or there would be no sum.

### KtLogProofs

For every set of labels and values, any limits and any number of failures, from
`ParamAssumption` (limits are naturals; no client publishes the value that marks
a foreign line) and `NoneAssumption` (`None` is not a head):

* `TypeCorrect` (`TypeOK`) and `NoForgeryServed` (`NoForgedLine`) from `Inv`.
  Its heart is `Marks`, which holds unless `bare`: a foreign line is never
  signed; every head the disk may come back with, and that of a snapshot,
  commits to the log's own lines and puts the boundary inside them; and without
  a head the file holds no foreign line. `GhostStep` and `BareStays` show that
  no step but a power loss of an unsynced first head spoils the last of these.
  Then a start that accepts a file finds each line either under the head or
  past the boundary (`CoveredIsGenuine`).
* `AckStands` (`AckedStands`) if no old copy of the disk is restored
  (`NoRestore`), by `Stands`: the head in place covers what was answered 201
  (`Cover`), and so does every head the disk may come back with if the
  directory was synced, so that it does not matter which one a power loss
  leaves. If it was not, `LostStep` shows that a power loss either leaves the
  head or is noted in `lost`. `Gone` is the one case in which there is no head,
  and `KT_MIN_SIZE` refuses it.
* `Implements` (`AppendOnly`) under `NoRestore`, by `Follows` and `Fits`: until
  the power is lost, the file either extends what was given out or can never be
  replayed again. The second case is a stray line that a failed truncation left
  (`Bad`): the next line is written at an index that is already taken
  (`LikeWritten`), so no later history can be built on it.

With a restored disk the last two are claimed for two failures, by the run, and
were checked for three: a start can compare a restored history with the lost one
only by size and time, as the operator's documentation states, so they are no
theorem for any number of failures.

Of the log's answers (`KtServe`), for every set of labels of any number of bits,
any weights of entries and any page, from `ServeAssumption` (a label is bits, at
least one; limits are positive):

* `ListsAreKept`: the inductive invariant `ServeInv == ServeTypeOK /\ Listed /\
  Reading`. `Listed`: a label's list is its entries, oldest first, each one
  version after the one before. `Reading`: what a reader holds is the front of
  that list, as far as the head of its last page went. `WalksAreWhole`
  (`WalksWhole`) follows, whatever was published between two pages.
* `HeadTells` and `AuditTells` are about the two verifiers, and hold of a proof
  of any hashes at all, whoever made it: a consistency proof that verifies is of
  the root of the head's own first m leaves, and an audit path that verifies is
  of the leaf that is there. With ideal hashes that is what keeps a log from
  showing two histories to two people.
* `HeadsAreOne` (`HeadsAgree`) and `AuditsAreExact` (`AuditsExact`) add that the
  log's own proofs verify.

The argument names the node i of level h (`NodeAt`, a range cut short by the end
of the leaves) and shows that a path is the siblings of the nodes from the leaf
up. The verifier never sees the ranges: its two counters, halved at every turn,
are the node it is at and the last of that level, so it goes left or right as
the tree does. Two climbs from the same place that end at the same root took
the same hashes (`ClimbsAgree`), since a node's hash is equal to another only
if both halves are; and equal roots of equal sizes have equal leaves
(`RootTells`). Facts about recursive functions are had without induction over
data: a function given on an interval by its value before is shown to exist by
a least counterexample in how far it goes.

Of the map (`SparseMap`), from the same assumption:

* `MapIsKept`: the inductive invariant `MapInv == ServeInv /\ Mapped`. `Mapped`:
  the tree is the compact tree of the labels' latest entries, and the table has
  these, whatever was published in whatever order.
* `MapIsTrue` (`MapTrue`) and `BucketsAreWhole` (`BucketsWhole`): the root is
  that of the full tree of the latest entries, every label's proof and every
  prefix's bucket verify against it, and a bucket has every latest entry below
  its prefix and no other, or is refused because these are too many.
* `ProofTells` and `BucketTells` are about the two verifiers, as `AuditTells`
  is: with any siblings and leaves at all, a proof that verifies against the
  root of a set of leaves is of the label's own leaf, or of none if it has
  none, and a bucket that verifies is everything below the prefix. So nobody
  can be shown an old version, or that an entry does not exist, under an honest
  root.

`NodeOf` and `HashAt` are the compact and the full tree of a set of leaves, and
`Sharing` narrows a set along a label's way, so that each subtree on the way is
the tree of what shares the prefix. `insert` takes the tree of a set to that of
the set with one leaf put in (`InsertIs`), whether the way ends at nothing, at
the label's own leaf or at another's that is pushed down (`Put`); and the hash
of a compact node is that of the full subtree, where the `chainHash` of a lone
leaf stands for the empty siblings left out. In the other direction a hash is
equal to another only if its parts are: folds along one way that end at the
same root began at the same hash (`FoldedSame`), and two sets of leaves with
one hash are one (`HashesSame`). `collect` lists a set by label (`CollectIs`),
and what `bucketRoot` makes of a list in that order is the hash of its set
(`RootIs`).

### KtMirrorProofs

For every set of labels, page size and cap, and any number of failures of any
kind, from `MirrorAssumption` (the page size and the cap are positive, the
other bounds naturals) and `NoneAssumption` (`None` is not a history):

* `Inv` has six parts. `Typed`; `Held`, that between two syncs the trees, the
  head and the file describe one history, unless they have to be read again;
  `Committed`, what is in hand at each system call of a commit; `Kept`, that
  every head record the machine may come back with (`came`) is covered by
  synced lines of the file, is well formed and is a beginning of the newest
  record; `ServedKept`; and `Believed`, that what an honest log has said, and
  the pages fetched so far, are the beginning of what it says now.
* `NoAlarm` (`NoFalseAlarm`) rests on `HonestIsNot`: in a state of `Inv` no
  answer of an honest log meets any of the conditions under which `sync`
  diverges (`Suspect`). The pages need `PageIs`: lines taken from a log that
  moves on between two answers still join up.
* `RepairsAlways` (`Repairs`) and `FromHead` (`FromItsHead`) follow from `Kept`
  and `Held`, `TypeCorrect` (`TypeOK`) from `Typed`.
* `ServedStays` (`ServedKept`) and `Implements` (`AppendOnly`) hold whatever the
  log signs, for they do not use `Believed`: `came` has one member unless a
  rename is not yet synced, and a new record extends the old one because
  `Verify` compares the joined lines with the signed head. `Kept` says that
  `came` is the record in place alone unless the commit is at its last call or
  the directory was left unsynced (`cut`). The exception is `lost`, a power loss
  that then brought the older record back, until the next head is served.

### KtHandlesProofs

For every set of names, keys and addresses, all rates, days, disks and bounds,
from `KeyAssumption` (a key is an owner's or a recovery key and not both, as
the apps make them), `LimitAssumption` (limits are naturals, rates not zero)
and `FloorAssumption` (what may be in flight fits under the disk's floor):

* `TypeCorrect` and `FloorIsHeld` from `Inv == TypeOK /\ FloorHeld /\ Kept /\
  Ends /\ Told`. `Kept` types the record of what was written and says it is of
  the past; `Ends` says that a name with entries has a last one, which the rule
  is asked about; `Told` that the owner table is what a replay of the entries
  would make it, so that a restart changes nobody's names.
* `VersionsAreNext` (`VersionsNext`), by counting a name's entries up to each.
* `Implements` (`HoldsNames`) and `MineStays` (`MineStaysMine`): every step of
  the log is a step of `HandleRegistry` or leaves it alone. The step that
  matters is `Publish` of a recovery: `Signed` and `Allowed` together give that
  one party holds both the committed recovery key and the new owner key.
* `RatesAreHeld` (`RateHeld`): strengthened by `Conserved`, that for every
  moment what was let through since, with what the gate still holds, is at most
  what a full gate had and was refilled by.
* `RoomIsLeft` (`RoomForFirst`), by the first publishes of this minute
  (`FreshNow`); `RefusalsAreFree` (`RefusalsFree`) by two more bounds: since
  some moment the bucket has been refilled all the time (`Owed`), and no more
  was let through between any two moments than a full bucket and its refill
  (`Paced`), so that what was taken before the last window has been refilled
  since; `RecoveryIsLeft` (`RecoveryLeft`), strengthened by `RecoveryInv`: a
  recovery's bucket is refilled in step with the time since it was used.

### Proved only, model-checked only

The proofs make some runs unnecessary, and TLC spends its time elsewhere:
`RegistrationOrder`, `FloorHeld`, `VersionsNext`, `RoomForFirst`,
`MineStaysMine` and the `TypeOK` of these modules but `RelayMemory`'s are proved
and are in no run.

Model-checked only are every liveness property (fairness and ENABLED are out of
the prover's reach), and `AckedStands` and `AppendOnly` of a log whose disk is
restored. Every other safety invariant and action property of the runs is a
theorem.

## Not modelled

* Of delivery in Redis mode: receipts between instances, byte caps, entries of
  relays before 2.7.9, and flow control of a flush (send buffer, `drained`).
* Of admission: frame rate limits and the send-buffer budget; the time to live
  of `z:ub` itself.
* Of introduction keys: the table `MemoryCoordinator` keeps in one process.
* Of the log: heads of builds before 2026-10-04; the limiters of its reading
  routes and the caps on the limiters' own tables.
* Of the mirror: several logs behind one process, comparison of two mirrors.
* Cryptography everywhere: signatures and hashes are ideal.
* The UI, platform code, page templates and the push provider: no protocol
  state. The client library and the app core are Dart programs of their own;
  what the relay and the log rely on them for (an app persists a frame before
  it acknowledges it; an outbox sends again) is an external action.

## What could follow

The ratchet's skipped keys and a simultaneous session start, from
`protocol/lib/src`.
