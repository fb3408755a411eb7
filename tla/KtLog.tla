------------------------------- MODULE KtLog -------------------------------
(***************************************************************************)
(* The key-transparency log on its disk: KtLog and FileStore in            *)
(* kt/lib/log.js, started and kept alive by kt/server.js, repaired by      *)
(* kt/tools/repair.js.                                                     *)
(*                                                                         *)
(* publish and keepAlive are synchronous, so requests never interleave;    *)
(* what happens between two of their system calls is a failure.  One       *)
(* action is one system call that reaches the disk, with the code around   *)
(* it.  The page cache survives a process ("kill") and not the machine     *)
(* ("power"): what is durable is the first `synced` lines of the entries   *)
(* file if its directory entry is, and one of the heads in `came`.  A root *)
(* is the history it commits to, and signatures cannot be forged.          *)
(***************************************************************************)
EXTENDS Naturals, Sequences

CONSTANTS
  Label,    \* accounts' labels
  Val,      \* what an account may publish
  None,     \* no label, no line, no head, no snapshot
  Legacy,   \* may the first start find a line older than stored signatures?
  MinSize,  \* KT_MIN_SIZE, once it is set
  Resign,   \* resignMs: a running log re-records its head this often
  MaxAge,   \* maxHeadAgeMs
  Faults,   \* the kinds of failure that may happen
  MaxFaults, MaxLen, MaxVersion, MaxTime \* bounds

ASSUME ParamAssumption ==
  /\ {MinSize, Resign, MaxAge, MaxFaults, MaxLen, MaxVersion, MaxTime} \subseteq Nat
  /\ Legacy \in BOOLEAN
  /\ None \notin Label /\ "forged" \notin Val
  /\ Faults \subseteq {"kill", "power", "io", "restore", "lost", "forge"}

VARIABLES
  pc,       \* "off", "ready", or the system call that comes next: the fsync
            \* of a line written ("first" in a new file), of the new file's
            \* directory ("name"), the rename of a head ("head"), its fsync ("dir")
  job,      \* who is recording a head: "publish", "alive", "start", "stop"
  log,      \* entries: what the process holds in memory
  draft,    \* the line being appended
  bound,    \* _boundary: the index from which a line must be signed
  recorded, \* _recordedTs
  file,     \* the complete lines of entries.jsonl
  torn,     \* bytes without a newline follow them
  synced,   \* how many of the lines have reached the disk
  name,     \* the file's directory entry: "none", "made", "durable"
  head,     \* the head file
  came,     \* the head files a machine may come back with
  snap,     \* a snapshot of the disk
  now,
  promised, \* the history of the last head a client or witness was given
  acked,    \* the history of the last publish that was answered 201
  loose,    \* ghost: the directory could not be synced, nobody was told, and
            \* it has not been since
  lost,     \* ghost: power lost so took back a head, and nothing has been
            \* answered 201 since
  bare,     \* ghost: power lost left a file with another's line and no head
  spent,    \* faults so far
  met       \* and their kinds

ram  == <<job, log, draft, bound, recorded>>
disk == <<file, torn, synced, name, head, came>>
ghosts == <<loose, lost, bare>>
faults == <<spent, met>>
vars == <<pc, ram, disk, snap, now, promised, acked, ghosts, faults>>

Line == [idx: Nat, label: Label \cup {None}, v: Nat, sig: BOOLEAN,
         val: Val \cup {"legacy", "forged", "garbage"}]
HeadFile == [hist: Seq(Line), ts: Nat, bound: Nat]

ASSUME NoneAssumption == None \notin HeadFile

TypeOK ==
  /\ pc \in {"off", "ready", "first", "line", "name", "head", "dir"}
  /\ job \in {"publish", "alive", "start", "stop"}
  /\ log \in Seq(Line)
  /\ draft \in Line \cup {None}
  /\ bound \in Nat /\ recorded \in Nat
  /\ file \in Seq(Line) /\ torn \in BOOLEAN
  /\ synced \in 0 .. Len(file)
  /\ name \in {"none", "made", "durable"}
  /\ head \in HeadFile \cup {None}
  /\ head \in came /\ came \subseteq HeadFile \cup {None}
  /\ snap \in [file: Seq(Line), head: HeadFile, at: Nat] \cup {None}
  /\ now \in Nat /\ promised \in Seq(Line) /\ acked \in Seq(Line)
  /\ {loose, lost, bare} \subseteq BOOLEAN
  /\ spent \in Nat /\ met \subseteq Faults

-----------------------------------------------------------------------------
Contract == INSTANCE AppendOnlyLog WITH entries <- promised

LegacyLine(l) == [idx |-> 0, label |-> l, v |-> 1, sig |-> FALSE, val |-> "legacy"]

\* A fresh deployment, or one whose file predates heads and signatures.
Init ==
  /\ file \in {<<>>} \cup (IF Legacy THEN {<<LegacyLine(l)>> : l \in Label} ELSE {})
  /\ synced = Len(file) /\ torn = FALSE
  /\ name = IF file = <<>> THEN "none" ELSE "durable"
  /\ head = None /\ came = {None} /\ snap = None
  /\ pc = "off" /\ job = "start" /\ log = <<>> /\ draft = None /\ bound = 0 /\ recorded = 0
  /\ now = 0 /\ promised = <<>> /\ acked = <<>>
  /\ loose = FALSE /\ lost = FALSE /\ bare = FALSE /\ spent = 0 /\ met = {}

Fault(kind) ==
  /\ kind \in Faults /\ spent < MaxFaults
  /\ spent' = spent + 1 /\ met' = met \cup {kind}

Latest(f, l) == {f[k].v : k \in {k \in DOMAIN f : f[k].label = l}}

First(f, n) == SubSeq(f, 1, n)

Cut(f) == First(f, Len(f) - 1)

\* Bytes that follow a partial line join it: neither is then JSON.
Garbage == [idx |-> 0, label |-> None, v |-> 0, sig |-> FALSE, val |-> "garbage"]

-----------------------------------------------------------------------------
\* readAll and _apply accept every line.
Replays(f) == Contract!WellFormed(f) /\ \A k \in DOMAIN f : f[k] # Garbage

\* The boundary a file sets for itself: its first signed entry, or its size.
Derived(f) ==
  CHOOSE n \in 0 .. Len(f) : (\A k \in 1 .. n : ~f[k].sig) /\ (n < Len(f) => f[n + 1].sig)

\* The file reproduces the root of the last head at its size.
Covers(f, h) == Contract!Extends(f, h.hist)

\* Mutant: the line at the boundary itself goes unchecked.
SignedAbove(f, b) == \A k \in DOMAIN f : k > b + 1 => f[k].sig

SignedPast(f, b) == \A k \in DOMAIN f : k > b => f[k].sig

Limit == IF MaxAge > 2 * Resign THEN MaxAge ELSE 2 * Resign

\* Mutant: a start does not judge how old its head is.
AnyAge(h) == TRUE

\* _checkResumed: the head is recent enough to be this log's own last.
Recent(h) == now - h.ts <= Limit

\* KT_CONFIRM_HEAD, from an operator who has checked that nobody has seen a
\* larger head.
Confirmed == Len(promised) <= Len(file)

\* The operator sets KT_MIN_SIZE once the log has served that many.
Enough(f) == Len(promised) >= MinSize => Len(f) >= MinSize

\* Mutant: KT_MIN_SIZE is compared only when a head is there to compare.
OpenEmpty ==
  /\ pc = "off" /\ ~torn /\ Replays(file) /\ head = None
  /\ log' = file /\ bound' = Derived(file) /\ recorded' = 0
  /\ pc' = "head" /\ job' = "start"
  /\ UNCHANGED <<draft, disk, snap, now, promised, acked, ghosts, faults>>

\* A start that finds no head adopts the file and records one.
OpenNew ==
  /\ pc = "off" /\ ~torn /\ Replays(file) /\ Enough(file) /\ head = None
  /\ log' = file /\ bound' = Derived(file) /\ recorded' = 0
  /\ pc' = "head" /\ job' = "start"
  /\ UNCHANGED <<draft, disk, snap, now, promised, acked, ghosts, faults>>

\* A start against the head beside the entries.
Open ==
  /\ pc = "off" /\ ~torn /\ Replays(file) /\ Enough(file)
  /\ head # None /\ Covers(file, head) /\ SignedPast(file, head.bound)
  /\ Recent(head) \/ Confirmed
  /\ log' = file /\ bound' = head.bound /\ recorded' = head.ts
  /\ pc' = (IF Recent(head) THEN "ready" ELSE "head") /\ job' = "start"
  /\ UNCHANGED <<draft, disk, snap, now, promised, acked, ghosts, faults>>

-----------------------------------------------------------------------------
\* publish: checked, then written.  A client's request is signed.
Publish(l, v, x) ==
  LET line == [idx |-> Len(log), label |-> l, v |-> v, sig |-> TRUE, val |-> x] IN
  /\ pc = "ready" /\ Len(file) < MaxLen
  /\ \A w \in Latest(log, l) : v > w
  /\ draft' = line
  /\ file' = Append(file, IF torn THEN Garbage ELSE line)
  /\ torn' = FALSE
  /\ pc' = IF name = "none" THEN "first" ELSE "line"
  /\ name' = IF name = "none" THEN "made" ELSE name
  /\ job' = "publish"
  /\ UNCHANGED <<log, bound, recorded, synced, head, came, snap, now, promised, acked, ghosts, faults>>

\* _apply, once append has returned.
Apply == log' = Append(log, draft) /\ draft' = None /\ pc' = "head"

\* Mutant: the line is applied without the fsync.
ApplyUnsynced ==
  /\ pc \in {"first", "line"}
  /\ IF pc = "first" THEN pc' = "name" /\ UNCHANGED <<log, draft>> ELSE Apply
  /\ UNCHANGED <<job, bound, recorded, file, torn, synced, name, head, came, snap, now, promised, acked, ghosts, faults>>

SyncLine ==
  /\ pc \in {"first", "line"}
  /\ synced' = Len(file)
  /\ IF pc = "first" THEN pc' = "name" /\ UNCHANGED <<log, draft>> ELSE Apply
  /\ UNCHANGED <<job, bound, recorded, file, torn, name, head, came, snap, now, promised, acked, ghosts, faults>>

\* _syncDir makes durable every name in the directory.  That it cannot open or
\* sync it, once or from then on, is not told to the caller.
SyncDir ==
  /\ head' = head
  /\ \/ /\ came' = {head} /\ name' = (IF name = "none" THEN name ELSE "durable")
        /\ loose' = FALSE /\ UNCHANGED faults
     \/ /\ Fault("io") \/ (loose /\ UNCHANGED faults)
        /\ loose' = TRUE /\ UNCHANGED <<came, name>>

NameFile ==
  /\ pc = "name" /\ Apply
  /\ SyncDir
  /\ UNCHANGED <<job, bound, recorded, file, torn, synced, snap, now, promised, acked, lost, bare>>

\* A short write or a failed fsync: append truncates back and throws.  The
\* truncation may fail too, and its error is swallowed.
AppendFails ==
  /\ pc \in {"first", "line"} /\ Fault("io")
  /\ \/ file' = Cut(file) /\ torn' = (file[Len(file)] = Garbage) /\ synced' = Len(file) - 1
     \/ file' = Cut(file) /\ torn' = TRUE /\ UNCHANGED synced
     \/ UNCHANGED <<file, torn, synced>>
  /\ draft' = None /\ pc' = "ready"
  /\ UNCHANGED <<job, log, bound, recorded, name, head, came, snap, now, promised, acked, ghosts>>

NewHead == [hist |-> log, ts |-> now, bound |-> bound]

\* writeHead: the new file is written, synced and renamed over the old one.
WriteHead ==
  /\ pc = "head"
  /\ head' = NewHead /\ came' = came \cup {NewHead}
  /\ pc' = "dir"
  /\ UNCHANGED <<ram, file, torn, synced, name, snap, now, promised, acked, ghosts, faults>>

\* What the one who wanted the head recorded does once it is.
HeadRecorded ==
  /\ pc = "dir"
  /\ SyncDir
  /\ recorded' = head.ts
  /\ pc' = IF job = "stop" THEN "off" ELSE "ready"
  /\ IF job = "publish" THEN promised' = log /\ acked' = log /\ lost' = FALSE
     ELSE UNCHANGED <<promised, acked, lost>>
  /\ log' = IF job = "stop" THEN <<>> ELSE log
  /\ UNCHANGED <<job, draft, bound, file, torn, synced, snap, now, bare>>

\* publish answers 500 with its entry in the log; keepAlive goes on; a start
\* is refused; a stop stops.
HeadFails ==
  /\ pc = "head" /\ Fault("io")
  /\ pc' = IF job \in {"start", "stop"} THEN "off" ELSE "ready"
  /\ log' = IF job \in {"start", "stop"} THEN <<>> ELSE log
  /\ UNCHANGED <<job, draft, bound, recorded, disk, snap, now, promised, acked, ghosts>>

KeepAlive ==
  /\ pc = "ready" /\ now - recorded >= Resign
  /\ pc' = "head" /\ job' = "alive"
  /\ UNCHANGED <<log, draft, bound, recorded, disk, snap, now, promised, acked, ghosts, faults>>

Stop ==
  /\ pc = "ready" /\ pc' = "head" /\ job' = "stop"
  /\ UNCHANGED <<log, draft, bound, recorded, disk, snap, now, promised, acked, ghosts, faults>>

\* Any GET is answered with sth(), signed over what is in memory.
Serve ==
  /\ pc = "ready" /\ promised # log
  /\ promised' = log
  /\ UNCHANGED <<pc, ram, disk, snap, now, acked, ghosts, faults>>

-----------------------------------------------------------------------------
\* Time passes; the keepAlive timer is never late by more than it may be.
Tick ==
  /\ now < MaxTime /\ now' = now + 1
  /\ pc = "off" \/ (pc = "ready" /\ now - recorded < Resign)
  /\ UNCHANGED <<pc, ram, disk, snap, promised, acked, ghosts, faults>>

\* Some line of f is another's.
Foreign(f) == \E k \in DOMAIN f : f[k].val = "forged"

Forget == pc' = "off" /\ job' = "start" /\ log' = <<>> /\ draft' = None /\ bound' = 0 /\ recorded' = 0

\* The process dies; a write under way may have left half a line.
Kill ==
  /\ pc # "off" /\ Fault("kill") /\ Forget
  /\ \/ UNCHANGED <<file, torn, synced>>
     \/ pc \in {"first", "line"} /\ file' = Cut(file) /\ torn' = TRUE /\ UNCHANGED synced
  /\ UNCHANGED <<name, head, came, snap, now, promised, acked, ghosts>>

\* The machine dies: any of what was not synced may be gone.
PowerLoss ==
  /\ Fault("power") /\ Forget
  /\ \E k \in (IF name = "durable" THEN synced ELSE 0) .. Len(file) :
       /\ file' = First(file, k) /\ synced' = k
       /\ torn' \in IF k < Len(file) \/ torn THEN BOOLEAN ELSE {FALSE}
       /\ name' = IF name = "durable" \/ k > 0 \/ torn' THEN "durable" ELSE "none"
  /\ head' \in came /\ came' = {head'}
  /\ loose' = FALSE /\ lost' = (lost \/ (loose /\ head' # head))
  /\ bare' = (bare \/ (head' # head /\ head' = None /\ Foreign(file')))
  /\ UNCHANGED <<snap, now, promised, acked>>

\* The host snapshots the disk of a log that has recorded a head, at a moment
\* when it holds nothing that was never synced ...
Snapshot ==
  /\ "restore" \in Faults /\ snap = None /\ head # None
  /\ synced = Len(file) /\ name # "made"
  /\ snap' = [file |-> file, head |-> head, at |-> now]
  /\ UNCHANGED <<pc, ram, disk, now, promised, acked, ghosts, faults>>

\* ... and it is restored, later than a start would take for a short stop.
Restore ==
  /\ snap # None /\ now - snap.at > Limit /\ Fault("restore") /\ Forget
  /\ file' = snap.file /\ torn' = FALSE /\ synced' = Len(snap.file)
  /\ name' = IF snap.file = <<>> THEN "none" ELSE "durable"
  /\ head' = snap.head /\ came' = {snap.head} /\ loose' = FALSE
  /\ UNCHANGED <<snap, now, promised, acked, lost, bare>>

\* The data directory of a log in use does not mount.
DirectoryLost ==
  /\ MinSize > 0 /\ Len(promised) >= MinSize /\ Fault("lost") /\ Forget
  /\ file' = <<>> /\ torn' = FALSE /\ synced' = 0 /\ name' = "none"
  /\ head' = None /\ came' = {None} /\ loose' = FALSE
  /\ UNCHANGED <<snap, now, promised, acked, lost, bare>>

\* Something else appends a line, which it cannot sign.  Before a first head
\* is there the file has the say.
ForeignAppend(l, v) ==
  /\ pc \in {"off", "ready"} /\ ~torn /\ Len(file) < MaxLen
  /\ head # None /\ Fault("forge")
  /\ file' = Append(file, [idx |-> Len(file), label |-> l, v |-> v, sig |-> FALSE, val |-> "forged"])
  /\ UNCHANGED <<pc, ram, torn, synced, name, head, came, snap, now, promised, acked, ghosts>>

\* tools/repair.js --write, on a log that is stopped.
Repair ==
  /\ pc = "off" /\ torn /\ torn' = FALSE
  /\ synced' = Len(file) /\ SyncDir
  /\ UNCHANGED <<pc, ram, file, snap, now, promised, acked, lost, bare>>

-----------------------------------------------------------------------------
Run == OpenNew \/ Open \/ SyncLine \/ NameFile \/ WriteHead \/ HeadRecorded \/ KeepAlive

Failure ==
  \/ AppendFails \/ HeadFails \/ Kill \/ PowerLoss \/ Restore \/ DirectoryLost
  \/ \E l \in Label, v \in 1 .. MaxVersion : ForeignAppend(l, v)

Next ==
  \/ Run
  \/ \E l \in Label, v \in 1 .. MaxVersion, x \in Val : Publish(l, v, x)
  \/ Serve \/ Stop \/ Repair \/ Snapshot \/ Tick
  \/ Failure

Spec == Init /\ [][Next]_vars

\* The process runs its code and its timer, the host restarts it, and the
\* operator repairs a torn tail.  Requests, stops and failures are left alone.
Fairness == WF_vars(Run) /\ WF_vars(Repair)

FairSpec == Spec /\ Fairness

-----------------------------------------------------------------------------
\* What the log was last answered 201 for stays in every history it opens
\* with, at its place: whatever is lost, torn, restored or forged in between,
\* the log either replays it or refuses to start.  Only a machine that loses
\* power after the sync of a directory failed, unheard of, may take it back.
AckedStands == lost \/ (pc # "off" => Contract!Extends(log, acked))

\* No line the log did not write is served once a head has been recorded,
\* unless a power loss took the only head away and left such a line.
NoForgedLine == bare \/ ~Foreign(log)

\* The log implements the append-only contract towards whoever holds a head,
\* until a machine's power is lost.
AppendOnly == []["power" \notin met' => Contract!Next]_promised

\* "Refuse to sign a history smaller than the one already signed": the next
\* head anybody is given extends the last one.
NeverSmaller == [][Contract!Extends(promised', promised)]_promised

\* After any kills, or any power losses, the log comes back: the head on its
\* disk never commits to a line the disk does not hold.
Reopens == []<>(pc = "ready" \/ met \notin {{}, {"kill"}, {"power"}})
=============================================================================
