------------------------------ MODULE KtMirror ------------------------------
(***************************************************************************)
(* The mirror and witness of the log: Mirror in kt/lib/mirror.js, run by   *)
(* kt/tools/mirror.js.  It may believe nothing the log says, must not cry  *)
(* fork when only a network failed, and keeps what it has verified through *)
(* crashes and failed writes.                                              *)
(*                                                                         *)
(* A sync awaits each answer, and the log may have moved on by the time it *)
(* gives it; what follows an answer is synchronous, and is divided here    *)
(* only where a system call can fail or a machine can die.  A signed head  *)
(* is the history it commits to.  The disk keeps what was synced, and      *)
(* takes the changes to a directory in their order.                        *)
(***************************************************************************)
EXTENDS Naturals, Sequences

CONSTANTS
  Label, None,
  PageSize,   \* pageSize
  MaxEntries, \* maxEntries
  Faults,     \* the kinds of failure that may happen
  MaxFaults, MaxLen, MaxVersion \* bounds

ASSUME MirrorAssumption ==
  /\ None \notin Label
  /\ {PageSize, MaxEntries} \subseteq Nat \ {0} /\ {MaxFaults, MaxLen, MaxVersion} \subseteq Nat
  /\ Faults \subseteq {"net", "io", "kill", "power", "fork"}

VARIABLES
  told,     \* the log's history, as it would answer now
  honest,   \* it has only ever been extended, by lines in order, and its key
            \* has signed every head answered
  pc,       \* "down", "idle", the answer awaited ("head", "proof", "page") or
            \* the system call that comes next ("append", "rename", "dir")
  mem,      \* entries, and the trees over them
  head,     \* the last head verified, in memory
  reload,   \* needsReload
  diverged, \* poisoned, and main's state
  sth,      \* the head this sync is about
  spool,    \* the lines fetched for it
  file,     \* entries.jsonl
  torn,     \* bytes without a newline follow
  synced,   \* how many of its lines have reached the disk
  record,   \* sth.json
  came,     \* the records a machine may come back with
  attested, \* the history of the last head anybody was served
  cut,      \* ghost: a head was put in place and its directory was not synced,
            \* killed before or told of no failure, nor has one been since
  lost,     \* ghost: the machine lost power so, and nobody was served since
  spent     \* faults so far

ram  == <<mem, head, reload, diverged, sth, spool>>
disk == <<file, torn, synced, record, came>>
served == <<attested, lost>>
vars == <<told, honest, pc, ram, disk, cut, served, spent>>

Line == [idx: Nat, label: Label, v: 1 .. MaxVersion, sig: {TRUE}]

ASSUME NoneAssumption == None \notin Seq(Line)

Contract == INSTANCE AppendOnlyLog WITH entries <- attested

Init ==
  /\ told = <<>> /\ honest = TRUE
  /\ pc = "down" /\ mem = <<>> /\ head = None /\ reload = FALSE /\ diverged = FALSE
  /\ sth = None /\ spool = <<>>
  /\ file = <<>> /\ torn = FALSE /\ synced = 0 /\ record = None /\ came = {None}
  /\ attested = <<>> /\ cut = FALSE /\ lost = FALSE /\ spent = 0

Fault(kind) == kind \in Faults /\ spent < MaxFaults /\ spent' = spent + 1

First(h, n) == SubSeq(h, 1, n)

HeadSize(h) == IF h = None THEN 0 ELSE Len(h)

-----------------------------------------------------------------------------
\* The log publishes.
Grow(l, v) ==
  /\ honest /\ Len(told) < MaxLen
  /\ told' = Append(told, [idx |-> Len(told), label |-> l, v |-> v, sig |-> TRUE])
  /\ Contract!WellFormed(told')
  /\ UNCHANGED <<honest, pc, ram, disk, cut, served, spent>>

\* Other histories than h: one that lacks some of it, that has another line
\* in it, or that goes on with a line that may not follow.
Others(h) ==
  {First(h, n) : n \in 0 .. Len(h) - 1}
    \cup {[h EXCEPT ![k].v = v] : k \in DOMAIN h, v \in 1 .. MaxVersion}
    \cup {Append(h, [idx |-> i, label |-> l, v |-> v, sig |-> TRUE]) :
             i \in 0 .. Len(h), l \in Label, v \in 1 .. MaxVersion}

\* It signs another history, or one that breaks its own rules.
Fork(h) ==
  /\ Fault("fork")
  /\ h \in Others(told) /\ Len(h) <= MaxLen
  /\ ~(Contract!Extends(h, told) /\ Contract!WellFormed(h))
  /\ told' = h /\ honest' = FALSE
  /\ UNCHANGED <<pc, ram, disk, cut, served>>

-----------------------------------------------------------------------------
\* Mutant: lines above the head are kept.
LoadedWhole(n) == file

\* The lines that count are those the stored head covers.
Loaded(n) == First(file, n)

\* load: the directory holds the history of its head, and perhaps more lines;
\* or it holds nothing.
Loads ==
  IF record = None THEN file = <<>> /\ ~torn
  ELSE Len(file) >= Len(record) /\ First(file, Len(record)) = record

\* Surplus lines are cut off, and that is synced.
Load ==
  /\ Loads
  /\ head' = record /\ mem' = Loaded(HeadSize(record)) /\ reload' = FALSE
  /\ file' = Loaded(HeadSize(record))
  /\ IF Len(file) > HeadSize(record) \/ torn
     THEN torn' = FALSE /\ synced' = Len(file')
     ELSE UNCHANGED <<torn, synced>>
  /\ UNCHANGED <<record, came>>

Start ==
  /\ pc = "down" /\ Load
  /\ pc' = "idle" /\ diverged' = FALSE /\ sth' = None /\ spool' = <<>>
  /\ UNCHANGED <<told, honest, cut, served, spent>>

\* The operator of a mirror whose directory load refuses deletes it, as it is
\* told to, and mirrors the log from the start.
Reset ==
  /\ pc = "down" \/ (pc = "idle" /\ reload)
  /\ ~Loads
  /\ pc' = "down" /\ mem' = <<>> /\ head' = None /\ reload' = FALSE /\ diverged' = FALSE
  /\ sth' = None /\ spool' = <<>>
  /\ file' = <<>> /\ torn' = FALSE /\ synced' = 0 /\ record' = None /\ came' = {None}
  /\ UNCHANGED <<told, honest, cut, served, spent>>

\* sync begins from the state the last verified head describes.
Sync ==
  /\ pc = "idle" /\ ~diverged
  /\ IF reload \/ Len(mem) # HeadSize(head) THEN Load ELSE UNCHANGED <<mem, head, reload, disk>>
  /\ pc' = "head"
  /\ UNCHANGED <<told, honest, diverged, cut, sth, spool, served, spent>>

\* Mutant: whatever goes wrong is a divergence.
GiveUpForGood ==
  /\ pc' = "idle" /\ diverged' = TRUE /\ sth' = None /\ spool' = <<>>
  /\ UNCHANGED <<mem, head, reload>>

\* An ordinary error: this sync is over and nothing was believed.
GiveUp ==
  /\ pc' = "idle" /\ sth' = None /\ spool' = <<>>
  /\ UNCHANGED <<mem, head, reload, diverged>>

\* Signed evidence: the log is not followed again.
Diverge == pc' = "idle" /\ diverged' = TRUE /\ sth' = None /\ spool' = <<>> /\ UNCHANGED <<mem, head, reload>>

\* GET /sth.json: the witness serves the head it has on disk.
Serve ==
  /\ pc \in {"idle", "head", "proof", "page"} /\ record # None /\ attested # record
  /\ attested' = record /\ lost' = FALSE
  /\ UNCHANGED <<told, honest, pc, ram, disk, cut, spent>>

\* No answer, one that is not the log's, or no room for it.
NoAnswer ==
  /\ pc \in {"head", "proof", "page"} /\ Fault("net")
  /\ GiveUp
  /\ UNCHANGED <<told, honest, disk, cut, served>>

\* A head that another key signed.
Impostor ==
  /\ pc = "head" /\ Fault("fork")
  /\ honest' = FALSE /\ Diverge
  /\ UNCHANGED <<told, disk, cut, served>>

GotHead ==
  /\ pc = "head"
  /\ \/ Len(told) > MaxEntries /\ GiveUp
     \/ /\ Len(told) <= MaxEntries
        /\ \/ Len(told) < Len(mem) /\ Diverge
           \/ Len(told) = Len(mem) /\ head # None /\ told # head /\ Diverge
           \/ /\ Len(told) = Len(mem) /\ (head # None => told = head)
              /\ sth' = told /\ pc' = "rename"
              /\ UNCHANGED <<mem, head, reload, diverged, spool>>
           \/ /\ Len(told) > Len(mem)
              /\ sth' = told /\ pc' = IF mem = <<>> THEN "page" ELSE "proof"
              /\ UNCHANGED <<mem, head, reload, diverged, spool>>
  /\ UNCHANGED <<told, honest, disk, cut, served, spent>>

\* The consistency proof, from the tree the log has now.
GotProof ==
  /\ pc = "proof"
  /\ \/ Len(told) < Len(sth) /\ GiveUp
     \/ /\ Len(told) >= Len(sth)
        /\ IF First(told, Len(sth)) = sth /\ First(sth, Len(mem)) = head
           THEN pc' = "page" /\ UNCHANGED ram
           ELSE Diverge
  /\ UNCHANGED <<told, honest, disk, cut, served, spent>>

Got == Len(mem) + Len(spool)

\* A page, of what the log has now, into the spool.
GotPage(n) ==
  /\ pc = "page" /\ Got < Len(sth)
  /\ n \in 1 .. PageSize /\ Got + n <= Len(sth)
  /\ IF Got >= Len(told) THEN GiveUp
     ELSE /\ Got + n <= Len(told) /\ pc' = pc
          /\ spool' = spool \o SubSeq(told, Got + 1, Got + n)
          /\ UNCHANGED <<mem, head, reload, diverged, sth>>
  /\ UNCHANGED <<told, honest, disk, cut, served, spent>>

\* Mutant: lines are held to no rule of their own.
HoldsAny(h) == TRUE

\* _append and the owner rule: a line sits where it says, and comes after its
\* label's last.
Holds(h) == Contract!WellFormed(h)

\* Every page is in hand: the lines are appended, and must be what was signed.
Verify ==
  /\ pc = "page" /\ Got = Len(sth)
  /\ IF mem \o spool = sth /\ Holds(sth)
     THEN mem' = sth /\ pc' = "append" /\ UNCHANGED <<head, reload, diverged, sth, spool>>
     ELSE Diverge
  /\ UNCHANGED <<told, honest, disk, cut, served, spent>>

-----------------------------------------------------------------------------
\* Mutant: the lines are not synced before the head is written over them.
AppendUnsynced ==
  /\ pc = "append"
  /\ file' = file \o spool /\ torn' = FALSE
  /\ pc' = "rename" /\ spool' = <<>>
  /\ UNCHANGED <<told, honest, mem, head, reload, diverged, sth, synced, record, came, cut, served, spent>>

\* The spool is copied onto the end of the file, and synced.
AppendLines ==
  /\ pc = "append"
  /\ file' = file \o spool /\ torn' = FALSE /\ synced' = Len(file')
  /\ pc' = "rename" /\ spool' = <<>>
  /\ UNCHANGED <<told, honest, mem, head, reload, diverged, sth, record, came, cut, served, spent>>

\* It cannot be: what was written is cut off again, unless that fails too.
AppendFails ==
  /\ pc = "append" /\ Fault("io")
  /\ \/ UNCHANGED <<file, torn, synced>>
     \/ \E n \in 0 .. Len(spool) :
          file' = file \o First(spool, n) /\ torn' = (n < Len(spool)) /\ UNCHANGED synced
  /\ pc' = "recover" /\ spool' = <<>>
  /\ UNCHANGED <<told, honest, mem, head, reload, diverged, sth, record, came, cut, served>>

\* The head, over the last one.
Rename ==
  /\ pc = "rename"
  /\ record' = sth /\ came' = came \cup {sth} /\ pc' = "dir"
  /\ UNCHANGED <<told, honest, ram, file, torn, synced, cut, served, spent>>

RenameFails ==
  /\ pc = "rename" /\ Fault("io") /\ pc' = "recover"
  /\ UNCHANGED <<told, honest, ram, disk, cut, served>>

\* The sync is over and its head is what is served.
Commit ==
  /\ pc = "dir" /\ pc' = "idle" /\ head' = sth /\ sth' = None
  /\ attested' = sth /\ lost' = FALSE
  /\ UNCHANGED <<told, honest, mem, reload, diverged, spool, file, torn, synced, record>>

\* Its directory is synced, and only then is anybody served.
SyncDir ==
  /\ Commit /\ came' = {record} /\ cut' = FALSE
  /\ UNCHANGED spent

\* It cannot be opened or synced: nobody hears of that.
SyncDirFails ==
  /\ Commit /\ Fault("io") /\ cut' = TRUE
  /\ UNCHANGED came

\* _recover: memory is put back to what the disk says.
Reread ==
  /\ pc = "recover" /\ Load
  /\ pc' = "idle" /\ sth' = None /\ spool' = <<>>
  /\ UNCHANGED <<told, honest, diverged, cut, served, spent>>

\* The directory is refused or cannot be read, and the next sync must try again.
Unread ==
  /\ pc = "recover"
  /\ (~Loads /\ UNCHANGED spent) \/ Fault("io")
  /\ head' \in {None, record} /\ mem' = <<>> /\ reload' = TRUE
  /\ pc' = "idle" /\ sth' = None /\ spool' = <<>>
  /\ UNCHANGED <<told, honest, diverged, disk, cut, served>>

-----------------------------------------------------------------------------
Forget ==
  /\ pc' = "down" /\ mem' = <<>> /\ head' = None /\ reload' = FALSE /\ diverged' = FALSE
  /\ sth' = None /\ spool' = <<>>

\* The process dies; a copy under way may be there in part.
Kill ==
  /\ pc # "down" /\ Fault("kill") /\ Forget
  /\ \/ UNCHANGED <<file, torn>>
     \/ /\ pc = "append"
        /\ \E n \in 0 .. Len(spool) : file' = file \o First(spool, n) /\ torn' \in BOOLEAN
  /\ cut' = (cut \/ pc = "dir")
  /\ UNCHANGED <<told, honest, synced, record, came, served>>

\* The machine dies: any of what was not synced may be gone, the file itself
\* too when no head that covers a line of it is there.
PowerLoss ==
  /\ Fault("power") /\ Forget
  /\ record' \in came /\ came' = {record'}
  /\ \E n \in (IF HeadSize(record') = 0 THEN 0 ELSE synced) .. Len(file) :
       /\ file' = First(file, n) /\ synced' = n
       /\ torn' \in IF n < Len(file) \/ torn THEN BOOLEAN ELSE {FALSE}
  /\ cut' = FALSE /\ lost' = (lost \/ (cut /\ record' # record))
  /\ UNCHANGED <<told, honest, attested>>

-----------------------------------------------------------------------------
Run ==
  \/ Start \/ Sync \/ GotHead \/ GotProof \/ Verify
  \/ \E n \in 1 .. PageSize : GotPage(n)
  \/ AppendLines \/ Rename \/ SyncDir \/ Reread
  \/ ~Loads /\ Unread

Failure ==
  \/ NoAnswer \/ Impostor \/ Unread \/ AppendFails \/ RenameFails \/ SyncDirFails
  \/ Kill \/ PowerLoss

Next ==
  \/ Run \/ Serve \/ Reset \/ Failure
  \/ \E l \in Label, v \in 1 .. MaxVersion : Grow(l, v)
  \/ \E h \in Others(told) : Fork(h)

Spec == Init /\ [][Next]_vars

\* The process runs, the host restarts it, the log answers, and an operator
\* sees to a directory that cannot be loaded.
Fairness == WF_vars(Run) /\ WF_vars(Serve) /\ WF_vars(Reset)

FairSpec == Spec /\ Fairness

-----------------------------------------------------------------------------
History == Seq(Line)

TypeOK ==
  /\ told \in History /\ honest \in BOOLEAN
  /\ pc \in {"down", "idle", "head", "proof", "page", "append", "rename", "dir", "recover"}
  /\ mem \in History /\ head \in History \cup {None}
  /\ reload \in BOOLEAN /\ diverged \in BOOLEAN
  /\ sth \in History \cup {None} /\ spool \in History
  /\ file \in History /\ torn \in BOOLEAN /\ synced \in 0 .. Len(file)
  /\ record \in History \cup {None} /\ record \in came
  /\ attested \in History /\ {cut, lost} \subseteq BOOLEAN /\ spent \in Nat

\* What the mirror vouches for is one history, extended only by lines that are
\* well formed, whatever the log signs and whatever fails - but for the first
\* head served after a power loss that took back a head whose directory had not
\* been synced.
AppendOnly == [][lost \/ Contract!Next]_attested

\* A mirror diverges from nothing but a log that is not what it was: a lost
\* answer, a failed write, a crash or a reload is never taken for a fork.
NoFalseAlarm == diverged => ~honest

\* A sync begins from what the last verified head describes.
FromItsHead == pc \in {"head", "proof", "page"} => mem = IF head = None THEN <<>> ELSE head

\* What has been served is what the disk holds, or more, and, once a directory
\* was synced after it, what any machine comes back with; only a power loss in
\* between takes it back.
ServedKept ==
  attested # <<>> =>
    lost \/ \A r \in came : (cut => r = record) => r # None /\ Contract!Extends(r, attested)

\* A directory that has a head loads: a commit that did not finish is repaired.
Repairs == record # None /\ pc \in {"down", "idle"} => Loads

\* In the end an honest log is followed, to its last head.
Follows == <>[](honest => attested = told \/ Len(told) > MaxEntries)
=============================================================================
