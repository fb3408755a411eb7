---------------------------- MODULE KtLogProofs ----------------------------
(***************************************************************************)
(* What holds of the log on its disk for every set of labels and values,   *)
(* every limit and any number of failures: the types, and that no line the *)
(* log did not write is served; and, unless an old copy of the disk is     *)
(* restored, that what was answered 201 stands.  Both but for a machine    *)
(* that loses power after it could not sync a directory.                   *)
(*                                                                         *)
(* And of what it answers, for every log: its proofs of consistency and of *)
(* inclusion show what they are for and nothing else; so do the proofs and *)
(* the buckets of its map, which has the latest entry of every label; and  *)
(* a history that is read page by page has no hole.                        *)
(***************************************************************************)
EXTENDS KtLog, KtServe, Integers, SequenceTheorems, FiniteSetTheorems, WellFoundedInduction, TLAPS

\* A line being written is the last of the file and is not on the disk yet.
Writing == pc \in {"first", "line"} => file # <<>> /\ synced < Len(file)

Drafting ==
  pc \in {"first", "line", "name"} => draft \in Line /\ draft.val # "forged"

\* A head that is being made durable is that of the log.
Heading == pc = "dir" => head \in HeadFile /\ head.hist = log

\* No line of f is another's; one that is has no signature.
Genuine(f) == \A k \in DOMAIN f : f[k].val # "forged"
Marked(f)  == \A k \in DOMAIN f : f[k].val = "forged" => ~f[k].sig

Sound(h) == Genuine(h.hist) /\ h.bound <= Len(h.hist)

\* No head the disk may come back with covers another's line or lets one in.
Marks ==
  /\ Marked(file) /\ Genuine(log)
  /\ pc # "off" => bound <= Len(log)
  /\ \A h \in came : h = None \/ Sound(h)
  /\ snap = None \/ (Marked(snap.file) /\ Sound(snap.head))
  /\ head = None => Genuine(file)

Inv == TypeOK /\ Writing /\ Drafting /\ Heading /\ (bare \/ Marks)

\* No old copy of the disk is put back.
NoRestore == "restore" \notin Faults

\* The directory went away under a log in use, and KT_MIN_SIZE refuses to start.
Gone ==
  /\ pc = "off" /\ file = <<>> /\ came = {None}
  /\ MinSize > 0 /\ Len(promised) >= MinSize

\* Each of these heads covers what was answered 201.
Cover(H) ==
  /\ \A h \in H : h = None \/ Contract!Extends(h.hist, acked)
  /\ None \in H => acked = <<>> \/ Gone

\* So does the head that is there, and each that the disk may come back with
\* if its directory was synced.
Stands ==
  /\ pc # "off" => Contract!Extends(log, acked)
  /\ Cover({head}) /\ (loose \/ Cover(came))

\* A file that no start replays, whatever is appended to it.
Bad(f) == \E k \in DOMAIN f : f[k].idx # k - 1 \/ f[k] = Garbage

Like(f, g) == Contract!Extends(f, g) \/ Bad(f)

Fits == pc \in {"first", "line", "name"} => Contract!WellFormed(Append(log, draft))

\* Until the machine's power is lost, a file that replays at all replays what
\* was given out.
Follows ==
  /\ pc # "off" => Contract!Extends(log, promised)
  /\ pc = "off" => Like(file, promised) \/ Gone
  /\ pc \in {"ready", "head", "dir"} => Like(file, log)
  /\ pc \in {"first", "line"} => Like(Cut(file), log)
  /\ pc \in {"first", "line", "name"} => Like(file, Append(log, draft))

History == Contract!WellFormed(log) /\ Fits /\ ("power" \notin met => Follows)

-----------------------------------------------------------------------------
\* A set of numbers has a smallest.
LEMMA Smallest ==
  ASSUME NEW T, T \subseteq Nat, T # {}
  PROVE  \E x \in T : \A y \in T : x <= y
<1> DEFINE R == {p \in Nat \X Nat : p[1] < p[2]}
<1>1. IsWellFoundedOn(OpToRel(<, Nat), Nat)
  BY NatLessThanWellFounded
<1>2. OpToRel(<, Nat) = R
  BY DEF OpToRel
<1>3. IsWellFoundedOn(R, Nat)
  BY <1>1, <1>2
<1>4. \A x, y \in Nat : x < y => <<x, y>> \in R
  OBVIOUS
<1> HIDE DEF R
<1>5. PICK x \in T : \A y \in T : ~ (<<y, x>> \in R)
  BY <1>3, WFMin, Zenon
<1>6. \A y \in T : ~(y < x)
  BY <1>4, <1>5, Zenon
<1> QED
  BY <1>6

\* The boundary a file sets for itself is not past its end.
LEMMA DerivedIs ==
  ASSUME NEW f \in Seq(Line)
  PROVE  Derived(f) \in 0 .. Len(f)
<1> DEFINE Edge(n) == (\A k \in 1 .. n : ~f[k].sig) /\ (n < Len(f) => f[n + 1].sig)
<1>1. \E n \in 0 .. Len(f) : Edge(n)
  <2>1. PICK T : T = {k \in 1 .. Len(f) : f[k].sig}
    OBVIOUS
  <2>2. CASE T = {}
    <3>1. \A k \in 1 .. Len(f) : ~f[k].sig
      BY <2>1, <2>2, Zenon
    <3>2. ~(Len(f) < Len(f))
      OBVIOUS
    <3>3. Edge(Len(f))
      BY <3>1, <3>2, Zenon
    <3> QED
      BY <3>3
  <2>3. CASE T # {}
    <3>0. \A k \in T : k \in 1 .. Len(f)
      BY <2>1, Zenon
    <3>1. PICK x \in T : \A y \in T : x <= y
      BY <2>3, <3>0, Smallest
    <3>2. x \in 1 .. Len(f) /\ f[x].sig /\ \A k \in 1 .. Len(f) : f[k].sig => x <= k
      BY <2>1, <3>1, Zenon
    <3>3. \A k \in 1 .. x - 1 : k \in 1 .. Len(f) /\ ~(x <= k)
      BY <3>2
    <3>4. \A k \in 1 .. x - 1 : ~f[k].sig
      BY <3>2, <3>3, Zenon
    <3>5. x - 1 + 1 = x /\ x - 1 \in 0 .. Len(f)
      BY <3>2
    <3>6. Edge(x - 1)
      BY <3>2, <3>4, <3>5, Zenon
    <3> QED
      BY <3>5, <3>6
  <2> QED
    BY <2>2, <2>3
<1>2. Derived(f) = CHOOSE n \in 0 .. Len(f) : Edge(n)
  BY DEF Derived
<1> HIDE DEF Edge
<1> QED
  BY <1>1, <1>2

\* The first lines of a file.
LEMMA FirstIs ==
  ASSUME NEW f \in Seq(Line), NEW n \in 0 .. Len(f)
  PROVE  /\ First(f, n) \in Seq(Line) /\ Len(First(f, n)) = n
         /\ \A k \in 1 .. n : First(f, n)[k] = f[k]
  BY DEF First

LEMMA CutIs ==
  ASSUME NEW f \in Seq(Line), f # <<>>
  PROVE  /\ Cut(f) \in Seq(Line) /\ Len(Cut(f)) = Len(f) - 1
         /\ \A k \in 1 .. Len(f) - 1 : Cut(f)[k] = f[k]
<1>1. Len(f) - 1 \in 0 .. Len(f)
  OBVIOUS
<1> QED
  BY <1>1, FirstIs DEF Cut

\* A part of a file has no line the file has not, and neither has one with a
\* line added but that line.
LEMMA PartKeeps ==
  ASSUME NEW f \in Seq(Line), NEW g \in Seq(Line), Contract!Extends(f, g)
  PROVE  (Genuine(f) => Genuine(g)) /\ (Marked(f) => Marked(g))
<1>1. \A k \in DOMAIN g : k \in DOMAIN f /\ f[k] = g[k]
  BY DEF Contract!Extends
<1> QED
  BY <1>1 DEF Genuine, Marked

LEMMA AppendIs ==
  ASSUME NEW f \in Seq(Line), NEW l \in Line
  PROVE  /\ Append(f, l) \in Seq(Line) /\ Len(Append(f, l)) = Len(f) + 1
         /\ Genuine(f) /\ l.val # "forged" => Genuine(Append(f, l))
         /\ Marked(f) /\ (l.val = "forged" => ~l.sig) => Marked(Append(f, l))
<1>1. \A k \in DOMAIN Append(f, l) : (k \in DOMAIN f /\ Append(f, l)[k] = f[k]) \/ Append(f, l)[k] = l
  OBVIOUS
<1> QED
  BY <1>1 DEF Genuine, Marked

LEMMA FirstPart ==
  ASSUME NEW f \in Seq(Line), NEW n \in 0 .. Len(f)
  PROVE  Contract!Extends(f, First(f, n))
  BY FirstIs DEF Contract!Extends

LEMMA CutPart ==
  ASSUME NEW f \in Seq(Line), f # <<>>
  PROVE  Contract!Extends(f, Cut(f))
<1>1. Len(f) - 1 \in 0 .. Len(f)
  OBVIOUS
<1> QED
  BY <1>1, FirstPart DEF Cut

LEMMA GarbageIs == Garbage \in Line /\ Garbage.val # "forged" /\ Garbage.idx = 0
<1>1. /\ Garbage.idx = 0 /\ Garbage.label = None /\ Garbage.v = 0
      /\ Garbage.sig = FALSE /\ Garbage.val = "garbage"
  BY DEF Garbage
<1>2. Garbage \in [idx: Nat, label: {None}, v: Nat, sig: BOOLEAN, val: {"garbage"}]
  BY DEF Garbage
<1>3. Garbage \in Line
  BY <1>2, Zenon DEF Line
<1> QED
  BY <1>1, <1>3

-----------------------------------------------------------------------------
LEMMA TypeInit == Init => TypeOK
<1> SUFFICES ASSUME Init PROVE TypeOK
  OBVIOUS
<1>1. file \in Seq(Line)
  <2>1. ASSUME NEW l \in Label PROVE LegacyLine(l) \in Line
    <3>1. LegacyLine(l) \in [idx: Nat, label: {l}, v: Nat, sig: BOOLEAN, val: {"legacy"}]
      BY DEF LegacyLine
    <3> QED
      BY <3>1, Zenon DEF Line
  <2>2. file = <<>> \/ \E l \in Label : file = <<LegacyLine(l)>>
    BY Zenon DEF Init
  <2>3. \A line \in Line : <<line>> \in Seq(Line)
    OBVIOUS
  <2> QED
    BY <2>1, <2>2, <2>3, EmptySeq
<1>2. /\ torn \in BOOLEAN /\ name \in {"none", "made", "durable"}
      /\ head \in HeadFile \cup {None} /\ head \in came /\ came \subseteq HeadFile \cup {None}
      /\ snap \in [file: Seq(Line), head: HeadFile, at: Nat] \cup {None} /\ draft \in Line \cup {None}
  BY DEF Init
<1>3. synced \in 0 .. Len(file)
  BY <1>1 DEF Init
<1>4. log \in Seq(Line) /\ promised \in Seq(Line) /\ acked \in Seq(Line)
  BY DEF Init
<1> QED
  BY <1>1, <1>2, <1>3, <1>4 DEF Init, TypeOK

LEMMA MarksInit == Init => Marks
<1> SUFFICES ASSUME Init PROVE Marks
  OBVIOUS
<1>1. \A k \in DOMAIN file : file[k].val = "legacy"
  <2>1. file = <<>> \/ \E l \in Label : file = <<LegacyLine(l)>>
    BY Zenon DEF Init
  <2> QED
    BY <2>1 DEF LegacyLine
<1>2. Genuine(file) /\ Marked(file) /\ Genuine(log)
  BY <1>1 DEF Genuine, Marked, Init
<1>3. pc = "off" /\ came = {None} /\ snap = None
  BY DEF Init
<1> QED
  BY <1>2, <1>3 DEF Marks

LEMMA InvInit == Init => Inv
  BY TypeInit, MarksInit DEF Init, Inv, Writing, Drafting, Heading

\* What the process holds in memory, and which call comes next.
TypeRam ==
  /\ pc \in {"off", "ready", "first", "line", "name", "head", "dir"}
  /\ job \in {"publish", "alive", "start", "stop"}
  /\ log \in Seq(Line) /\ draft \in Line \cup {None} /\ bound \in Nat /\ recorded \in Nat

\* What is on the disk.
TypeFile ==
  /\ file \in Seq(Line) /\ torn \in BOOLEAN /\ synced \in 0 .. Len(file)
  /\ name \in {"none", "made", "durable"}

TypeHead ==
  /\ head \in HeadFile \cup {None}
  /\ head \in came /\ came \subseteq HeadFile \cup {None}
  /\ snap \in [file: Seq(Line), head: HeadFile, at: Nat] \cup {None}

\* What was seen, and what happened.
TypeTold ==
  /\ now \in Nat /\ promised \in Seq(Line) /\ acked \in Seq(Line)
  /\ {loose, lost, bare} \subseteq BOOLEAN
  /\ spent \in Nat /\ met \subseteq Faults

LEMMA TypeParts == TypeOK <=> TypeRam /\ TypeFile /\ TypeHead /\ TypeTold
  BY DEF TypeOK, TypeRam, TypeFile, TypeHead, TypeTold

\* The line a client's publish writes.
LEMMA LineIs ==
  ASSUME NEW l \in Label, NEW v \in 1 .. MaxVersion, NEW x \in Val, log \in Seq(Line), NEW line,
         line = [idx |-> Len(log), label |-> l, v |-> v, sig |-> TRUE, val |-> x]
  PROVE  line \in Line /\ line.val # "forged" /\ line.idx = Len(log) /\ line.sig
<1>1. v \in Nat /\ Len(log) \in Nat
  BY ParamAssumption
<1>2. line \in [idx: Nat, label: {l}, v: Nat, sig: BOOLEAN, val: {x}]
  BY <1>1
<1>3. line \in Line
  BY <1>2, Zenon DEF Line
<1>4. line.val = x /\ line.idx = Len(log)
  OBVIOUS
<1>5. line.sig = TRUE
  BY Zenon
<1>6. x # "forged"
  BY ParamAssumption
<1> QED
  BY <1>3, <1>4, <1>5, <1>6, Zenon

\* A line that something else appends.
LEMMA ForgedIs ==
  ASSUME NEW l \in Label, NEW v \in 1 .. MaxVersion, file \in Seq(Line), NEW line,
         line = [idx |-> Len(file), label |-> l, v |-> v, sig |-> FALSE, val |-> "forged"]
  PROVE  line \in Line /\ ~line.sig
<1>1. v \in Nat /\ Len(file) \in Nat
  BY ParamAssumption
<1>2. line \in [idx: Nat, label: {l}, v: Nat, sig: BOOLEAN, val: {"forged"}]
  BY <1>1
<1>3. line \in Line
  BY <1>2, Zenon DEF Line
<1>4. line.sig = FALSE
  BY Zenon
<1> QED
  BY <1>3, <1>4, Zenon

\* A directory that is synced, or that could not be.
LEMMA SyncDirIs ==
  ASSUME TypeHead, SyncDir
  PROVE  /\ head' = head /\ head \in came' /\ came' \subseteq came /\ name' \in {name, "durable"}
         /\ loose' \in BOOLEAN /\ (loose' \/ came' = {head})
         /\ UNCHANGED faults \/ Fault("io")
  BY DEF TypeHead, SyncDir

\* The kinds of step.
LEMMA Steps ==
  ASSUME [Next]_vars
  PROVE  \/ OpenNew \/ Open \/ SyncLine \/ NameFile \/ WriteHead \/ HeadRecorded \/ KeepAlive
         \/ AppendFails \/ HeadFails \/ Kill \/ PowerLoss \/ Restore \/ DirectoryLost
         \/ \E l \in Label, v \in 1 .. MaxVersion : ForeignAppend(l, v)
         \/ \E l \in Label, v \in 1 .. MaxVersion, x \in Val : Publish(l, v, x)
         \/ Serve \/ Stop \/ Repair \/ Snapshot \/ Tick \/ UNCHANGED vars
  BY Zenon DEF Next, Run, Failure

LEMMA RamStep ==
  ASSUME Inv, [Next]_vars
  PROVE  TypeRam'
<1>0. TypeRam /\ TypeFile /\ TypeHead /\ Drafting /\ Heading
  BY TypeParts DEF Inv
<1>1. ASSUME UNCHANGED <<log, draft, bound, recorded>>,
             pc' \in {"off", "ready", "first", "line", "name", "head", "dir"},
             job' \in {"publish", "alive", "start", "stop"}
      PROVE  TypeRam'
  BY <1>0, <1>1 DEF TypeRam
<1>2. CASE OpenNew
  <2>1. /\ log' = file /\ bound' = Derived(file) /\ recorded' = 0
        /\ pc' = "head" /\ job' = "start" /\ draft' = draft
    BY <1>2 DEF OpenNew
  <2>2. Derived(file) \in Nat
    BY <1>0, DerivedIs DEF TypeFile
  <2> QED
    BY <1>0, <2>1, <2>2 DEF TypeRam, TypeFile
<1>3. CASE Open
  <2>1. /\ log' = file /\ bound' = head.bound /\ recorded' = head.ts /\ head # None
        /\ pc' \in {"ready", "head"} /\ job' = "start" /\ draft' = draft
    BY <1>3 DEF Open
  <2>2. head.bound \in Nat /\ head.ts \in Nat
    BY <1>0, <2>1 DEF TypeHead, HeadFile
  <2> QED
    BY <1>0, <2>1, <2>2 DEF TypeRam, TypeFile
<1>4. ASSUME NEW l \in Label, NEW v \in 1 .. MaxVersion, NEW x \in Val, Publish(l, v, x)
      PROVE  TypeRam'
  <2>1. PICK line : line = [idx |-> Len(log), label |-> l, v |-> v, sig |-> TRUE, val |-> x]
    OBVIOUS
  <2>2. /\ draft' = line /\ pc' \in {"first", "line"} /\ job' = "publish"
        /\ UNCHANGED <<log, bound, recorded>>
    BY <1>4, <2>1 DEF Publish
  <2>3. line \in Line
    BY <1>0, <2>1, LineIs DEF TypeRam
  <2> QED
    BY <1>0, <2>2, <2>3 DEF TypeRam
<1>5. ASSUME Apply, pc \in {"first", "line", "name"}, UNCHANGED <<job, bound, recorded>>
      PROVE  TypeRam'
  <2>1. draft \in Line /\ log' = Append(log, draft) /\ draft' = None /\ pc' = "head"
    BY <1>0, <1>5 DEF Drafting, Apply
  <2> QED
    BY <1>0, <1>5, <2>1 DEF TypeRam
<1>6. CASE SyncLine
  <2>1. UNCHANGED <<job, bound, recorded>> /\ pc \in {"first", "line"}
    BY <1>6 DEF SyncLine
  <2>2. Apply \/ (pc' = "name" /\ UNCHANGED <<log, draft>>)
    BY <1>6, Zenon DEF SyncLine
  <2> QED
    BY <1>0, <1>1, <1>5, <2>1, <2>2 DEF TypeRam
<1>7. CASE NameFile
  BY <1>5, <1>7 DEF NameFile
<1>8. CASE WriteHead \/ KeepAlive \/ Stop
  BY <1>0, <1>1, <1>8 DEF WriteHead, KeepAlive, Stop, ram, TypeRam
<1>9. CASE HeadRecorded
  <2>1. /\ recorded' = head.ts /\ pc' \in {"off", "ready"} /\ log' \in {<<>>, log} /\ pc = "dir"
        /\ UNCHANGED <<job, draft, bound>>
    BY <1>9 DEF HeadRecorded
  <2>2. head.ts \in Nat
    BY <1>0, <2>1 DEF Heading, HeadFile
  <2>3. log' \in Seq(Line)
    BY <1>0, <2>1, EmptySeq DEF TypeRam
  <2> QED
    BY <1>0, <2>1, <2>2, <2>3 DEF TypeRam
<1>10. CASE HeadFails
  <2>1. /\ pc' \in {"off", "ready"} /\ log' \in {<<>>, log} /\ UNCHANGED <<job, draft, bound, recorded>>
    BY <1>10 DEF HeadFails
  <2>2. log' \in Seq(Line)
    BY <1>0, <2>1, EmptySeq DEF TypeRam
  <2> QED
    BY <1>0, <2>1, <2>2 DEF TypeRam
<1>11. CASE AppendFails
  <2>1. /\ pc' = "ready" /\ draft' = None /\ UNCHANGED <<job, log, bound, recorded>>
    BY <1>11 DEF AppendFails
  <2> QED
    BY <1>0, <2>1 DEF TypeRam
<1>12. CASE Kill \/ PowerLoss \/ Restore \/ DirectoryLost
  <2>1. Forget
    BY <1>12 DEF Kill, PowerLoss, Restore, DirectoryLost
  <2> QED
    BY <2>1 DEF Forget, TypeRam
<1>13. CASE \/ \E l \in Label, v \in 1 .. MaxVersion : ForeignAppend(l, v)
            \/ Serve \/ Repair \/ Snapshot \/ Tick \/ UNCHANGED vars
  <2>1. UNCHANGED <<pc, job, log, draft, bound, recorded>>
    BY <1>13 DEF ForeignAppend, Serve, Repair, Snapshot, Tick, vars, ram
  <2> QED
    BY <1>0, <2>1 DEF TypeRam
<1> QED
  BY <1>2, <1>3, <1>4, <1>6, <1>7, <1>8, <1>9, <1>10, <1>11, <1>12, <1>13, Steps

\* What a failure between two system calls leaves of a file.
LEMMA FileStep ==
  ASSUME Inv, [Next]_vars
  PROVE  TypeFile'
<1>0. TypeRam /\ TypeFile /\ TypeHead /\ Writing
  BY TypeParts DEF Inv
<1>1. ASSUME UNCHANGED <<file, torn, synced>>, name' \in {"none", "made", "durable"}
      PROVE  TypeFile'
  BY <1>0, <1>1 DEF TypeFile
<1>2. ASSUME NEW l \in Label, NEW v \in 1 .. MaxVersion, NEW x \in Val, Publish(l, v, x)
      PROVE  TypeFile'
  <2>1. PICK line : line = [idx |-> Len(log), label |-> l, v |-> v, sig |-> TRUE, val |-> x]
    OBVIOUS
  <2>2. /\ file' = Append(file, IF torn THEN Garbage ELSE line) /\ torn' = FALSE
        /\ name' \in {name, "made"} /\ synced' = synced
    BY <1>2, <2>1 DEF Publish
  <2>3. line \in Line
    BY <1>0, <2>1, LineIs DEF TypeRam
  <2>4. PICK m \in Line : file' = Append(file, m)
    BY <2>2, <2>3, GarbageIs
  <2>5. file' \in Seq(Line) /\ Len(file') = Len(file) + 1
    BY <1>0, <2>4, AppendIs DEF TypeFile
  <2>6. torn' \in BOOLEAN
    BY <2>2
  <2>7. synced' \in 0 .. Len(file')
    BY <1>0, <2>2, <2>5 DEF TypeFile
  <2>8. name' \in {"none", "made", "durable"}
    BY <1>0, <2>2 DEF TypeFile
  <2> QED
    BY <2>5, <2>6, <2>7, <2>8 DEF TypeFile
<1>3. ASSUME NEW l \in Label, NEW v \in 1 .. MaxVersion, ForeignAppend(l, v)
      PROVE  TypeFile'
  <2>1. PICK line : line = [idx |-> Len(file), label |-> l, v |-> v, sig |-> FALSE, val |-> "forged"]
    OBVIOUS
  <2>2. file' = Append(file, line) /\ UNCHANGED <<torn, name, synced>>
    BY <1>3, <2>1 DEF ForeignAppend
  <2>3. line \in Line
    BY <1>0, <2>1, ForgedIs DEF TypeFile
  <2>4. file' \in Seq(Line) /\ Len(file') = Len(file) + 1
    BY <1>0, <2>2, <2>3, AppendIs DEF TypeFile
  <2> QED
    BY <1>0, <2>2, <2>4 DEF TypeFile
<1>4. CASE SyncLine
  <2>1. synced' = Len(file) /\ UNCHANGED <<file, torn, name>>
    BY <1>4 DEF SyncLine
  <2> QED
    BY <1>0, <2>1 DEF TypeFile
<1>5. CASE NameFile \/ HeadRecorded
  <2>1. UNCHANGED <<file, torn, synced>> /\ name' \in {name, "durable"}
    BY <1>0, <1>5, SyncDirIs DEF NameFile, HeadRecorded
  <2> QED
    BY <1>0, <1>1, <2>1 DEF TypeFile
<1>6. ASSUME file # <<>>, synced < Len(file), file' = Cut(file), torn' \in BOOLEAN, name' = name,
             synced' = synced \/ synced' = Len(file) - 1
      PROVE  TypeFile'
  <2>1. file' \in Seq(Line) /\ Len(file') = Len(file) - 1
    BY <1>0, <1>6, CutIs DEF TypeFile
  <2>2. synced' \in 0 .. Len(file')
    BY <1>0, <1>6, <2>1 DEF TypeFile
  <2> QED
    BY <1>0, <1>6, <2>1, <2>2 DEF TypeFile
<1>7. CASE AppendFails
  <2>1. file # <<>> /\ synced < Len(file) /\ name' = name
    BY <1>0, <1>7 DEF AppendFails, Writing
  <2>2. CASE file' = Cut(file) /\ torn' = (file[Len(file)] = Garbage) /\ synced' = Len(file) - 1
    <3>1. torn' \in BOOLEAN
      BY <2>2
    <3> QED
      BY <1>6, <2>1, <2>2, <3>1
  <2>3. CASE file' = Cut(file) /\ torn' = TRUE /\ UNCHANGED synced
    BY <1>6, <2>1, <2>3
  <2>4. CASE UNCHANGED <<file, torn, synced>>
    BY <1>0, <1>1, <2>1, <2>4 DEF TypeFile
  <2> QED
    BY <1>7, <2>2, <2>3, <2>4 DEF AppendFails
<1>8. CASE Kill
  <2>1. name' = name
    BY <1>8 DEF Kill
  <2>2. CASE UNCHANGED <<file, torn, synced>>
    BY <1>0, <1>1, <2>1, <2>2 DEF TypeFile
  <2>3. CASE pc \in {"first", "line"} /\ file' = Cut(file) /\ torn' = TRUE /\ UNCHANGED synced
    BY <1>0, <1>6, <2>1, <2>3 DEF Writing
  <2> QED
    BY <1>8, <2>2, <2>3 DEF Kill
<1>9. CASE PowerLoss
  <2>1. PICK k \in (IF name = "durable" THEN synced ELSE 0) .. Len(file) :
          /\ file' = First(file, k) /\ synced' = k
          /\ torn' \in IF k < Len(file) \/ torn THEN BOOLEAN ELSE {FALSE}
          /\ name' = IF name = "durable" \/ k > 0 \/ torn' THEN "durable" ELSE "none"
    BY <1>9 DEF PowerLoss
  <2>2. k \in 0 .. Len(file)
    BY <1>0, <2>1 DEF TypeFile
  <2>3. file' \in Seq(Line) /\ Len(file') = k
    BY <1>0, <2>1, <2>2, FirstIs DEF TypeFile
  <2>4. torn' \in BOOLEAN /\ name' \in {"none", "durable"}
    BY <2>1
  <2> QED
    BY <2>1, <2>2, <2>3, <2>4 DEF TypeFile
<1>10. CASE Restore
  <2>1. /\ snap # None /\ file' = snap.file /\ torn' = FALSE /\ synced' = Len(snap.file)
        /\ name' \in {"none", "durable"}
    BY <1>10 DEF Restore
  <2>2. snap.file \in Seq(Line)
    BY <1>0, <2>1 DEF TypeHead
  <2>3. torn' \in BOOLEAN
    BY <2>1
  <2>4. synced' \in 0 .. Len(file')
    BY <2>1, <2>2
  <2> QED
    BY <2>1, <2>2, <2>3, <2>4 DEF TypeFile
<1>11. CASE DirectoryLost
  <2>1. file' = <<>> /\ torn' = FALSE /\ synced' = 0 /\ name' = "none"
    BY <1>11 DEF DirectoryLost
  <2>2. torn' \in BOOLEAN
    BY <2>1
  <2>3. file' \in Seq(Line) /\ synced' \in 0 .. Len(file')
    BY <2>1, EmptySeq
  <2> QED
    BY <2>1, <2>2, <2>3 DEF TypeFile
<1>12. CASE Repair
  <2>1. /\ file' = file /\ torn' = FALSE /\ synced' = Len(file) /\ name' \in {name, "durable"}
    BY <1>0, <1>12, SyncDirIs DEF Repair
  <2>2. torn' \in BOOLEAN
    BY <2>1
  <2>3. file' \in Seq(Line) /\ synced' \in 0 .. Len(file')
    BY <1>0, <2>1 DEF TypeFile
  <2>4. name' \in {"none", "made", "durable"}
    BY <1>0, <2>1 DEF TypeFile
  <2> QED
    BY <2>2, <2>3, <2>4 DEF TypeFile
<1>13. CASE \/ OpenNew \/ Open \/ WriteHead \/ KeepAlive \/ HeadFails
            \/ Serve \/ Stop \/ Snapshot \/ Tick \/ UNCHANGED vars
  <2>1. UNCHANGED <<file, torn, synced, name>>
    BY <1>13 DEF OpenNew, Open, WriteHead, KeepAlive, HeadFails, Serve, Stop, Snapshot, Tick, vars, disk
  <2> QED
    BY <1>0, <1>1, <2>1 DEF TypeFile
<1> QED
  BY <1>2, <1>3, <1>4, <1>5, <1>7, <1>8, <1>9, <1>10, <1>11, <1>12, <1>13, Steps

\* The head files a machine may come back with.
LEMMA HeadStep ==
  ASSUME Inv, [Next]_vars
  PROVE  TypeHead'
<1>0. TypeRam /\ TypeFile /\ TypeHead
  BY TypeParts DEF Inv
<1>1. ASSUME UNCHANGED <<head, came, snap>>
      PROVE  TypeHead'
  BY <1>0, <1>1 DEF TypeHead
<1>2. CASE \/ NameFile \/ HeadRecorded \/ Repair
  <2>1. head' = head /\ head \in came' /\ came' \subseteq came /\ snap' = snap
    BY <1>0, <1>2, SyncDirIs DEF NameFile, HeadRecorded, Repair
  <2> QED
    BY <1>0, <2>1 DEF TypeHead
<1>3. CASE WriteHead
  <2>1. head' = NewHead /\ came' = came \cup {NewHead} /\ snap' = snap
    BY <1>3 DEF WriteHead
  <2>2. NewHead \in HeadFile
    BY <1>0, TypeParts DEF NewHead, HeadFile, TypeRam, TypeTold, Inv
  <2> QED
    BY <1>0, <2>1, <2>2 DEF TypeHead
<1>4. CASE PowerLoss
  <2>1. head' \in came /\ came' = {head'} /\ snap' = snap
    BY <1>4 DEF PowerLoss
  <2> QED
    BY <1>0, <2>1 DEF TypeHead
<1>5. CASE Snapshot
  <2>1. UNCHANGED <<head, came>> /\ head # None /\ snap' = [file |-> file, head |-> head, at |-> now]
    BY <1>5 DEF Snapshot, disk
  <2>2. file \in Seq(Line) /\ head \in HeadFile /\ now \in Nat
    BY <1>0, <2>1, TypeParts DEF TypeFile, TypeHead, TypeTold, Inv
  <2> QED
    BY <1>0, <2>1, <2>2 DEF TypeHead
<1>6. CASE Restore
  <2>1. snap # None /\ head' = snap.head /\ came' = {snap.head} /\ snap' = snap
    BY <1>6 DEF Restore
  <2>2. snap.head \in HeadFile
    BY <1>0, <2>1 DEF TypeHead
  <2> QED
    BY <1>0, <2>1, <2>2 DEF TypeHead
<1>7. CASE DirectoryLost
  <2>1. head' = None /\ came' = {None} /\ snap' = snap
    BY <1>7 DEF DirectoryLost
  <2> QED
    BY <1>0, <2>1 DEF TypeHead
<1>8. CASE \/ OpenNew \/ Open \/ SyncLine \/ KeepAlive \/ AppendFails \/ HeadFails \/ Kill
           \/ \E l \in Label, v \in 1 .. MaxVersion : ForeignAppend(l, v)
           \/ \E l \in Label, v \in 1 .. MaxVersion, x \in Val : Publish(l, v, x)
           \/ Serve \/ Stop \/ Tick \/ UNCHANGED vars
  <2>1. UNCHANGED <<head, came, snap>>
    BY <1>8, Zenon DEF OpenNew, Open, SyncLine, KeepAlive, AppendFails, HeadFails, Kill, ForeignAppend,
                Publish, Serve, Stop, Tick, vars, disk
  <2> QED
    BY <1>1, <2>1
<1> QED
  BY <1>2, <1>3, <1>4, <1>5, <1>6, <1>7, <1>8, Steps

LEMMA GhostStep ==
  ASSUME Inv, [Next]_vars
  PROVE  {loose', lost', bare'} \subseteq BOOLEAN
<1>0. TypeHead /\ TypeTold
  BY TypeParts DEF Inv
<1>1. CASE NameFile \/ HeadRecorded \/ Repair
  <2>1. SyncDir /\ bare' = bare /\ (lost' = lost \/ lost' = FALSE)
    BY <1>1, Zenon DEF NameFile, HeadRecorded, Repair
  <2> QED
    BY <1>0, <2>1, SyncDirIs DEF TypeTold
<1>2. CASE PowerLoss
  <2>1. /\ loose' = FALSE /\ lost' = (lost \/ (loose /\ head' # head))
        /\ bare' = (bare \/ (head' # head /\ head' = None /\ Foreign(file')))
    BY <1>2 DEF PowerLoss
  <2> QED
    BY <2>1
<1>3. CASE Restore \/ DirectoryLost
  <2>1. loose' = FALSE /\ UNCHANGED <<lost, bare>>
    BY <1>3 DEF Restore, DirectoryLost
  <2> QED
    BY <1>0, <2>1 DEF TypeTold
<1>4. CASE \/ OpenNew \/ Open \/ SyncLine \/ WriteHead \/ KeepAlive \/ AppendFails \/ HeadFails \/ Kill
           \/ \E l \in Label, v \in 1 .. MaxVersion : ForeignAppend(l, v)
           \/ \E l \in Label, v \in 1 .. MaxVersion, x \in Val : Publish(l, v, x)
           \/ Serve \/ Stop \/ Snapshot \/ Tick \/ UNCHANGED vars
  <2>1. UNCHANGED <<loose, lost, bare>>
    BY <1>4, Zenon DEF OpenNew, Open, SyncLine, WriteHead, KeepAlive, AppendFails, HeadFails, Kill,
                ForeignAppend, Publish, Serve, Stop, Snapshot, Tick, vars, ghosts
  <2> QED
    BY <1>0, <2>1 DEF TypeTold
<1> QED
  BY <1>1, <1>2, <1>3, <1>4, Steps

LEMMA ToldStep ==
  ASSUME Inv, [Next]_vars
  PROVE  TypeTold'
<1>0. TypeRam /\ TypeHead /\ TypeTold
  BY TypeParts DEF Inv
<1>1. ASSUME \/ promised' = promised /\ acked' = acked
             \/ promised' = log /\ acked' \in {log, acked}
      PROVE  promised' \in Seq(Line) /\ acked' \in Seq(Line)
  BY <1>0, <1>1 DEF TypeRam, TypeTold
<1>2. ASSUME NEW kind, Fault(kind)
      PROVE  spent' \in Nat /\ met' \subseteq Faults
  BY <1>0, <1>2 DEF Fault, TypeTold
<1>g. {loose', lost', bare'} \subseteq BOOLEAN
  BY GhostStep
<1>3. CASE \/ AppendFails \/ HeadFails \/ Kill \/ PowerLoss \/ Restore \/ DirectoryLost
           \/ \E l \in Label, v \in 1 .. MaxVersion : ForeignAppend(l, v)
  <2>1. \E kind : Fault(kind)
    BY <1>3 DEF AppendFails, HeadFails, Kill, PowerLoss, Restore, DirectoryLost, ForeignAppend
  <2>2. UNCHANGED <<now, promised, acked>>
    BY <1>3, Zenon DEF AppendFails, HeadFails, Kill, PowerLoss, Restore, DirectoryLost, ForeignAppend
  <2> QED
    BY <1>0, <1>1, <1>2, <1>g, <2>1, <2>2 DEF TypeTold
<1>4. CASE NameFile \/ HeadRecorded \/ Repair
  <2>1. SyncDir /\ now' = now
    BY <1>4 DEF NameFile, HeadRecorded, Repair
  <2>2. spent' \in Nat /\ met' \subseteq Faults
    BY <1>0, <1>2, <2>1, SyncDirIs DEF TypeTold, faults
  <2>3. \/ promised' = promised /\ acked' = acked
        \/ promised' = log /\ acked' \in {log, acked}
    BY <1>4, Zenon DEF NameFile, HeadRecorded, Repair
  <2> QED
    BY <1>0, <1>1, <1>g, <2>1, <2>2, <2>3 DEF TypeTold
<1>5. CASE Tick
  <2>1. now' = now + 1 /\ UNCHANGED <<promised, acked, spent, met>>
    BY <1>5 DEF Tick, faults
  <2> QED
    BY <1>0, <1>g, <2>1 DEF TypeTold
<1>6. CASE Serve
  <2>1. UNCHANGED <<now, acked, spent, met>> /\ promised' = log
    BY <1>6 DEF Serve, faults
  <2> QED
    BY <1>0, <1>1, <1>g, <2>1 DEF TypeTold
<1>7. CASE \/ OpenNew \/ Open \/ SyncLine \/ WriteHead \/ KeepAlive
           \/ \E l \in Label, v \in 1 .. MaxVersion, x \in Val : Publish(l, v, x)
           \/ Stop \/ Snapshot \/ UNCHANGED vars
  <2>1. UNCHANGED <<now, promised, acked, spent, met>>
    BY <1>7, Zenon DEF OpenNew, Open, SyncLine, WriteHead, KeepAlive, Publish, Stop, Snapshot, vars, faults
  <2> QED
    BY <1>0, <1>g, <2>1 DEF TypeTold
<1> QED
  BY <1>3, <1>4, <1>5, <1>6, <1>7, Steps

\* The call that comes next finds what the one before it left.
LEMMA CallStep ==
  ASSUME Inv, [Next]_vars
  PROVE  Writing' /\ Drafting' /\ Heading'
<1>0. TypeRam /\ TypeFile /\ TypeHead /\ Writing /\ Drafting /\ Heading
  BY TypeParts DEF Inv
<1>1. ASSUME pc' \in {"off", "ready", "head"}
      PROVE  Writing' /\ Drafting' /\ Heading'
  BY <1>1 DEF Writing, Drafting, Heading
<1>2. CASE \/ OpenNew \/ Open \/ NameFile \/ HeadRecorded \/ KeepAlive
           \/ AppendFails \/ HeadFails \/ Kill \/ PowerLoss \/ Restore \/ DirectoryLost
           \/ \E l \in Label, v \in 1 .. MaxVersion : ForeignAppend(l, v)
           \/ Serve \/ Stop \/ Repair \/ Tick
  <2>1. pc' \in {"off", "ready", "head"}
    BY <1>2, Zenon DEF OpenNew, Open, NameFile, Apply, HeadRecorded, KeepAlive, AppendFails, HeadFails,
                Kill, PowerLoss, Restore, DirectoryLost, Forget, ForeignAppend, Serve, Stop, Repair, Tick
  <2> QED
    BY <1>1, <2>1
<1>3. ASSUME NEW l \in Label, NEW v \in 1 .. MaxVersion, NEW x \in Val, Publish(l, v, x)
      PROVE  Writing' /\ Drafting' /\ Heading'
  <2>1. PICK line : line = [idx |-> Len(log), label |-> l, v |-> v, sig |-> TRUE, val |-> x]
    OBVIOUS
  <2>2. /\ draft' = line /\ pc' \in {"first", "line"} /\ synced' = synced
        /\ file' = Append(file, IF torn THEN Garbage ELSE line)
    BY <1>3, <2>1 DEF Publish
  <2>3. line \in Line /\ line.val # "forged"
    BY <1>0, <2>1, LineIs DEF TypeRam
  <2>4. PICK m \in Line : file' = Append(file, m)
    BY <2>2, <2>3, GarbageIs
  <2>5. file' \in Seq(Line) /\ Len(file') = Len(file) + 1
    BY <1>0, <2>4, AppendIs DEF TypeFile
  <2>6. file' # <<>> /\ synced' < Len(file')
    BY <1>0, <2>2, <2>5 DEF TypeFile
  <2> QED
    BY <2>2, <2>3, <2>6 DEF Writing, Drafting, Heading
<1>4. CASE SyncLine
  <2>1. pc \in {"first", "line"} /\ (pc' = "head" \/ (pc' = "name" /\ draft' = draft))
    BY <1>4, Zenon DEF SyncLine, Apply
  <2> QED
    BY <1>0, <2>1 DEF Writing, Drafting, Heading
<1>5. CASE WriteHead
  <2>1. pc' = "dir" /\ head' = NewHead /\ log' = log
    BY <1>5 DEF WriteHead, ram
  <2>2. NewHead \in HeadFile /\ NewHead.hist = log
    BY <1>0, TypeParts DEF NewHead, HeadFile, TypeRam, TypeTold, Inv
  <2> QED
    BY <2>1, <2>2 DEF Writing, Drafting, Heading
<1>6. CASE Snapshot \/ UNCHANGED vars
  <2>1. UNCHANGED <<pc, file, synced, draft, head, log>>
    BY <1>6 DEF Snapshot, vars, ram, disk
  <2> QED
    BY <1>0, <2>1 DEF Writing, Drafting, Heading
<1> QED
  BY <1>2, <1>3, <1>4, <1>5, <1>6, Steps

-----------------------------------------------------------------------------
\* A line past a sound head's boundary is signed or covered by the head.
LEMMA CoveredIsGenuine ==
  ASSUME NEW f \in Seq(Line), Marked(f), NEW h \in HeadFile, Sound(h), Covers(f, h),
         SignedPast(f, h.bound)
  PROVE  Genuine(f) /\ h.bound <= Len(f)
<1>1. /\ Len(h.hist) <= Len(f) /\ \A k \in DOMAIN h.hist : f[k] = h.hist[k]
      /\ h.hist \in Seq(Line) /\ h.bound \in Nat /\ h.bound <= Len(h.hist)
  BY DEF Covers, Contract!Extends, HeadFile, Sound
<1>2. ASSUME NEW k \in DOMAIN f
      PROVE  f[k].val # "forged"
  <2>1. CASE k <= h.bound
    <3>1. k \in DOMAIN h.hist
      BY <1>1, <2>1
    <3>2. h.hist[k].val # "forged"
      BY <3>1 DEF Sound, Genuine
    <3> QED
      BY <1>1, <3>1, <3>2
  <2>2. CASE k > h.bound
    BY <2>2 DEF SignedPast, Marked
  <2> QED
    BY <1>1, <2>1, <2>2
<1>3. h.bound <= Len(f)
  BY <1>1
<1> QED
  BY <1>2, <1>3 DEF Genuine

\* Nothing but ForeignAppend puts another's line into the file, and it signs
\* none.
LEMMA MarkedStep ==
  ASSUME Inv, Marks, [Next]_vars
  PROVE  Marked(file') /\ (Genuine(file) => Genuine(file') \/ Restore
                             \/ \E l \in Label, v \in 1 .. MaxVersion : ForeignAppend(l, v))
<1>0. TypeRam /\ TypeFile /\ TypeHead /\ Writing /\ Marks
  BY TypeParts DEF Inv
<1>1. ASSUME \/ file' = file
             \/ file' = Cut(file) /\ file # <<>>
             \/ \E k \in 0 .. Len(file) : file' = First(file, k)
      PROVE  Marked(file') /\ (Genuine(file) => Genuine(file'))
  <2>0. file \in Seq(Line) /\ Marked(file)
    BY <1>0 DEF TypeFile, Marks
  <2>1. CASE file' = file
    BY <2>0, <2>1
  <2>2. CASE file' = Cut(file) /\ file # <<>>
    BY <2>0, <2>2, CutPart, CutIs, PartKeeps
  <2>3. CASE \E k \in 0 .. Len(file) : file' = First(file, k)
    BY <2>0, <2>3, FirstPart, FirstIs, PartKeeps
  <2> QED
    BY <1>1, <2>1, <2>2, <2>3
<1>2. ASSUME NEW l \in Label, NEW v \in 1 .. MaxVersion, NEW x \in Val, Publish(l, v, x)
      PROVE  Marked(file') /\ (Genuine(file) => Genuine(file'))
  <2>1. PICK line : line = [idx |-> Len(log), label |-> l, v |-> v, sig |-> TRUE, val |-> x]
    OBVIOUS
  <2>2. file' = Append(file, IF torn THEN Garbage ELSE line)
    BY <1>2, <2>1 DEF Publish
  <2>3. line \in Line /\ line.val # "forged"
    BY <1>0, <2>1, LineIs DEF TypeRam
  <2>4. PICK m \in Line : file' = Append(file, m) /\ m.val # "forged"
    BY <2>2, <2>3, GarbageIs
  <2> QED
    BY <1>0, <2>4, AppendIs DEF TypeFile, Marks
<1>3. ASSUME NEW l \in Label, NEW v \in 1 .. MaxVersion, ForeignAppend(l, v)
      PROVE  Marked(file')
  <2>1. PICK line : line = [idx |-> Len(file), label |-> l, v |-> v, sig |-> FALSE, val |-> "forged"]
    OBVIOUS
  <2>2. file' = Append(file, line)
    BY <1>3, <2>1 DEF ForeignAppend
  <2>3. line \in Line /\ ~line.sig
    BY <1>0, <2>1, ForgedIs DEF TypeFile
  <2> QED
    BY <1>0, <2>2, <2>3, AppendIs DEF TypeFile, Marks
<1>4. CASE AppendFails \/ Kill
  <2>1. file' = file \/ (file' = Cut(file) /\ pc \in {"first", "line"})
    BY <1>4, Zenon DEF AppendFails, Kill
  <2>2. file' = file \/ (file' = Cut(file) /\ file # <<>>)
    BY <1>0, <2>1 DEF Writing
  <2> QED
    BY <1>1, <2>2, Zenon
<1>5. CASE PowerLoss
  <2>1. PICK k \in (IF name = "durable" THEN synced ELSE 0) .. Len(file) : file' = First(file, k)
    BY <1>5 DEF PowerLoss
  <2>2. k \in 0 .. Len(file)
    BY <1>0, <2>1 DEF TypeFile
  <2> QED
    BY <1>1, <2>1, <2>2
<1>6. CASE Restore
  BY <1>0, <1>6 DEF Restore, Marks
<1>7. CASE DirectoryLost
  BY <1>7 DEF DirectoryLost, Marked, Genuine
<1>8. CASE \/ OpenNew \/ Open \/ SyncLine \/ NameFile \/ WriteHead \/ HeadRecorded \/ KeepAlive
           \/ HeadFails \/ Serve \/ Stop \/ Repair \/ Snapshot \/ Tick \/ UNCHANGED vars
  <2>1. file' = file
    BY <1>8, Zenon DEF OpenNew, Open, SyncLine, NameFile, WriteHead, HeadRecorded, KeepAlive, HeadFails,
                Serve, Stop, Repair, Snapshot, Tick, vars, disk
  <2> QED
    BY <1>1, <2>1, Zenon
<1> QED
  BY <1>2, <1>3, <1>4, <1>5, <1>6, <1>7, <1>8, Steps

\* What the process holds is the log's own, up to its boundary and past it.
LEMMA LogStep ==
  ASSUME Inv, Marks, [Next]_vars
  PROVE  Genuine(log') /\ (pc' # "off" => bound' <= Len(log'))
<1>0. TypeRam /\ TypeFile /\ TypeHead /\ Drafting /\ Marks
  BY TypeParts DEF Inv
<1>1. ASSUME UNCHANGED <<log, bound>>, pc' = "off" \/ pc # "off"
      PROVE  Genuine(log') /\ (pc' # "off" => bound' <= Len(log'))
  BY <1>0, <1>1 DEF Marks
<1>2. ASSUME log' = <<>>, pc' = "off"
      PROVE  Genuine(log') /\ (pc' # "off" => bound' <= Len(log'))
  BY <1>2 DEF Genuine
<1>3. CASE OpenNew
  <2>1. head = None /\ log' = file /\ bound' = Derived(file)
    BY <1>3 DEF OpenNew
  <2>2. Genuine(file)
    BY <1>0, <2>1 DEF TypeHead, Marks
  <2>3. Derived(file) <= Len(file)
    BY <1>0, DerivedIs DEF TypeFile
  <2> QED
    BY <2>1, <2>2, <2>3
<1>4. CASE Open
  <2>1. /\ head # None /\ Covers(file, head) /\ SignedPast(file, head.bound)
        /\ log' = file /\ bound' = head.bound
    BY <1>4 DEF Open
  <2>2. head \in HeadFile /\ Sound(head) /\ file \in Seq(Line) /\ Marked(file)
    BY <1>0, <2>1 DEF TypeHead, TypeFile, Marks
  <2> QED
    BY <2>1, <2>2, CoveredIsGenuine
<1>5. ASSUME Apply, pc \in {"first", "line", "name"}, UNCHANGED bound
      PROVE  Genuine(log') /\ (pc' # "off" => bound' <= Len(log'))
  <2>1. log' = Append(log, draft) /\ draft \in Line /\ draft.val # "forged" /\ log \in Seq(Line)
    BY <1>0, <1>5 DEF Apply, Drafting, TypeRam
  <2>2. Genuine(log') /\ Len(log') = Len(log) + 1
    BY <1>0, <2>1, AppendIs DEF Marks
  <2> QED
    BY <1>0, <1>5, <2>1, <2>2 DEF Marks, TypeRam
<1>6. CASE SyncLine
  <2>1. UNCHANGED bound /\ pc \in {"first", "line"}
    BY <1>6 DEF SyncLine
  <2>2. Apply \/ UNCHANGED log
    BY <1>6, Zenon DEF SyncLine
  <2> QED
    BY <1>1, <1>5, <2>1, <2>2
<1>7. CASE NameFile
  BY <1>5, <1>7 DEF NameFile
<1>8. CASE HeadRecorded
  <2>1. /\ pc = "dir" /\ bound' = bound
        /\ (pc' = "off" /\ log' = <<>>) \/ log' = log
    BY <1>8, Zenon DEF HeadRecorded
  <2> QED
    BY <1>1, <1>2, <2>1
<1>9. CASE HeadFails
  <2>1. /\ pc = "head" /\ bound' = bound
        /\ (pc' = "off" /\ log' = <<>>) \/ log' = log
    BY <1>9, Zenon DEF HeadFails
  <2> QED
    BY <1>1, <1>2, <2>1
<1>10. CASE Kill \/ PowerLoss \/ Restore \/ DirectoryLost
  <2>1. log' = <<>> /\ pc' = "off"
    BY <1>10 DEF Kill, PowerLoss, Restore, DirectoryLost, Forget
  <2> QED
    BY <1>2, <2>1
<1>11. CASE \/ WriteHead \/ KeepAlive \/ AppendFails \/ Serve \/ Stop
            \/ \E l \in Label, v \in 1 .. MaxVersion, x \in Val : Publish(l, v, x)
  <2>1. UNCHANGED <<log, bound>> /\ pc # "off"
    BY <1>11, Zenon DEF WriteHead, KeepAlive, AppendFails, Serve, Stop, Publish, ram
  <2> QED
    BY <1>1, <2>1
<1>12. CASE \/ \E l \in Label, v \in 1 .. MaxVersion : ForeignAppend(l, v)
            \/ Repair \/ Snapshot \/ Tick \/ UNCHANGED vars
  <2>1. UNCHANGED <<log, bound, pc>>
    BY <1>12 DEF ForeignAppend, Repair, Snapshot, Tick, ram, vars
  <2> QED
    BY <1>1, <2>1
<1> QED
  BY <1>3, <1>4, <1>6, <1>7, <1>8, <1>9, <1>10, <1>11, <1>12, Steps

\* Every head there is covers the log's own lines.
LEMMA SoundStep ==
  ASSUME Inv, Marks, [Next]_vars
  PROVE  /\ \A h \in came' : h = None \/ Sound(h)
         /\ snap' = None \/ (Marked(snap'.file) /\ Sound(snap'.head))
<1>0. TypeRam /\ TypeFile /\ TypeHead /\ Marks
  BY TypeParts DEF Inv
<1>1. ASSUME came' \subseteq came, snap' = snap
      PROVE  /\ \A h \in came' : h = None \/ Sound(h)
             /\ snap' = None \/ (Marked(snap'.file) /\ Sound(snap'.head))
  BY <1>0, <1>1 DEF Marks
<1>2. CASE WriteHead
  <2>1. came' = came \cup {NewHead} /\ snap' = snap /\ pc = "head"
    BY <1>2 DEF WriteHead
  <2>2. NewHead.hist = log /\ NewHead.bound = bound
    BY DEF NewHead
  <2>3. Sound(NewHead)
    BY <1>0, <2>1, <2>2 DEF Sound, Marks
  <2> QED
    BY <1>0, <2>1, <2>3 DEF Marks
<1>3. CASE Snapshot
  <2>1. came' = came /\ head # None /\ snap' = [file |-> file, head |-> head, at |-> now]
    BY <1>3 DEF Snapshot, disk
  <2>2. Sound(head) /\ Marked(file)
    BY <1>0, <2>1 DEF TypeHead, Marks
  <2>3. snap'.file = file /\ snap'.head = head
    BY <2>1
  <2> QED
    BY <1>0, <2>1, <2>2, <2>3 DEF Marks
<1>4. CASE Restore
  <2>1. snap # None /\ came' = {snap.head} /\ snap' = snap
    BY <1>4 DEF Restore
  <2> QED
    BY <1>0, <2>1 DEF Marks
<1>5. CASE DirectoryLost
  <2>1. came' = {None} /\ snap' = snap
    BY <1>5 DEF DirectoryLost
  <2> QED
    BY <1>0, <2>1 DEF Marks
<1>6. CASE NameFile \/ HeadRecorded \/ PowerLoss \/ Repair
  <2>1. came' \subseteq came /\ snap' = snap
    BY <1>0, <1>6, SyncDirIs DEF NameFile, HeadRecorded, PowerLoss, Repair, TypeHead
  <2> QED
    BY <1>1, <2>1
<1>7. CASE \/ OpenNew \/ Open \/ SyncLine \/ KeepAlive \/ AppendFails \/ HeadFails \/ Kill
           \/ \E l \in Label, v \in 1 .. MaxVersion : ForeignAppend(l, v)
           \/ \E l \in Label, v \in 1 .. MaxVersion, x \in Val : Publish(l, v, x)
           \/ Serve \/ Stop \/ Tick \/ UNCHANGED vars
  <2>1. UNCHANGED <<came, snap>>
    BY <1>7, Zenon DEF OpenNew, Open, SyncLine, KeepAlive, AppendFails, HeadFails, Kill, ForeignAppend,
                Publish, Serve, Stop, Tick, vars, disk
  <2> QED
    BY <1>1, <2>1
<1> QED
  BY <1>2, <1>3, <1>4, <1>5, <1>6, <1>7, Steps

\* Without a head the file has the say, and it is the log's own.
LEMMA HeadlessStep ==
  ASSUME Inv, Marks, [Next]_vars, head' = None, ~bare'
  PROVE  Genuine(file')
<1>0. TypeRam /\ TypeFile /\ TypeHead /\ TypeTold
  BY TypeParts DEF Inv
<1>1. CASE Restore
  <2>1. snap # None /\ head' = snap.head
    BY <1>1 DEF Restore
  <2>2. snap.head \in HeadFile
    BY <1>0, <2>1 DEF TypeHead
  <2> QED
    BY <2>1, <2>2, NoneAssumption
<1>2. CASE DirectoryLost
  BY <1>2 DEF DirectoryLost, Genuine
<1>3. ASSUME head = None, ~Restore, ~ \E l \in Label, v \in 1 .. MaxVersion : ForeignAppend(l, v)
      PROVE  Genuine(file')
  BY <1>3, MarkedStep DEF Marks
<1>4. CASE PowerLoss
  <2>1. CASE head = None
    <3>1. PICK k \in (IF name = "durable" THEN synced ELSE 0) .. Len(file) : file' = First(file, k)
      BY <1>4 DEF PowerLoss
    <3>2. k \in 0 .. Len(file)
      BY <1>0, <3>1 DEF TypeFile
    <3>3. Genuine(file) /\ file \in Seq(Line)
      BY <1>0, <2>1 DEF Marks, TypeFile
    <3> QED
      BY <3>1, <3>2, <3>3, FirstPart, FirstIs, PartKeeps
  <2>2. CASE head # None
    <3>1. bare' = (bare \/ (head' # head /\ head' = None /\ Foreign(file')))
      BY <1>4 DEF PowerLoss
    <3> QED
      BY <2>2, <3>1 DEF Foreign, Genuine
  <2> QED
    BY <2>1, <2>2
<1>5. CASE WriteHead
  <2>1. head' = NewHead /\ NewHead \in HeadFile
    BY <1>0, <1>5 DEF WriteHead, NewHead, HeadFile, TypeRam, TypeTold
  <2> QED
    BY <2>1, NoneAssumption
<1>6. CASE \E l \in Label, v \in 1 .. MaxVersion : ForeignAppend(l, v)
  BY <1>6 DEF ForeignAppend
<1>7. CASE \/ OpenNew \/ Open \/ SyncLine \/ NameFile \/ HeadRecorded \/ KeepAlive
           \/ AppendFails \/ HeadFails \/ Kill
           \/ \E l \in Label, v \in 1 .. MaxVersion, x \in Val : Publish(l, v, x)
           \/ Serve \/ Stop \/ Repair \/ Tick \/ Snapshot \/ UNCHANGED vars
  <2>1. head' = head
    BY <1>7, Zenon DEF OpenNew, Open, SyncLine, NameFile, HeadRecorded, SyncDir, KeepAlive, AppendFails,
                HeadFails, Kill, Publish, Serve, Stop, Repair, Tick, Snapshot, vars, disk
  <2> QED
    BY <1>1, <1>3, <1>6, <2>1
<1> QED
  BY <1>1, <1>2, <1>4, <1>5, <1>6, <1>7, Steps

\* Once a machine has come back bare, that is not forgotten.
LEMMA BareStays ==
  ASSUME [Next]_vars, bare
  PROVE  bare'
<1>1. CASE PowerLoss
  BY <1>1 DEF PowerLoss
<1>2. CASE \/ OpenNew \/ Open \/ SyncLine \/ NameFile \/ WriteHead \/ HeadRecorded \/ KeepAlive
           \/ AppendFails \/ HeadFails \/ Kill \/ Restore \/ DirectoryLost
           \/ \E l \in Label, v \in 1 .. MaxVersion : ForeignAppend(l, v)
           \/ \E l \in Label, v \in 1 .. MaxVersion, x \in Val : Publish(l, v, x)
           \/ Serve \/ Stop \/ Repair \/ Snapshot \/ Tick \/ UNCHANGED vars
  <2>1. bare' = bare
    BY <1>2, Zenon DEF OpenNew, Open, SyncLine, NameFile, WriteHead, HeadRecorded, KeepAlive, AppendFails,
                HeadFails, Kill, Restore, DirectoryLost, ForeignAppend, Publish, Serve, Stop, Repair,
                Snapshot, Tick, vars, ghosts
  <2> QED
    BY <2>1
<1> QED
  BY <1>1, <1>2, Steps

LEMMA InvStep == Inv /\ [Next]_vars => Inv'
<1> SUFFICES ASSUME Inv, [Next]_vars PROVE Inv'
  OBVIOUS
<1>1. TypeRam' /\ TypeFile' /\ TypeHead' /\ TypeTold'
  BY RamStep, FileStep, HeadStep, ToldStep
<1>2. TypeOK'
  BY <1>1 DEF TypeOK, TypeRam, TypeFile, TypeHead, TypeTold
<1>3. bare' \/ Marks'
  <2> SUFFICES ASSUME ~bare' PROVE Marks'
    OBVIOUS
  <2>1. Marks
    BY BareStays DEF Inv
  <2> QED
    BY <2>1, MarkedStep, LogStep, SoundStep, HeadlessStep DEF Marks
<1> QED
  BY <1>2, <1>3, CallStep DEF Inv

-----------------------------------------------------------------------------
LEMMA ExtendsSelf ==
  ASSUME NEW f \in Seq(Line)
  PROVE  Contract!Extends(f, f) /\ Contract!Extends(f, <<>>)
  BY DEF Contract!Extends

LEMMA ExtendsOn ==
  ASSUME NEW f \in Seq(Line), NEW g \in Seq(Line), NEW h \in Seq(Line),
         Contract!Extends(f, g), Contract!Extends(g, h)
  PROVE  Contract!Extends(f, h)
  BY DEF Contract!Extends

LEMMA ExtendsAppend ==
  ASSUME NEW f \in Seq(Line), NEW l \in Line
  PROVE  Contract!Extends(Append(f, l), f)
  BY DEF Contract!Extends

\* The directory is as it was, or was synced, or could not be.
Settled ==
  /\ head' = head /\ head \in came' /\ came' \subseteq came
  /\ loose' = loose \/ loose' \/ came' = {head}

\* A head that is recorded covers what is in memory.
LEMMA RecordedStands ==
  ASSUME TypeRam, TypeHead, Heading, HeadRecorded, Contract!Extends(log, acked) \/ acked' = log
  PROVE  Stands'
<1>1. /\ pc = "dir" /\ SyncDir /\ head \in HeadFile /\ head.hist = log
      /\ pc' = "off" \/ log' = log
  BY DEF HeadRecorded, Heading
<1>2. acked' = log \/ acked' = acked
  BY Zenon DEF HeadRecorded
<1>3. Contract!Extends(log, acked')
  BY <1>2, ExtendsSelf DEF TypeRam
<1>4. head' = head /\ head # None /\ (loose' \/ came' = {head})
  BY <1>1, SyncDirIs, NoneAssumption
<1>5. Cover({head})'
  BY <1>1, <1>3, <1>4 DEF Cover
<1>6. loose' \/ Cover(came)'
  BY <1>1, <1>3, <1>4 DEF Cover
<1> QED
  BY <1>1, <1>3, <1>5, <1>6 DEF Stands

\* What was answered 201 stands in memory and in every head.
LEMMA StandsStep ==
  ASSUME NoRestore, Inv, Stands, [Next]_vars
  PROVE  lost' \/ Stands'
<1>0. TypeRam /\ TypeFile /\ TypeHead /\ TypeTold /\ Drafting /\ Heading
  BY TypeParts DEF Inv
<1>1. pc # "off" => ~Gone
  BY DEF Gone
<1>s. ASSUME SyncDir
      PROVE  Settled
  BY <1>0, <1>s, SyncDirIs DEF Settled
<1>u. ASSUME UNCHANGED <<head, came, loose>>
      PROVE  Settled
  BY <1>0, <1>u DEF Settled, TypeHead
<1>c. ASSUME Settled, acked' = acked, Gone => Gone' \/ acked = <<>>
      PROVE  Cover({head})' /\ (loose' \/ Cover(came)')
  <2>1. Cover({head})'
    BY <1>c DEF Settled, Stands, Cover
  <2>2. ASSUME ~loose'
        PROVE  Cover(came)'
    <3>1. CASE came' = {head}
      BY <1>c, <2>1, <3>1 DEF Settled, Cover
    <3>2. CASE ~loose
      BY <1>c, <3>2 DEF Settled, Stands, Cover
    <3> QED
      BY <1>c, <2>2, <3>1, <3>2 DEF Settled
  <2> QED
    BY <2>1, <2>2
<1>2. ASSUME pc # "off", acked' = acked, Settled,
             pc' = "off" \/ log' = log
      PROVE  Stands'
  <2>1. pc' # "off" => Contract!Extends(log', acked')
    BY <1>2 DEF Stands
  <2> QED
    BY <1>1, <1>2, <1>c, <2>1 DEF Stands
<1>3. CASE OpenNew
  <2>1. /\ pc = "off" /\ Enough(file) /\ head = None /\ log' = file
        /\ UNCHANGED <<head, came, acked, loose>>
    BY <1>3 DEF OpenNew, disk, ghosts
  <2>2. ~Gone
    BY <2>1, ParamAssumption DEF Gone, Enough
  <2>3. acked = <<>>
    BY <2>1, <2>2 DEF Stands, Cover
  <2>4. Contract!Extends(log', acked')
    BY <1>0, <2>1, <2>3, ExtendsSelf DEF TypeFile
  <2> QED
    BY <1>c, <1>u, <2>1, <2>2, <2>4 DEF Stands
<1>4. CASE Open
  <2>1. /\ head # None /\ Contract!Extends(file, head.hist) /\ log' = file
        /\ UNCHANGED <<head, came, acked, loose>>
    BY <1>4 DEF Open, Covers, disk, ghosts
  <2>2. head \in HeadFile /\ head \in came /\ Contract!Extends(head.hist, acked)
    BY <1>0, <2>1 DEF TypeHead, Stands, Cover
  <2>3. head.hist \in Seq(Line)
    BY <2>2 DEF HeadFile
  <2>4. Contract!Extends(log', acked')
    BY <1>0, <2>1, <2>2, <2>3, ExtendsOn DEF TypeFile, TypeTold
  <2>5. ~Gone
    BY <2>1, <2>2 DEF Gone
  <2> QED
    BY <1>c, <1>u, <2>1, <2>4, <2>5 DEF Stands
<1>5. ASSUME Apply, pc \in {"first", "line", "name"}, acked' = acked, Settled
      PROVE  Stands'
  <2>1. log' = Append(log, draft) /\ draft \in Line /\ log \in Seq(Line) /\ acked \in Seq(Line)
    BY <1>0, <1>5 DEF Apply, Drafting, TypeRam, TypeTold
  <2>2. Contract!Extends(log', log) /\ log' \in Seq(Line)
    BY <2>1, ExtendsAppend, AppendIs
  <2>3. Contract!Extends(log', acked')
    BY <1>5, <2>1, <2>2, ExtendsOn DEF Stands
  <2> QED
    BY <1>1, <1>5, <1>c, <2>3 DEF Stands
<1>6. CASE SyncLine
  <2>1. /\ pc \in {"first", "line"} /\ UNCHANGED <<head, came, acked, loose>>
    BY <1>6 DEF SyncLine, ghosts
  <2>2. Apply \/ log' = log
    BY <1>6, Zenon DEF SyncLine
  <2> QED
    BY <1>2, <1>5, <1>u, <2>1, <2>2
<1>7. CASE NameFile
  <2>1. Apply /\ pc = "name" /\ acked' = acked /\ SyncDir
    BY <1>7 DEF NameFile
  <2> QED
    BY <1>5, <1>s, <2>1
<1>8. CASE WriteHead
  <2>1. /\ pc = "head" /\ head' = NewHead /\ came' = came \cup {NewHead}
        /\ UNCHANGED <<log, acked, loose>>
    BY <1>8 DEF WriteHead, ram, ghosts
  <2>2. NewHead \in HeadFile /\ NewHead.hist = log /\ NewHead # None
    BY <1>0, NoneAssumption DEF NewHead, HeadFile, TypeRam, TypeTold
  <2>3. Contract!Extends(log, acked)
    BY <2>1 DEF Stands
  <2>4. Cover({head})'
    BY <2>1, <2>2, <2>3 DEF Cover
  <2>5. loose' \/ Cover(came)'
    BY <1>1, <2>1, <2>2, <2>3 DEF Cover, Stands
  <2> QED
    BY <2>1, <2>3, <2>4, <2>5 DEF Stands
<1>9. CASE HeadRecorded
  <2>1. pc = "dir"
    BY <1>9 DEF HeadRecorded
  <2>2. Contract!Extends(log, acked)
    BY <2>1 DEF Stands
  <2> QED
    BY <1>0, <1>9, <2>2, RecordedStands
<1>10. CASE PowerLoss
  <2>1. /\ pc' = "off" /\ head' \in came /\ came' = {head'} /\ UNCHANGED <<promised, acked>>
        /\ lost' = (lost \/ (loose /\ head' # head))
    BY <1>10 DEF PowerLoss, Forget
  <2>2. \E k \in (IF name = "durable" THEN synced ELSE 0) .. Len(file) : file' = First(file, k)
    BY <1>10 DEF PowerLoss
  <2>3. file = <<>> => file' = <<>>
    BY <1>0, <2>2 DEF TypeFile, First
  <2>4. Gone /\ None \in came' => Gone'
    BY <2>1, <2>3 DEF Gone
  <2>5. CASE head' = head \/ ~loose
    <3>1. Cover({head'})
      BY <2>1, <2>5 DEF Stands, Cover
    <3>2. Cover({head})' /\ Cover(came)'
      BY <2>1, <2>4, <3>1 DEF Cover
    <3> QED
      BY <2>1, <3>2 DEF Stands
  <2> QED
    BY <2>1, <2>5
<1>11. CASE Restore
  BY <1>11 DEF Restore, Fault, NoRestore
<1>12. CASE DirectoryLost
  <2>1. /\ pc' = "off" /\ file' = <<>> /\ head' = None /\ came' = {None} /\ promised' = promised
        /\ MinSize > 0 /\ Len(promised) >= MinSize
    BY <1>12 DEF DirectoryLost, Forget
  <2>2. Gone'
    BY <2>1 DEF Gone
  <2> QED
    BY <2>1, <2>2 DEF Stands, Cover
<1>13. ASSUME NEW l \in Label, NEW v \in 1 .. MaxVersion, ForeignAppend(l, v)
      PROVE  Stands'
  <2>1. head # None /\ UNCHANGED <<pc, log, head, came, acked, loose>>
    BY <1>13 DEF ForeignAppend, ram, ghosts
  <2>2. ~Gone
    BY <1>0, <2>1 DEF Gone, TypeHead
  <2> QED
    BY <1>c, <1>u, <2>1, <2>2 DEF Stands
<1>14. CASE Repair
  <2>1. /\ pc = "off" /\ SyncDir /\ UNCHANGED <<pc, file, promised, acked>>
    BY <1>14 DEF Repair
  <2>2. Settled
    BY <1>s, <2>1
  <2>3. Gone => Gone'
    BY <2>1, <2>2 DEF Gone, Settled
  <2> QED
    BY <1>c, <2>1, <2>2, <2>3 DEF Stands
<1>15. CASE \/ \E l \in Label, v \in 1 .. MaxVersion, x \in Val : Publish(l, v, x)
            \/ AppendFails \/ HeadFails \/ Kill \/ Serve \/ KeepAlive \/ Stop
  <2>1. /\ pc # "off" /\ UNCHANGED <<acked, head, came, loose>>
        /\ pc' = "off" \/ log' = log
    BY <1>15, Zenon DEF Publish, AppendFails, HeadFails, Kill, Forget, Serve, KeepAlive, Stop, ram, disk, ghosts
  <2> QED
    BY <1>2, <1>u, <2>1
<1>16. CASE Snapshot \/ Tick \/ UNCHANGED vars
  <2>1. UNCHANGED <<pc, log, file, head, came, promised, acked, loose>>
    BY <1>16 DEF Snapshot, Tick, vars, ram, disk, ghosts
  <2>2. Gone => Gone'
    BY <2>1 DEF Gone
  <2> QED
    BY <1>c, <1>u, <2>1, <2>2 DEF Stands
<1> QED
  BY <1>3, <1>4, <1>6, <1>7, <1>8, <1>9, <1>10, <1>11, <1>12, <1>13, <1>14, <1>15, <1>16, Steps

\* What was lost is lost until a publish is answered 201 again.
LEMMA LostStep ==
  ASSUME Inv, lost, [Next]_vars
  PROVE  lost' \/ Stands'
<1>0. TypeRam /\ TypeHead /\ Heading
  BY TypeParts DEF Inv
<1>1. CASE HeadRecorded
  <2>1. lost' = lost \/ acked' = log
    BY <1>1, Zenon DEF HeadRecorded
  <2> QED
    BY <1>0, <1>1, <2>1, ExtendsSelf, RecordedStands DEF TypeRam
<1>2. CASE PowerLoss
  BY <1>2 DEF PowerLoss
<1>3. CASE \/ OpenNew \/ Open \/ SyncLine \/ NameFile \/ WriteHead \/ KeepAlive
           \/ AppendFails \/ HeadFails \/ Kill \/ Restore \/ DirectoryLost
           \/ \E l \in Label, v \in 1 .. MaxVersion : ForeignAppend(l, v)
           \/ \E l \in Label, v \in 1 .. MaxVersion, x \in Val : Publish(l, v, x)
           \/ Serve \/ Stop \/ Repair \/ Snapshot \/ Tick \/ UNCHANGED vars
  <2>1. lost' = lost
    BY <1>3, Zenon DEF OpenNew, Open, SyncLine, NameFile, WriteHead, KeepAlive, AppendFails, HeadFails,
                Kill, Restore, DirectoryLost, ForeignAppend, Publish, Serve, Stop, Repair, Snapshot, Tick,
                vars, ghosts
  <2> QED
    BY <2>1
<1> QED
  BY <1>1, <1>2, <1>3, Steps

LEMMA StandsInit == Init => Stands
  BY DEF Init, Stands, Cover

-----------------------------------------------------------------------------
\* A bad file is never replayed and stays bad.
LEMMA LikeReplays ==
  ASSUME NEW f \in Seq(Line), NEW g, Like(f, g), Replays(f)
  PROVE  Contract!Extends(f, g)
  BY DEF Like, Bad, Replays, Contract!WellFormed, Contract!WellPlaced

LEMMA LikeOn ==
  ASSUME NEW f \in Seq(Line), NEW g \in Seq(Line), NEW h \in Seq(Line),
         Like(f, g), Contract!Extends(g, h)
  PROVE  Like(f, h)
  BY ExtendsOn DEF Like

LEMMA LikeAppend ==
  ASSUME NEW f \in Seq(Line), NEW g \in Seq(Line), NEW l \in Line, Like(f, g)
  PROVE  Like(Append(f, l), g)
<1>1. Append(f, l) \in Seq(Line) /\ Contract!Extends(Append(f, l), f)
  BY AppendIs, ExtendsAppend
<1>2. CASE Contract!Extends(f, g)
  BY <1>1, <1>2, ExtendsOn DEF Like
<1>3. CASE Bad(f)
  <2>1. PICK k \in DOMAIN f : f[k].idx # k - 1 \/ f[k] = Garbage
    BY <1>3 DEF Bad
  <2>2. k \in DOMAIN Append(f, l) /\ Append(f, l)[k] = f[k]
    BY <2>1
  <2> QED
    BY <2>1, <2>2 DEF Like, Bad
<1> QED
  BY <1>2, <1>3 DEF Like

\* A line written after a stray one never becomes part of a history.
LEMMA LikeWritten ==
  ASSUME NEW f \in Seq(Line), NEW g \in Seq(Line), NEW l \in Line, NEW m \in Line,
         Like(f, g), l.idx = Len(g), m = l \/ m = Garbage
  PROVE  Like(Append(f, m), Append(g, l))
<1>1. /\ Len(f) + 1 \in DOMAIN Append(f, m) /\ Append(f, m)[Len(f) + 1] = m
      /\ Len(Append(f, m)) = Len(f) + 1 /\ Len(Append(g, l)) = Len(g) + 1
  OBVIOUS
<1>2. CASE m = Garbage
  BY <1>1, <1>2 DEF Like, Bad
<1>3. CASE Bad(f)
  <2>1. PICK k \in DOMAIN f : f[k].idx # k - 1 \/ f[k] = Garbage
    BY <1>3 DEF Bad
  <2>2. k \in DOMAIN Append(f, m) /\ Append(f, m)[k] = f[k]
    BY <2>1
  <2> QED
    BY <2>1, <2>2 DEF Like, Bad
<1>4. CASE m = l /\ Contract!Extends(f, g)
  <2>1. Len(g) <= Len(f) /\ \A k \in DOMAIN g : f[k] = g[k]
    BY <1>4 DEF Contract!Extends
  <2>2. CASE Len(g) = Len(f)
    <3>1. \A k \in DOMAIN Append(g, l) : Append(f, m)[k] = Append(g, l)[k]
      BY <1>4, <2>1, <2>2
    <3> QED
      BY <1>1, <2>2, <3>1 DEF Like, Contract!Extends
  <2>3. CASE Len(g) < Len(f)
    <3>1. m.idx # Len(f) + 1 - 1
      BY <1>4, <2>3
    <3> QED
      BY <1>1, <3>1 DEF Like, Bad
  <2> QED
    BY <2>1, <2>2, <2>3
<1> QED
  BY <1>2, <1>3, <1>4 DEF Like

\* A failed write taken back leaves the file that was there.
LEMMA LikeCut ==
  ASSUME NEW f \in Seq(Line), NEW g \in Seq(Line), NEW m \in Line, Like(f, g)
  PROVE  Like(Cut(Append(f, m)), g)
<1>1. /\ Append(f, m) \in Seq(Line) /\ Append(f, m) # <<>>
      /\ Len(Append(f, m)) = Len(f) + 1 /\ Len(f) + 1 - 1 = Len(f)
  OBVIOUS
<1>2. /\ Cut(Append(f, m)) \in Seq(Line) /\ Len(Cut(Append(f, m))) = Len(f)
      /\ \A k \in 1 .. Len(f) : Cut(Append(f, m))[k] = Append(f, m)[k]
  <2>1. PICK h \in Seq(Line) : h = Append(f, m)
    BY <1>1
  <2>2. /\ Cut(h) \in Seq(Line) /\ Len(Cut(h)) = Len(h) - 1
        /\ \A k \in 1 .. Len(h) - 1 : Cut(h)[k] = h[k]
    BY <1>1, <2>1, CutIs
  <2> HIDE DEF Cut
  <2>3. Len(h) - 1 = Len(f)
    BY <1>1, <2>1
  <2> QED
    BY <2>1, <2>2, <2>3
<1>3. \A k \in 1 .. Len(f) : Append(f, m)[k] = f[k]
  OBVIOUS
<1>4. Cut(Append(f, m)) = f
  BY <1>2, <1>3
<1> QED
  BY <1>4

\* publish writes only what may follow.
LEMMA PublishFits ==
  ASSUME NEW f \in Seq(Line), NEW l \in Line, Contract!WellFormed(f), l.idx = Len(f), l.sig,
         \A w \in Latest(f, l.label) : l.v > w
  PROVE  Contract!WellFormed(Append(f, l))
<1>1. ASSUME NEW k \in DOMAIN Append(f, l)
      PROVE  Contract!WellPlaced(Append(f, l), k)
  <2>0. /\ Len(f) \in Nat /\ k \in 1 .. Len(f) + 1
        /\ \A j \in 1 .. Len(f) : Append(f, l)[j] = f[j] /\ f[j] \in Line
        /\ Append(f, l)[Len(f) + 1] = l
    OBVIOUS
  <2>1. CASE k \in 1 .. Len(f)
    <3>1. Contract!WellPlaced(f, k)
      BY <2>1 DEF Contract!WellFormed
    <3>2. \A j \in 1 .. k - 1 : j \in 1 .. Len(f)
      BY <2>0, <2>1
    <3> QED
      BY <2>0, <2>1, <3>1, <3>2, Zenon DEF Contract!WellPlaced
  <2>2. CASE k = Len(f) + 1
    <3>1. \A j \in 1 .. k - 1 : j \in DOMAIN f /\ Append(f, l)[j] = f[j]
      BY <2>0, <2>2
    <3>2. Append(f, l)[k] = l /\ l.idx = k - 1
      BY <2>0, <2>2
    <3>3. ASSUME NEW j \in DOMAIN f, f[j].label = l.label
          PROVE  f[j].v < l.v
      <4>1. f[j].v \in Latest(f, l.label)
        BY <3>3 DEF Latest
      <4>2. f[j] \in Line
        BY <2>0, <3>3
      <4>3. f[j].v \in Nat /\ l.v \in Nat
        BY <4>2 DEF Line
      <4> QED
        BY <4>1, <4>3
    <3> QED
      BY <3>1, <3>2, <3>3, Zenon DEF Contract!WellPlaced
  <2> QED
    BY <2>0, <2>1, <2>2
<1> QED
  BY <1>1 DEF Contract!WellFormed

\* What is in memory is well formed, and so is what will be.
LEMMA FormedStep ==
  ASSUME Inv, History, [Next]_vars
  PROVE  Contract!WellFormed(log') /\ Fits'
<1>0. TypeRam /\ TypeFile /\ TypeHead
  BY TypeParts DEF Inv
<1>1. Contract!WellFormed(<<>>)
  BY DEF Contract!WellFormed
<1>2. CASE OpenNew \/ Open
  <2>1. pc' \in {"ready", "head"} /\ log' = file /\ Replays(file)
    BY <1>2 DEF OpenNew, Open
  <2> QED
    BY <2>1 DEF Replays, Fits
<1>3. ASSUME NEW l \in Label, NEW v \in 1 .. MaxVersion, NEW x \in Val, Publish(l, v, x)
      PROVE  Contract!WellFormed(log') /\ Fits'
  <2>1. PICK line : line = [idx |-> Len(log), label |-> l, v |-> v, sig |-> TRUE, val |-> x]
    OBVIOUS
  <2>2. log' = log /\ draft' = line /\ \A w \in Latest(log, l) : v > w
    BY <1>3, <2>1 DEF Publish
  <2>3. line \in Line /\ line.idx = Len(log) /\ line.sig
    BY <1>0, <2>1, LineIs DEF TypeRam
  <2>4. line.label = l /\ line.v = v
    BY <2>1
  <2>5. Contract!WellFormed(Append(log, line))
    BY <1>0, <2>2, <2>3, <2>4, PublishFits DEF TypeRam, History
  <2> QED
    BY <2>2, <2>5 DEF History, Fits
<1>4. ASSUME Apply, pc \in {"first", "line", "name"}
      PROVE  Contract!WellFormed(log') /\ Fits'
  BY <1>4 DEF Apply, Fits, History
<1>5. CASE SyncLine
  <2>1. pc \in {"first", "line"}
    BY <1>5 DEF SyncLine
  <2>2. Apply \/ UNCHANGED <<log, draft>>
    BY <1>5, Zenon DEF SyncLine
  <2> QED
    BY <1>4, <2>1, <2>2 DEF Fits, History
<1>6. CASE NameFile
  BY <1>4, <1>6 DEF NameFile
<1>7. ASSUME pc' \in {"off", "ready", "head", "dir"}, log' \in {<<>>, log}
      PROVE  Contract!WellFormed(log') /\ Fits'
  BY <1>1, <1>7 DEF Fits, History
<1>8. CASE \/ WriteHead \/ HeadRecorded \/ KeepAlive \/ AppendFails \/ HeadFails \/ Kill
           \/ PowerLoss \/ Restore \/ DirectoryLost \/ Serve \/ Stop \/ Repair \/ Tick
           \/ \E l \in Label, v \in 1 .. MaxVersion : ForeignAppend(l, v)
  <2>1. pc' \in {"off", "ready", "head", "dir"} /\ log' \in {<<>>, log}
    BY <1>8, Zenon DEF WriteHead, HeadRecorded, KeepAlive, AppendFails, HeadFails, Kill, PowerLoss,
                Restore, DirectoryLost, Forget, Serve, Stop, Repair, Tick, ForeignAppend, ram
  <2> QED
    BY <1>7, <2>1
<1>9. CASE Snapshot \/ UNCHANGED vars
  <2>1. UNCHANGED <<pc, log, draft>>
    BY <1>9 DEF Snapshot, vars, ram
  <2> QED
    BY <2>1 DEF Fits, History
<1> QED
  BY <1>2, <1>3, <1>5, <1>6, <1>8, <1>9, Steps

\* What is given out is what the file holds, until the machine's power is lost.
LEMMA FollowsStep ==
  ASSUME NoRestore, Inv, History, [Next]_vars, "power" \notin met'
  PROVE  Follows'
<1>0. /\ file \in Seq(Line) /\ log \in Seq(Line) /\ promised \in Seq(Line) /\ head \in came
      /\ TypeRam /\ Writing /\ Drafting
  BY TypeParts DEF Inv, TypeRam, TypeFile, TypeHead, TypeTold
<1>1. Follows
  <2>1. met' = met \/ \E kind : met' = met \cup {kind}
    <3>0. TypeHead
      BY TypeParts DEF Inv
    <3>1. ASSUME NEW kind, Fault(kind)
          PROVE  met' = met \/ \E k : met' = met \cup {k}
      BY <3>1 DEF Fault
    <3>2. CASE \/ AppendFails \/ HeadFails \/ Kill \/ PowerLoss \/ Restore \/ DirectoryLost
               \/ \E l \in Label, v \in 1 .. MaxVersion : ForeignAppend(l, v)
      <4>1. \E kind : Fault(kind)
        BY <3>2 DEF AppendFails, HeadFails, Kill, PowerLoss, Restore, DirectoryLost, ForeignAppend
      <4> QED
        BY <3>1, <4>1
    <3>3. CASE \/ OpenNew \/ Open \/ SyncLine \/ WriteHead \/ KeepAlive
               \/ \E l \in Label, v \in 1 .. MaxVersion, x \in Val : Publish(l, v, x)
               \/ Serve \/ Stop \/ Snapshot \/ Tick \/ UNCHANGED vars
      BY <3>3, Zenon DEF OpenNew, Open, SyncLine, WriteHead, KeepAlive, Publish, Serve, Stop, Snapshot,
                  Tick, vars, faults
    <3>4. CASE NameFile \/ HeadRecorded \/ Repair
      <4>1. SyncDir
        BY <3>4 DEF NameFile, HeadRecorded, Repair
      <4> QED
        BY <3>0, <3>1, <4>1, SyncDirIs DEF faults
    <3> QED
      BY <3>2, <3>3, <3>4, Steps
  <2> QED
    BY <2>1 DEF History
<1>2. ASSUME pc' = "off", promised' = promised, Like(file', promised)
      PROVE  Follows'
  BY <1>2 DEF Follows
<1>3. ASSUME NEW f \in Seq(Line), Like(f, log), Contract!Extends(log, promised)
      PROVE  Like(f, promised)
  BY <1>0, <1>3, LikeOn
<1>4. CASE OpenNew \/ Open
  <2>1. /\ pc = "off" /\ Replays(file) /\ Enough(file) /\ log' = file
        /\ pc' \in {"ready", "head"} /\ UNCHANGED <<file, promised>>
    BY <1>4 DEF OpenNew, Open, disk
  <2>2. ~Gone
    BY <2>1, ParamAssumption DEF Gone, Enough
  <2>3. Contract!Extends(file, promised)
    BY <1>0, <1>1, <2>1, <2>2, LikeReplays DEF Follows
  <2>4. Like(file, file)
    BY <1>0, ExtendsSelf DEF Like
  <2> QED
    BY <2>1, <2>3, <2>4 DEF Follows
<1>5. ASSUME NEW l \in Label, NEW v \in 1 .. MaxVersion, NEW x \in Val, Publish(l, v, x)
      PROVE  Follows'
  <2>1. PICK line : line = [idx |-> Len(log), label |-> l, v |-> v, sig |-> TRUE, val |-> x]
    OBVIOUS
  <2>2. /\ pc = "ready" /\ pc' \in {"first", "line"} /\ draft' = line
        /\ file' = Append(file, IF torn THEN Garbage ELSE line)
        /\ UNCHANGED <<log, promised>>
    BY <1>5, <2>1 DEF Publish
  <2>3. line \in Line /\ line.idx = Len(log)
    BY <1>0, <2>1, LineIs DEF TypeRam
  <2>4. PICK m \in Line : file' = Append(file, m) /\ (m = line \/ m = Garbage)
    BY <2>2, <2>3, GarbageIs
  <2>5. Like(file, log) /\ Contract!Extends(log, promised)
    BY <1>1, <2>2 DEF Follows
  <2>6. Like(file', Append(log, line))
    BY <1>0, <2>3, <2>4, <2>5, LikeWritten
  <2>7. Like(Cut(file'), log)
    BY <1>0, <2>4, <2>5, LikeCut
  <2> QED
    BY <2>2, <2>5, <2>6, <2>7 DEF Follows
<1>6. ASSUME Apply, pc \in {"first", "line", "name"}, UNCHANGED <<file, promised>>
      PROVE  Follows'
  <2>1. /\ log' = Append(log, draft) /\ draft \in Line /\ pc' = "head"
        /\ Like(file, Append(log, draft)) /\ Contract!Extends(log, promised)
    BY <1>0, <1>1, <1>6 DEF Apply, Drafting, Follows
  <2>2. Append(log, draft) \in Seq(Line) /\ Contract!Extends(Append(log, draft), log)
    BY <1>0, <2>1, AppendIs, ExtendsAppend
  <2>3. Contract!Extends(Append(log, draft), promised)
    BY <1>0, <2>1, <2>2, ExtendsOn
  <2> QED
    BY <1>6, <2>1, <2>3 DEF Follows
<1>7. CASE SyncLine
  <2>1. pc \in {"first", "line"} /\ UNCHANGED <<file, promised>>
    BY <1>7 DEF SyncLine
  <2>2. Apply \/ (pc' = "name" /\ UNCHANGED <<log, draft>>)
    BY <1>7, Zenon DEF SyncLine
  <2> QED
    BY <1>1, <1>6, <2>1, <2>2 DEF Follows
<1>8. CASE NameFile
  BY <1>6, <1>8 DEF NameFile
<1>9. ASSUME pc \in {"first", "line"}
      PROVE  Like(file, log) /\ Like(Cut(file), log) /\ Cut(file) \in Seq(Line)
  <2>1. Like(file, Append(log, draft)) /\ Like(Cut(file), log) /\ draft \in Line /\ file # <<>>
    BY <1>0, <1>1, <1>9 DEF Follows, Drafting, Writing
  <2>2. Append(log, draft) \in Seq(Line) /\ Contract!Extends(Append(log, draft), log)
    BY <1>0, <2>1, AppendIs, ExtendsAppend
  <2> QED
    BY <1>0, <2>1, <2>2, LikeOn, CutIs
<1>10. CASE AppendFails
  <2>1. /\ pc \in {"first", "line"} /\ pc' = "ready" /\ UNCHANGED <<log, promised>>
        /\ file' = file \/ file' = Cut(file)
    BY <1>10, Zenon DEF AppendFails
  <2>2. Like(file', log)
    BY <1>9, <2>1
  <2> QED
    BY <1>1, <2>1, <2>2 DEF Follows
<1>11. ASSUME pc \in {"ready", "head", "dir"}, pc' \in {"ready", "head", "dir"}, file' = file, log' = log,
              promised' \in {promised, log}
      PROVE  Follows'
  <2>1. Like(file, log) /\ Contract!Extends(log, promised')
    BY <1>0, <1>1, <1>11, ExtendsSelf DEF Follows
  <2> QED
    BY <1>11, <2>1 DEF Follows
<1>12. CASE HeadRecorded \/ HeadFails
  <2>1. /\ pc \in {"dir", "head"} /\ file' = file /\ promised' \in {promised, log}
        /\ \/ pc' = "ready" /\ log' = log
           \/ pc' = "off" /\ promised' = promised
    BY <1>12, Zenon DEF HeadRecorded, HeadFails, disk
  <2>2. Like(file, promised)
    BY <1>0, <1>1, <1>3, <2>1 DEF Follows
  <2> QED
    BY <1>2, <1>11, <2>1, <2>2
<1>13. CASE WriteHead \/ KeepAlive \/ Stop \/ Serve
  <2>1. /\ pc \in {"ready", "head", "dir"} /\ pc' \in {"ready", "head", "dir"}
        /\ file' = file /\ log' = log /\ promised' \in {promised, log}
    BY <1>13, Zenon DEF WriteHead, KeepAlive, Stop, Serve, ram, disk
  <2> QED
    BY <1>11, <2>1
<1>14. CASE Kill
  <2>1. /\ pc # "off" /\ pc' = "off" /\ promised' = promised
        /\ file' = file \/ (pc \in {"first", "line"} /\ file' = Cut(file))
    BY <1>14, Zenon DEF Kill, Forget
  <2>2. Contract!Extends(log, promised)
    BY <1>1, <2>1 DEF Follows
  <2>3. Like(file, log)
    <3>1. CASE pc = "name"
      <4>1. Like(file, Append(log, draft)) /\ draft \in Line
        BY <1>0, <1>1, <3>1 DEF Follows, Drafting
      <4>2. Append(log, draft) \in Seq(Line) /\ Contract!Extends(Append(log, draft), log)
        BY <1>0, <4>1, AppendIs, ExtendsAppend
      <4> QED
        BY <1>0, <4>1, <4>2, LikeOn
    <3>2. CASE pc # "name"
      BY <1>0, <1>1, <1>9, <2>1, <3>2 DEF Follows, TypeRam
    <3> QED
      BY <3>1, <3>2
  <2>4. Like(file', promised)
    BY <1>0, <1>3, <1>9, <2>1, <2>2, <2>3
  <2> QED
    BY <1>2, <2>1, <2>4
<1>15. CASE PowerLoss \/ Restore
  BY <1>15 DEF PowerLoss, Restore, Fault, NoRestore
<1>16. CASE DirectoryLost
  <2>1. /\ pc' = "off" /\ file' = <<>> /\ came' = {None} /\ promised' = promised
        /\ MinSize > 0 /\ Len(promised) >= MinSize
    BY <1>16 DEF DirectoryLost, Forget
  <2> QED
    BY <2>1 DEF Follows, Gone
<1>17. ASSUME NEW l \in Label, NEW v \in 1 .. MaxVersion, ForeignAppend(l, v)
       PROVE  Follows'
  <2>1. PICK line : line = [idx |-> Len(file), label |-> l, v |-> v, sig |-> FALSE, val |-> "forged"]
    OBVIOUS
  <2>2. /\ pc \in {"off", "ready"} /\ head # None /\ file' = Append(file, line)
        /\ UNCHANGED <<pc, log, promised>>
    BY <1>17, <2>1 DEF ForeignAppend, ram
  <2>3. line \in Line
    BY <1>0, <2>1, ForgedIs
  <2>4. CASE pc = "off"
    <3>1. Like(file, promised)
      BY <1>0, <1>1, <2>2, <2>4 DEF Follows, Gone
    <3>2. Like(file', promised)
      BY <1>0, <2>2, <2>3, <3>1, LikeAppend
    <3> QED
      BY <1>2, <2>2, <2>4, <3>2
  <2>5. CASE pc = "ready"
    <3>1. Like(file', log)
      BY <1>0, <1>1, <2>2, <2>3, <2>5, LikeAppend DEF Follows
    <3> QED
      BY <1>1, <2>2, <2>5, <3>1 DEF Follows
  <2> QED
    BY <2>2, <2>4, <2>5
<1>18. CASE Repair
  <2>1. /\ pc = "off" /\ SyncDir /\ UNCHANGED <<pc, file, promised>>
    BY <1>18 DEF Repair
  <2>2. came' = {head} \/ came' = came
    BY <2>1 DEF SyncDir
  <2>3. Gone => Gone'
    BY <1>0, <2>1, <2>2 DEF Gone
  <2> QED
    BY <1>1, <2>1, <2>3 DEF Follows
<1>19. CASE Snapshot \/ Tick \/ UNCHANGED vars
  <2>1. UNCHANGED <<pc, log, draft, file, came, promised>>
    BY <1>19 DEF Snapshot, Tick, vars, ram, disk
  <2> QED
    BY <1>1, <2>1 DEF Follows, Gone
<1> QED
  BY <1>4, <1>5, <1>7, <1>8, <1>10, <1>12, <1>13, <1>14, <1>15, <1>16, <1>17, <1>18, <1>19, Steps

LEMMA HistoryInit == Init => History
<1> SUFFICES ASSUME Init PROVE History
  OBVIOUS
<1>1. Contract!WellFormed(log) /\ Fits
  BY DEF Init, Contract!WellFormed, Fits
<1>2. Like(file, promised)
  BY TypeInit, ExtendsSelf DEF Init, Like, TypeOK
<1> QED
  BY <1>1, <1>2 DEF Init, History, Follows

\* A head that is given out commits to a longer history than the last one.
LEMMA GivesMore ==
  ASSUME NoRestore, Inv, History, [Next]_vars
  PROVE  ["power" \notin met' => Contract!Next]_promised
<1> SUFFICES ASSUME "power" \notin met', promised' # promised
             PROVE  Contract!Next
  OBVIOUS
<1>1. CASE HeadRecorded \/ Serve
  <2>0. TypeHead
    BY TypeParts DEF Inv
  <2>1. promised' = log /\ pc # "off" /\ (SyncDir \/ met' = met)
    BY <1>1, Zenon DEF HeadRecorded, Serve, faults
  <2>3. "power" \notin met
    <3>1. met' = met \/ met' = met \cup {"io"}
      BY <2>0, <2>1, SyncDirIs DEF faults, Fault
    <3> QED
      BY <3>1
  <2>2. Contract!Extends(log, promised) /\ Contract!WellFormed(log)
    BY <2>1, <2>3 DEF History, Follows
  <2> QED
    BY <2>1, <2>2 DEF Contract!Next
<1>2. CASE \/ OpenNew \/ Open \/ SyncLine \/ NameFile \/ WriteHead \/ KeepAlive
           \/ AppendFails \/ HeadFails \/ Kill \/ PowerLoss \/ Restore \/ DirectoryLost
           \/ \E l \in Label, v \in 1 .. MaxVersion : ForeignAppend(l, v)
           \/ \E l \in Label, v \in 1 .. MaxVersion, x \in Val : Publish(l, v, x)
           \/ Stop \/ Repair \/ Snapshot \/ Tick \/ UNCHANGED vars
  <2>1. promised' = promised
    BY <1>2, Zenon DEF OpenNew, Open, SyncLine, NameFile, WriteHead, KeepAlive, AppendFails, HeadFails,
                Kill, PowerLoss, Restore, DirectoryLost, ForeignAppend, Publish, Stop, Repair, Snapshot,
                Tick, vars
  <2> QED
    BY <2>1
<1> QED
  BY <1>1, <1>2, Steps

\* Every reachable state of the log and its disk is well typed (log.js 248-1168).
THEOREM TypeCorrect == Spec => []TypeOK
<1>1. Spec => []Inv
  BY InvInit, InvStep, PTL DEF Spec
<1> QED
  BY <1>1, PTL DEF Inv

\* No line the log did not write is ever served, whatever fails, however often,
\* and whatever is appended to its file: a start refuses it (_checkAgainstLastHead,
\* _checkSignature).  The one exception: the only head was not synced (_syncDir
\* swallows that, and a kill forestalls it), something appended a line, and the
\* machine lost power and came back with that line and without the head.
THEOREM NoForgeryServed == Spec => []NoForgedLine
<1>1. Spec => []Inv
  BY InvInit, InvStep, PTL DEF Spec
<1>2. Inv => NoForgedLine
  BY DEF Inv, Marks, Genuine, Foreign, NoForgedLine
<1> QED
  BY <1>1, <1>2, PTL

\* Unless an old copy of its disk is restored, what the log answered 201 for
\* stands in every history it opens with, after any number of kills, power
\* losses, failed writes, foreign lines and lost directories.  The one exception:
\* a directory could not be synced, which _syncDir swallows, and the machine lost
\* power before one was, and came back with an older head.
THEOREM AckStands ==
  ASSUME NoRestore
  PROVE  Spec => []AckedStands
<1>1. Init => Inv /\ (lost \/ Stands)
  BY InvInit, StandsInit
<1>2. Inv /\ (lost \/ Stands) /\ [Next]_vars => (Inv /\ (lost \/ Stands))'
  BY InvStep, StandsStep, LostStep
<1>3. lost \/ Stands => AckedStands
  BY DEF Stands, AckedStands
<1> QED
  BY <1>1, <1>2, <1>3, PTL DEF Spec

\* Unless an old copy of its disk is restored, the log implements the
\* append-only contract until the machine's power is lost, through any number of
\* kills, failed writes, stray lines and lost directories.
THEOREM Implements ==
  ASSUME NoRestore
  PROVE  Spec => AppendOnly
<1>1. Init => Inv /\ History
  BY InvInit, HistoryInit
<1>2. Inv /\ History /\ [Next]_vars => (Inv /\ History)'
  <2>1. ASSUME Inv, History, [Next]_vars PROVE History'
    BY <2>1, FormedStep, FollowsStep DEF History
  <2> QED
    BY <2>1, InvStep
<1>3. Inv /\ History /\ [Next]_vars => ["power" \notin met' => Contract!Next]_promised
  BY GivesMore
<1> QED
  BY <1>1, <1>2, <1>3, PTL DEF Spec, AppendOnly

-----------------------------------------------------------------------------
(***************************************************************************)
(* The log tree.  NodeAt is the hash of the h-th level's i-th node; a path *)
(* and a proof are the siblings on the way up from a leaf, and the         *)
(* verifier's counters fn and sn are the node it is at and the last of its *)
(* level.                                                                  *)
(***************************************************************************)

\* A set of naturals that has each one all of whose smaller ones it has is all
\* of them.
LEMMA ByLess ==
  ASSUME NEW F, \A n \in Nat : (\A m \in Nat : m < n => m \in F) => n \in F
  PROVE  \A n \in Nat : n \in F
<1> DEFINE R == {p \in Nat \X Nat : p[1] < p[2]}
           Lacks == {n \in Nat : n \notin F}
<1>1. IsWellFoundedOn(OpToRel(<, Nat), Nat)
  BY NatLessThanWellFounded
<1>2. OpToRel(<, Nat) = R
  BY DEF OpToRel
<1>3. IsWellFoundedOn(R, Nat)
  BY <1>1, <1>2
<1>4. \A x, y \in Nat : x < y => <<x, y>> \in R
  OBVIOUS
<1>5. Lacks \subseteq Nat
  OBVIOUS
<1>6. Lacks = {}
  <2>1. SUFFICES ASSUME Lacks # {} PROVE FALSE
    OBVIOUS
  <2>2. PICK x \in Lacks : \A y \in Lacks : ~ (<<y, x>> \in R)
    <3> HIDE DEF R, Lacks
    <3> QED
      BY <1>3, <1>5, <2>1, WFMin, Zenon
  <2>3. \A y \in Nat : y < x => y \in F
    <3> HIDE DEF R
    <3> QED
      BY <1>4, <2>2
  <2>4. x \in Nat /\ x \notin F
    BY <2>2
  <2> HIDE DEF R, Lacks
  <2> QED
    BY <2>3, <2>4
<1> QED
  BY <1>6

\* Induction, with the set for which it holds in the place of a predicate.
LEMMA BySteps ==
  ASSUME NEW F, 0 \in F, \A n \in Nat : n \in F => n + 1 \in F
  PROVE  \A n \in Nat : n \in F
<1>1. ASSUME NEW n \in Nat, \A m \in Nat : m < n => m \in F
      PROVE  n \in F
  <2>1. CASE n = 0
    BY <2>1
  <2>2. CASE n # 0
    <3>1. n - 1 \in Nat /\ n - 1 < n /\ (n - 1) + 1 = n
      BY <2>2
    <3> QED
      BY <1>1, <3>1
  <2> QED
    BY <2>1, <2>2
<1> QED
  BY <1>1, ByLess, Zenon

-----------------------------------------------------------------------------
\* Powers of two.

IsTwo(t, n) == t = [i \in 0 .. n |-> IF i = 0 THEN 1 ELSE 2 * t[i - 1]]

LEMMA TwoExists ==
  ASSUME NEW n \in Nat
  PROVE  \E t : IsTwo(t, n)
<1> DEFINE F == {k \in Nat : \E t : IsTwo(t, k)}
<1>1. 0 \in F
  <2>1. IsTwo([i \in 0 .. 0 |-> 1], 0)
    BY DEF IsTwo
  <2> QED
    BY <2>1
<1>2. ASSUME NEW k \in Nat, k \in F
      PROVE  k + 1 \in F
  <2>1. PICK t : IsTwo(t, k)
    BY <1>2
  <2> DEFINE u == [i \in 0 .. k + 1 |-> IF i = 0 THEN 1 ELSE 2 * t[i - 1]]
  <2>2. \A i \in 0 .. k : u[i] = t[i]
    BY <2>1 DEF IsTwo
  <2>3. \A i \in 0 .. k + 1 : i # 0 => i - 1 \in 0 .. k
    OBVIOUS
  <2>4. u = [i \in 0 .. k + 1 |-> IF i = 0 THEN 1 ELSE 2 * u[i - 1]]
    BY <2>2, <2>3
  <2>5. IsTwo(u, k + 1)
    BY <2>4 DEF IsTwo
  <2> HIDE DEF u
  <2> QED
    BY <2>5
<1> HIDE DEF F
<1>3. n \in F
  BY <1>1, <1>2, BySteps
<1> QED
  BY <1>3 DEF F

LEMMA TwoSame ==
  ASSUME NEW n \in Nat, NEW m \in Nat, NEW t, IsTwo(t, n), NEW u, IsTwo(u, m)
  PROVE  \A i \in Nat : i <= n /\ i <= m => t[i] = u[i]
<1> DEFINE F == {i \in Nat : i <= n /\ i <= m => t[i] = u[i]}
<1>1. 0 \in F
  BY DEF IsTwo
<1>2. ASSUME NEW i \in Nat, i \in F
      PROVE  i + 1 \in F
  <2>1. SUFFICES ASSUME i + 1 <= n, i + 1 <= m PROVE t[i + 1] = u[i + 1]
    OBVIOUS
  <2>2. t[i + 1] = 2 * t[i] /\ u[i + 1] = 2 * u[i]
    BY <2>1 DEF IsTwo
  <2> QED
    BY <1>2, <2>1, <2>2
<1> HIDE DEF F
<1>3. \A i \in Nat : i \in F
  BY <1>1, <1>2, BySteps
<1> QED
  BY <1>3 DEF F

LEMMA TwoIs ==
  ASSUME NEW n \in Nat
  PROVE  \E t : IsTwo(t, n) /\ two(n) = t[n]
<1>1. PICK t : t = CHOOSE u : IsTwo(u, n)
  OBVIOUS
<1>2. IsTwo(t, n)
  BY <1>1, TwoExists, Zenon
<1>3. two(n) = t[n]
  BY <1>1 DEF two, IsTwo
<1> QED
  BY <1>2, <1>3

LEMMA TwoZero == two(0) = 1
BY TwoIs DEF IsTwo

LEMMA TwoNext ==
  ASSUME NEW h \in Nat
  PROVE  two(h + 1) = 2 * two(h)
<1>1. PICK t : IsTwo(t, h) /\ two(h) = t[h]
  BY TwoIs
<1>2. PICK u : IsTwo(u, h + 1) /\ two(h + 1) = u[h + 1]
  BY TwoIs
<1>3. u[h] = t[h]
  BY <1>1, <1>2, TwoSame
<1>4. u[h + 1] = 2 * u[h]
  BY <1>2 DEF IsTwo
<1> QED
  BY <1>1, <1>2, <1>3, <1>4

LEMMA TwoGrows ==
  \A h \in Nat : two(h) \in Nat /\ two(h) > h
<1> DEFINE F == {h \in Nat : two(h) \in Nat /\ two(h) > h}
<1>1. 0 \in F
  BY TwoZero
<1>2. ASSUME NEW h \in Nat, h \in F
      PROVE  h + 1 \in F
  BY <1>2, TwoNext
<1> HIDE DEF F
<1>3. \A h \in Nat : h \in F
  BY <1>1, <1>2, BySteps
<1> QED
  BY <1>3 DEF F

LEMMA TwoRises ==
  ASSUME NEW i \in Nat, NEW d \in Nat
  PROVE  two(i) <= two(i + d) /\ (d > 0 => 2 * two(i) <= two(i + d))
<1> DEFINE F == {e \in Nat : two(i) <= two(i + e) /\ (e > 0 => 2 * two(i) <= two(i + e))}
<1>1. 0 \in F
  BY TwoGrows
<1>2. ASSUME NEW e \in Nat, e \in F
      PROVE  e + 1 \in F
  <2>1. two(i + (e + 1)) = 2 * two(i + e)
    BY TwoNext
  <2>2. two(i) \in Nat /\ two(i + e) \in Nat
    BY TwoGrows
  <2> QED
    BY <1>2, <2>1, <2>2
<1> HIDE DEF F
<1>3. d \in F
  BY <1>1, <1>2, BySteps
<1> QED
  BY <1>3 DEF F

\* The split of n leaves whose number lies between two powers.
LEMMA SplitIs ==
  ASSUME NEW h \in Nat, NEW n \in Nat, two(h) < n, n <= 2 * two(h)
  PROVE  largestPowerOfTwoBelow(n) = two(h)
<1> DEFINE Good(g) == 2 * two(g) >= n /\ \A i \in 0 .. g - 1 : 2 * two(i) < n
<1>1. \A g \in Nat : two(g) \in Nat /\ two(g) > g
  BY TwoGrows
<1>2. h \in 0 .. n
  BY <1>1
<1>3. Good(h)
  <2>1. ASSUME NEW i \in 0 .. h - 1 PROVE 2 * two(i) < n
    <3>1. PICK d \in Nat : d > 0 /\ i + d = h
      <4>1. h - i \in Nat /\ h - i > 0 /\ i + (h - i) = h
        OBVIOUS
      <4> QED
        BY <4>1
    <3>2. 2 * two(i) <= two(i + d)
      BY <3>1, TwoRises
    <3> QED
      BY <3>1, <3>2, <1>1
  <2> QED
    BY <2>1
<1>4. ASSUME NEW g \in 0 .. n, Good(g) PROVE g = h
  <2>1. ~(g < h)
    BY <1>3, <1>4, <1>1
  <2>2. ~(h < g)
    BY <1>3, <1>4, <1>1
  <2> QED
    BY <2>1, <2>2
<1>5. (CHOOSE g \in 0 .. n : Good(g)) = h
  <2> HIDE DEF Good
  <2> QED
    BY <1>2, <1>3, <1>4
<1> QED
  BY <1>5 DEF largestPowerOfTwoBelow

\* Every number of leaves lies between two powers.
LEMMA Between ==
  ASSUME NEW n \in Nat, n > 1
  PROVE  \E h \in Nat : two(h) < n /\ n <= 2 * two(h)
<1> DEFINE F == {h \in Nat : two(h) < n}
<1>1. \A g \in Nat : two(g) \in Nat /\ two(g) > g /\ two(g + 1) = 2 * two(g)
  BY TwoGrows, TwoNext
<1>2. SUFFICES ASSUME \A h \in Nat : two(h) < n => 2 * two(h) < n PROVE FALSE
  BY <1>1
<1>3. 0 \in F
  BY TwoZero
<1>4. \A h \in Nat : h \in F => h + 1 \in F
  BY <1>1, <1>2
<1>5. n \in F
  <2> HIDE DEF F
  <2> QED
    BY <1>3, <1>4, BySteps
<1> QED
  BY <1>5, <1>1

LEMMA SplitInside ==
  ASSUME NEW n \in Nat, n > 1
  PROVE  largestPowerOfTwoBelow(n) \in 1 .. n - 1
<1>1. PICK h \in Nat : two(h) < n /\ n <= 2 * two(h)
  BY Between
<1> QED
  BY <1>1, SplitIs, TwoGrows

-----------------------------------------------------------------------------
\* The hash of a range.

Ranges(n) == (0 .. n) \X (0 .. n)

HashOn(g, leaves, r) ==
  LET n == r[2] - r[1]
      cut == r[1] + largestPowerOfTwoBelow(n)
  IN IF n <= 0 THEN <<"none">>
     ELSE IF n = 1 THEN leaves[r[2]]
     ELSE hashNode(g[<<r[1], cut>>], g[<<cut, r[2]>>])

IsHash(g, leaves, n) == g = [r \in Ranges(n) |-> HashOn(g, leaves, r)]

\* It follows from what it is of shorter ranges.
LEMMA HashBody ==
  ASSUME NEW leaves, NEW n \in Nat, NEW m \in Nat, NEW r \in Ranges(n), r \in Ranges(m), NEW g, NEW h,
         \A q \in Ranges(n) : q \in Ranges(m) /\ q[2] - q[1] < r[2] - r[1] => g[q] = h[q]
  PROVE  HashOn(g, leaves, r) = HashOn(h, leaves, r)
<1>1. r[1] \in 0 .. n /\ r[2] \in 0 .. n /\ r[2] \in 0 .. m /\ r[1] \in 0 .. m
  BY DEF Ranges
<1>2. CASE r[2] - r[1] > 1
  <2> DEFINE k == largestPowerOfTwoBelow(r[2] - r[1])
  <2>1. k \in 1 .. r[2] - r[1] - 1
    BY <1>1, <1>2, SplitInside
  <2> HIDE DEF k
  <2>2. PICK cut : cut = r[1] + k
    OBVIOUS
  <2>3. cut \in Int /\ r[1] < cut /\ cut < r[2]
    BY <1>1, <2>1, <2>2
  <2>4. /\ <<r[1], cut>> \in Ranges(n) /\ <<r[1], cut>> \in Ranges(m)
        /\ <<cut, r[2]>> \in Ranges(n) /\ <<cut, r[2]>> \in Ranges(m)
    BY <1>1, <2>3 DEF Ranges
  <2>5. g[<<r[1], cut>>] = h[<<r[1], cut>>] /\ g[<<cut, r[2]>>] = h[<<cut, r[2]>>]
    BY <1>1, <2>3, <2>4
  <2>6. HashOn(g, leaves, r) = hashNode(g[<<r[1], cut>>], g[<<cut, r[2]>>])
    BY <1>1, <1>2, <2>2 DEF HashOn, k
  <2>7. HashOn(h, leaves, r) = hashNode(h[<<r[1], cut>>], h[<<cut, r[2]>>])
    BY <1>1, <1>2, <2>2 DEF HashOn, k
  <2> QED
    BY <2>5, <2>6, <2>7, Zenon
<1>3. CASE r[2] - r[1] <= 1
  BY <1>1, <1>3 DEF HashOn
<1> QED
  BY <1>1, <1>2, <1>3

LEMMA HashExists ==
  ASSUME NEW leaves, NEW n \in Nat
  PROVE  \E g : IsHash(g, leaves, n)
<1> DEFINE Upto(g, s) == \A r \in Ranges(n) : r[2] - r[1] + n < s => g[r] = HashOn(g, leaves, r)
           F == {s \in Nat : \E g : Upto(g, s) /\ g = [r \in Ranges(n) |-> g[r]]}
<1>1. \A r \in Ranges(n) : r[1] \in 0 .. n /\ r[2] \in 0 .. n
  BY DEF Ranges
<1>2. 0 \in F
  <2>1. PICK g : g = [r \in Ranges(n) |-> 0]
    OBVIOUS
  <2>2. Upto(g, 0) /\ g = [r \in Ranges(n) |-> g[r]]
    BY <1>1, <2>1
  <2> HIDE DEF Upto
  <2> QED
    BY <2>2
<1>3. ASSUME NEW s \in Nat, s \in F
      PROVE  s + 1 \in F
  <2>1. PICK g : Upto(g, s)
    BY <1>3
  <2> DEFINE h == [r \in Ranges(n) |-> HashOn(g, leaves, r)]
  <2>2. h = [r \in Ranges(n) |-> h[r]]
    OBVIOUS
  <2>3. \A r \in Ranges(n) : h[r] = HashOn(g, leaves, r) /\ (r[2] - r[1] + n < s => h[r] = g[r])
    BY <2>1
  <2> HIDE DEF h
  <2>4. ASSUME NEW r \in Ranges(n), r[2] - r[1] + n < s + 1
        PROVE  h[r] = HashOn(h, leaves, r)
    <3>1. ASSUME NEW q \in Ranges(n), q[2] - q[1] < r[2] - r[1]
          PROVE  g[q] = h[q]
      <4>1. q[2] - q[1] + n < s
        BY <1>1, <2>4, <3>1
      <4> QED
        BY <2>3, <4>1
    <3>2. HashOn(g, leaves, r) = HashOn(h, leaves, r)
      BY <3>1, HashBody
    <3> QED
      BY <2>3, <3>2, Zenon
  <2>5. Upto(h, s + 1)
    BY <2>4
  <2> HIDE DEF Upto
  <2> QED
    BY <2>2, <2>5
<1>4. 2 * n + 1 \in F
  <2> HIDE DEF F
  <2> QED
    BY <1>2, <1>3, BySteps
<1>5. PICK g : Upto(g, 2 * n + 1) /\ g = [r \in Ranges(n) |-> g[r]]
  BY <1>4
<1>6. \A r \in Ranges(n) : g[r] = HashOn(g, leaves, r)
  BY <1>1, <1>5
<1>7. g = [r \in Ranges(n) |-> HashOn(g, leaves, r)]
  BY <1>5, <1>6
<1> QED
  BY <1>7 DEF IsHash

\* Whatever bound it was computed under.
LEMMA HashSame ==
  ASSUME NEW leaves, NEW n \in Nat, NEW m \in Nat, NEW g, IsHash(g, leaves, n), NEW h, IsHash(h, leaves, m)
  PROVE  \A r \in Ranges(n) : r \in Ranges(m) => g[r] = h[r]
<1> DEFINE F == {s \in Nat : \A r \in Ranges(n) : r \in Ranges(m) /\ r[2] - r[1] + n <= s => g[r] = h[r]}
<1>1. \A r \in Ranges(n) : r[1] \in 0 .. n /\ r[2] \in 0 .. n
  BY DEF Ranges
<1>2. ASSUME NEW s \in Nat, \A t \in Nat : t < s => t \in F
      PROVE  s \in F
  <2>1. SUFFICES ASSUME NEW r \in Ranges(n), r \in Ranges(m), r[2] - r[1] + n <= s
                 PROVE  g[r] = h[r]
    OBVIOUS
  <2>2. ASSUME NEW q \in Ranges(n), q \in Ranges(m), q[2] - q[1] < r[2] - r[1]
        PROVE  g[q] = h[q]
    <3>1. PICK t : t = q[2] - q[1] + n
      OBVIOUS
    <3>2. t \in Nat /\ t < s
      BY <1>1, <2>1, <2>2, <3>1
    <3>3. t \in F /\ q[2] - q[1] + n <= t
      BY <1>2, <3>1, <3>2
    <3> QED
      BY <2>2, <3>3
  <2>3. HashOn(g, leaves, r) = HashOn(h, leaves, r)
    BY <2>1, <2>2, HashBody
  <2>4. g[r] = HashOn(g, leaves, r) /\ h[r] = HashOn(h, leaves, r)
    BY <2>1 DEF IsHash
  <2> QED
    BY <2>3, <2>4, Zenon
<1>3. \A s \in Nat : s \in F
  <2> HIDE DEF F
  <2> QED
    BY <1>2, ByLess
<1>4. SUFFICES ASSUME NEW r \in Ranges(n), r \in Ranges(m) PROVE g[r] = h[r]
  OBVIOUS
<1>5. r[2] - r[1] + n \in Nat
  BY <1>1
<1> QED
  BY <1>3, <1>4, <1>5

LEMMA RangeHash ==
  ASSUME NEW leaves, NEW lo \in Nat, NEW hi \in Nat, lo <= hi
  PROVE  \E g : IsHash(g, leaves, hi) /\ hashRange(leaves, lo, hi) = g[<<lo, hi>>]
<1>1. PICK g : g = CHOOSE h : IsHash(h, leaves, hi)
  OBVIOUS
<1>2. IsHash(g, leaves, hi)
  BY <1>1, HashExists, Zenon
<1>3. hashRange(leaves, lo, hi) = g[<<lo, hi>>]
  BY <1>1 DEF hashRange, IsHash, HashOn, Ranges
<1> QED
  BY <1>2, <1>3

\* What hashRange computes, one call at a time.
LEMMA HashRangeIs ==
  ASSUME NEW leaves, NEW lo \in Nat, NEW hi \in Nat
  PROVE  /\ lo = hi => hashRange(leaves, lo, hi) = <<"none">>
         /\ lo + 1 = hi => hashRange(leaves, lo, hi) = leaves[hi]
         /\ \A h \in Nat : two(h) < hi - lo /\ hi - lo <= 2 * two(h) =>
              hashRange(leaves, lo, hi) = hashNode(hashRange(leaves, lo, lo + two(h)),
                                                   hashRange(leaves, lo + two(h), hi))
<1>1. ASSUME lo <= hi
      PROVE  \E g : IsHash(g, leaves, hi) /\ hashRange(leaves, lo, hi) = g[<<lo, hi>>]
                    /\ g[<<lo, hi>>] = HashOn(g, leaves, <<lo, hi>>)
  <2>1. PICK g : IsHash(g, leaves, hi) /\ hashRange(leaves, lo, hi) = g[<<lo, hi>>]
    BY <1>1, RangeHash
  <2>2. <<lo, hi>> \in Ranges(hi)
    BY <1>1 DEF Ranges
  <2>3. g[<<lo, hi>>] = HashOn(g, leaves, <<lo, hi>>)
    BY <2>1, <2>2 DEF IsHash
  <2> QED
    BY <2>1, <2>3
<1>2. lo = hi => hashRange(leaves, lo, hi) = <<"none">>
  BY <1>1 DEF HashOn
<1>3. lo + 1 = hi => hashRange(leaves, lo, hi) = leaves[hi]
  BY <1>1 DEF HashOn
<1>4. ASSUME NEW h \in Nat, two(h) < hi - lo, hi - lo <= 2 * two(h)
      PROVE  hashRange(leaves, lo, hi) = hashNode(hashRange(leaves, lo, lo + two(h)),
                                                  hashRange(leaves, lo + two(h), hi))
  <2>1. two(h) \in Nat /\ two(h) > 0
    BY TwoGrows
  <2>2. PICK n : n = hi - lo
    OBVIOUS
  <2>3. n \in Nat /\ n > 1 /\ largestPowerOfTwoBelow(n) = two(h)
    BY <1>4, <2>1, <2>2, SplitIs
  <2>4. PICK cut : cut = lo + two(h)
    OBVIOUS
  <2>5. cut \in Nat /\ lo < cut /\ cut < hi
    BY <1>4, <2>1, <2>4
  <2>6. PICK g : IsHash(g, leaves, hi) /\ hashRange(leaves, lo, hi) = g[<<lo, hi>>]
                 /\ g[<<lo, hi>>] = HashOn(g, leaves, <<lo, hi>>)
    BY <1>1, <2>5
  <2>7. HashOn(g, leaves, <<lo, hi>>) = hashNode(g[<<lo, cut>>], g[<<cut, hi>>])
    BY <2>2, <2>3, <2>4 DEF HashOn
  <2>8. PICK f : IsHash(f, leaves, cut) /\ hashRange(leaves, lo, cut) = f[<<lo, cut>>]
    BY <2>5, RangeHash
  <2>9. PICK e : IsHash(e, leaves, hi) /\ hashRange(leaves, cut, hi) = e[<<cut, hi>>]
    BY <2>5, RangeHash
  <2>10. /\ <<lo, cut>> \in Ranges(hi) /\ <<lo, cut>> \in Ranges(cut) /\ <<cut, hi>> \in Ranges(hi)
    BY <2>5 DEF Ranges
  <2>11. f[<<lo, cut>>] = g[<<lo, cut>>] /\ e[<<cut, hi>>] = g[<<cut, hi>>]
    BY <2>5, <2>6, <2>8, <2>9, <2>10, HashSame
  <2> QED
    BY <2>4, <2>6, <2>7, <2>8, <2>9, <2>11, Zenon
<1> QED
  BY <1>2, <1>3, <1>4

-----------------------------------------------------------------------------
\* Audit paths.

PathArgs(n) == (0 .. n) \X (0 .. n) \X (0 .. n)

PathOn(g, leaves, r) ==
  LET n == r[2] - r[1]
      k == largestPowerOfTwoBelow(n)
      cut == r[1] + k
  IN IF n <= 1 THEN <<>>
     ELSE IF r[3] < k THEN Append(g[<<r[1], cut, r[3]>>], hashRange(leaves, cut, r[2]))
     ELSE Append(g[<<cut, r[2], r[3] - k>>], hashRange(leaves, r[1], cut))

IsPath(g, leaves, n) == g = [r \in PathArgs(n) |-> PathOn(g, leaves, r)]

\* It follows from what it is of shorter ranges.
LEMMA PathBody ==
  ASSUME NEW leaves, NEW n \in Nat, NEW m \in Nat, NEW r \in PathArgs(n), r \in PathArgs(m), NEW g, NEW h,
         \A q \in PathArgs(n) : q \in PathArgs(m) /\ q[2] - q[1] < r[2] - r[1] => g[q] = h[q]
  PROVE  PathOn(g, leaves, r) = PathOn(h, leaves, r)
<1>1. /\ r[1] \in 0 .. n /\ r[2] \in 0 .. n /\ r[2] \in 0 .. m /\ r[1] \in 0 .. m
      /\ r[3] \in 0 .. n /\ r[3] \in 0 .. m
  BY DEF PathArgs
<1>2. CASE r[2] - r[1] > 1
  <2> DEFINE k == largestPowerOfTwoBelow(r[2] - r[1])
  <2>1. k \in 1 .. r[2] - r[1] - 1
    BY <1>1, <1>2, SplitInside
  <2> HIDE DEF k
  <2>2. PICK cut : cut = r[1] + k
    OBVIOUS
  <2>3. cut \in Int /\ r[1] < cut /\ cut < r[2]
    BY <1>1, <2>1, <2>2
  <2>4. CASE r[3] < k
    <3>1. <<r[1], cut, r[3]>> \in PathArgs(n) /\ <<r[1], cut, r[3]>> \in PathArgs(m)
      BY <1>1, <2>3 DEF PathArgs
    <3>2. g[<<r[1], cut, r[3]>>] = h[<<r[1], cut, r[3]>>]
      BY <1>1, <2>3, <3>1
    <3>3. PathOn(g, leaves, r) = Append(g[<<r[1], cut, r[3]>>], hashRange(leaves, cut, r[2]))
      BY <1>1, <1>2, <2>2, <2>4 DEF PathOn, k
    <3>4. PathOn(h, leaves, r) = Append(h[<<r[1], cut, r[3]>>], hashRange(leaves, cut, r[2]))
      BY <1>1, <1>2, <2>2, <2>4 DEF PathOn, k
    <3> QED
      BY <3>2, <3>3, <3>4, Zenon
  <2>5. CASE ~(r[3] < k)
    <3> DEFINE q == <<cut, r[2], r[3] - k>>
    <3>1. q \in PathArgs(n) /\ q \in PathArgs(m)
      BY <1>1, <2>1, <2>3, <2>5 DEF PathArgs
    <3>2. g[q] = h[q]
      BY <1>1, <2>3, <3>1
    <3>3. PathOn(g, leaves, r) = Append(g[q], hashRange(leaves, r[1], cut))
      BY <1>1, <1>2, <2>2, <2>5 DEF PathOn, k
    <3>4. PathOn(h, leaves, r) = Append(h[q], hashRange(leaves, r[1], cut))
      BY <1>1, <1>2, <2>2, <2>5 DEF PathOn, k
    <3> QED
      BY <3>2, <3>3, <3>4, Zenon
  <2> QED
    BY <2>4, <2>5
<1>3. CASE r[2] - r[1] <= 1
  BY <1>1, <1>3 DEF PathOn
<1> QED
  BY <1>1, <1>2, <1>3

LEMMA PathExists ==
  ASSUME NEW leaves, NEW n \in Nat
  PROVE  \E g : IsPath(g, leaves, n)
<1> DEFINE Upto(g, s) == \A r \in PathArgs(n) : r[2] - r[1] + n < s => g[r] = PathOn(g, leaves, r)
           F == {s \in Nat : \E g : Upto(g, s) /\ g = [r \in PathArgs(n) |-> g[r]]}
<1>1. \A r \in PathArgs(n) : r[1] \in 0 .. n /\ r[2] \in 0 .. n
  BY DEF PathArgs
<1>2. 0 \in F
  <2>1. PICK g : g = [r \in PathArgs(n) |-> 0]
    OBVIOUS
  <2>2. Upto(g, 0) /\ g = [r \in PathArgs(n) |-> g[r]]
    BY <1>1, <2>1
  <2> HIDE DEF Upto
  <2> QED
    BY <2>2
<1>3. ASSUME NEW s \in Nat, s \in F
      PROVE  s + 1 \in F
  <2>1. PICK g : Upto(g, s)
    BY <1>3
  <2> DEFINE h == [r \in PathArgs(n) |-> PathOn(g, leaves, r)]
  <2>2. h = [r \in PathArgs(n) |-> h[r]]
    OBVIOUS
  <2>3. \A r \in PathArgs(n) : h[r] = PathOn(g, leaves, r) /\ (r[2] - r[1] + n < s => h[r] = g[r])
    BY <2>1
  <2> HIDE DEF h
  <2>4. ASSUME NEW r \in PathArgs(n), r[2] - r[1] + n < s + 1
        PROVE  h[r] = PathOn(h, leaves, r)
    <3>1. ASSUME NEW q \in PathArgs(n), q[2] - q[1] < r[2] - r[1]
          PROVE  g[q] = h[q]
      <4>1. q[2] - q[1] + n < s
        BY <1>1, <2>4, <3>1
      <4> QED
        BY <2>3, <4>1
    <3>2. PathOn(g, leaves, r) = PathOn(h, leaves, r)
      BY <3>1, PathBody
    <3> QED
      BY <2>3, <3>2, Zenon
  <2>5. Upto(h, s + 1)
    BY <2>4
  <2> HIDE DEF Upto
  <2> QED
    BY <2>2, <2>5
<1>4. 2 * n + 1 \in F
  <2> HIDE DEF F
  <2> QED
    BY <1>2, <1>3, BySteps
<1>5. PICK g : Upto(g, 2 * n + 1) /\ g = [r \in PathArgs(n) |-> g[r]]
  BY <1>4
<1>6. \A r \in PathArgs(n) : g[r] = PathOn(g, leaves, r)
  BY <1>1, <1>5
<1>7. g = [r \in PathArgs(n) |-> PathOn(g, leaves, r)]
  BY <1>5, <1>6
<1> QED
  BY <1>7 DEF IsPath

\* Whatever bound it was computed under.
LEMMA PathSame ==
  ASSUME NEW leaves, NEW n \in Nat, NEW m \in Nat, NEW g, IsPath(g, leaves, n), NEW h, IsPath(h, leaves, m)
  PROVE  \A r \in PathArgs(n) : r \in PathArgs(m) => g[r] = h[r]
<1> DEFINE F == {s \in Nat : \A r \in PathArgs(n) : r \in PathArgs(m) /\ r[2] - r[1] + n <= s => g[r] = h[r]}
<1>1. \A r \in PathArgs(n) : r[1] \in 0 .. n /\ r[2] \in 0 .. n
  BY DEF PathArgs
<1>2. ASSUME NEW s \in Nat, \A t \in Nat : t < s => t \in F
      PROVE  s \in F
  <2>1. SUFFICES ASSUME NEW r \in PathArgs(n), r \in PathArgs(m), r[2] - r[1] + n <= s
                 PROVE  g[r] = h[r]
    OBVIOUS
  <2>2. ASSUME NEW q \in PathArgs(n), q \in PathArgs(m), q[2] - q[1] < r[2] - r[1]
        PROVE  g[q] = h[q]
    <3>1. PICK t : t = q[2] - q[1] + n
      OBVIOUS
    <3>2. t \in Nat /\ t < s
      BY <1>1, <2>1, <2>2, <3>1
    <3>3. t \in F /\ q[2] - q[1] + n <= t
      BY <1>2, <3>1, <3>2
    <3> QED
      BY <2>2, <3>3
  <2>3. PathOn(g, leaves, r) = PathOn(h, leaves, r)
    BY <2>1, <2>2, PathBody
  <2>4. g[r] = PathOn(g, leaves, r) /\ h[r] = PathOn(h, leaves, r)
    BY <2>1 DEF IsPath
  <2> QED
    BY <2>3, <2>4, Zenon
<1>3. \A s \in Nat : s \in F
  <2> HIDE DEF F
  <2> QED
    BY <1>2, ByLess
<1>4. SUFFICES ASSUME NEW r \in PathArgs(n), r \in PathArgs(m) PROVE g[r] = h[r]
  OBVIOUS
<1>5. r[2] - r[1] + n \in Nat
  BY <1>1
<1> QED
  BY <1>3, <1>4, <1>5

LEMMA PathFrom ==
  ASSUME NEW leaves, NEW lo \in Nat, NEW hi \in Nat, NEW idx \in Nat, idx < hi - lo
  PROVE  \E g : /\ IsPath(g, leaves, hi) /\ auditPath(leaves, lo, hi, idx) = g[<<lo, hi, idx>>]
                /\ g[<<lo, hi, idx>>] = PathOn(g, leaves, <<lo, hi, idx>>)
<1>1. PICK g : g = CHOOSE h : IsPath(h, leaves, hi)
  OBVIOUS
<1>2. IsPath(g, leaves, hi)
  BY <1>1, PathExists, Zenon
<1>3. auditPath(leaves, lo, hi, idx) = g[<<lo, hi, idx>>]
  BY <1>1 DEF auditPath, IsPath, PathOn, PathArgs
<1>4. <<lo, hi, idx>> \in PathArgs(hi)
  BY DEF PathArgs
<1>5. g[<<lo, hi, idx>>] = PathOn(g, leaves, <<lo, hi, idx>>)
  BY <1>2, <1>4 DEF IsPath
<1> QED
  BY <1>2, <1>3, <1>5

\* What auditPath computes, one call at a time.
\* An Append that the provers take as it stands.
Added(s, e) == Append(s, e)

Cuts(lo, cut, hi, h) == cut = lo + two(h) /\ cut < hi /\ hi <= cut + two(h)

Past(j, x, h) == j = x - two(h)

LEMMA PathOne ==
  ASSUME NEW leaves, NEW lo \in Nat, NEW hi \in Nat, lo + 1 = hi
  PROVE  auditPath(leaves, lo, hi, 0) = <<>>
<1>1. 0 \in Nat /\ 0 < hi - lo
  OBVIOUS
<1>2. PICK g : /\ IsPath(g, leaves, hi) /\ auditPath(leaves, lo, hi, 0) = g[<<lo, hi, 0>>]
               /\ g[<<lo, hi, 0>>] = PathOn(g, leaves, <<lo, hi, 0>>)
  BY <1>1, PathFrom
<1> QED
  BY <1>2 DEF PathOn

PathSplits(leaves, lo, cut, hi, idx, h, j) ==
  Cuts(lo, cut, hi, h) /\ idx < hi - lo /\ Past(j, idx, h) =>
    /\ idx < two(h) =>
         auditPath(leaves, lo, hi, idx) = Added(auditPath(leaves, lo, cut, idx), hashRange(leaves, cut, hi))
    /\ ~(idx < two(h)) =>
         auditPath(leaves, lo, hi, idx) = Added(auditPath(leaves, cut, hi, j), hashRange(leaves, lo, cut))

LEMMA PathCut ==
  ASSUME NEW leaves, NEW lo \in Nat, NEW cut \in Nat, NEW hi \in Nat, NEW idx \in Nat, NEW h \in Nat, NEW j
  PROVE  PathSplits(leaves, lo, cut, hi, idx, h, j)
<1>0. SUFFICES ASSUME cut = lo + two(h), cut < hi, hi <= cut + two(h), idx < hi - lo, j = idx - two(h)
               PROVE  /\ idx < two(h) =>
                           auditPath(leaves, lo, hi, idx) = Added(auditPath(leaves, lo, cut, idx), hashRange(leaves, cut, hi))
                      /\ ~(idx < two(h)) =>
                           auditPath(leaves, lo, hi, idx) = Added(auditPath(leaves, cut, hi, j), hashRange(leaves, lo, cut))
  BY DEF PathSplits, Cuts, Past
<1>1. PICK g : /\ IsPath(g, leaves, hi) /\ auditPath(leaves, lo, hi, idx) = g[<<lo, hi, idx>>]
               /\ g[<<lo, hi, idx>>] = PathOn(g, leaves, <<lo, hi, idx>>)
  BY <1>0, PathFrom
<1>2. two(h) \in Nat /\ two(h) > 0
  BY TwoGrows
<1>3. PICK n : n = hi - lo
  OBVIOUS
<1>4. n \in Nat /\ n > 1 /\ largestPowerOfTwoBelow(n) = two(h)
  BY <1>0, <1>2, <1>3, SplitIs
<1>5. lo < cut
  BY <1>0, <1>2
<1>6. CASE idx < two(h)
  <2>1. PathOn(g, leaves, <<lo, hi, idx>>) = Append(g[<<lo, cut, idx>>], hashRange(leaves, cut, hi))
    BY <1>0, <1>3, <1>4, <1>6, SMTT(40) DEF PathOn
  <2>2. PICK f : IsPath(f, leaves, cut) /\ auditPath(leaves, lo, cut, idx) = f[<<lo, cut, idx>>]
    <3>1. idx < cut - lo
      BY <1>0, <1>2, <1>6
    <3> QED
      BY <3>1, PathFrom
  <2>3. <<lo, cut, idx>> \in PathArgs(hi) /\ <<lo, cut, idx>> \in PathArgs(cut)
    BY <1>0, <1>2, <1>5, <1>6 DEF PathArgs
  <2>4. f[<<lo, cut, idx>>] = g[<<lo, cut, idx>>]
    BY <1>0, <1>1, <2>2, <2>3, PathSame
  <2> QED
    BY <1>1, <1>6, <2>1, <2>2, <2>4, Zenon DEF Added
<1>7. CASE ~(idx < two(h))
  <2>1. j \in Nat /\ j < hi - cut
    BY <1>0, <1>2, <1>7
  <2>2. PathOn(g, leaves, <<lo, hi, idx>>) = Append(g[<<cut, hi, j>>], hashRange(leaves, lo, cut))
    <3>1. ~(n <= 1) /\ ~(idx < two(h)) /\ cut = lo + two(h) /\ j = idx - two(h)
      BY <1>0, <1>4, <1>7
    <3>2. PathOn(g, leaves, <<lo, hi, idx>>)
            = IF n <= 1 THEN <<>>
              ELSE IF idx < two(h) THEN Append(g[<<lo, lo + two(h), idx>>], hashRange(leaves, lo + two(h), hi))
              ELSE Append(g[<<lo + two(h), hi, idx - two(h)>>], hashRange(leaves, lo, lo + two(h)))
      BY <1>3, <1>4, Zenon DEF PathOn
    <3> QED
      BY <3>1, <3>2, Zenon
  <2>3. PICK f : IsPath(f, leaves, hi) /\ auditPath(leaves, cut, hi, j) = f[<<cut, hi, j>>]
    BY <2>1, PathFrom
  <2>4. <<cut, hi, j>> \in PathArgs(hi)
    BY <2>1 DEF PathArgs
  <2>5. f[<<cut, hi, j>>] = g[<<cut, hi, j>>]
    BY <1>1, <2>3, <2>4, PathSame
  <2> QED
    BY <1>1, <1>7, <2>2, <2>3, <2>5, Zenon DEF Added
<1> QED
  BY <1>6, <1>7

-----------------------------------------------------------------------------
\* Consistency proofs.

Flag == BOOLEAN
No == FALSE

SubArgs(n) == (0 .. n) \X (0 .. n) \X (0 .. n) \X Flag

LEMMA Flags == No \in Flag /\ TRUE \in Flag
BY Zenon DEF Flag, No

SubLeft(g, leaves, r, cut) == Append(g[<<r[1], cut, r[3], r[4]>>], hashRange(leaves, cut, r[2]))

SubRight(g, leaves, r, cut, k) == Append(g[<<cut, r[2], r[3] - k, No>>], hashRange(leaves, r[1], cut))

SubOn(g, leaves, r) ==
  LET n == r[2] - r[1]
      k == largestPowerOfTwoBelow(n)
      cut == r[1] + k
  IN IF r[3] = n THEN IF r[4] THEN <<>> ELSE <<hashRange(leaves, r[1], r[2])>>
     ELSE IF n <= 1 THEN <<>>
     ELSE IF r[3] <= k THEN SubLeft(g, leaves, r, cut) ELSE SubRight(g, leaves, r, cut, k)

IsSub(g, leaves, n) == g = [r \in SubArgs(n) |-> SubOn(g, leaves, r)]

\* It follows from what it is of shorter ranges.
LEMMA SubBody ==
  ASSUME NEW leaves, NEW n \in Nat, NEW m \in Nat, NEW r \in SubArgs(n), r \in SubArgs(m), NEW g, NEW h,
         \A q \in SubArgs(n) : q \in SubArgs(m) /\ q[2] - q[1] < r[2] - r[1] => g[q] = h[q]
  PROVE  SubOn(g, leaves, r) = SubOn(h, leaves, r)
<1>1. /\ r[1] \in 0 .. n /\ r[2] \in 0 .. n /\ r[2] \in 0 .. m /\ r[1] \in 0 .. m
      /\ r[3] \in 0 .. n /\ r[3] \in 0 .. m /\ r[4] \in Flag
  BY DEF SubArgs
<1>2. CASE r[2] - r[1] > 1 /\ r[3] # r[2] - r[1]
  <2> DEFINE k == largestPowerOfTwoBelow(r[2] - r[1])
  <2>1. k \in 1 .. r[2] - r[1] - 1
    BY <1>1, <1>2, SplitInside
  <2> HIDE DEF k
  <2>2. PICK cut : cut = r[1] + k
    OBVIOUS
  <2>3. cut \in Int /\ r[1] < cut /\ cut < r[2]
    BY <1>1, <2>1, <2>2
  <2>4. CASE r[3] <= k
    <3> DEFINE q == <<r[1], cut, r[3], r[4]>>
    <3>1. q \in SubArgs(n) /\ q \in SubArgs(m)
      BY <1>1, <2>3 DEF SubArgs
    <3>2. g[q] = h[q]
      BY <1>1, <2>3, <3>1
    <3>3. SubOn(g, leaves, r) = Append(g[q], hashRange(leaves, cut, r[2]))
      BY <1>1, <1>2, <2>2, <2>4, SMTT(40) DEF SubOn, SubLeft, SubRight, k
    <3>4. SubOn(h, leaves, r) = Append(h[q], hashRange(leaves, cut, r[2]))
      BY <1>1, <1>2, <2>2, <2>4, SMTT(40) DEF SubOn, SubLeft, SubRight, k
    <3> QED
      BY <3>2, <3>3, <3>4, Zenon
  <2>5. CASE ~(r[3] <= k)
    <3> DEFINE q == <<cut, r[2], r[3] - k, No>>
    <3>1. q \in SubArgs(n) /\ q \in SubArgs(m)
      BY <1>1, <2>1, <2>3, <2>5, Flags DEF SubArgs
    <3>2. g[q] = h[q]
      BY <1>1, <2>3, <3>1
    <3>3. SubOn(g, leaves, r) = Append(g[q], hashRange(leaves, r[1], cut))
      BY <1>1, <1>2, <2>2, <2>5, SMTT(40) DEF SubOn, SubLeft, SubRight, k
    <3>4. SubOn(h, leaves, r) = Append(h[q], hashRange(leaves, r[1], cut))
      BY <1>1, <1>2, <2>2, <2>5, SMTT(40) DEF SubOn, SubLeft, SubRight, k
    <3> QED
      BY <3>2, <3>3, <3>4, Zenon
  <2> QED
    BY <2>4, <2>5
<1>3. CASE r[2] - r[1] <= 1 \/ r[3] = r[2] - r[1]
  BY <1>1, <1>3 DEF SubOn
<1> QED
  BY <1>1, <1>2, <1>3

LEMMA SubExists ==
  ASSUME NEW leaves, NEW n \in Nat
  PROVE  \E g : IsSub(g, leaves, n)
<1> DEFINE Upto(g, s) == \A r \in SubArgs(n) : r[2] - r[1] + n < s => g[r] = SubOn(g, leaves, r)
           F == {s \in Nat : \E g : Upto(g, s) /\ g = [r \in SubArgs(n) |-> g[r]]}
<1>1. \A r \in SubArgs(n) : r[1] \in 0 .. n /\ r[2] \in 0 .. n
  BY DEF SubArgs
<1>2. 0 \in F
  <2>1. PICK g : g = [r \in SubArgs(n) |-> 0]
    OBVIOUS
  <2>2. Upto(g, 0) /\ g = [r \in SubArgs(n) |-> g[r]]
    BY <1>1, <2>1
  <2> HIDE DEF Upto
  <2> QED
    BY <2>2
<1>3. ASSUME NEW s \in Nat, s \in F
      PROVE  s + 1 \in F
  <2>1. PICK g : Upto(g, s)
    BY <1>3
  <2> DEFINE h == [r \in SubArgs(n) |-> SubOn(g, leaves, r)]
  <2>2. h = [r \in SubArgs(n) |-> h[r]]
    OBVIOUS
  <2>3. \A r \in SubArgs(n) : h[r] = SubOn(g, leaves, r) /\ (r[2] - r[1] + n < s => h[r] = g[r])
    BY <2>1
  <2> HIDE DEF h
  <2>4. ASSUME NEW r \in SubArgs(n), r[2] - r[1] + n < s + 1
        PROVE  h[r] = SubOn(h, leaves, r)
    <3>1. ASSUME NEW q \in SubArgs(n), q[2] - q[1] < r[2] - r[1]
          PROVE  g[q] = h[q]
      <4>1. q[2] - q[1] + n < s
        BY <1>1, <2>4, <3>1
      <4> QED
        BY <2>3, <4>1
    <3>2. SubOn(g, leaves, r) = SubOn(h, leaves, r)
      BY <3>1, SubBody
    <3> QED
      BY <2>3, <3>2, Zenon
  <2>5. Upto(h, s + 1)
    BY <2>4
  <2> HIDE DEF Upto
  <2> QED
    BY <2>2, <2>5
<1>4. 2 * n + 1 \in F
  <2> HIDE DEF F
  <2> QED
    BY <1>2, <1>3, BySteps
<1>5. PICK g : Upto(g, 2 * n + 1) /\ g = [r \in SubArgs(n) |-> g[r]]
  BY <1>4
<1>6. \A r \in SubArgs(n) : g[r] = SubOn(g, leaves, r)
  BY <1>1, <1>5
<1>7. g = [r \in SubArgs(n) |-> SubOn(g, leaves, r)]
  BY <1>5, <1>6
<1> QED
  BY <1>7 DEF IsSub

\* Whatever bound it was computed under.
LEMMA SubSame ==
  ASSUME NEW leaves, NEW n \in Nat, NEW m \in Nat, NEW g, IsSub(g, leaves, n), NEW h, IsSub(h, leaves, m)
  PROVE  \A r \in SubArgs(n) : r \in SubArgs(m) => g[r] = h[r]
<1> DEFINE F == {s \in Nat : \A r \in SubArgs(n) : r \in SubArgs(m) /\ r[2] - r[1] + n <= s => g[r] = h[r]}
<1>1. \A r \in SubArgs(n) : r[1] \in 0 .. n /\ r[2] \in 0 .. n
  BY DEF SubArgs
<1>2. ASSUME NEW s \in Nat, \A t \in Nat : t < s => t \in F
      PROVE  s \in F
  <2>1. SUFFICES ASSUME NEW r \in SubArgs(n), r \in SubArgs(m), r[2] - r[1] + n <= s
                 PROVE  g[r] = h[r]
    OBVIOUS
  <2>2. ASSUME NEW q \in SubArgs(n), q \in SubArgs(m), q[2] - q[1] < r[2] - r[1]
        PROVE  g[q] = h[q]
    <3>1. PICK t : t = q[2] - q[1] + n
      OBVIOUS
    <3>2. t \in Nat /\ t < s
      BY <1>1, <2>1, <2>2, <3>1
    <3>3. t \in F /\ q[2] - q[1] + n <= t
      BY <1>2, <3>1, <3>2
    <3> QED
      BY <2>2, <3>3
  <2>3. SubOn(g, leaves, r) = SubOn(h, leaves, r)
    BY <2>1, <2>2, SubBody
  <2>4. g[r] = SubOn(g, leaves, r) /\ h[r] = SubOn(h, leaves, r)
    BY <2>1 DEF IsSub
  <2> QED
    BY <2>3, <2>4, Zenon
<1>3. \A s \in Nat : s \in F
  <2> HIDE DEF F
  <2> QED
    BY <1>2, ByLess
<1>4. SUFFICES ASSUME NEW r \in SubArgs(n), r \in SubArgs(m) PROVE g[r] = h[r]
  OBVIOUS
<1>5. r[2] - r[1] + n \in Nat
  BY <1>1
<1> QED
  BY <1>3, <1>4, <1>5

LEMMA SubFrom ==
  ASSUME NEW leaves, NEW lo \in Nat, NEW hi \in Nat, NEW m \in Nat, m <= hi - lo, NEW whole \in Flag
  PROVE  \E g : /\ IsSub(g, leaves, hi) /\ subproof(leaves, lo, hi, m, whole) = g[<<lo, hi, m, whole>>]
                /\ g[<<lo, hi, m, whole>>] = SubOn(g, leaves, <<lo, hi, m, whole>>)
<1>1. PICK g : g = CHOOSE h : IsSub(h, leaves, hi)
  OBVIOUS
<1>2. IsSub(g, leaves, hi)
  BY <1>1, SubExists, Zenon
<1>3. subproof(leaves, lo, hi, m, whole) = g[<<lo, hi, m, whole>>]
  BY <1>1 DEF subproof, IsSub, SubOn, SubLeft, SubRight, SubArgs, Flag, No
<1>4. <<lo, hi, m, whole>> \in SubArgs(hi)
  BY DEF SubArgs
<1>5. g[<<lo, hi, m, whole>>] = SubOn(g, leaves, <<lo, hi, m, whole>>)
  BY <1>2, <1>4 DEF IsSub
<1> QED
  BY <1>2, <1>3, <1>5

\* What subproof computes, one call at a time.
Spans(lo, hi, m) == m = hi - lo

LEMMA SubWhole ==
  ASSUME NEW leaves, NEW lo \in Nat, NEW hi \in Nat, NEW m \in Nat, NEW whole \in Flag, Spans(lo, hi, m)
  PROVE  subproof(leaves, lo, hi, m, whole) = IF whole THEN <<>> ELSE <<hashRange(leaves, lo, hi)>>
<1>1. PICK g : /\ IsSub(g, leaves, hi) /\ subproof(leaves, lo, hi, m, whole) = g[<<lo, hi, m, whole>>]
               /\ g[<<lo, hi, m, whole>>] = SubOn(g, leaves, <<lo, hi, m, whole>>)
  <2>1. m <= hi - lo
    BY DEF Spans
  <2> QED
    BY <2>1, SubFrom
<1> QED
  BY <1>1 DEF SubOn, Spans

SubSplits(leaves, lo, cut, hi, m, whole, h, j) ==
  Cuts(lo, cut, hi, h) /\ m < hi - lo /\ Past(j, m, h) =>
    /\ m <= two(h) =>
         subproof(leaves, lo, hi, m, whole) =
           Added(subproof(leaves, lo, cut, m, whole), hashRange(leaves, cut, hi))
    /\ ~(m <= two(h)) =>
         subproof(leaves, lo, hi, m, whole) =
           Added(subproof(leaves, cut, hi, j, No), hashRange(leaves, lo, cut))

LEMMA SubCut ==
  ASSUME NEW leaves, NEW lo \in Nat, NEW cut \in Nat, NEW hi \in Nat, NEW m \in Nat, NEW whole \in Flag,
         NEW h \in Nat, NEW j
  PROVE  SubSplits(leaves, lo, cut, hi, m, whole, h, j)
<1>0. SUFFICES ASSUME cut = lo + two(h), cut < hi, hi <= cut + two(h), m < hi - lo, j = m - two(h)
               PROVE  /\ m <= two(h) =>
                           subproof(leaves, lo, hi, m, whole) =
                             Added(subproof(leaves, lo, cut, m, whole), hashRange(leaves, cut, hi))
                      /\ ~(m <= two(h)) =>
                           subproof(leaves, lo, hi, m, whole) =
                             Added(subproof(leaves, cut, hi, j, No), hashRange(leaves, lo, cut))
  BY DEF SubSplits, Cuts, Past
<1>1. PICK g : /\ IsSub(g, leaves, hi) /\ subproof(leaves, lo, hi, m, whole) = g[<<lo, hi, m, whole>>]
               /\ g[<<lo, hi, m, whole>>] = SubOn(g, leaves, <<lo, hi, m, whole>>)
  <2>1. m <= hi - lo
    BY <1>0
  <2> QED
    <3>1. \A w \in Flag, x \in Nat : x <= hi - lo => \E g : /\ IsSub(g, leaves, hi) /\ subproof(leaves, lo, hi, x, w) = g[<<lo, hi, x, w>>]
               /\ g[<<lo, hi, x, w>>] = SubOn(g, leaves, <<lo, hi, x, w>>)
      BY SubFrom
    <3> QED
      BY <2>1, <3>1
<1>2. two(h) \in Nat /\ two(h) > 0
  BY TwoGrows
<1>3. PICK n : n = hi - lo
  OBVIOUS
<1>4. n \in Nat /\ n > 1 /\ largestPowerOfTwoBelow(n) = two(h)
  BY <1>0, <1>2, <1>3, SplitIs
<1>5. lo < cut
  BY <1>0, <1>2
<1>6. PICK r : r = <<lo, hi, m, whole>>
  OBVIOUS
<1>7. r[1] = lo /\ r[2] = hi /\ r[3] = m /\ r[4] = whole
  BY <1>6
<1>8. /\ r[2] - r[1] = n /\ r[1] + two(h) = cut /\ r[3] # n /\ r[2] - r[1] > 1
      /\ two(h) = largestPowerOfTwoBelow(r[2] - r[1])
  BY <1>0, <1>3, <1>4, <1>7
<1>9. /\ r[3] <= two(h) => SubOn(g, leaves, r) = SubLeft(g, leaves, r, cut)
      /\ ~(r[3] <= two(h)) => SubOn(g, leaves, r) = SubRight(g, leaves, r, cut, two(h))
  <2>1. r[1] \in 0 .. hi /\ r[2] \in 0 .. hi /\ r[3] \in 0 .. hi
    BY <1>0, <1>2, <1>7
  <2>2. /\ r[2] - r[1] > 1 /\ r[3] # r[2] - r[1] /\ two(h) = largestPowerOfTwoBelow(r[2] - r[1])
        /\ cut = r[1] + two(h) /\ two(h) \in Nat
    BY <1>2, <1>8
  <2>3. /\ r[3] <= two(h) => SubOn(g, leaves, r) = SubLeft(g, leaves, r, r[1] + two(h))
        /\ ~(r[3] <= two(h)) => SubOn(g, leaves, r) = SubRight(g, leaves, r, r[1] + two(h), two(h))
    BY <2>1, <2>2 DEF SubOn
  <2> QED
    BY <2>2, <2>3, Zenon
<1>10. CASE m <= two(h)
  <2> DEFINE q == <<lo, cut, m, whole>>
  <2>1. SubOn(g, leaves, r) = Append(g[q], hashRange(leaves, cut, hi))
    <3>1. SubOn(g, leaves, r) = Append(g[<<r[1], cut, r[3], r[4]>>], hashRange(leaves, cut, r[2]))
      BY <1>7, <1>9, <1>10, Zenon DEF SubLeft
    <3> QED
      BY <1>7, <3>1, Zenon
  <2>2. PICK f : IsSub(f, leaves, cut) /\ subproof(leaves, lo, cut, m, whole) = f[q]
    <3>1. m <= cut - lo
      BY <1>0, <1>2, <1>10
    <3> QED
      BY <3>1, SubFrom
  <2>3. q \in SubArgs(hi) /\ q \in SubArgs(cut)
    BY <1>0, <1>2, <1>5, <1>10 DEF SubArgs
  <2>4. f[q] = g[q]
    <3> HIDE DEF q
    <3> QED
      BY <1>0, <1>1, <2>2, <2>3, SubSame
  <2> QED
    BY <1>1, <1>6, <1>10, <2>1, <2>2, <2>4, Zenon DEF Added
<1>11. CASE ~(m <= two(h))
  <2>1. j \in Nat /\ j <= hi - cut
    BY <1>0, <1>2, <1>11
  <2> DEFINE q == <<cut, hi, j, No>>
  <2>2. SubOn(g, leaves, r) = Append(g[q], hashRange(leaves, lo, cut))
    <3>1. SubOn(g, leaves, r) = Append(g[<<cut, r[2], r[3] - two(h), No>>], hashRange(leaves, r[1], cut))
      BY <1>7, <1>9, <1>11, Zenon DEF SubRight
    <3> QED
      BY <1>0, <1>7, <3>1, Zenon
  <2>3. PICK f : IsSub(f, leaves, hi) /\ subproof(leaves, cut, hi, j, No) = f[q]
    BY <2>1, Flags, SubFrom
  <2>4. q \in SubArgs(hi)
    BY <2>1, Flags DEF SubArgs
  <2>5. f[q] = g[q]
    <3> HIDE DEF q
    <3> QED
      BY <1>1, <2>3, <2>4, SubSame
  <2> QED
    BY <1>1, <1>6, <1>11, <2>2, <2>3, <2>5, Zenon DEF Added
<1> QED
  BY <1>10, <1>11

-----------------------------------------------------------------------------
\* Levels: a leaf's node at a level is its index halved so often.

LEMMA DivIs ==
  ASSUME NEW x \in Nat, NEW b \in Nat, b > 0
  PROVE  x \div b \in Nat /\ b * (x \div b) <= x /\ x < b * (x \div b) + b
OBVIOUS

LEMMA DivUnique ==
  ASSUME NEW x \in Nat, NEW b \in Nat, b > 0, NEW q \in Nat, b * q <= x, x < b * q + b
  PROVE  x \div b = q
OBVIOUS

LEMMA HalvedIs ==
  ASSUME NEW x \in Nat, NEW h \in Nat
  PROVE  /\ Halved(x, h) \in Nat
         /\ two(h) * Halved(x, h) <= x
         /\ x < two(h) * Halved(x, h) + two(h)
<1>1. PICK b \in Nat : b = two(h) /\ b > 0
  BY TwoGrows
<1> QED
  BY <1>1, DivIs DEF Halved

LEMMA HalvedZero ==
  ASSUME NEW x \in Nat
  PROVE  Halved(x, 0) = x
BY TwoZero DEF Halved

LEMMA HalvedUnique ==
  ASSUME NEW x \in Nat, NEW h \in Nat, NEW q \in Nat, two(h) * q <= x, x < two(h) * q + two(h)
  PROVE  Halved(x, h) = q
<1>1. PICK b \in Nat : b = two(h) /\ b > 0
  BY TwoGrows
<1> QED
  BY <1>1, DivUnique DEF Halved

LEMMA Parity ==
  ASSUME NEW x \in Nat
  PROVE  /\ x \div 2 \in Nat
         /\ Odd(x) => x = 2 * (x \div 2) + 1
         /\ ~Odd(x) => x = 2 * (x \div 2)
BY DEF Odd

LEMMA HalvedNext ==
  ASSUME NEW x \in Nat, NEW h \in Nat
  PROVE  /\ Halved(x, h + 1) = Halved(x, h) \div 2
         /\ Odd(Halved(x, h)) => Halved(x, h) = 2 * Halved(x, h + 1) + 1
         /\ ~Odd(Halved(x, h)) => Halved(x, h) = 2 * Halved(x, h + 1)
<1>1. PICK b \in Nat : b = two(h) /\ b > 0
  BY TwoGrows
<1>2. PICK y \in Nat : y = Halved(x, h) /\ b * y <= x /\ x < b * y + b
  BY <1>1, HalvedIs
<1>3. PICK q \in Nat : q = y \div 2
  OBVIOUS
<1>4. (y = 2 * q \/ y = 2 * q + 1) /\ (Odd(y) => y = 2 * q + 1) /\ (~Odd(y) => y = 2 * q)
  BY <1>3, Parity
<1>5. two(h + 1) = 2 * b
  BY <1>1, TwoNext
<1>6. PICK z \in Nat : z = b * q
  OBVIOUS
<1>7. b * y = 2 * z \/ b * y = 2 * z + b
  BY <1>4, <1>6
<1>8. (2 * b) * q = 2 * z
  BY <1>6
<1>9. (2 * b) * q <= x /\ x < (2 * b) * q + 2 * b
  BY <1>2, <1>7, <1>8
<1>10. Halved(x, h + 1) = q
  BY <1>5, <1>9, HalvedUnique
<1> QED
  BY <1>2, <1>3, <1>4, <1>10

LEMMA HalvedTwice ==
  ASSUME NEW x \in Nat, NEW a \in Nat, NEW b \in Nat
  PROVE  Halved(Halved(x, a), b) = Halved(x, a + b)
<1> DEFINE F == {k \in Nat : Halved(Halved(x, a), k) = Halved(x, a + k)}
<1>1. Halved(x, a) \in Nat
  BY HalvedIs
<1>2. 0 \in F
  BY <1>1, HalvedZero
<1>3. ASSUME NEW k \in Nat, k \in F
      PROVE  k + 1 \in F
  <2>1. Halved(Halved(x, a), k + 1) = Halved(Halved(x, a), k) \div 2
    BY <1>1, HalvedNext
  <2>2. Halved(x, (a + k) + 1) = Halved(x, a + k) \div 2
    BY HalvedNext
  <2>3. (a + k) + 1 = a + (k + 1)
    OBVIOUS
  <2> QED
    BY <1>3, <2>1, <2>2, <2>3
<1> HIDE DEF F
<1>4. b \in F
  BY <1>2, <1>3, BySteps
<1> QED
  BY <1>4 DEF F

LEMMA HalvedOrder ==
  ASSUME NEW x \in Nat, NEW y \in Nat, x <= y, NEW h \in Nat
  PROVE  Halved(x, h) <= Halved(y, h)
<1>1. PICK b \in Nat : b = two(h) /\ b > 0
  BY TwoGrows
<1>2. PICK p \in Nat : p = Halved(x, h) /\ b * p <= x /\ x < b * p + b
  BY <1>1, HalvedIs
<1>3. PICK q \in Nat : q = Halved(y, h) /\ b * q <= y /\ y < b * q + b
  BY <1>1, HalvedIs
<1>4. ASSUME p > q PROVE FALSE
  <2>1. p >= q + 1
    BY <1>4
  <2>2. b * p >= b * (q + 1)
    BY <2>1
  <2>3. b * (q + 1) = b * q + b
    OBVIOUS
  <2> QED
    BY <1>2, <1>3, <2>2, <2>3
<1> QED
  BY <1>2, <1>3, <1>4

\* Above all of its bits nothing is left.
LEMMA HalvedOut ==
  ASSUME NEW x \in Nat, NEW h \in Nat, x < two(h)
  PROVE  Halved(x, h) = 0
<1>1. two(h) \in Nat
  BY TwoGrows
<1> QED
  BY <1>1, HalvedUnique

\* A number is 0 if all its bits below a level are, and it above.
LEMMA NoBits ==
  ASSUME NEW x \in Nat, NEW t \in Nat, Halved(x, t) = 0, \A k \in Nat : k < t => ~Odd(Halved(x, k))
  PROVE  x = 0
<1> DEFINE F == {k \in Nat : k <= t => Halved(x, t - k) = 0}
<1>1. 0 \in F
  OBVIOUS
<1>2. ASSUME NEW k \in Nat, k \in F
      PROVE  k + 1 \in F
  <2>1. SUFFICES ASSUME k + 1 <= t PROVE Halved(x, t - (k + 1)) = 0
    OBVIOUS
  <2>2. PICK j \in Nat : j = t - (k + 1) /\ j + 1 = t - k /\ j < t
    BY <2>1
  <2>3. ~Odd(Halved(x, j)) /\ Halved(x, j + 1) = 0
    BY <1>2, <2>1, <2>2
  <2>4. Halved(x, j) = 2 * Halved(x, j + 1)
    BY <2>3, HalvedNext
  <2> QED
    BY <2>2, <2>3, <2>4
<1> HIDE DEF F
<1>3. t \in F
  BY <1>1, <1>2, BySteps
<1>4. Halved(x, t - t) = 0
  BY <1>3 DEF F
<1> QED
  BY <1>4, HalvedZero

\* The last index of a node is odd at every level below.
LEMMA AllOnes ==
  ASSUME NEW x \in Nat, NEW h \in Nat, NEW i \in Nat, x + 1 = two(h) * i + two(h), Odd(i)
  PROVE  \A t \in Nat : t <= h => Odd(Halved(x, t))
<1> DEFINE F == {k \in Nat : k <= h => \E j \in Nat : x + 1 = two(h - k) * j + two(h - k) /\ Odd(j)}
<1>1. 0 \in F
  OBVIOUS
<1>2. ASSUME NEW k \in Nat, k \in F
      PROVE  k + 1 \in F
  <2>1. SUFFICES ASSUME k + 1 <= h
                 PROVE  \E j \in Nat : x + 1 = two(h - (k + 1)) * j + two(h - (k + 1)) /\ Odd(j)
    OBVIOUS
  <2>2. PICK g \in Nat : g = h - (k + 1) /\ h - k = g + 1
    BY <2>1
  <2>3. PICK j \in Nat : x + 1 = two(g + 1) * j + two(g + 1)
    BY <1>2, <2>1, <2>2
  <2>4. PICK b \in Nat : b = two(g) /\ two(g + 1) = 2 * b
    BY TwoGrows, TwoNext
  <2>5. b * (2 * j + 1) + b = (2 * b) * j + 2 * b
    OBVIOUS
  <2>6. x + 1 = two(g) * (2 * j + 1) + two(g) /\ Odd(2 * j + 1) /\ 2 * j + 1 \in Nat
    BY <2>3, <2>4, <2>5 DEF Odd
  <2> QED
    BY <2>2, <2>6
<1>3. ASSUME NEW t \in Nat, t <= h
      PROVE  Odd(Halved(x, t))
  <2>1. PICK k \in Nat : k <= h /\ h - k = t
    <3>1. h - t \in Nat /\ h - t <= h /\ h - (h - t) = t
      BY <1>3
    <3> QED
      BY <3>1
  <2>2. k \in F
    <3> HIDE DEF F
    <3> QED
      BY <1>1, <1>2, BySteps
  <2>3. PICK j \in Nat : x + 1 = two(t) * j + two(t) /\ Odd(j)
    BY <2>1, <2>2
  <2>4. two(t) \in Nat /\ two(t) > 0
    BY TwoGrows
  <2>5. PICK p \in Nat : p = two(t) * j
    BY <2>4
  <2>6. p <= x /\ x < p + two(t)
    BY <2>3, <2>4, <2>5
  <2>7. Halved(x, t) = j
    BY <2>5, <2>6, HalvedUnique
  <2> QED
    BY <2>3, <2>7
<1> QED
  BY <1>3

-----------------------------------------------------------------------------
\* The same, with a name for where a range is cut.

LEMMA HashCut ==
  ASSUME NEW leaves, NEW lo \in Nat, NEW mid \in Nat, NEW hi \in Nat, NEW h \in Nat,
         mid = lo + two(h), mid < hi, hi <= mid + two(h)
  PROVE  hashRange(leaves, lo, hi) = hashNode(hashRange(leaves, lo, mid), hashRange(leaves, mid, hi))
<1>1. two(h) \in Nat
  BY TwoGrows
<1>2. two(h) < hi - lo /\ hi - lo <= 2 * two(h)
  BY <1>1
<1>4. \A k \in Nat : two(k) < hi - lo /\ hi - lo <= 2 * two(k) =>
        hashRange(leaves, lo, hi) = hashNode(hashRange(leaves, lo, lo + two(k)), hashRange(leaves, lo + two(k), hi))
  BY HashRangeIs, ZenonT(30)
<1>3. hashRange(leaves, lo, hi) = hashNode(hashRange(leaves, lo, lo + two(h)), hashRange(leaves, lo + two(h), hi))
  BY <1>2, <1>4, Zenon
<1> QED
  BY <1>3

-----------------------------------------------------------------------------
\* The node of a tree of n leaves at level h, the i-th from the left.

EndOf(n, h, i) == IF two(h) * i + two(h) <= n THEN two(h) * i + two(h) ELSE n

NodeAt(leaves, n, h, i) == hashRange(leaves, two(h) * i, EndOf(n, h, i))

LEMMA NodeZero ==
  ASSUME NEW leaves, NEW n \in Nat, NEW i \in Nat, i < n
  PROVE  NodeAt(leaves, n, 0, i) = leaves[i + 1]
<1>1. two(0) * i = i /\ EndOf(n, 0, i) = i + 1
  BY TwoZero DEF EndOf
<1>2. hashRange(leaves, i, i + 1) = leaves[i + 1]
  BY HashRangeIs
<1> QED
  BY <1>1, <1>2 DEF NodeAt

LEMMA NodeTop ==
  ASSUME NEW leaves, NEW n \in Nat, NEW h \in Nat, n <= two(h)
  PROVE  NodeAt(leaves, n, h, 0) = rootAt(leaves, n)
<1>1. PICK b \in Nat : b = two(h)
  BY TwoGrows
<1>2. b * 0 = 0 /\ EndOf(n, h, 0) = n
  BY <1>1 DEF EndOf
<1> QED
  BY <1>1, <1>2 DEF NodeAt, rootAt

\* A node whose leaves all exist is the same in every tree.
LEMMA NodeFull ==
  ASSUME NEW leaves, NEW n \in Nat, NEW m \in Nat, NEW h \in Nat, NEW i \in Nat,
         two(h) * i + two(h) <= n, two(h) * i + two(h) <= m
  PROVE  NodeAt(leaves, m, h, i) = NodeAt(leaves, n, h, i)
BY DEF NodeAt, EndOf

\* A node is that of the two below, or of the one below that there is.
LEMMA NodeUp ==
  ASSUME NEW leaves, NEW n \in Nat, NEW h \in Nat, NEW i \in Nat, two(h) * (2 * i) < n
  PROVE  /\ two(h) * (2 * i + 1) < n =>
              NodeAt(leaves, n, h + 1, i) = hashNode(NodeAt(leaves, n, h, 2 * i), NodeAt(leaves, n, h, 2 * i + 1))
         /\ ~(two(h) * (2 * i + 1) < n) => NodeAt(leaves, n, h + 1, i) = NodeAt(leaves, n, h, 2 * i)
<1>1. PICK b \in Nat : b = two(h) /\ b > 0
  BY TwoGrows
<1>2. two(h + 1) = 2 * b
  BY <1>1, TwoNext
<1>3. PICK p \in Nat : p = b * (2 * i)
  OBVIOUS
<1>4. (2 * b) * i = p /\ b * (2 * i + 1) = p + b
  BY <1>3
<1>5. EndOf(n, h + 1, i) = IF p + 2 * b <= n THEN p + 2 * b ELSE n
  BY <1>2, <1>4 DEF EndOf
<1>6. EndOf(n, h, 2 * i) = IF p + b <= n THEN p + b ELSE n
  BY <1>1, <1>3 DEF EndOf
<1>7. EndOf(n, h, 2 * i + 1) = IF p + 2 * b <= n THEN p + 2 * b ELSE n
  BY <1>1, <1>4 DEF EndOf
<1>8. p < n
  BY <1>1, <1>3
<1>9. ASSUME p + b < n
      PROVE  NodeAt(leaves, n, h + 1, i) = hashNode(NodeAt(leaves, n, h, 2 * i), NodeAt(leaves, n, h, 2 * i + 1))
  <2>1. PICK e \in Nat : e = EndOf(n, h + 1, i)
    BY <1>5
  <2>2. b < e - p /\ e - p <= 2 * b
    BY <1>1, <1>5, <1>9, <2>1
  <2>3. hashRange(leaves, p, e) = hashNode(hashRange(leaves, p, p + b), hashRange(leaves, p + b, e))
    <3>1. PICK q \in Nat : q = p + b
      OBVIOUS
    <3>2. q = p + two(h) /\ q < e /\ e <= q + two(h)
      BY <1>1, <2>2, <3>1
    <3> QED
      BY <3>1, <3>2, HashCut
  <2>4. NodeAt(leaves, n, h + 1, i) = hashRange(leaves, p, e)
    BY <1>2, <1>4, <2>1 DEF NodeAt
  <2>5. NodeAt(leaves, n, h, 2 * i) = hashRange(leaves, p, p + b)
    BY <1>1, <1>3, <1>6, <1>9 DEF NodeAt
  <2>6. NodeAt(leaves, n, h, 2 * i + 1) = hashRange(leaves, p + b, e)
    BY <1>1, <1>4, <1>5, <1>7, <2>1 DEF NodeAt
  <2> QED
    BY <2>3, <2>4, <2>5, <2>6, Zenon
<1>10. ASSUME ~(p + b < n)
       PROVE  NodeAt(leaves, n, h + 1, i) = NodeAt(leaves, n, h, 2 * i)
  <2>1. EndOf(n, h + 1, i) = n /\ EndOf(n, h, 2 * i) = n
    BY <1>1, <1>5, <1>6, <1>10
  <2> QED
    BY <1>1, <1>2, <1>3, <1>4, <2>1 DEF NodeAt
<1> QED
  BY <1>1, <1>4, <1>9, <1>10

-----------------------------------------------------------------------------
\* The two proofs at a level: of the node there that a leaf is under.

StartOf(x, h) == two(h) * Halved(x, h)

PathAt(leaves, n, h, x) ==
  auditPath(leaves, StartOf(x, h), EndOf(n, h, Halved(x, h)), x - StartOf(x, h))

SubAt(leaves, n, h, x) ==
  subproof(leaves, StartOf(x, h), EndOf(n, h, Halved(x, h)), x + 1 - StartOf(x, h), Halved(x, h) = 0)

\* A leaf's node at a level and the level above: what either is of, by the
\* place of the lower under the upper.
Level(n, x, h, b, i, s, e) ==
  /\ b = two(h) /\ b > 0 /\ i = Halved(x, h) /\ s = StartOf(x, h) /\ e = EndOf(n, h, i)
  /\ s = b * i /\ s <= x /\ x < s + b /\ x < e /\ e <= n /\ e <= s + b /\ (e < s + b => e = n)
  /\ Odd(i) =>
       /\ i > 0 /\ s >= b /\ StartOf(x, h + 1) = s - b /\ EndOf(n, h + 1, Halved(x, h + 1)) = e
       /\ Halved(x, h + 1) = i \div 2 /\ i - 1 = 2 * Halved(x, h + 1)
       /\ EndOf(n, h, i - 1) = s /\ two(h) * (i - 1) = s - b
  /\ ~Odd(i) =>
       /\ StartOf(x, h + 1) = s /\ i = 2 * Halved(x, h + 1)
       /\ two(h) * (i + 1) = s + b
       /\ s + b < n => /\ e = s + b /\ EndOf(n, h + 1, Halved(x, h + 1)) = EndOf(n, h, i + 1)
                       /\ EndOf(n, h, i + 1) \in Nat /\ EndOf(n, h, i + 1) > s + b
                       /\ EndOf(n, h, i + 1) <= s + 2 * b
       /\ ~(s + b < n) => EndOf(n, h + 1, Halved(x, h + 1)) = e

LEMMA LevelUp ==
  ASSUME NEW n \in Nat, NEW x \in Nat, x < n, NEW h \in Nat
  PROVE  \E b \in Nat, i \in Nat, s \in Nat, e \in Nat : Level(n, x, h, b, i, s, e)
<1>1. PICK b \in Nat : b = two(h) /\ b > 0
  BY TwoGrows
<1>2. PICK i \in Nat : i = Halved(x, h) /\ b * i <= x /\ x < b * i + b
  BY <1>1, HalvedIs
<1>3. PICK s \in Nat : s = b * i
  OBVIOUS
<1>4. StartOf(x, h) = s
  BY <1>1, <1>2, <1>3 DEF StartOf
<1>5. PICK e \in Nat : e = EndOf(n, h, i) /\ e = IF s + b <= n THEN s + b ELSE n
  BY <1>1, <1>3 DEF EndOf
<1>6. PICK j \in Nat : j = Halved(x, h + 1) /\ j = i \div 2 /\ (Odd(i) => i = 2 * j + 1) /\ (~Odd(i) => i = 2 * j)
  <2>1. Halved(x, h + 1) \in Nat
    BY HalvedIs
  <2>2. /\ Halved(x, h + 1) = i \div 2
        /\ Odd(i) => i = 2 * Halved(x, h + 1) + 1
        /\ ~Odd(i) => i = 2 * Halved(x, h + 1)
    BY <1>2, HalvedNext
  <2> QED
    BY <2>1, <2>2, Zenon
<1>7. two(h + 1) = 2 * b
  BY <1>1, TwoNext
<1>8. ASSUME Odd(i)
      PROVE  /\ i > 0 /\ s >= b /\ StartOf(x, h + 1) = s - b /\ EndOf(n, h + 1, Halved(x, h + 1)) = e
             /\ Halved(x, h + 1) = i \div 2 /\ i - 1 = 2 * Halved(x, h + 1)
             /\ EndOf(n, h, i - 1) = s /\ two(h) * (i - 1) = s - b
  <2>1. i = 2 * j + 1
    BY <1>6, <1>8
  <2>2. (2 * b) * j = s - b /\ b * (i - 1) = s - b
    BY <1>3, <2>1
  <2>3. s - b \in Nat
    BY <2>2
  <2>4. StartOf(x, h + 1) = s - b
    BY <1>6, <1>7, <2>2 DEF StartOf
  <2>5. EndOf(n, h + 1, j) = e
    <3>1. two(h + 1) * j + two(h + 1) = s + b
      <4>1. two(h + 1) * j = s - b
        BY <1>7, <2>2, Zenon
      <4> QED
        BY <1>7, <4>1
    <3> QED
      BY <1>5, <3>1 DEF EndOf
  <2>6. EndOf(n, h, i - 1) = s
    BY <1>1, <1>2, <1>3, <2>2 DEF EndOf
  <2> QED
    BY <1>1, <1>6, <2>1, <2>2, <2>3, <2>4, <2>5, <2>6
<1>9. ASSUME ~Odd(i)
      PROVE  /\ StartOf(x, h + 1) = s /\ i = 2 * Halved(x, h + 1)
             /\ two(h) * (i + 1) = s + b
             /\ s + b < n => /\ e = s + b /\ EndOf(n, h + 1, Halved(x, h + 1)) = EndOf(n, h, i + 1)
                             /\ EndOf(n, h, i + 1) \in Nat /\ EndOf(n, h, i + 1) > s + b
                             /\ EndOf(n, h, i + 1) <= s + 2 * b
             /\ ~(s + b < n) => EndOf(n, h + 1, Halved(x, h + 1)) = e
  <2>1. i = 2 * j
    BY <1>6, <1>9
  <2>2. (2 * b) * j = s /\ b * (i + 1) = s + b
    BY <1>3, <2>1
  <2>3. EndOf(n, h + 1, j) = IF s + 2 * b <= n THEN s + 2 * b ELSE n
    BY <1>7, <2>2 DEF EndOf
  <2>4. EndOf(n, h, i + 1) = IF s + 2 * b <= n THEN s + 2 * b ELSE n
    BY <1>1, <2>2 DEF EndOf
  <2>5. StartOf(x, h + 1) = s
    BY <1>6, <1>7, <2>2 DEF StartOf
  <2>6. ASSUME s + b < n
        PROVE  /\ e = s + b /\ EndOf(n, h + 1, Halved(x, h + 1)) = EndOf(n, h, i + 1)
               /\ EndOf(n, h, i + 1) \in Nat /\ EndOf(n, h, i + 1) > s + b
               /\ EndOf(n, h, i + 1) <= s + 2 * b
    <3>1. PICK d \in Nat : d = EndOf(n, h, i + 1) /\ d = IF s + 2 * b <= n THEN s + 2 * b ELSE n
      BY <2>4
    <3>2. d > s + b /\ d <= s + 2 * b /\ e = s + b
      BY <1>1, <1>5, <2>6, <3>1
    <3> QED
      BY <1>6, <2>3, <3>1, <3>2
  <2>7. ASSUME ~(s + b < n)
        PROVE  EndOf(n, h + 1, Halved(x, h + 1)) = e
    BY <1>1, <1>5, <1>6, <2>3, <2>7
  <2>8. i = 2 * Halved(x, h + 1) /\ two(h) * (i + 1) = s + b
    BY <1>1, <1>6, <2>1, <2>2
  <2> QED
    BY <2>5, <2>6, <2>7, <2>8, Zenon
<1>10. s <= x /\ x < s + b /\ x < e /\ e <= n /\ e <= s + b /\ (e < s + b => e = n)
  BY <1>2, <1>3, <1>5
<1>11. b = two(h) /\ b > 0 /\ i = Halved(x, h) /\ s = StartOf(x, h) /\ e = EndOf(n, h, i) /\ s = b * i
  BY <1>1, <1>2, <1>3, <1>4, <1>5, Zenon
<1>12. Level(n, x, h, b, i, s, e)
  BY <1>8, <1>9, <1>10, <1>11, Zenon DEF Level
<1> QED
  BY <1>12

\* The sibling a proof takes on at a level, if the node has one.
Alone(n, x, h) == ~Odd(Halved(x, h)) /\ two(h) * (Halved(x, h) + 1) >= n

Sibling(leaves, n, x, h) ==
  IF Odd(Halved(x, h)) THEN NodeAt(leaves, n, h, Halved(x, h) - 1) ELSE NodeAt(leaves, n, h, Halved(x, h) + 1)

LEMMA PathUp ==
  ASSUME NEW leaves, NEW n \in Nat, NEW x \in Nat, x < n, NEW h \in Nat
  PROVE  PathAt(leaves, n, h + 1, x) =
           IF Alone(n, x, h) THEN PathAt(leaves, n, h, x)
           ELSE Added(PathAt(leaves, n, h, x), Sibling(leaves, n, x, h))
<1>1. PICK b \in Nat, i \in Nat, s \in Nat, e \in Nat : Level(n, x, h, b, i, s, e)
  BY LevelUp
<1>2. /\ b = two(h) /\ b > 0 /\ i = Halved(x, h) /\ s = StartOf(x, h) /\ e = EndOf(n, h, i)
      /\ s = b * i /\ s <= x /\ x < s + b /\ x < e /\ e <= n /\ e <= s + b /\ (e < s + b => e = n)
  BY <1>1 DEF Level
<1>3. PathAt(leaves, n, h, x) = auditPath(leaves, s, e, x - s)
  BY <1>2 DEF PathAt
<1>4. CASE Odd(i)
  <2>1. /\ i > 0 /\ s >= b /\ StartOf(x, h + 1) = s - b /\ EndOf(n, h + 1, Halved(x, h + 1)) = e
        /\ EndOf(n, h, i - 1) = s /\ two(h) * (i - 1) = s - b
    BY <1>1, <1>4 DEF Level
  <2>2. PICK lo \in Nat, y \in Nat, z \in Nat : lo = s - b /\ y = x - lo /\ z = x - s
    <3>1. s - b \in Nat /\ x - (s - b) \in Nat /\ x - s \in Nat
      BY <1>2, <2>1
    <3> QED
      BY <3>1
  <2>3. s = lo + two(h) /\ s < e /\ e <= s + two(h) /\ y < e - lo /\ z = y - two(h) /\ ~(y < two(h))
    BY <1>2, <2>2
  <2>4. auditPath(leaves, lo, e, y) = Added(auditPath(leaves, s, e, z), hashRange(leaves, lo, s))
    <3>1. PathSplits(leaves, lo, s, e, y, h, z)
      BY PathCut
    <3> QED
      BY <2>3, <3>1, Zenon DEF PathSplits, Cuts, Past
  <2>5. PathAt(leaves, n, h + 1, x) = auditPath(leaves, lo, e, y)
    BY <2>1, <2>2 DEF PathAt
  <2>6. Sibling(leaves, n, x, h) = hashRange(leaves, lo, s)
    BY <1>2, <1>4, <2>1, <2>2 DEF Sibling, NodeAt
  <2>7. ~Alone(n, x, h)
    BY <1>2, <1>4 DEF Alone
  <2> QED
    BY <1>3, <2>2, <2>4, <2>5, <2>6, <2>7
<1>5. CASE ~Odd(i) /\ s + b < n
  <2>1. /\ StartOf(x, h + 1) = s /\ two(h) * (i + 1) = s + b
        /\ e = s + b /\ EndOf(n, h + 1, Halved(x, h + 1)) = EndOf(n, h, i + 1)
        /\ EndOf(n, h, i + 1) \in Nat /\ EndOf(n, h, i + 1) > s + b
        /\ EndOf(n, h, i + 1) <= s + 2 * b
    BY <1>1, <1>5 DEF Level
  <2>2. PICK hi \in Nat, y \in Nat : hi = EndOf(n, h, i + 1) /\ y = x - s
    BY <1>2, <2>1
  <2>3. e = s + two(h) /\ e < hi /\ hi <= e + two(h) /\ y < hi - s /\ y < two(h)
    BY <1>2, <2>1, <2>2
  <2>4. auditPath(leaves, s, hi, y) = Added(auditPath(leaves, s, e, y), hashRange(leaves, e, hi))
    <3>1. PathSplits(leaves, s, e, hi, y, h, y - two(h))
      BY PathCut
    <3> QED
      BY <2>3, <3>1, Zenon DEF PathSplits, Cuts, Past
  <2>5. PathAt(leaves, n, h + 1, x) = auditPath(leaves, s, hi, y)
    BY <2>1, <2>2 DEF PathAt
  <2>6. Sibling(leaves, n, x, h) = hashRange(leaves, e, hi)
    BY <1>2, <1>5, <2>1, <2>2 DEF Sibling, NodeAt
  <2>7. ~Alone(n, x, h)
    BY <1>2, <1>5, <2>1 DEF Alone
  <2> QED
    BY <1>3, <2>2, <2>4, <2>5, <2>6, <2>7
<1>6. CASE ~Odd(i) /\ ~(s + b < n)
  <2>1. /\ StartOf(x, h + 1) = s /\ two(h) * (i + 1) = s + b /\ EndOf(n, h + 1, Halved(x, h + 1)) = e
    BY <1>1, <1>6 DEF Level
  <2>2. PathAt(leaves, n, h + 1, x) = auditPath(leaves, s, e, x - s)
    BY <2>1 DEF PathAt
  <2>3. Alone(n, x, h)
    BY <1>2, <1>6, <2>1 DEF Alone
  <2> QED
    BY <1>3, <2>2, <2>3
<1> QED
  BY <1>4, <1>5, <1>6

\* The same of a consistency proof, above the level where the old tree's last
\* leaf stops being the right one of two.
LEMMA SubUp ==
  ASSUME NEW leaves, NEW n \in Nat, NEW x \in Nat, x + 1 < n, NEW h \in Nat,
         \E t \in Nat : t <= h /\ ~Odd(Halved(x, t))
  PROVE  SubAt(leaves, n, h + 1, x) =
           IF Alone(n, x, h) THEN SubAt(leaves, n, h, x)
           ELSE Added(SubAt(leaves, n, h, x), Sibling(leaves, n, x, h))
<1>0. x < n
  OBVIOUS
<1>1. PICK b \in Nat, i \in Nat, s \in Nat, e \in Nat : Level(n, x, h, b, i, s, e)
  BY <1>0, LevelUp
<1>2. /\ b = two(h) /\ b > 0 /\ i = Halved(x, h) /\ s = StartOf(x, h) /\ e = EndOf(n, h, i)
      /\ s = b * i /\ s <= x /\ x < s + b /\ x < e /\ e <= n /\ e <= s + b /\ (e < s + b => e = n)
  BY <1>1 DEF Level
<1>3. PICK w \in Flag, v \in Flag : w = (i = 0) /\ v = (Halved(x, h + 1) = 0)
  BY DEF Flag
<1>4. SubAt(leaves, n, h, x) = subproof(leaves, s, e, x + 1 - s, w)
  BY <1>2, <1>3, Zenon DEF SubAt
<1>5. CASE Odd(i)
  <2>1. /\ i > 0 /\ s >= b /\ StartOf(x, h + 1) = s - b /\ EndOf(n, h + 1, Halved(x, h + 1)) = e
        /\ EndOf(n, h, i - 1) = s /\ two(h) * (i - 1) = s - b
    BY <1>1, <1>5 DEF Level
  <2>2. PICK lo \in Nat, y \in Nat, z \in Nat : lo = s - b /\ y = x + 1 - lo /\ z = x + 1 - s
    <3>1. s - b \in Nat /\ x + 1 - (s - b) \in Nat /\ x + 1 - s \in Nat
      BY <1>2, <2>1
    <3> QED
      BY <3>1
  <2>3. s = lo + two(h) /\ s < e /\ e <= s + two(h) /\ y <= e - lo /\ z = y - two(h) /\ ~(y <= two(h))
    BY <1>2, <2>2
  <2>4. x + 1 # e
    <3>1. SUFFICES ASSUME x + 1 = e PROVE FALSE
      OBVIOUS
    <3>2. e = s + b
      <4>1. e # n
        BY <3>1
      <4>2. ~(e < s + b) /\ e <= s + b
        BY <1>2, <4>1, Zenon
      <4> QED
        BY <1>2, <4>2
    <3>3. PICK t \in Nat : t <= h /\ ~Odd(Halved(x, t))
      OBVIOUS
    <3>4. x + 1 = two(h) * i + two(h)
      BY <1>2, <3>1, <3>2, Zenon
    <3> QED
      BY <1>5, <3>3, <3>4, AllOnes
  <2>5. y < e - lo
    BY <2>2, <2>3, <2>4
  <2>6. subproof(leaves, lo, e, y, v) = Added(subproof(leaves, s, e, z, No), hashRange(leaves, lo, s))
    <3>1. SubSplits(leaves, lo, s, e, y, v, h, z)
      BY SubCut
    <3> QED
      BY <2>3, <2>5, <3>1, Zenon DEF SubSplits, Cuts, Past
  <2>7. SubAt(leaves, n, h + 1, x) = subproof(leaves, lo, e, y, v)
    BY <1>3, <2>1, <2>2, Zenon DEF SubAt
  <2>8. w = No
    <3>1. i # 0
      BY <2>1
    <3> QED
      BY <1>3, <3>1, Zenon DEF No
  <2>9. Sibling(leaves, n, x, h) = hashRange(leaves, lo, s)
    BY <1>2, <1>5, <2>1, <2>2 DEF Sibling, NodeAt
  <2>10. ~Alone(n, x, h)
    BY <1>2, <1>5 DEF Alone
  <2> QED
    BY <1>4, <2>2, <2>6, <2>7, <2>8, <2>9, <2>10, Zenon
<1>6. CASE ~Odd(i) /\ s + b < n
  <2>1. /\ StartOf(x, h + 1) = s /\ two(h) * (i + 1) = s + b
        /\ e = s + b /\ EndOf(n, h + 1, Halved(x, h + 1)) = EndOf(n, h, i + 1)
        /\ EndOf(n, h, i + 1) \in Nat /\ EndOf(n, h, i + 1) > s + b
        /\ EndOf(n, h, i + 1) <= s + 2 * b
    BY <1>1, <1>6 DEF Level
  <2>2. PICK hi \in Nat, y \in Nat : hi = EndOf(n, h, i + 1) /\ y = x + 1 - s
    BY <1>2, <2>1
  <2>3. e = s + two(h) /\ e < hi /\ hi <= e + two(h) /\ y < hi - s /\ y <= two(h)
    BY <1>2, <2>1, <2>2
  <2>4. subproof(leaves, s, hi, y, v) = Added(subproof(leaves, s, e, y, v), hashRange(leaves, e, hi))
    <3>1. SubSplits(leaves, s, e, hi, y, v, h, y - two(h))
      BY SubCut
    <3> QED
      BY <2>3, <3>1, Zenon DEF SubSplits, Cuts, Past
  <2>5. SubAt(leaves, n, h + 1, x) = subproof(leaves, s, hi, y, v)
    BY <1>3, <2>1, <2>2, Zenon DEF SubAt
  <2>6. Sibling(leaves, n, x, h) = hashRange(leaves, e, hi)
    BY <1>2, <1>6, <2>1, <2>2 DEF Sibling, NodeAt
  <2>7. ~Alone(n, x, h)
    BY <1>2, <1>6, <2>1 DEF Alone
  <2>8. w = v
    <3>1. i = 2 * Halved(x, h + 1) /\ Halved(x, h + 1) \in Nat
      BY <1>1, <1>6, HalvedIs DEF Level
    <3>2. (i = 0) <=> (Halved(x, h + 1) = 0)
      BY <3>1
    <3> QED
      BY <1>3, <3>2, Zenon
  <2> QED
    BY <1>4, <2>2, <2>4, <2>5, <2>6, <2>7, <2>8, Zenon
<1>7. CASE ~Odd(i) /\ ~(s + b < n)
  <2>1. /\ StartOf(x, h + 1) = s /\ two(h) * (i + 1) = s + b /\ EndOf(n, h + 1, Halved(x, h + 1)) = e
    BY <1>1, <1>7 DEF Level
  <2>2. SubAt(leaves, n, h + 1, x) = subproof(leaves, s, e, x + 1 - s, v)
    BY <1>3, <2>1, Zenon DEF SubAt
  <2>3. Alone(n, x, h)
    BY <1>2, <1>7, <2>1 DEF Alone
  <2>8. w = v
    <3>1. i = 2 * Halved(x, h + 1) /\ Halved(x, h + 1) \in Nat
      BY <1>1, <1>7, HalvedIs DEF Level
    <3>2. (i = 0) <=> (Halved(x, h + 1) = 0)
      BY <3>1
    <3> QED
      BY <1>3, <3>2, Zenon
  <2> QED
    BY <1>4, <2>2, <2>3, <2>8, Zenon
<1> QED
  BY <1>5, <1>6, <1>7

-----------------------------------------------------------------------------
\* A climb, one hash of a proof at a time.

IsClimb(at, c, path, n) == at = [i \in 0 .. n |-> IF i = 0 THEN c ELSE Climb(at[i - 1], path[i])]

LEMMA ClimbExists ==
  ASSUME NEW c, NEW path, NEW n \in Nat
  PROVE  \E at : IsClimb(at, c, path, n)
<1> DEFINE F == {k \in Nat : \E at : IsClimb(at, c, path, k)}
<1>1. 0 \in F
  <2>1. IsClimb([i \in 0 .. 0 |-> c], c, path, 0)
    BY DEF IsClimb
  <2> QED
    BY <2>1
<1>2. ASSUME NEW k \in Nat, k \in F
      PROVE  k + 1 \in F
  <2>1. PICK t : IsClimb(t, c, path, k)
    BY <1>2
  <2> DEFINE u == [i \in 0 .. k + 1 |-> IF i = 0 THEN c ELSE Climb(t[i - 1], path[i])]
  <2>2. \A i \in 0 .. k : u[i] = t[i]
    BY <2>1 DEF IsClimb
  <2>3. \A i \in 0 .. k + 1 : i # 0 => i - 1 \in 0 .. k
    OBVIOUS
  <2>4. u = [i \in 0 .. k + 1 |-> IF i = 0 THEN c ELSE Climb(u[i - 1], path[i])]
    BY <2>2, <2>3
  <2>5. IsClimb(u, c, path, k + 1)
    BY <2>4 DEF IsClimb
  <2> HIDE DEF u
  <2> QED
    BY <2>5
<1> HIDE DEF F
<1>3. n \in F
  BY <1>1, <1>2, BySteps
<1> QED
  BY <1>3 DEF F

\* Climbs over proofs that begin alike agree as far as they do.
LEMMA ClimbSame ==
  ASSUME NEW c, NEW p, NEW q, NEW n \in Nat, NEW m \in Nat, NEW k \in Nat, NEW t, NEW u,
         k <= n, k <= m, \A i \in 1 .. k : p[i] = q[i], IsClimb(t, c, p, n), IsClimb(u, c, q, m)
  PROVE  t[k] = u[k]
<1> DEFINE F == {i \in Nat : i <= k => t[i] = u[i]}
<1>1. 0 \in F
  BY DEF IsClimb
<1>2. ASSUME NEW i \in Nat, i \in F
      PROVE  i + 1 \in F
  <2>1. SUFFICES ASSUME i + 1 <= k PROVE t[i + 1] = u[i + 1]
    OBVIOUS
  <2>2. t[i + 1] = Climb(t[i], p[i + 1]) /\ u[i + 1] = Climb(u[i], q[i + 1])
    <3>1. /\ i + 1 \in 0 .. n /\ i + 1 # 0 /\ (i + 1) - 1 = i
          /\ i + 1 \in 0 .. m
      BY <2>1
    <3>2. t[i + 1] = Climb(t[i], p[i + 1])
      BY <3>1 DEF IsClimb
    <3>3. u[i + 1] = Climb(u[i], q[i + 1])
      BY <3>1 DEF IsClimb
    <3> QED
      BY <3>2, <3>3
  <2>3. t[i] = u[i] /\ p[i + 1] = q[i + 1]
    BY <1>2, <2>1
  <2> QED
    BY <2>2, <2>3, Zenon
<1> HIDE DEF F
<1>3. k \in F
  BY <1>1, <1>2, BySteps
<1> QED
  BY <1>3 DEF F

LEMMA ClimbIs ==
  ASSUME NEW c, NEW S, NEW path \in Seq(S)
  PROVE  \E at : IsClimb(at, c, path, Len(path)) /\ ClimbAll(c, path) = at[Len(path)]
<1>1. PICK n \in Nat : n = Len(path)
  OBVIOUS
<1>2. PICK at : at = CHOOSE t : IsClimb(t, c, path, n)
  OBVIOUS
<1>3. IsClimb(at, c, path, n)
  BY <1>2, ClimbExists, Zenon
<1>4. ClimbAll(c, path) = at[n]
  BY <1>1, <1>2 DEF ClimbAll, IsClimb
<1> QED
  BY <1>1, <1>3, <1>4, Zenon

LEMMA ClimbNone ==
  ASSUME NEW c
  PROVE  ClimbAll(c, <<>>) = c
<1>1. <<>> \in Seq({}) /\ Len(<<>>) = 0
  OBVIOUS
<1>2. PICK at : IsClimb(at, c, <<>>, 0) /\ ClimbAll(c, <<>>) = at[0]
  BY <1>1, ClimbIs
<1> QED
  BY <1>2 DEF IsClimb

LEMMA ClimbMore ==
  ASSUME NEW c, NEW S, NEW path \in Seq(S), NEW p \in S
  PROVE  ClimbAll(c, Added(path, p)) = Climb(ClimbAll(c, path), p)
<1>1. PICK n \in Nat : n = Len(path)
  OBVIOUS
<1>2. PICK q \in Seq(S) : q = Added(path, p) /\ Len(q) = n + 1 /\ q[n + 1] = p /\ \A i \in 1 .. n : path[i] = q[i]
  <2>1. PICK q : q = Append(path, p)
    OBVIOUS
  <2>2. q \in Seq(S) /\ Len(q) = n + 1 /\ q[n + 1] = p /\ \A i \in 1 .. n : path[i] = q[i]
    BY <1>1, <2>1, AppendProperties
  <2> QED
    BY <2>1, <2>2, Zenon DEF Added
<1>3. PICK t : IsClimb(t, c, path, n) /\ ClimbAll(c, path) = t[n]
  BY <1>1, ClimbIs
<1>4. PICK u : IsClimb(u, c, q, n + 1) /\ ClimbAll(c, q) = u[n + 1]
  BY <1>2, ClimbIs
<1>5. u[n + 1] = Climb(u[n], q[n + 1])
  BY <1>4 DEF IsClimb
<1>6. u[n] = t[n]
  <2>1. PICK m \in Nat : m = n + 1 /\ n <= m /\ n <= n
    OBVIOUS
  <2>2. IsClimb(t, c, path, n) /\ IsClimb(u, c, q, m) /\ \A i \in 1 .. n : path[i] = q[i]
    BY <1>2, <1>3, <1>4, <2>1, Zenon
  <2>3. t[n] = u[n]
    BY <2>1, <2>2, ClimbSame, SMTT(40)
  <2> QED
    BY <2>3
<1> QED
  BY <1>2, <1>3, <1>4, <1>5, <1>6, Zenon

-----------------------------------------------------------------------------
\* The loops that halve.

LEMMA TurnsAre ==
  ASSUME NEW x \in Nat, NEW t \in Nat, NEW odd, t <= x, Odd(Halved(x, t)) = odd,
         \A s \in Nat : s < t => Odd(Halved(x, s)) # odd
  PROVE  Turns(x, odd) = t
<1> DEFINE Good(k) == Odd(Halved(x, k)) = odd /\ \A s \in 0 .. k - 1 : Odd(Halved(x, s)) # odd
<1>1. t \in 0 .. x /\ Good(t)
  OBVIOUS
<1>2. ASSUME NEW k \in 0 .. x, Good(k) PROVE k = t
  <2>1. k \in Nat /\ (k < t \/ t \in 0 .. k - 1 \/ k = t)
    OBVIOUS
  <2> QED
    BY <1>2, <2>1, Zenon
<1>3. (CHOOSE k \in 0 .. x : Good(k)) = t
  <2> HIDE DEF Good
  <2> QED
    BY <1>1, <1>2
<1> QED
  BY <1>3 DEF Turns

LEMMA OddIs ==
  \A n : /\ Odd(n) => Odd(n) = TRUE /\ Odd(n) # FALSE
        /\ ~Odd(n) => Odd(n) = FALSE /\ Odd(n) # TRUE
BY Zenon DEF Odd

LEMMA TurnsWhileEven ==
  ASSUME NEW x \in Nat, NEW t \in Nat, Odd(Halved(x, t)), \A s \in Nat : s < t => ~Odd(Halved(x, s))
  PROVE  Turns(x, TRUE) = t
<1>1. t <= x
  <2>1. PICK i \in Nat : i = Halved(x, t) /\ two(t) * i <= x /\ i > 0
    <3>1. Halved(x, t) \in Nat /\ two(t) * Halved(x, t) <= x
      BY HalvedIs
    <3>2. Halved(x, t) # 0
      BY DEF Odd
    <3> QED
      BY <3>1, <3>2
  <2>2. PICK b \in Nat : b = two(t) /\ b > t
    BY TwoGrows
  <2>3. b <= b * i
    BY <2>1
  <2> QED
    BY <2>1, <2>2, <2>3
<1>2. Odd(Halved(x, t)) = TRUE /\ \A s \in Nat : s < t => Odd(Halved(x, s)) # TRUE
  BY OddIs, Zenon
<1> QED
  BY <1>1, <1>2, TurnsAre

\* A number with ones below a level.
LEMMA OnesBelow ==
  ASSUME NEW x \in Nat, NEW t \in Nat, \A s \in Nat : s < t => Odd(Halved(x, s))
  PROVE  two(t) * Halved(x, t) + two(t) = x + 1
<1> DEFINE F == {k \in Nat : k <= t => two(k) * Halved(x, k) + two(k) = x + 1}
<1>1. 0 \in F
  BY TwoZero, HalvedZero
<1>2. ASSUME NEW k \in Nat, k \in F
      PROVE  k + 1 \in F
  <2>1. SUFFICES ASSUME k + 1 <= t PROVE two(k + 1) * Halved(x, k + 1) + two(k + 1) = x + 1
    OBVIOUS
  <2>2. PICK b \in Nat : b = two(k) /\ two(k + 1) = 2 * b
    BY TwoGrows, TwoNext
  <2>3. PICK j \in Nat : j = Halved(x, k + 1)
    BY HalvedIs
  <2>4. Halved(x, k) = 2 * j + 1
    <3>1. Odd(Halved(x, k))
      BY <2>1
    <3> QED
      BY <2>3, <3>1, HalvedNext
  <2>5. b * (2 * j + 1) + b = x + 1
    BY <1>2, <2>1, <2>2, <2>4
  <2>6. b * (2 * j + 1) + b = (2 * b) * j + 2 * b
    OBVIOUS
  <2> QED
    BY <2>2, <2>3, <2>5, <2>6
<1> HIDE DEF F
<1>3. t \in F
  BY <1>1, <1>2, BySteps
<1> QED
  BY <1>3 DEF F

LEMMA TurnsWhileOdd ==
  ASSUME NEW x \in Nat, NEW t \in Nat, ~Odd(Halved(x, t)), \A s \in Nat : s < t => Odd(Halved(x, s))
  PROVE  Turns(x, FALSE) = t
<1>1. t <= x
  <2>1. two(t) * Halved(x, t) + two(t) = x + 1
    BY OnesBelow
  <2>2. two(t) \in Nat /\ two(t) > t /\ Halved(x, t) \in Nat
    BY TwoGrows, HalvedIs
  <2>3. PICK p \in Nat : p = two(t) * Halved(x, t)
    BY <2>2
  <2> QED
    BY <2>1, <2>2, <2>3
<1>2. Odd(Halved(x, t)) = FALSE /\ \A s \in Nat : s < t => Odd(Halved(x, s)) # FALSE
  BY OddIs, Zenon
<1> QED
  BY <1>1, <1>2, TurnsAre

\* Every number has a lowest zero.
LEMMA LowestZero ==
  ASSUME NEW x \in Nat
  PROVE  \E t \in Nat : ~Odd(Halved(x, t)) /\ \A s \in Nat : s < t => Odd(Halved(x, s))
<1> DEFINE F == {k \in Nat : Odd(Halved(x, k))}
<1>1. SUFFICES ASSUME \A n \in Nat : (\A s \in Nat : s < n => s \in F) => n \in F
               PROVE  FALSE
  OBVIOUS
<1>2. \A n \in Nat : n \in F
  <2> HIDE DEF F
  <2> QED
    BY <1>1, ByLess
<1>3. x < two(x)
  BY TwoGrows
<1>4. Halved(x, x) = 0
  BY <1>3, HalvedOut
<1> QED
  BY <1>2, <1>4 DEF Odd

-----------------------------------------------------------------------------
\* How far a climb has come: at level h it holds the nodes there that leaf x
\* is under, of the new tree and of the old one, whose last leaf x is; the
\* numbers may lag behind, at a level g, while the node is alone.

Point(fn, sn, r, fr) == [fn |-> fn, sn |-> sn, r |-> r, fr |-> fr, ok |-> TRUE]

Lags(n, x, g, h) ==
  /\ g \in Nat /\ g <= h
  /\ g < h => Halved(x, g) = Halved(n - 1, g)
  /\ \A k \in Nat : g <= k /\ k < h => ~Odd(Halved(x, k))

Reached(leaves, n, x, h, c) ==
  \E g \in Nat : /\ Lags(n, x, g, h)
                 /\ c = Point(Halved(x, g), Halved(n - 1, g), NodeAt(leaves, n, h, Halved(x, h)),
                              NodeAt(leaves, x + 1, h, Halved(x, h)))

\* A node and the one above it, of the tree itself and of the old tree.
Goes(leaves, n, x, h) ==
  /\ Alone(n, x, h) =>
       /\ NodeAt(leaves, n, h + 1, Halved(x, h + 1)) = NodeAt(leaves, n, h, Halved(x, h))
       /\ Halved(x, h) = Halved(n - 1, h)
  /\ ~Alone(n, x, h) /\ ~Odd(Halved(x, h)) =>
       /\ NodeAt(leaves, n, h + 1, Halved(x, h + 1)) =
            hashNode(NodeAt(leaves, n, h, Halved(x, h)), Sibling(leaves, n, x, h))
       /\ Halved(x, h) # Halved(n - 1, h)
  /\ Odd(Halved(x, h)) =>
       NodeAt(leaves, n, h + 1, Halved(x, h + 1)) =
         hashNode(Sibling(leaves, n, x, h), NodeAt(leaves, n, h, Halved(x, h)))

LEMMA NodeRises ==
  ASSUME NEW leaves, NEW n \in Nat, NEW x \in Nat, x < n, NEW h \in Nat
  PROVE  Goes(leaves, n, x, h)
<1>1. PICK b \in Nat : b = two(h) /\ b > 0
  BY TwoGrows
<1>2. PICK i \in Nat : i = Halved(x, h) /\ b * i <= x /\ x < b * i + b
  BY <1>1, HalvedIs
<1>3. PICK j \in Nat : j = Halved(x, h + 1) /\ (Odd(i) => i = 2 * j + 1) /\ (~Odd(i) => i = 2 * j)
  <2>1. Halved(x, h + 1) \in Nat
    BY HalvedIs
  <2>2. /\ Odd(i) => i = 2 * Halved(x, h + 1) + 1
        /\ ~Odd(i) => i = 2 * Halved(x, h + 1)
    BY <1>2, HalvedNext
  <2> QED
    BY <2>1, <2>2, Zenon
<1>4. b * (i + 1) = b * i + b
  OBVIOUS
<1>5. PICK y \in Nat : y = n - 1
  OBVIOUS
<1>6. PICK s \in Nat : s = Halved(y, h) /\ b * s <= y /\ y < b * s + b /\ i <= s
  <2>1. x <= y
    BY <1>5
  <2> QED
    BY <1>1, <1>2, <2>1, HalvedIs, HalvedOrder
<1>7. ASSUME ~Odd(i)
      PROVE  /\ b * (i + 1) < n =>
                  NodeAt(leaves, n, h + 1, j) = hashNode(NodeAt(leaves, n, h, i), NodeAt(leaves, n, h, i + 1))
             /\ ~(b * (i + 1) < n) => NodeAt(leaves, n, h + 1, j) = NodeAt(leaves, n, h, i)
  <2>1. i = 2 * j
    BY <1>3, <1>7
  <2>2. two(h) * (2 * j) < n
    BY <1>1, <1>2, <2>1
  <2>3. /\ two(h) * (2 * j + 1) < n =>
             NodeAt(leaves, n, h + 1, j) = hashNode(NodeAt(leaves, n, h, 2 * j), NodeAt(leaves, n, h, 2 * j + 1))
        /\ ~(two(h) * (2 * j + 1) < n) => NodeAt(leaves, n, h + 1, j) = NodeAt(leaves, n, h, 2 * j)
    BY <2>2, NodeUp
  <2> QED
    BY <1>1, <2>1, <2>3, Zenon
<1>8. ASSUME Odd(i)
      PROVE  NodeAt(leaves, n, h + 1, j) = hashNode(NodeAt(leaves, n, h, i - 1), NodeAt(leaves, n, h, i))
  <2>1. i = 2 * j + 1 /\ i - 1 = 2 * j
    BY <1>3, <1>8
  <2>2. b * (2 * j + 1) = b * (2 * j) + b
    OBVIOUS
  <2>3. two(h) * (2 * j) < n /\ two(h) * (2 * j + 1) < n
    BY <1>1, <1>2, <2>1, <2>2
  <2>4. NodeAt(leaves, n, h + 1, j) = hashNode(NodeAt(leaves, n, h, 2 * j), NodeAt(leaves, n, h, 2 * j + 1))
    BY <2>3, NodeUp
  <2> QED
    BY <2>1, <2>4, Zenon
<1>9. Alone(n, x, h) <=> ~Odd(i) /\ ~(b * (i + 1) < n)
  BY <1>1, <1>2, <1>4 DEF Alone
<1>10. b * (i + 1) < n <=> i < s
  <2>1. ASSUME i < s PROVE b * (i + 1) < n
    <3>1. b * (i + 1) <= b * s
      BY <2>1
    <3> QED
      BY <1>5, <1>6, <3>1
  <2>2. ASSUME i = s PROVE ~(b * (i + 1) < n)
    BY <1>4, <1>5, <1>6, <2>2
  <2> QED
    BY <1>6, <2>1, <2>2
<1>11. Alone(n, x, h) =>
         /\ NodeAt(leaves, n, h + 1, Halved(x, h + 1)) = NodeAt(leaves, n, h, Halved(x, h))
         /\ Halved(x, h) = Halved(n - 1, h)
  <2>1. ~(i < s) => i = s
    BY <1>6
  <2> QED
    BY <1>2, <1>3, <1>5, <1>6, <1>7, <1>9, <1>10, <2>1, Zenon
<1>12. ~Alone(n, x, h) /\ ~Odd(Halved(x, h)) =>
         /\ NodeAt(leaves, n, h + 1, Halved(x, h + 1)) =
              hashNode(NodeAt(leaves, n, h, Halved(x, h)), Sibling(leaves, n, x, h))
         /\ Halved(x, h) # Halved(n - 1, h)
  <2>1. i < s => i # s
    OBVIOUS
  <2> QED
    BY <1>2, <1>3, <1>5, <1>6, <1>7, <1>9, <1>10, <2>1, Zenon DEF Sibling
<1>13. Odd(Halved(x, h)) =>
         NodeAt(leaves, n, h + 1, Halved(x, h + 1)) =
           hashNode(Sibling(leaves, n, x, h), NodeAt(leaves, n, h, Halved(x, h)))
  BY <1>2, <1>3, <1>8, Zenon DEF Sibling
<1> QED
  BY <1>11, <1>12, <1>13, Zenon DEF Goes

\* The old tree has nothing to the right, and all there is to the left.
LEMMA OldRises ==
  ASSUME NEW leaves, NEW n \in Nat, NEW x \in Nat, x < n, NEW h \in Nat
  PROVE  /\ ~Odd(Halved(x, h)) =>
              NodeAt(leaves, x + 1, h + 1, Halved(x, h + 1)) = NodeAt(leaves, x + 1, h, Halved(x, h))
         /\ Odd(Halved(x, h)) =>
              NodeAt(leaves, x + 1, h + 1, Halved(x, h + 1)) =
                hashNode(Sibling(leaves, n, x, h), NodeAt(leaves, x + 1, h, Halved(x, h)))
<1>1. PICK m \in Nat : m = x + 1 /\ x < m
  OBVIOUS
<1>2. PICK b \in Nat : b = two(h) /\ b > 0
  BY TwoGrows
<1>3. PICK i \in Nat : i = Halved(x, h) /\ b * i <= x /\ x < b * i + b
  BY <1>2, HalvedIs
<1>4. ASSUME ~Odd(i)
      PROVE  NodeAt(leaves, m, h + 1, Halved(x, h + 1)) = NodeAt(leaves, m, h, i)
  <2>1. b * (i + 1) = b * i + b
    OBVIOUS
  <2>2. Alone(m, x, h)
    BY <1>1, <1>2, <1>3, <1>4, <2>1 DEF Alone
  <2> QED
    BY <1>1, <1>3, <2>2, NodeRises DEF Goes
<1>5. ASSUME Odd(i)
      PROVE  NodeAt(leaves, m, h + 1, Halved(x, h + 1)) = hashNode(Sibling(leaves, n, x, h), NodeAt(leaves, m, h, i))
  <2>1. NodeAt(leaves, m, h + 1, Halved(x, h + 1)) = hashNode(Sibling(leaves, m, x, h), NodeAt(leaves, m, h, i))
    BY <1>1, <1>3, <1>5, NodeRises DEF Goes
  <2>2. PICK k \in Nat : k = i - 1
    BY <1>5 DEF Odd
  <2>3. b * k + b = b * i
    BY <2>2
  <2>4. two(h) * k + two(h) <= n /\ two(h) * k + two(h) <= m
    BY <1>1, <1>2, <1>3, <2>3
  <2>5. NodeAt(leaves, m, h, k) = NodeAt(leaves, n, h, k)
    BY <2>4, NodeFull
  <2>6. Sibling(leaves, m, x, h) = Sibling(leaves, n, x, h)
    BY <1>3, <1>5, <2>2, <2>5, Zenon DEF Sibling
  <2> QED
    BY <2>1, <2>6, Zenon
<1> QED
  BY <1>1, <1>3, <1>4, <1>5, Zenon

LEMMA ShiftIs ==
  ASSUME NEW fn, NEW sn, NEW r, NEW fr, NEW t
  PROVE  Shift(Point(fn, sn, r, fr), t) = Point(Halved(fn, t), Halved(sn, t), r, fr)
<1> DEFINE c == Point(fn, sn, r, fr)
           d == Shift(c, t)
<1>1. c.fn = fn /\ c.sn = sn /\ c.r = r /\ c.fr = fr /\ c.ok = TRUE
  BY Zenon DEF Point
<1>2. DOMAIN c = {"fn", "sn", "r", "fr", "ok"}
  BY DEF Point
<1>3. d = [c EXCEPT !.fn = Halved(@, t), !.sn = Halved(@, t)]
  BY Zenon DEF Shift
<1> HIDE DEF c, d
<1>4. /\ d.fn = Halved(fn, t) /\ d.sn = Halved(sn, t) /\ d.r = r /\ d.fr = fr /\ d.ok = TRUE
      /\ DOMAIN d = {"fn", "sn", "r", "fr", "ok"}
  BY <1>1, <1>2, <1>3
<1>5. d = [fn |-> Halved(fn, t), sn |-> Halved(sn, t), r |-> r, fr |-> fr, ok |-> TRUE]
  BY <1>3, <1>4
<1> QED
  BY <1>5, Zenon DEF Point, d, c

LEMMA RightIs ==
  ASSUME NEW fn, NEW sn, NEW r, NEW fr, NEW a
  PROVE  [Point(fn, sn, r, fr) EXCEPT !.r = a] = Point(fn, sn, a, fr)
<1> DEFINE c == Point(fn, sn, r, fr)
           d == [c EXCEPT !.r = a]
<1>1. c.fn = fn /\ c.sn = sn /\ c.fr = fr /\ c.ok = TRUE
  BY Zenon DEF Point
<1>2. DOMAIN c = {"fn", "sn", "r", "fr", "ok"}
  BY DEF Point
<1>3. d = [c EXCEPT !.r = a]
  OBVIOUS
<1> HIDE DEF c, d
<1>4. d.fn = fn /\ d.sn = sn /\ d.r = a /\ d.fr = fr /\ d.ok = TRUE /\ DOMAIN d = {"fn", "sn", "r", "fr", "ok"}
  BY <1>1, <1>2, <1>3
<1>5. d = [fn |-> fn, sn |-> sn, r |-> a, fr |-> fr, ok |-> TRUE]
  BY <1>3, <1>4
<1> QED
  BY <1>5, Zenon DEF Point, d, c

Both(c, a, b) == [c EXCEPT !.r = a, !.fr = b]

LEMMA BothIs ==
  ASSUME NEW fn, NEW sn, NEW r, NEW fr, NEW a, NEW b
  PROVE  Both(Point(fn, sn, r, fr), a, b) = Point(fn, sn, a, b)
<1> DEFINE c == Point(fn, sn, r, fr)
           d == Both(c, a, b)
<1>1. c.fn = fn /\ c.sn = sn /\ c.ok = TRUE
  BY Zenon DEF Point
<1>2. DOMAIN c = {"fn", "sn", "r", "fr", "ok"}
  BY DEF Point
<1>3. d = [c EXCEPT !.r = a, !.fr = b]
  BY DEF Both
<1> HIDE DEF c, d
<1>4. d.fn = fn /\ d.sn = sn /\ d.r = a /\ d.fr = b /\ d.ok = TRUE /\ DOMAIN d = {"fn", "sn", "r", "fr", "ok"}
  BY <1>1, <1>2, <1>3
<1>5. d = [fn |-> fn, sn |-> sn, r |-> a, fr |-> b, ok |-> TRUE]
  BY <1>3, <1>4
<1> QED
  BY <1>5, Zenon DEF Point, d, c

\* Ways a hash is taken in.
Until(fn, t) == Turns(fn, TRUE) = t

LEMMA ClimbLeft ==
  ASSUME NEW fn, NEW sn, NEW r, NEW fr, NEW p, NEW t, sn # 0, fn # 0, Odd(fn) \/ fn = sn, Until(fn, t)
  PROVE  Climb(Point(fn, sn, r, fr), p) =
           Point(Halved(Halved(fn, t), 1), Halved(Halved(sn, t), 1), hashNode(p, r), hashNode(p, fr))
<1>1. PICK a : a = hashNode(p, r)
  OBVIOUS
<1>2. PICK b : b = hashNode(p, fr)
  OBVIOUS
<1>3. PICK c : c = Point(fn, sn, r, fr)
  OBVIOUS
<1>4. PICK d : d = Point(fn, sn, a, b)
  OBVIOUS
<1>5. c.sn = sn /\ c.fn = fn /\ c.r = r /\ c.fr = fr /\ d.fn = fn
  BY <1>3, <1>4, Zenon DEF Point
<1>6. Both(c, a, b) = d
  <2>1. Both(Point(fn, sn, r, fr), a, b) = Point(fn, sn, a, b)
    BY BothIs
  <2> QED
    BY <1>3, <1>4, <2>1, Zenon
<1>7. Climb(c, p) = Shift(WhileEven(Both(c, a, b)), 1)
  BY <1>1, <1>2, <1>5 DEF Climb, Both
<1>8. Climb(c, p) = Shift(WhileEven(d), 1)
  BY <1>6, <1>7, Zenon
<1>9. WhileEven(d) = Shift(d, t)
  BY <1>5 DEF WhileEven, Until
<1>10. Shift(Point(fn, sn, a, b), t) = Point(Halved(fn, t), Halved(sn, t), a, b)
  BY ShiftIs
<1>11. Climb(c, p) = Shift(Point(Halved(fn, t), Halved(sn, t), a, b), 1)
  BY <1>4, <1>8, <1>9, <1>10, Zenon
<1>12. Shift(Point(Halved(fn, t), Halved(sn, t), a, b), 1) =
         Point(Halved(Halved(fn, t), 1), Halved(Halved(sn, t), 1), a, b)
  BY ShiftIs
<1> QED
  BY <1>1, <1>2, <1>3, <1>11, <1>12, Zenon

LEMMA ClimbRight ==
  ASSUME NEW fn, NEW sn, NEW r, NEW fr, NEW p, sn # 0, ~Odd(fn), fn # sn
  PROVE  Climb(Point(fn, sn, r, fr), p) = Point(Halved(fn, 1), Halved(sn, 1), hashNode(r, p), fr)
<1>1. PICK a : a = hashNode(r, p)
  OBVIOUS
<1>2. PICK c : c = Point(fn, sn, r, fr)
  OBVIOUS
<1>3. PICK d : d = Point(fn, sn, a, fr)
  OBVIOUS
<1>4. c.sn = sn /\ c.fn = fn /\ c.r = r
  BY <1>2, Zenon DEF Point
<1>5. [c EXCEPT !.r = a] = d
  BY <1>2, <1>3, RightIs
<1>6. Climb(c, p) = Shift([c EXCEPT !.r = a], 1)
  BY <1>1, <1>4 DEF Climb
<1>7. Climb(c, p) = Shift(d, 1)
  BY <1>5, <1>6, Zenon
<1>8. Shift(Point(fn, sn, a, fr), 1) = Point(Halved(fn, 1), Halved(sn, 1), a, fr)
  BY ShiftIs
<1> QED
  BY <1>1, <1>2, <1>3, <1>7, <1>8, Zenon

LEMMA HalvedOnce ==
  ASSUME NEW x \in Nat, NEW h \in Nat
  PROVE  Halved(Halved(x, h), 1) = Halved(x, h + 1)
BY HalvedTwice

\* A level with no sibling.
LEMMA StepAlone ==
  ASSUME NEW leaves, NEW n \in Nat, NEW x \in Nat, x < n, NEW h \in Nat, NEW c, Reached(leaves, n, x, h, c),
         Alone(n, x, h)
  PROVE  Reached(leaves, n, x, h + 1, c)
<1>1. PICK g \in Nat : /\ Lags(n, x, g, h)
                       /\ c = Point(Halved(x, g), Halved(n - 1, g), NodeAt(leaves, n, h, Halved(x, h)),
                                    NodeAt(leaves, x + 1, h, Halved(x, h)))
  BY DEF Reached
<1>2. ~Odd(Halved(x, h))
  BY DEF Alone
<1>3. /\ NodeAt(leaves, n, h + 1, Halved(x, h + 1)) = NodeAt(leaves, n, h, Halved(x, h))
      /\ Halved(x, h) = Halved(n - 1, h)
  <2>1. Alone(n, x, h) =>
          /\ NodeAt(leaves, n, h + 1, Halved(x, h + 1)) = NodeAt(leaves, n, h, Halved(x, h))
          /\ Halved(x, h) = Halved(n - 1, h)
    <3>1. Goes(leaves, n, x, h)
      BY NodeRises
    <3> QED
      BY <3>1, Zenon DEF Goes
  <2> QED
    BY <2>1, Zenon
<1>4. NodeAt(leaves, x + 1, h + 1, Halved(x, h + 1)) = NodeAt(leaves, x + 1, h, Halved(x, h))
  BY <1>2, OldRises
<1>5. Lags(n, x, g, h + 1)
  <2>1. g \in Nat /\ g <= h + 1
    BY <1>1 DEF Lags
  <2>2. Halved(x, g) = Halved(n - 1, g)
    <3>1. g < h \/ g = h
      BY <1>1 DEF Lags
    <3> QED
      BY <1>1, <1>3, <3>1 DEF Lags
  <2>3. \A k \in Nat : g <= k /\ k < h + 1 => ~Odd(Halved(x, k))
    <3>1. \A k \in Nat : k < h + 1 => k < h \/ k = h
      OBVIOUS
    <3> QED
      BY <1>1, <1>2, <3>1 DEF Lags
  <2> QED
    BY <2>1, <2>2, <2>3 DEF Lags
<1>6. c = Point(Halved(x, g), Halved(n - 1, g), NodeAt(leaves, n, h + 1, Halved(x, h + 1)),
                NodeAt(leaves, x + 1, h + 1, Halved(x, h + 1)))
  BY <1>1, <1>3, <1>4, Zenon
<1> QED
  BY <1>5, <1>6, Zenon DEF Reached

\* It reached the level above where it stands at that level.
LEMMA ReachedAt ==
  ASSUME NEW leaves, NEW n \in Nat, NEW x \in Nat, NEW h \in Nat, NEW c,
         c = Point(Halved(x, h), Halved(n - 1, h), NodeAt(leaves, n, h, Halved(x, h)),
                   NodeAt(leaves, x + 1, h, Halved(x, h)))
  PROVE  Reached(leaves, n, x, h, c)
<1>1. Lags(n, x, h, h)
  BY DEF Lags
<1> QED
  BY <1>1 DEF Reached

\* A sibling on the right: the climb cannot lag.
LEMMA StepRight ==
  ASSUME NEW leaves, NEW n \in Nat, NEW x \in Nat, x < n, NEW h \in Nat, NEW c, Reached(leaves, n, x, h, c),
         ~Alone(n, x, h), ~Odd(Halved(x, h))
  PROVE  Reached(leaves, n, x, h + 1, Climb(c, Sibling(leaves, n, x, h)))
<1>1. PICK g \in Nat : /\ Lags(n, x, g, h)
                       /\ c = Point(Halved(x, g), Halved(n - 1, g), NodeAt(leaves, n, h, Halved(x, h)),
                                    NodeAt(leaves, x + 1, h, Halved(x, h)))
  BY DEF Reached
<1>2. PICK y \in Nat : y = n - 1 /\ x <= y
  OBVIOUS
<1>3. /\ NodeAt(leaves, n, h + 1, Halved(x, h + 1)) =
           hashNode(NodeAt(leaves, n, h, Halved(x, h)), Sibling(leaves, n, x, h))
      /\ Halved(x, h) # Halved(n - 1, h)
  BY NodeRises DEF Goes
<1>4. NodeAt(leaves, x + 1, h + 1, Halved(x, h + 1)) = NodeAt(leaves, x + 1, h, Halved(x, h))
  BY OldRises
<1>5. g = h
  <2>1. SUFFICES ASSUME g < h PROVE FALSE
    BY <1>1 DEF Lags
  <2>2. Halved(x, g) = Halved(y, g)
    BY <1>1, <1>2, <2>1 DEF Lags
  <2>3. PICK k \in Nat : g + k = h
    <3>1. h - g \in Nat /\ g + (h - g) = h
      BY <2>1
    <3> QED
      BY <3>1
  <2>4. Halved(x, g + k) = Halved(y, g + k)
    <3>1. Halved(Halved(x, g), k) = Halved(x, g + k)
      BY HalvedTwice
    <3>2. Halved(Halved(y, g), k) = Halved(y, g + k)
      BY HalvedTwice
    <3> QED
      BY <2>2, <3>1, <3>2, Zenon
  <2> QED
    BY <1>2, <1>3, <2>3, <2>4
<1>6. Halved(y, h) # 0
  <2>1. Halved(x, h) <= Halved(y, h) /\ Halved(x, h) \in Nat /\ Halved(y, h) \in Nat
    BY <1>2, HalvedOrder, HalvedIs
  <2> QED
    BY <1>2, <1>3, <2>1
<1>7. Climb(c, Sibling(leaves, n, x, h)) =
        Point(Halved(Halved(x, h), 1), Halved(Halved(y, h), 1),
              hashNode(NodeAt(leaves, n, h, Halved(x, h)), Sibling(leaves, n, x, h)),
              NodeAt(leaves, x + 1, h, Halved(x, h)))
  <2>1. PICK fr : fr = NodeAt(leaves, x + 1, h, Halved(x, h))
    OBVIOUS
  <2>2. PICK r : r = NodeAt(leaves, n, h, Halved(x, h))
    OBVIOUS
  <2>3. PICK fn : fn = Halved(x, h)
    OBVIOUS
  <2>4. PICK sn : sn = Halved(y, h)
    OBVIOUS
  <2>5. PICK p : p = Sibling(leaves, n, x, h)
    OBVIOUS
  <2>6. sn # 0 /\ ~Odd(fn) /\ fn # sn
    BY <1>2, <1>3, <1>6, <2>3, <2>4, Zenon
  <2>7. Climb(Point(fn, sn, r, fr), p) = Point(Halved(fn, 1), Halved(sn, 1), hashNode(r, p), fr)
    BY <2>6, ClimbRight
  <2>8. c = Point(fn, sn, r, fr)
    BY <1>1, <1>2, <1>5, <2>1, <2>2, <2>3, <2>4, Zenon
  <2> QED
    BY <2>1, <2>2, <2>3, <2>4, <2>5, <2>7, <2>8, Zenon
<1>8. Halved(Halved(x, h), 1) = Halved(x, h + 1) /\ Halved(Halved(y, h), 1) = Halved(y, h + 1)
  BY HalvedOnce
<1>9. Climb(c, Sibling(leaves, n, x, h)) =
        Point(Halved(x, h + 1), Halved(n - 1, h + 1), NodeAt(leaves, n, h + 1, Halved(x, h + 1)),
              NodeAt(leaves, x + 1, h + 1, Halved(x, h + 1)))
  BY <1>2, <1>3, <1>4, <1>7, <1>8, Zenon
<1>10. h + 1 \in Nat
  OBVIOUS
<1> QED
  BY <1>9, <1>10, ReachedAt

\* A sibling on the left: the climb catches up.
LEMMA StepLeft ==
  ASSUME NEW leaves, NEW n \in Nat, NEW x \in Nat, x < n, NEW h \in Nat, NEW c, Reached(leaves, n, x, h, c),
         Odd(Halved(x, h))
  PROVE  Reached(leaves, n, x, h + 1, Climb(c, Sibling(leaves, n, x, h)))
<1>1. PICK g \in Nat : /\ Lags(n, x, g, h)
                       /\ c = Point(Halved(x, g), Halved(n - 1, g), NodeAt(leaves, n, h, Halved(x, h)),
                                    NodeAt(leaves, x + 1, h, Halved(x, h)))
  BY DEF Reached
<1>2. PICK y \in Nat : y = n - 1 /\ x <= y
  OBVIOUS
<1>3. NodeAt(leaves, n, h + 1, Halved(x, h + 1)) =
        hashNode(Sibling(leaves, n, x, h), NodeAt(leaves, n, h, Halved(x, h)))
  BY NodeRises DEF Goes
<1>4. NodeAt(leaves, x + 1, h + 1, Halved(x, h + 1)) =
        hashNode(Sibling(leaves, n, x, h), NodeAt(leaves, x + 1, h, Halved(x, h)))
  BY OldRises
<1>5. PICK t \in Nat : g + t = h
  <2>1. h - g \in Nat /\ g + (h - g) = h
    BY <1>1 DEF Lags
  <2> QED
    BY <2>1
<1>6. PICK fn \in Nat : fn = Halved(x, g)
  BY HalvedIs
<1>7. PICK sn \in Nat : sn = Halved(y, g) /\ fn <= sn
  <2>1. Halved(y, g) \in Nat
    BY HalvedIs
  <2>2. Halved(x, g) <= Halved(y, g)
    BY <1>2, HalvedOrder
  <2> QED
    BY <1>6, <2>1, <2>2, Zenon
<1>8. Halved(fn, t) = Halved(x, h) /\ Halved(sn, t) = Halved(y, h)
  <2>1. Halved(Halved(x, g), t) = Halved(x, g + t)
    BY HalvedTwice
  <2>2. Halved(Halved(y, g), t) = Halved(y, g + t)
    BY HalvedTwice
  <2> QED
    BY <1>5, <1>6, <1>7, <2>1, <2>2, Zenon
<1>9. fn # 0 /\ sn # 0
  <2>1. SUFFICES ASSUME fn = 0 PROVE FALSE
    BY <1>7
  <2>2. 0 < two(t)
    BY TwoGrows
  <2>3. Halved(0, t) = 0
    BY <2>2, HalvedOut
  <2> QED
    BY <1>8, <2>1, <2>3 DEF Odd
<1>10. Odd(fn) \/ fn = sn
  <2>1. CASE g = h
    BY <1>6, <2>1
  <2>2. CASE g < h
    BY <1>1, <1>2, <1>6, <1>7, <2>2 DEF Lags
  <2> QED
    BY <1>1, <2>1, <2>2 DEF Lags
<1>11. Until(fn, t)
  <2>1. \A s \in Nat : s < t => ~Odd(Halved(fn, s))
    <3>1. SUFFICES ASSUME NEW s \in Nat, s < t PROVE ~Odd(Halved(fn, s))
      OBVIOUS
    <3>2. PICK k \in Nat : k = g + s /\ g <= k /\ k < h
      BY <1>5, <3>1
    <3>3. Halved(fn, s) = Halved(x, k)
      BY <1>6, <3>2, HalvedTwice
    <3> QED
      BY <1>1, <3>2, <3>3 DEF Lags
  <2>2. Odd(Halved(fn, t))
    BY <1>8
  <2> QED
    BY <2>1, <2>2, TurnsWhileEven DEF Until
<1>12. Climb(c, Sibling(leaves, n, x, h)) =
         Point(Halved(Halved(fn, t), 1), Halved(Halved(sn, t), 1),
               hashNode(Sibling(leaves, n, x, h), NodeAt(leaves, n, h, Halved(x, h))),
               hashNode(Sibling(leaves, n, x, h), NodeAt(leaves, x + 1, h, Halved(x, h))))
  <2>1. PICK fr : fr = NodeAt(leaves, x + 1, h, Halved(x, h))
    OBVIOUS
  <2>2. PICK r : r = NodeAt(leaves, n, h, Halved(x, h))
    OBVIOUS
  <2>3. PICK p : p = Sibling(leaves, n, x, h)
    OBVIOUS
  <2>4. Climb(Point(fn, sn, r, fr), p) =
          Point(Halved(Halved(fn, t), 1), Halved(Halved(sn, t), 1), hashNode(p, r), hashNode(p, fr))
    BY <1>9, <1>10, <1>11, ClimbLeft
  <2>5. c = Point(fn, sn, r, fr)
    BY <1>1, <1>2, <1>6, <1>7, <2>1, <2>2, Zenon
  <2> QED
    BY <2>1, <2>2, <2>3, <2>4, <2>5, Zenon
<1>13. Halved(Halved(x, h), 1) = Halved(x, h + 1) /\ Halved(Halved(y, h), 1) = Halved(y, h + 1)
  BY HalvedOnce
<1>14. Climb(c, Sibling(leaves, n, x, h)) =
         Point(Halved(x, h + 1), Halved(n - 1, h + 1), NodeAt(leaves, n, h + 1, Halved(x, h + 1)),
               NodeAt(leaves, x + 1, h + 1, Halved(x, h + 1)))
  BY <1>2, <1>3, <1>4, <1>8, <1>12, <1>13, Zenon
<1>15. h + 1 \in Nat
  OBVIOUS
<1> QED
  BY <1>14, <1>15, ReachedAt

-----------------------------------------------------------------------------
\* An audit path leads from its leaf to the root.

Nodes(leaves, n) == {NodeAt(leaves, n, h, i) : h \in Nat, i \in Nat}

LEMMA SiblingIs ==
  ASSUME NEW leaves, NEW n \in Nat, NEW x \in Nat, NEW h \in Nat
  PROVE  Sibling(leaves, n, x, h) \in Nodes(leaves, n)
<1>1. PICK i \in Nat : i = Halved(x, h)
  BY HalvedIs
<1>2. CASE Odd(i)
  <2>1. PICK k \in Nat : k = i - 1
    BY <1>2 DEF Odd
  <2>2. Sibling(leaves, n, x, h) = NodeAt(leaves, n, h, k)
    BY <1>1, <1>2, <2>1 DEF Sibling
  <2> QED
    BY <2>2 DEF Nodes
<1>3. CASE ~Odd(i)
  <2>1. PICK k \in Nat : k = i + 1
    OBVIOUS
  <2>2. Sibling(leaves, n, x, h) = NodeAt(leaves, n, h, k)
    BY <1>1, <1>3, <2>1 DEF Sibling
  <2> QED
    BY <2>2 DEF Nodes
<1> QED
  BY <1>2, <1>3

LEMMA AddedIs ==
  ASSUME NEW S, NEW s \in Seq(S), NEW e \in S
  PROVE  Added(s, e) \in Seq(S)
BY DEF Added

LEMMA PathStart ==
  ASSUME NEW leaves, NEW n \in Nat, NEW x \in Nat, x < n
  PROVE  PathAt(leaves, n, 0, x) = <<>>
<1>1. Halved(x, 0) = x
  BY HalvedZero
<1>2. StartOf(x, 0) = x
  BY <1>1, TwoZero DEF StartOf
<1>3. EndOf(n, 0, x) = x + 1
  BY TwoZero DEF EndOf
<1>4. PICK e \in Nat, z \in Nat : e = x + 1 /\ z = x - x /\ z = 0
  OBVIOUS
<1>5. PathAt(leaves, n, 0, x) = auditPath(leaves, x, e, z)
  BY <1>1, <1>2, <1>3, <1>4, Zenon DEF PathAt
<1>6. auditPath(leaves, x, e, 0) = <<>>
  BY <1>4, PathOne
<1> QED
  BY <1>4, <1>5, <1>6, Zenon

LEMMA PathIs ==
  ASSUME NEW leaves, NEW n \in Nat, NEW x \in Nat, x < n
  PROVE  \A h \in Nat : PathAt(leaves, n, h, x) \in Seq(Nodes(leaves, n))
<1> DEFINE F == {h \in Nat : PathAt(leaves, n, h, x) \in Seq(Nodes(leaves, n))}
<1>1. 0 \in F
  <2>1. PathAt(leaves, n, 0, x) = <<>>
    BY PathStart
  <2>2. <<>> \in Seq(Nodes(leaves, n))
    OBVIOUS
  <2> QED
    BY <2>1, <2>2
<1>2. ASSUME NEW h \in Nat, h \in F
      PROVE  h + 1 \in F
  <2>1. PathAt(leaves, n, h, x) \in Seq(Nodes(leaves, n))
    BY <1>2
  <2>2. Added(PathAt(leaves, n, h, x), Sibling(leaves, n, x, h)) \in Seq(Nodes(leaves, n))
    BY <2>1, SiblingIs, AddedIs
  <2>3. PathAt(leaves, n, h + 1, x) =
          IF Alone(n, x, h) THEN PathAt(leaves, n, h, x)
          ELSE Added(PathAt(leaves, n, h, x), Sibling(leaves, n, x, h))
    BY PathUp
  <2>4. PathAt(leaves, n, h + 1, x) \in Seq(Nodes(leaves, n))
    BY <2>1, <2>2, <2>3, Zenon
  <2> QED
    BY <2>4
<1>3. \A h \in Nat : h \in F
  <2> HIDE DEF F
  <2> QED
    BY <1>1, <1>2, BySteps
<1> QED
  BY <1>3

\* One level of a climb, with what the proof has there.
LEMMA StepUp ==
  ASSUME NEW leaves, NEW n \in Nat, NEW x \in Nat, x < n, NEW h \in Nat, NEW c, NEW S,
         NEW path \in Seq(S), NEW next, Reached(leaves, n, x, h, ClimbAll(c, path)), Sibling(leaves, n, x, h) \in S,
         next = IF Alone(n, x, h) THEN path ELSE Added(path, Sibling(leaves, n, x, h))
  PROVE  Reached(leaves, n, x, h + 1, ClimbAll(c, next))
<1>1. CASE Alone(n, x, h)
  <2>1. Reached(leaves, n, x, h + 1, ClimbAll(c, path))
    BY <1>1, StepAlone
  <2> QED
    BY <1>1, <2>1, Zenon
<1>2. CASE ~Alone(n, x, h)
  <2>1. PICK p \in S : p = Sibling(leaves, n, x, h)
    OBVIOUS
  <2>2. ClimbAll(c, Added(path, p)) = Climb(ClimbAll(c, path), p)
    BY ClimbMore
  <2>3. Reached(leaves, n, x, h + 1, Climb(ClimbAll(c, path), Sibling(leaves, n, x, h)))
    <3>1. CASE Odd(Halved(x, h))
      BY <3>1, StepLeft
    <3>2. CASE ~Odd(Halved(x, h))
      BY <1>2, <3>2, StepRight
    <3> QED
      BY <3>1, <3>2
  <2> QED
    BY <1>2, <2>1, <2>2, <2>3, Zenon
<1> QED
  BY <1>1, <1>2

\* At the top.
Arrived(leaves, n, x, c) == c.ok /\ c.sn = 0 /\ c.r = rootAt(leaves, n) /\ c.fr = rootAt(leaves, x + 1)

LEMMA ReachedTop ==
  ASSUME NEW leaves, NEW n \in Nat, NEW x \in Nat, x < n, NEW c, Reached(leaves, n, x, n, c)
  PROVE  Arrived(leaves, n, x, c)
<1>1. PICK g \in Nat : /\ Lags(n, x, g, n)
                       /\ c = Point(Halved(x, g), Halved(n - 1, g), NodeAt(leaves, n, n, Halved(x, n)),
                                    NodeAt(leaves, x + 1, n, Halved(x, n)))
  BY DEF Reached
<1>2. PICK y \in Nat : y = n - 1 /\ y < n
  OBVIOUS
<1>3. two(n) \in Nat /\ n < two(n)
  BY TwoGrows
<1>4. Halved(x, n) = 0 /\ Halved(y, n) = 0
  <2>1. x < two(n) /\ y < two(n)
    BY <1>2, <1>3
  <2> QED
    BY <2>1, HalvedOut
<1>5. NodeAt(leaves, n, n, 0) = rootAt(leaves, n)
  BY <1>3, NodeTop
<1>6. PICK m \in Nat : m = x + 1 /\ m <= two(n)
  BY <1>3
<1>7. NodeAt(leaves, m, n, 0) = rootAt(leaves, m)
  BY <1>6, NodeTop
<1>8. Halved(y, g) = 0
  <2>1. CASE g = n
    BY <1>4, <2>1
  <2>2. CASE g < n
    <3>1. PICK t \in Nat : g + t = n
      <4>1. n - g \in Nat /\ g + (n - g) = n
        BY <2>2
      <4> QED
        BY <4>1
    <3>2. PICK z \in Nat : z = Halved(x, g)
      BY HalvedIs
    <3>3. Halved(z, t) = 0
      <4>1. Halved(Halved(x, g), t) = Halved(x, g + t)
        BY HalvedTwice
      <4> QED
        BY <1>4, <3>1, <3>2, <4>1, Zenon
    <3>4. ASSUME NEW k \in Nat, k < t PROVE ~Odd(Halved(z, k))
      <4>1. PICK j \in Nat : j = g + k /\ g <= j /\ j < n
        BY <3>1, <3>4
      <4>2. Halved(Halved(x, g), k) = Halved(x, g + k)
        BY HalvedTwice
      <4>3. ~Odd(Halved(x, j))
        BY <1>1, <4>1 DEF Lags
      <4> QED
        BY <3>2, <4>1, <4>2, <4>3, Zenon
    <3>5. z = 0
      BY <3>3, <3>4, NoBits
    <3> QED
      BY <1>1, <1>2, <2>2, <3>2, <3>5 DEF Lags
  <2> QED
    BY <1>1, <2>1, <2>2 DEF Lags
<1>9. c = Point(Halved(x, g), 0, rootAt(leaves, n), rootAt(leaves, m))
  BY <1>1, <1>2, <1>4, <1>5, <1>6, <1>7, <1>8, Zenon
<1> QED
  BY <1>6, <1>9, Zenon DEF Point, Arrived

LEMMA PathTop ==
  ASSUME NEW leaves, NEW n \in Nat, NEW x \in Nat, x < n
  PROVE  PathAt(leaves, n, n, x) = inclusionProof(leaves, x, n)
<1>1. two(n) \in Nat /\ n < two(n) /\ x < two(n)
  BY TwoGrows
<1>2. Halved(x, n) = 0
  BY <1>1, HalvedOut
<1>3. StartOf(x, n) = 0 /\ EndOf(n, n, 0) = n /\ x - 0 = x
  BY <1>1, <1>2 DEF StartOf, EndOf
<1> QED
  BY <1>2, <1>3, Zenon DEF PathAt, inclusionProof

\* Every leaf is shown by its path.
LEMMA PathShows ==
  ASSUME NEW leaves, NEW n \in Nat, NEW x \in Nat, x < n
  PROVE  verifyInclusion(leaves[x + 1], x, n, rootAt(leaves, n), inclusionProof(leaves, x, n))
<1>1. PICK c : c = From(x, n - 1, leaves[x + 1])
  OBVIOUS
<1> DEFINE F == {h \in Nat : Reached(leaves, n, x, h, ClimbAll(c, PathAt(leaves, n, h, x)))}
<1>2. 0 \in F
  <2>1. PathAt(leaves, n, 0, x) = <<>>
    BY PathStart
  <2>2. ClimbAll(c, PathAt(leaves, n, 0, x)) = c
    BY <2>1, ClimbNone, Zenon
  <2>3. PICK y \in Nat, m \in Nat : y = n - 1 /\ m = x + 1 /\ x < m
    OBVIOUS
  <2>4. Halved(x, 0) = x /\ Halved(y, 0) = y
    BY HalvedZero
  <2>5. NodeAt(leaves, n, 0, x) = leaves[x + 1]
    BY NodeZero
  <2>6. NodeAt(leaves, m, 0, x) = leaves[x + 1]
    BY <2>3, NodeZero
  <2>7. c = Point(Halved(x, 0), Halved(n - 1, 0), NodeAt(leaves, n, 0, Halved(x, 0)),
                  NodeAt(leaves, x + 1, 0, Halved(x, 0)))
    BY <1>1, <2>3, <2>4, <2>5, <2>6, Zenon DEF From, Point
  <2>8. Reached(leaves, n, x, 0, c)
    BY <2>7, ReachedAt
  <2> QED
    BY <2>2, <2>8
<1>3. ASSUME NEW h \in Nat, h \in F
      PROVE  h + 1 \in F
  <2>1. Reached(leaves, n, x, h, ClimbAll(c, PathAt(leaves, n, h, x)))
    BY <1>3
  <2>2. PathAt(leaves, n, h, x) \in Seq(Nodes(leaves, n))
    BY PathIs
  <2>3. Sibling(leaves, n, x, h) \in Nodes(leaves, n)
    BY SiblingIs
  <2>4. PathAt(leaves, n, h + 1, x) =
          IF Alone(n, x, h) THEN PathAt(leaves, n, h, x)
          ELSE Added(PathAt(leaves, n, h, x), Sibling(leaves, n, x, h))
    BY PathUp
  <2>5. Reached(leaves, n, x, h + 1, ClimbAll(c, PathAt(leaves, n, h + 1, x)))
    BY <2>1, <2>2, <2>3, <2>4, StepUp
  <2> QED
    BY <2>5
<1>4. \A h \in Nat : h \in F
  <2> HIDE DEF F
  <2> QED
    BY <1>2, <1>3, BySteps
<1>5. Reached(leaves, n, x, n, ClimbAll(c, PathAt(leaves, n, n, x)))
  BY <1>4
<1>6. PathAt(leaves, n, n, x) = inclusionProof(leaves, x, n)
  BY PathTop
<1>7. PICK d : d = ClimbAll(c, inclusionProof(leaves, x, n))
  OBVIOUS
<1>8. Reached(leaves, n, x, n, d)
  BY <1>5, <1>6, <1>7, Zenon
<1>9. d.ok /\ d.sn = 0 /\ d.r = rootAt(leaves, n)
  BY <1>8, ReachedTop DEF Arrived
<1> QED
  BY <1>1, <1>7, <1>9, Zenon DEF verifyInclusion

-----------------------------------------------------------------------------
\* A consistency proof leads from the last full node of the old tree to the
\* roots of both.

\* The level of that node.
Full(x, t) == t \in Nat /\ ~Odd(Halved(x, t)) /\ \A s \in Nat : s < t => Odd(Halved(x, s))

\* A sequence is another one after this first element.
IsAfter(p, b, q) == Len(p) = Len(q) + 1 /\ p[1] = b /\ \A i \in 1 .. Len(q) : p[i + 1] = q[i]

LEMMA AddedAt ==
  ASSUME NEW S, NEW s \in Seq(S), NEW e \in S, NEW n, Len(s) = n
  PROVE  /\ Added(s, e) \in Seq(S) /\ Len(Added(s, e)) = n + 1 /\ Added(s, e)[n + 1] = e
         /\ \A i \in 1 .. n : Added(s, e)[i] = s[i]
BY DEF Added

LEMMA FollowsAdded ==
  ASSUME NEW S, NEW p \in Seq(S), NEW b, NEW q \in Seq(S), IsAfter(p, b, q), NEW e \in S
  PROVE  IsAfter(Added(p, e), b, Added(q, e))
<1>1. PICK n \in Nat : n = Len(q) /\ Len(p) = n + 1
  BY DEF IsAfter
<1>2. PICK v \in Seq(S) : v = Added(p, e) /\ Len(v) = n + 2 /\ v[n + 2] = e /\ \A i \in 1 .. n + 1 : v[i] = p[i]
  <2>1. /\ Added(p, e) \in Seq(S) /\ Len(Added(p, e)) = n + 2 /\ Added(p, e)[n + 2] = e
        /\ \A i \in 1 .. n + 1 : Added(p, e)[i] = p[i]
    BY <1>1, AddedAt
  <2> QED
    BY <2>1
<1>3. PICK w \in Seq(S) : w = Added(q, e) /\ Len(w) = n + 1 /\ w[n + 1] = e /\ \A i \in 1 .. n : w[i] = q[i]
  <2>1. /\ Added(q, e) \in Seq(S) /\ Len(Added(q, e)) = n + 1 /\ Added(q, e)[n + 1] = e
        /\ \A i \in 1 .. n : Added(q, e)[i] = q[i]
    BY <1>1, AddedAt, SMTT(40)
  <2> QED
    BY <2>1
<1>4. v[1] = b
  BY <1>1, <1>2 DEF IsAfter
<1>5. ASSUME NEW i \in 1 .. n + 1 PROVE v[i + 1] = w[i]
  <2>1. CASE i = n + 1
    BY <1>2, <1>3, <2>1
  <2>2. CASE i # n + 1
    <3>1. i \in 1 .. n /\ i + 1 \in 1 .. n + 1
      BY <2>2
    <3>2. v[i + 1] = p[i + 1] /\ w[i] = q[i] /\ p[i + 1] = q[i]
      BY <1>1, <1>2, <1>3, <3>1 DEF IsAfter
    <3> QED
      BY <3>2
  <2> QED
    BY <2>1, <2>2
<1>6. IsAfter(v, b, w)
  BY <1>2, <1>3, <1>4, <1>5 DEF IsAfter
<1> QED
  BY <1>2, <1>3, <1>6, Zenon

LEMMA TailIs ==
  ASSUME NEW S, NEW p \in Seq(S), NEW b, NEW q \in Seq(S), IsAfter(p, b, q)
  PROVE  Tail(p) = q /\ p # <<>> /\ p[1] = b
<1>1. p # <<>> /\ p[1] = b
  BY DEF IsAfter
<1>2. Tail(p) \in Seq(S) /\ Len(Tail(p)) = Len(q)
  BY <1>1 DEF IsAfter
<1>3. \A i \in 1 .. Len(q) : Tail(p)[i] = q[i]
  BY <1>1 DEF IsAfter
<1>4. Tail(p) = q
  BY <1>2, <1>3
<1> QED
  BY <1>1, <1>4

LEMMA OneFollows ==
  ASSUME NEW b
  PROVE  IsAfter(<<b>>, b, <<>>)
BY DEF IsAfter

LEMMA PutBefore ==
  ASSUME NEW S, NEW b \in S, NEW q \in Seq(S)
  PROVE  <<b>> \o q \in Seq(S) /\ IsAfter(<<b>> \o q, b, q)
<1>1. <<b>> \in Seq(S)
  OBVIOUS
<1>2. <<b>> \o q \in Seq(S)
  BY <1>1
<1>3. Len(<<b>> \o q) = Len(q) + 1 /\ (<<b>> \o q)[1] = b
  OBVIOUS
<1>4. \A i \in 1 .. Len(q) : (<<b>> \o q)[i + 1] = q[i]
  OBVIOUS
<1> QED
  BY <1>2, <1>3, <1>4 DEF IsAfter

\* The full node is whole in both trees.
LEMMA FullNode ==
  ASSUME NEW leaves, NEW n \in Nat, NEW x \in Nat, x < n, NEW t, Full(x, t)
  PROVE  /\ two(t) * Halved(x, t) + two(t) = x + 1
         /\ NodeAt(leaves, x + 1, t, Halved(x, t)) = NodeAt(leaves, n, t, Halved(x, t))
<1>1. t \in Nat
  BY DEF Full
<1>2. two(t) * Halved(x, t) + two(t) = x + 1
  BY <1>1, OnesBelow DEF Full
<1>3. PICK m \in Nat, i \in Nat : m = x + 1 /\ i = Halved(x, t)
  <2>1. Halved(x, t) \in Nat /\ x + 1 \in Nat
    BY <1>1, HalvedIs
  <2> QED
    BY <2>1
<1>4. PICK e \in Nat : e = two(t) * i + two(t) /\ e <= n /\ e <= m
  BY <1>2, <1>3
<1>5. NodeAt(leaves, m, t, i) = NodeAt(leaves, n, t, i)
  BY <1>1, <1>4, NodeFull
<1> QED
  BY <1>2, <1>3, <1>5, Zenon

\* It is the old tree's root when that has a power of two of leaves.
LEMMA PowerIs ==
  ASSUME NEW x \in Nat, NEW t, Full(x, t)
  PROVE  PowerOfTwo(x + 1) <=> Halved(x, t) = 0
<1>1. t \in Nat
  BY DEF Full
<1>2. PICK b \in Nat : b = two(t) /\ b > t
  BY <1>1, TwoGrows
<1>3. PICK i \in Nat : i = Halved(x, t) /\ b * i + b = x + 1
  BY <1>1, <1>2, HalvedIs, OnesBelow DEF Full
<1>4. ASSUME i = 0 PROVE PowerOfTwo(x + 1)
  <2>1. x + 1 = two(t) /\ t \in 0 .. x + 1
    BY <1>1, <1>2, <1>3, <1>4
  <2> QED
    BY <2>1 DEF PowerOfTwo
<1>5. ASSUME PowerOfTwo(x + 1) PROVE i = 0
  <2>1. PICK h \in Nat : x + 1 = two(h)
    BY <1>5 DEF PowerOfTwo
  <2>2. SUFFICES ASSUME i # 0 PROVE FALSE
    OBVIOUS
  <2>3. two(h) = b * i + b /\ b * i >= b
    BY <1>3, <2>1, <2>2
  <2>4. CASE h <= t
    <3>1. PICK d \in Nat : h + d = t
      <4>1. t - h \in Nat /\ h + (t - h) = t
        BY <1>1, <2>4
      <4> QED
        BY <4>1
    <3>2. two(h) <= two(h + d)
      BY TwoRises
    <3>3. two(h) <= b
      BY <1>2, <3>1, <3>2
    <3> QED
      BY <1>1, <1>2, <2>3, <3>3
  <2>5. CASE t < h
    <3>1. PICK k \in Nat : k + 1 = h /\ t <= k
      <4>1. h - 1 \in Nat /\ (h - 1) + 1 = h /\ t <= h - 1
        BY <1>1, <2>5
      <4> QED
        BY <4>1
    <3>2. two(k) \in Nat /\ two(k + 1) = 2 * two(k)
      BY TwoGrows, TwoNext
    <3>3. x + 1 = two(k) * 1 + two(k)
      BY <2>1, <3>1, <3>2
    <3>4. Odd(1)
      BY DEF Odd
    <3>5. \A s \in Nat : s <= k => Odd(Halved(x, s))
      BY <3>3, <3>4, AllOnes
    <3>6. Odd(Halved(x, t))
      BY <1>1, <3>1, <3>5
    <3> QED
      BY <3>6, Zenon DEF Full
  <2> QED
    BY <1>1, <2>4, <2>5
<1> QED
  BY <1>3, <1>4, <1>5

\* The proof at that level, and what it is above.
LEMMA SubStart ==
  ASSUME NEW leaves, NEW n \in Nat, NEW x \in Nat, x < n, NEW t, Full(x, t)
  PROVE  SubAt(leaves, n, t, x) = IF Halved(x, t) = 0 THEN <<>> ELSE <<NodeAt(leaves, n, t, Halved(x, t))>>
<1>1. t \in Nat
  BY DEF Full
<1>2. PICK b \in Nat : b = two(t)
  BY <1>1, TwoGrows
<1>3. PICK i \in Nat : i = Halved(x, t) /\ b * i + b = x + 1
  BY <1>1, <1>2, HalvedIs, FullNode
<1>4. PICK s \in Nat, e \in Nat, m \in Nat : s = StartOf(x, t) /\ e = EndOf(n, t, i) /\ m = x + 1 - s /\ m = e - s /\ s = b * i
  <2>1. StartOf(x, t) = b * i /\ b * i \in Nat
    BY <1>2, <1>3 DEF StartOf
  <2>2. EndOf(n, t, i) = x + 1
    BY <1>2, <1>3 DEF EndOf
  <2>3. x + 1 - b * i = b
    BY <1>2, <1>3
  <2> QED
    BY <1>2, <2>1, <2>2, <2>3
<1>5. PICK w \in Flag : w = (i = 0)
  BY DEF Flag
<1>6. SubAt(leaves, n, t, x) = subproof(leaves, s, e, m, w)
  BY <1>3, <1>4, <1>5, Zenon DEF SubAt
<1>7. subproof(leaves, s, e, m, w) = IF w THEN <<>> ELSE <<hashRange(leaves, s, e)>>
  <2>1. Spans(s, e, m)
    BY <1>4 DEF Spans
  <2> QED
    BY <2>1, SubWhole
<1>8. NodeAt(leaves, n, t, i) = hashRange(leaves, s, e)
  BY <1>2, <1>4, Zenon DEF NodeAt
<1> QED
  BY <1>3, <1>5, <1>6, <1>7, <1>8, Zenon

\* What is left of it to climb with.
Rest(leaves, n, x, t, s, q) ==
  IF Halved(x, t) = 0 THEN q = s ELSE IsAfter(s, NodeAt(leaves, n, t, Halved(x, t)), q)

Climbs(leaves, n, x, t, h) ==
  \E q \in Seq(Nodes(leaves, n)) :
    /\ SubAt(leaves, n, h, x) \in Seq(Nodes(leaves, n))
    /\ Rest(leaves, n, x, t, SubAt(leaves, n, h, x), q)
    /\ Reached(leaves, n, x, h, ClimbAll(Point(Halved(x, t), Halved(n - 1, t), NodeAt(leaves, n, t, Halved(x, t)),
                                               NodeAt(leaves, n, t, Halved(x, t))), q))

LEMMA ClimbStart ==
  ASSUME NEW leaves, NEW n \in Nat, NEW x \in Nat, x < n, NEW t, Full(x, t)
  PROVE  Climbs(leaves, n, x, t, t)
<1>1. t \in Nat /\ Halved(x, t) \in Nat
  BY HalvedIs DEF Full
<1>2. PICK b : b = NodeAt(leaves, n, t, Halved(x, t))
  OBVIOUS
<1>3. b \in Nodes(leaves, n)
  BY <1>1, <1>2 DEF Nodes
<1>4. <<>> \in Seq(Nodes(leaves, n)) /\ <<b>> \in Seq(Nodes(leaves, n))
  BY <1>3
<1>5. SubAt(leaves, n, t, x) = IF Halved(x, t) = 0 THEN <<>> ELSE <<b>>
  BY <1>2, SubStart
<1>6. SubAt(leaves, n, t, x) \in Seq(Nodes(leaves, n)) /\ Rest(leaves, n, x, t, SubAt(leaves, n, t, x), <<>>)
  <2>1. IsAfter(<<b>>, b, <<>>)
    BY OneFollows
  <2> QED
    BY <1>2, <1>4, <1>5, <2>1, Zenon DEF Rest
<1>7. PICK c : c = Point(Halved(x, t), Halved(n - 1, t), b, b)
  OBVIOUS
<1>8. b = NodeAt(leaves, x + 1, t, Halved(x, t))
  BY <1>2, FullNode
<1>9. c = Point(Halved(x, t), Halved(n - 1, t), NodeAt(leaves, n, t, Halved(x, t)),
                NodeAt(leaves, x + 1, t, Halved(x, t)))
  BY <1>2, <1>7, <1>8, Zenon
<1>10. Reached(leaves, n, x, t, c)
  BY <1>1, <1>9, ReachedAt
<1>11. ClimbAll(c, <<>>) = c
  BY ClimbNone
<1>12. Reached(leaves, n, x, t, ClimbAll(Point(Halved(x, t), Halved(n - 1, t), NodeAt(leaves, n, t, Halved(x, t)),
                                               NodeAt(leaves, n, t, Halved(x, t))), <<>>))
  BY <1>2, <1>7, <1>10, <1>11, Zenon
<1> QED
  BY <1>4, <1>6, <1>12, Zenon DEF Climbs

LEMMA ClimbUp ==
  ASSUME NEW leaves, NEW n \in Nat, NEW x \in Nat, x + 1 < n, NEW t, Full(x, t), NEW h \in Nat, t <= h,
         Climbs(leaves, n, x, t, h)
  PROVE  Climbs(leaves, n, x, t, h + 1)
<1>1. PICK c : c = Point(Halved(x, t), Halved(n - 1, t), NodeAt(leaves, n, t, Halved(x, t)),
                         NodeAt(leaves, n, t, Halved(x, t)))
  OBVIOUS
<1>2. PICK S : S = Nodes(leaves, n)
  OBVIOUS
<1>3. PICK q \in Seq(S) : /\ SubAt(leaves, n, h, x) \in Seq(S)
                          /\ Rest(leaves, n, x, t, SubAt(leaves, n, h, x), q)
                          /\ Reached(leaves, n, x, h, ClimbAll(c, q))
  BY <1>1, <1>2, Zenon DEF Climbs
<1>4. PICK s \in Seq(S) : s = SubAt(leaves, n, h, x)
  BY <1>3
<1>5. PICK e \in S : e = Sibling(leaves, n, x, h)
  BY <1>2, SiblingIs
<1>6. SubAt(leaves, n, h + 1, x) = IF Alone(n, x, h) THEN s ELSE Added(s, e)
  <2>1. \E k \in Nat : k <= h /\ ~Odd(Halved(x, k))
    BY DEF Full
  <2>2. SubAt(leaves, n, h + 1, x) =
          IF Alone(n, x, h) THEN SubAt(leaves, n, h, x)
          ELSE Added(SubAt(leaves, n, h, x), Sibling(leaves, n, x, h))
    BY <2>1, SubUp
  <2> QED
    BY <1>4, <1>5, <2>2, Zenon
<1>7. PICK r : r = IF Alone(n, x, h) THEN q ELSE Added(q, e)
  OBVIOUS
<1>8. Added(s, e) \in Seq(S) /\ Added(q, e) \in Seq(S)
  BY AddedIs
<1>9. r \in Seq(S) /\ SubAt(leaves, n, h + 1, x) \in Seq(S)
  BY <1>6, <1>7, <1>8, Zenon
<1>10. Rest(leaves, n, x, t, SubAt(leaves, n, h + 1, x), r)
  <2>1. CASE Halved(x, t) = 0
    BY <1>3, <1>4, <1>6, <1>7, <2>1, Zenon DEF Rest
  <2>2. CASE Halved(x, t) # 0
    <3>1. PICK b : b = NodeAt(leaves, n, t, Halved(x, t))
      OBVIOUS
    <3>2. IsAfter(s, b, q)
      BY <1>3, <1>4, <2>2, <3>1, Zenon DEF Rest
    <3>3. IsAfter(Added(s, e), b, Added(q, e))
      BY <3>2, FollowsAdded
    <3> QED
      BY <1>6, <1>7, <2>2, <3>1, <3>2, <3>3, Zenon DEF Rest
  <2> QED
    BY <2>1, <2>2
<1>11. Reached(leaves, n, x, h + 1, ClimbAll(c, r))
  <2>1. x < n
    OBVIOUS
  <2>2. r = IF Alone(n, x, h) THEN q ELSE Added(q, Sibling(leaves, n, x, h))
    BY <1>5, <1>7, Zenon
  <2>3. Sibling(leaves, n, x, h) \in S
    BY <1>5
  <2> QED
    BY <1>3, <2>1, <2>2, <2>3, StepUp
<1> QED
  BY <1>1, <1>2, <1>9, <1>10, <1>11, Zenon DEF Climbs

LEMMA ClimbsAll ==
  ASSUME NEW leaves, NEW n \in Nat, NEW x \in Nat, x + 1 < n, NEW t, Full(x, t)
  PROVE  \A h \in Nat : t <= h => Climbs(leaves, n, x, t, h)
<1> DEFINE F == {k \in Nat : Climbs(leaves, n, x, t, t + k)}
<1>1. t \in Nat
  BY DEF Full
<1>2. 0 \in F
  <2>1. x < n /\ t + 0 = t
    BY <1>1
  <2>2. Climbs(leaves, n, x, t, t)
    BY <2>1, ClimbStart
  <2> QED
    BY <2>1, <2>2
<1>3. ASSUME NEW k \in Nat, k \in F
      PROVE  k + 1 \in F
  <2>1. PICK h \in Nat : h = t + k /\ t <= h /\ h + 1 = t + (k + 1)
    BY <1>1
  <2>2. Climbs(leaves, n, x, t, h)
    BY <1>3, <2>1
  <2>3. Climbs(leaves, n, x, t, h + 1)
    BY <2>1, <2>2, ClimbUp
  <2>4. Climbs(leaves, n, x, t, t + (k + 1))
    BY <2>1, <2>3, Zenon
  <2> QED
    BY <2>4
<1>4. \A k \in Nat : k \in F
  <2> HIDE DEF F
  <2> QED
    BY <1>2, <1>3, BySteps
<1>5. SUFFICES ASSUME NEW h \in Nat, t <= h PROVE Climbs(leaves, n, x, t, h)
  OBVIOUS
<1>6. PICK k \in Nat : t + k = h
  <2>1. h - t \in Nat /\ t + (h - t) = h
    BY <1>1, <1>5
  <2> QED
    BY <2>1
<1>7. Climbs(leaves, n, x, t, t + k)
  BY <1>4
<1> QED
  BY <1>6, <1>7, Zenon

\* What verifyConsistency climbs with.
Led(first, firstRoot, proof) == IF PowerOfTwo(first) THEN <<firstRoot>> \o proof ELSE proof

Ascent(first, second, p) == ClimbAll(WhileOdd(From(first - 1, second - 1, p[1])), Tail(p))

LEMMA VerifyIs ==
  ASSUME NEW m \in Nat, NEW n \in Nat, 0 < m, m < n, NEW r, NEW s, NEW proof
  PROVE  verifyConsistency(m, n, r, s, proof) <=>
           /\ proof # <<>>
           /\ Ascent(m, n, Led(m, r, proof)).ok /\ Ascent(m, n, Led(m, r, proof)).sn = 0
           /\ Ascent(m, n, Led(m, r, proof)).r = s /\ Ascent(m, n, Led(m, r, proof)).fr = r
<1>1. m # n /\ m # 0
  OBVIOUS
<1> QED
  BY <1>1, Zenon DEF verifyConsistency, Ascent, Led

LEMMA Beginning ==
  ASSUME NEW x \in Nat, NEW y, NEW b, NEW t, Full(x, t)
  PROVE  WhileOdd(From(x, y, b)) = Point(Halved(x, t), Halved(y, t), b, b)
<1>1. PICK c : c = From(x, y, b)
  OBVIOUS
<1>2. c = Point(x, y, b, b) /\ c.fn = x
  BY <1>1, Zenon DEF From, Point
<1>3. Turns(x, FALSE) = t
  BY TurnsWhileOdd DEF Full
<1>4. WhileOdd(c) = Shift(c, t)
  BY <1>2, <1>3, Zenon DEF WhileOdd
<1>5. Shift(Point(x, y, b, b), t) = Point(Halved(x, t), Halved(y, t), b, b)
  BY ShiftIs
<1> QED
  BY <1>1, <1>2, <1>4, <1>5, Zenon

Parts(p, b, q) == p[1] = b /\ Tail(p) = q

LEMMA AscentIs ==
  ASSUME NEW x \in Nat, NEW n \in Nat, NEW p, NEW b, NEW q, NEW t, Full(x, t), Parts(p, b, q)
  PROVE  Ascent(x + 1, n, p) = ClimbAll(Point(Halved(x, t), Halved(n - 1, t), b, b), q)
<1>1. PICK y : y = n - 1
  OBVIOUS
<1>2. (x + 1) - 1 = x
  OBVIOUS
<1>3. WhileOdd(From(x, y, b)) = Point(Halved(x, t), Halved(y, t), b, b)
  BY Beginning
<1> QED
  BY <1>1, <1>2, <1>3, Zenon DEF Ascent, Parts

LEMMA Truth ==
  ASSUME NEW a, NEW b, a = b
  PROVE  (a = b) = TRUE
BY Zenon

LEMMA ProofIs ==
  ASSUME NEW leaves, NEW n \in Nat, NEW x \in Nat, x + 1 < n
  PROVE  consistencyProof(leaves, x + 1, n) = SubAt(leaves, n, n, x)
<1>1. two(n) \in Nat /\ n < two(n) /\ x < two(n)
  BY TwoGrows
<1>2. Halved(x, n) = 0
  BY <1>1, HalvedOut
<1>3. StartOf(x, n) = 0 /\ EndOf(n, n, 0) = n /\ x + 1 - 0 = x + 1 /\ x + 1 # 0 /\ x + 1 # n
  BY <1>1, <1>2 DEF StartOf, EndOf
<1>4. (Halved(x, n) = 0) = TRUE
  BY <1>2, Truth, Zenon
<1> QED
  BY <1>2, <1>3, <1>4, Zenon DEF SubAt, consistencyProof

LEMMA ProofShows ==
  ASSUME NEW leaves, NEW n \in Nat, NEW x \in Nat, x + 1 < n
  PROVE  /\ consistencyProof(leaves, x + 1, n) \in Seq(Nodes(leaves, n))
         /\ verifyConsistency(x + 1, n, rootAt(leaves, x + 1), rootAt(leaves, n), consistencyProof(leaves, x + 1, n))
<1>1. PICK t \in Nat : Full(x, t)
  <2>1. PICK t \in Nat : ~Odd(Halved(x, t)) /\ \A s \in Nat : s < t => Odd(Halved(x, s))
    BY LowestZero
  <2> QED
    BY <2>1 DEF Full
<1>2. PICK b : b = NodeAt(leaves, n, t, Halved(x, t))
  OBVIOUS
<1>3. PICK i \in Nat : i = Halved(x, t)
  BY HalvedIs
<1>4. PICK S : S = Nodes(leaves, n)
  OBVIOUS
<1>5. b \in S
  BY <1>2, <1>3, <1>4 DEF Nodes
<1>6. PICK w \in Nat : w = two(t) /\ w > t
  BY TwoGrows
<1>7. w * i + w = x + 1 /\ b = NodeAt(leaves, x + 1, t, i)
  <2>1. x < n
    OBVIOUS
  <2>2. /\ two(t) * Halved(x, t) + two(t) = x + 1
        /\ NodeAt(leaves, x + 1, t, Halved(x, t)) = NodeAt(leaves, n, t, Halved(x, t))
    BY <1>1, <2>1, FullNode
  <2> QED
    BY <1>2, <1>3, <1>6, <2>2, Zenon
<1>8. t < n
  <2>1. w * i >= 0
    OBVIOUS
  <2> QED
    BY <1>6, <1>7, <2>1
<1>9. PICK c : c = Point(Halved(x, t), Halved(n - 1, t), b, b)
  OBVIOUS
<1>10. PICK s \in Seq(S) : s = consistencyProof(leaves, x + 1, n)
  <2>1. Climbs(leaves, n, x, t, n)
    BY <1>1, <1>8, ClimbsAll
  <2>2. SubAt(leaves, n, n, x) \in Seq(S)
    BY <1>4, <2>1, Zenon DEF Climbs
  <2>3. consistencyProof(leaves, x + 1, n) = SubAt(leaves, n, n, x)
    BY ProofIs
  <2> QED
    BY <2>2, <2>3, Zenon
<1>11. PICK q \in Seq(S) : Rest(leaves, n, x, t, s, q) /\ Reached(leaves, n, x, n, ClimbAll(c, q))
  <2>1. Climbs(leaves, n, x, t, n)
    BY <1>1, <1>8, ClimbsAll
  <2>2. consistencyProof(leaves, x + 1, n) = SubAt(leaves, n, n, x)
    BY ProofIs
  <2> QED
    BY <1>2, <1>4, <1>9, <1>10, <2>1, <2>2, Zenon DEF Climbs
<1>12. PICK m \in Nat : m = x + 1 /\ 0 < m /\ m < n
  OBVIOUS
<1>13. PICK r : r = rootAt(leaves, m)
  OBVIOUS
<1>14. PICK d : d = ClimbAll(c, q)
  OBVIOUS
<1>15. d.ok /\ d.sn = 0 /\ d.r = rootAt(leaves, n) /\ d.fr = r
  <2>1. x < n
    OBVIOUS
  <2>2. Reached(leaves, n, x, n, d)
    BY <1>11, <1>14, Zenon
  <2>3. Arrived(leaves, n, x, d)
    BY <2>1, <2>2, ReachedTop
  <2> QED
    BY <1>12, <1>13, <2>3, Zenon DEF Arrived
<1>16. PowerOfTwo(m) <=> i = 0
  <2>1. PowerOfTwo(x + 1) <=> Halved(x, t) = 0
    BY <1>1, PowerIs
  <2> QED
    BY <1>3, <1>12, <2>1, Zenon
<1>17. s # <<>> /\ Led(m, r, s)[1] = b /\ Tail(Led(m, r, s)) = q
  <2>1. CASE i = 0
    <3>1. q = s
      BY <1>3, <1>11, <2>1, Zenon DEF Rest
    <3>2. m <= two(t)
      BY <1>6, <1>7, <1>12, <2>1
    <3>3. NodeAt(leaves, m, t, 0) = r
      BY <1>13, <3>2, NodeTop
    <3>4. r = b
      BY <1>7, <1>12, <2>1, <3>3, Zenon
    <3>5. Led(m, r, s) = <<b>> \o s
      BY <1>16, <2>1, <3>4, Zenon DEF Led
    <3>6. <<b>> \o s \in Seq(S) /\ IsAfter(<<b>> \o s, b, s)
      BY <1>5, PutBefore
    <3>7. PICK p \in Seq(S) : p = <<b>> \o s /\ IsAfter(p, b, s)
      BY <3>6
    <3>8. Tail(p) = s /\ p # <<>> /\ p[1] = b
      BY <3>7, TailIs
    <3>9. s # <<>>
      <4>1. SUFFICES ASSUME s = <<>> PROVE FALSE
        OBVIOUS
      <4>2. d = c
        BY <1>14, <3>1, <4>1, ClimbNone, Zenon
      <4>3. Halved(n - 1, t) = 0
        <5>1. c.sn = Halved(n - 1, t)
          BY <1>9 DEF Point
        <5> QED
          BY <1>15, <4>2, <5>1, Zenon
      <4>4. PICK y \in Nat : y = n - 1 /\ w <= y
        BY <1>7, <1>12, <2>1
      <4>5. Halved(y, t) = 0 /\ y < two(t) * Halved(y, t) + two(t)
        BY <4>3, <4>4, HalvedIs
      <4> QED
        BY <1>6, <4>4, <4>5
    <3> QED
      BY <3>1, <3>5, <3>7, <3>8, <3>9, Zenon
  <2>2. CASE i # 0
    <3>1. IsAfter(s, b, q)
      BY <1>2, <1>3, <1>11, <2>2, Zenon DEF Rest
    <3>2. Tail(s) = q /\ s # <<>> /\ s[1] = b
      BY <3>1, TailIs
    <3>3. Led(m, r, s) = s
      BY <1>16, <2>2, Zenon DEF Led
    <3> QED
      BY <3>2, <3>3, Zenon
  <2> QED
    BY <2>1, <2>2
<1>18. Ascent(m, n, Led(m, r, s)) = d
  <2>1. PICK p : p = Led(m, r, s)
    OBVIOUS
  <2>2. Parts(p, b, q)
    BY <1>17, <2>1, Zenon DEF Parts
  <2>3. Ascent(x + 1, n, p) = ClimbAll(Point(Halved(x, t), Halved(n - 1, t), b, b), q)
    BY <1>1, <2>2, AscentIs
  <2> QED
    BY <1>9, <1>12, <1>14, <2>1, <2>3, Zenon
<1>19. verifyConsistency(m, n, r, rootAt(leaves, n), s)
  <2>1. PICK z : z = rootAt(leaves, n)
    OBVIOUS
  <2>2. /\ s # <<>>
        /\ Ascent(m, n, Led(m, r, s)).ok /\ Ascent(m, n, Led(m, r, s)).sn = 0
        /\ Ascent(m, n, Led(m, r, s)).r = z /\ Ascent(m, n, Led(m, r, s)).fr = r
    BY <1>15, <1>17, <1>18, <2>1, Zenon
  <2>3. verifyConsistency(m, n, r, z, s)
    BY <1>12, <2>2, VerifyIs
  <2> QED
    BY <2>1, <2>3, Zenon
<1>20. consistencyProof(leaves, x + 1, n) \in Seq(Nodes(leaves, n))
  BY <1>4, <1>10, Zenon
<1> QED
  BY <1>10, <1>12, <1>13, <1>19, <1>20, Zenon

-----------------------------------------------------------------------------
\* Two climbs from the same place in a tree that end at the same root were of
\* the same hashes.

LeftOf(fn, sn) == Odd(fn) \/ fn = sn

Up(fn, sn, x) == IF LeftOf(fn, sn) THEN Halved(Halved(x, Turns(fn, TRUE)), 1) ELSE Halved(x, 1)

LEMMA ClimbOnLeft ==
  ASSUME NEW fn, NEW sn, NEW r, NEW fr, NEW p, sn # 0, LeftOf(fn, sn)
  PROVE  Climb(Point(fn, sn, r, fr), p) = Point(Up(fn, sn, fn), Up(fn, sn, sn), hashNode(p, r), hashNode(p, fr))
<1>1. PICK t : Until(fn, t)
  BY DEF Until
<1>2. fn # 0
  <2>1. ~Odd(0)
    BY DEF Odd
  <2> QED
    BY <2>1, Zenon DEF LeftOf
<1>3. Odd(fn) \/ fn = sn
  BY DEF LeftOf
<1>4. Climb(Point(fn, sn, r, fr), p) =
        Point(Halved(Halved(fn, t), 1), Halved(Halved(sn, t), 1), hashNode(p, r), hashNode(p, fr))
  BY <1>1, <1>2, <1>3, ClimbLeft
<1>5. Up(fn, sn, fn) = Halved(Halved(fn, t), 1) /\ Up(fn, sn, sn) = Halved(Halved(sn, t), 1)
  BY <1>1, Zenon DEF Up, Until
<1> QED
  BY <1>4, <1>5, Zenon

LEMMA ClimbOnRight ==
  ASSUME NEW fn, NEW sn, NEW r, NEW fr, NEW p, sn # 0, ~LeftOf(fn, sn)
  PROVE  Climb(Point(fn, sn, r, fr), p) = Point(Up(fn, sn, fn), Up(fn, sn, sn), hashNode(r, p), fr)
<1>1. ~Odd(fn) /\ fn # sn
  BY DEF LeftOf
<1>2. Climb(Point(fn, sn, r, fr), p) = Point(Halved(fn, 1), Halved(sn, 1), hashNode(r, p), fr)
  BY <1>1, ClimbRight
<1>3. Up(fn, sn, fn) = Halved(fn, 1) /\ Up(fn, sn, sn) = Halved(sn, 1)
  BY DEF Up
<1> QED
  BY <1>2, <1>3, Zenon

\* A hash too many.
Lost(c) == DOMAIN c = {"fn", "sn", "r", "fr", "ok"} /\ c.sn = 0 /\ ~c.ok

LEMMA ClimbLost ==
  ASSUME NEW c, DOMAIN c = {"fn", "sn", "r", "fr", "ok"}, c.sn = 0, NEW p
  PROVE  Lost(Climb(c, p))
<1>1. Climb(c, p) = [c EXCEPT !.ok = FALSE]
  BY DEF Climb
<1>2. PICK d : d = Climb(c, p)
  OBVIOUS
<1>3. DOMAIN d = {"fn", "sn", "r", "fr", "ok"} /\ d.sn = 0 /\ d.ok = FALSE
  BY <1>1, <1>2
<1> QED
  BY <1>2, <1>3 DEF Lost

LEMMA PointAt ==
  ASSUME NEW fn, NEW sn, NEW r, NEW fr
  PROVE  /\ DOMAIN Point(fn, sn, r, fr) = {"fn", "sn", "r", "fr", "ok"}
         /\ Point(fn, sn, r, fr).sn = sn /\ Point(fn, sn, r, fr).r = r /\ Point(fn, sn, r, fr).fr = fr
BY DEF Point

LEMMA NodeSame ==
  ASSUME NEW a, NEW b, NEW c, NEW d, hashNode(a, b) = hashNode(c, d)
  PROVE  a = c /\ b = d
BY DEF hashNode

\* Two climbs after k hashes.
Same(c, d, r, fr, s, fs, p, q, k) ==
  r = s => /\ c.r = d.r /\ \A i \in 1 .. k : p[i] = q[i]
           /\ c.fr = d.fr => fr = fs

Twins(c, d, a, b, p, q, k) ==
  \/ Lost(a) /\ Lost(b)
  \/ \E fn, sn, r, fr, s, fs :
       a = Point(fn, sn, r, fr) /\ b = Point(fn, sn, s, fs) /\ Same(c, d, r, fr, s, fs, p, q, k)

LEMMA TwinsBy ==
  ASSUME NEW c, NEW d, NEW p, NEW q, NEW k, NEW fn, NEW sn, NEW r, NEW fr, NEW s, NEW fs,
         Same(c, d, r, fr, s, fs, p, q, k)
  PROVE  Twins(c, d, Point(fn, sn, r, fr), Point(fn, sn, s, fs), p, q, k)
BY DEF Twins

LEMMA TwinsUp ==
  ASSUME NEW c, NEW d, NEW a, NEW b, NEW p, NEW q, NEW k \in Nat, Twins(c, d, a, b, p, q, k)
  PROVE  Twins(c, d, Climb(a, p[k + 1]), Climb(b, q[k + 1]), p, q, k + 1)
<1>1. CASE Lost(a) /\ Lost(b)
  <2>1. Lost(Climb(a, p[k + 1])) /\ Lost(Climb(b, q[k + 1]))
    BY <1>1, ClimbLost DEF Lost
  <2> QED
    BY <2>1 DEF Twins
<1>2. CASE ~(Lost(a) /\ Lost(b))
  <2>1. PICK fn, sn, r, fr, s, fs :
          a = Point(fn, sn, r, fr) /\ b = Point(fn, sn, s, fs) /\ Same(c, d, r, fr, s, fs, p, q, k)
    BY <1>2 DEF Twins
  <2>2. PICK x : x = p[k + 1]
    OBVIOUS
  <2>3. PICK y : y = q[k + 1]
    OBVIOUS
  <2>4. \A i \in 1 .. k + 1 : i \in 1 .. k \/ i = k + 1
    OBVIOUS
  <2>5. ASSUME sn = 0 PROVE Lost(Climb(a, x)) /\ Lost(Climb(b, y))
    <3>1. DOMAIN a = {"fn", "sn", "r", "fr", "ok"} /\ a.sn = 0
      BY <2>1, <2>5, PointAt
    <3>2. DOMAIN b = {"fn", "sn", "r", "fr", "ok"} /\ b.sn = 0
      BY <2>1, <2>5, PointAt
    <3> QED
      BY <3>1, <3>2, ClimbLost
  <2>6. CASE sn # 0 /\ LeftOf(fn, sn)
    <3>1. Climb(Point(fn, sn, r, fr), x) = Point(Up(fn, sn, fn), Up(fn, sn, sn), hashNode(x, r), hashNode(x, fr))
      BY <2>6, ClimbOnLeft
    <3>2. Climb(Point(fn, sn, s, fs), y) = Point(Up(fn, sn, fn), Up(fn, sn, sn), hashNode(y, s), hashNode(y, fs))
      BY <2>6, ClimbOnLeft
    <3>3. Same(c, d, hashNode(x, r), hashNode(x, fr), hashNode(y, s), hashNode(y, fs), p, q, k + 1)
      <4>1. SUFFICES ASSUME hashNode(x, r) = hashNode(y, s)
                     PROVE  /\ c.r = d.r /\ \A i \in 1 .. k + 1 : p[i] = q[i]
                            /\ c.fr = d.fr => hashNode(x, fr) = hashNode(y, fs)
        BY DEF Same
      <4>2. x = y /\ r = s
        BY <4>1, NodeSame
      <4> QED
        BY <2>1, <2>2, <2>3, <2>4, <4>2 DEF Same
    <3>4. PICK f, g, j : f = Up(fn, sn, fn) /\ g = Up(fn, sn, sn) /\ j = k + 1
      OBVIOUS
    <3>5. Twins(c, d, Point(f, g, hashNode(x, r), hashNode(x, fr)), Point(f, g, hashNode(y, s), hashNode(y, fs)), p, q, j)
      BY <3>3, <3>4, TwinsBy
    <3> QED
      BY <2>1, <2>2, <2>3, <3>1, <3>2, <3>4, <3>5, Zenon
  <2>7. CASE sn # 0 /\ ~LeftOf(fn, sn)
    <3>1. Climb(Point(fn, sn, r, fr), x) = Point(Up(fn, sn, fn), Up(fn, sn, sn), hashNode(r, x), fr)
      BY <2>7, ClimbOnRight
    <3>2. Climb(Point(fn, sn, s, fs), y) = Point(Up(fn, sn, fn), Up(fn, sn, sn), hashNode(s, y), fs)
      BY <2>7, ClimbOnRight
    <3>3. Same(c, d, hashNode(r, x), fr, hashNode(s, y), fs, p, q, k + 1)
      <4>1. SUFFICES ASSUME hashNode(r, x) = hashNode(s, y)
                     PROVE  /\ c.r = d.r /\ \A i \in 1 .. k + 1 : p[i] = q[i]
                            /\ c.fr = d.fr => fr = fs
        BY DEF Same
      <4>2. x = y /\ r = s
        BY <4>1, NodeSame
      <4> QED
        BY <2>1, <2>2, <2>3, <2>4, <4>2 DEF Same
    <3>4. PICK f, g, j : f = Up(fn, sn, fn) /\ g = Up(fn, sn, sn) /\ j = k + 1
      OBVIOUS
    <3>5. Twins(c, d, Point(f, g, hashNode(r, x), fr), Point(f, g, hashNode(s, y), fs), p, q, j)
      BY <3>3, <3>4, TwinsBy
    <3> QED
      BY <2>1, <2>2, <2>3, <3>1, <3>2, <3>4, <3>5, Zenon
  <2> QED
    BY <2>2, <2>3, <2>5, <2>6, <2>7, Zenon DEF Twins
<1> QED
  BY <1>1, <1>2

LEMMA TwinsAll ==
  ASSUME NEW c, NEW d, NEW p, NEW q, NEW n \in Nat, NEW m \in Nat, NEW t, NEW u,
         IsClimb(t, c, p, n), IsClimb(u, d, q, m), Twins(c, d, c, d, p, q, 0)
  PROVE  \A k \in Nat : k <= n /\ k <= m => Twins(c, d, t[k], u[k], p, q, k)
<1> DEFINE F == {k \in Nat : k <= n /\ k <= m => Twins(c, d, t[k], u[k], p, q, k)}
<1>1. 0 \in F
  <2>1. t[0] = c /\ u[0] = d
    BY DEF IsClimb
  <2>2. Twins(c, d, t[0], u[0], p, q, 0)
    BY <2>1, Zenon
  <2> QED
    BY <2>2
<1>2. ASSUME NEW k \in Nat, k \in F
      PROVE  k + 1 \in F
  <2>1. SUFFICES ASSUME k + 1 <= n, k + 1 <= m PROVE Twins(c, d, t[k + 1], u[k + 1], p, q, k + 1)
    OBVIOUS
  <2>2. Twins(c, d, t[k], u[k], p, q, k)
    BY <1>2, <2>1
  <2>3. Twins(c, d, Climb(t[k], p[k + 1]), Climb(u[k], q[k + 1]), p, q, k + 1)
    BY <2>2, TwinsUp
  <2>4. t[k + 1] = Climb(t[k], p[k + 1])
    BY <2>1 DEF IsClimb
  <2>5. u[k + 1] = Climb(u[k], q[k + 1])
    BY <2>1 DEF IsClimb
  <2> QED
    BY <2>3, <2>4, <2>5, Zenon
<1>3. \A k \in Nat : k \in F
  <2> HIDE DEF F
  <2> QED
    BY <1>1, <1>2, BySteps
<1> QED
  BY <1>3

\* A climb that is at the top is lost with the next hash.
LEMMA TopIsLast ==
  ASSUME NEW c, NEW p, NEW n \in Nat, NEW t, IsClimb(t, c, p, n), NEW k \in Nat, k < n,
         DOMAIN t[k] = {"fn", "sn", "r", "fr", "ok"}, t[k].sn = 0
  PROVE  Lost(t[n])
<1> DEFINE F == {j \in Nat : k + j + 1 <= n => Lost(t[k + j + 1])}
<1>1. 0 \in F
  <2>1. t[k + 1] = Climb(t[k], p[k + 1])
    BY DEF IsClimb
  <2>2. Lost(Climb(t[k], p[k + 1]))
    BY ClimbLost
  <2>3. k + 0 + 1 = k + 1
    OBVIOUS
  <2>4. Lost(t[k + 0 + 1])
    BY <2>1, <2>2, <2>3, Zenon
  <2> QED
    BY <2>4
<1>2. ASSUME NEW j \in Nat, j \in F
      PROVE  j + 1 \in F
  <2>1. SUFFICES ASSUME k + (j + 1) + 1 <= n PROVE Lost(t[k + (j + 1) + 1])
    OBVIOUS
  <2>2. PICK i \in Nat : i = k + j + 1 /\ i <= n /\ i + 1 = k + (j + 1) + 1 /\ i + 1 <= n
    BY <2>1
  <2>3. Lost(t[i])
    BY <1>2, <2>2
  <2>4. t[i + 1] = Climb(t[i], p[i + 1])
    BY <2>2 DEF IsClimb
  <2>5. Lost(Climb(t[i], p[i + 1]))
    BY <2>3, ClimbLost DEF Lost
  <2> QED
    BY <2>2, <2>4, <2>5, Zenon
<1>3. \A j \in Nat : j \in F
  <2> HIDE DEF F
  <2> QED
    BY <1>1, <1>2, BySteps
<1>4. PICK j \in Nat : k + j + 1 = n
  <2>1. n - k - 1 \in Nat /\ k + (n - k - 1) + 1 = n
    OBVIOUS
  <2> QED
    BY <2>1
<1>5. Lost(t[k + j + 1])
  BY <1>3, <1>4
<1> QED
  BY <1>4, <1>5, Zenon

LEMMA TwinsEnd ==
  ASSUME NEW c, NEW d, NEW p, NEW q, NEW n \in Nat, NEW m \in Nat, NEW t, NEW u,
         IsClimb(t, c, p, n), IsClimb(u, d, q, m), Twins(c, d, c, d, p, q, 0),
         t[n].ok, t[n].sn = 0, u[m].ok
  PROVE  ~(n < m)
<1>1. SUFFICES ASSUME n < m PROVE FALSE
  OBVIOUS
<1>2. Twins(c, d, t[n], u[n], p, q, n)
  BY <1>1, TwinsAll
<1>3. ~Lost(t[n]) /\ ~Lost(u[m])
  BY DEF Lost
<1>4. PICK fn, sn, r, fr, s, fs : t[n] = Point(fn, sn, r, fr) /\ u[n] = Point(fn, sn, s, fs)
  BY <1>2, <1>3, Zenon DEF Twins
<1>5. sn = 0
  BY <1>4, PointAt
<1>6. DOMAIN u[n] = {"fn", "sn", "r", "fr", "ok"} /\ u[n].sn = 0
  BY <1>4, <1>5, PointAt
<1>7. Lost(u[m])
  BY <1>1, <1>6, TopIsLast
<1> QED
  BY <1>3, <1>7

LEMMA TwinsTurn ==
  ASSUME NEW fn, NEW sn, NEW r, NEW fr, NEW s, NEW fs, NEW p, NEW q
  PROVE  Twins(Point(fn, sn, r, fr), Point(fn, sn, s, fs), Point(fn, sn, r, fr), Point(fn, sn, s, fs), p, q, 0)
<1>1. PICK a : a = Point(fn, sn, r, fr)
  OBVIOUS
<1>2. PICK b : b = Point(fn, sn, s, fs)
  OBVIOUS
<1>3. a.r = r /\ a.fr = fr /\ b.r = s /\ b.fr = fs
  BY <1>1, <1>2 DEF Point
<1>4. \A i \in 1 .. 0 : p[i] = q[i]
  OBVIOUS
<1>5. Same(a, b, r, fr, s, fs, p, q, 0)
  BY <1>3, <1>4, Zenon DEF Same
<1>6. Twins(a, b, Point(fn, sn, r, fr), Point(fn, sn, s, fs), p, q, 0)
  BY <1>5, TwinsBy
<1> QED
  BY <1>1, <1>2, <1>6, Zenon

\* Where a climb of a proof ends that is taken.
Ends(c, path, top) == ClimbAll(c, path).ok /\ ClimbAll(c, path).sn = 0 /\ ClimbAll(c, path).r = top

LEMMA ClimbsAgree ==
  ASSUME NEW S, NEW T, NEW fn, NEW sn, NEW r, NEW fr, NEW s, NEW fs, NEW p \in Seq(S), NEW q \in Seq(T), NEW top,
         Ends(Point(fn, sn, r, fr), p, top), Ends(Point(fn, sn, s, fs), q, top)
  PROVE  /\ r = s /\ p = q
         /\ fr = fs => ClimbAll(Point(fn, sn, r, fr), p).fr = ClimbAll(Point(fn, sn, s, fs), q).fr
<1>1. PICK c : c = Point(fn, sn, r, fr)
  OBVIOUS
<1>2. PICK d : d = Point(fn, sn, s, fs)
  OBVIOUS
<1>3. c.r = r /\ c.fr = fr /\ d.r = s /\ d.fr = fs
  BY <1>1, <1>2 DEF Point
<1>4. PICK n \in Nat, m \in Nat : n = Len(p) /\ m = Len(q)
  OBVIOUS
<1>5. PICK t : IsClimb(t, c, p, n) /\ ClimbAll(c, p) = t[n]
  BY <1>4, ClimbIs
<1>6. PICK u : IsClimb(u, d, q, m) /\ ClimbAll(d, q) = u[m]
  BY <1>4, ClimbIs
<1>7. Twins(c, d, c, d, p, q, 0) /\ Twins(d, c, d, c, q, p, 0)
  BY <1>1, <1>2, TwinsTurn
<1>8. t[n].ok /\ t[n].sn = 0 /\ t[n].r = top /\ u[m].ok /\ u[m].sn = 0 /\ u[m].r = top
  BY <1>1, <1>2, <1>5, <1>6, Zenon DEF Ends
<1>9. n = m
  <2>1. ~(n < m)
    BY <1>5, <1>6, <1>7, <1>8, TwinsEnd
  <2>2. ~(m < n)
    BY <1>5, <1>6, <1>7, <1>8, TwinsEnd
  <2> QED
    BY <2>1, <2>2
<1>10. Twins(c, d, t[n], u[n], p, q, n)
  BY <1>5, <1>6, <1>7, <1>9, TwinsAll
<1>11. ~Lost(t[n])
  BY <1>8 DEF Lost
<1>12. PICK gn, hn, x, fx, y, fy :
         t[n] = Point(gn, hn, x, fx) /\ u[n] = Point(gn, hn, y, fy) /\ Same(c, d, x, fx, y, fy, p, q, n)
  BY <1>10, <1>11, Zenon DEF Twins
<1>13. x = top /\ y = top /\ t[n].fr = fx /\ u[n].fr = fy
  BY <1>8, <1>9, <1>12, PointAt
<1>14. c.r = d.r /\ (c.fr = d.fr => fx = fy) /\ \A i \in 1 .. n : p[i] = q[i]
  BY <1>12, <1>13, Zenon DEF Same
<1>15. p = q
  <2>1. Len(p) = n /\ Len(q) = n
    BY <1>4, <1>9
  <2>2. p = [i \in 1 .. n |-> p[i]] /\ q = [i \in 1 .. n |-> q[i]]
    BY <2>1
  <2> QED
    BY <1>14, <2>2
<1> QED
  BY <1>1, <1>2, <1>3, <1>5, <1>6, <1>9, <1>13, <1>14, <1>15, Zenon

-----------------------------------------------------------------------------
\* What a hash of leaves tells of them.

Leaves(f, n) == \A i \in 1 .. n : \E l, v : f[i] = <<"leaf", l, v>>

LEMMA LeafNode ==
  ASSUME NEW l, NEW v, NEW a, NEW b
  PROVE  <<"leaf", l, v>> # hashNode(a, b)
BY DEF hashNode

\* Two ranges of one hash are of the same leaves.
Tells(f, g, lo, hi, from, to) ==
  lo < hi /\ from < to /\ Leaves(f, hi) /\ Leaves(g, to) /\ hashRange(f, lo, hi) = hashRange(g, from, to) =>
    hi - lo = to - from /\ \A d \in 1 .. hi - lo : f[lo + d] = g[from + d]

LEMMA HashOne ==
  ASSUME NEW f, NEW lo \in Nat, NEW hi \in Nat, lo < hi, Leaves(f, hi)
  PROVE  \/ /\ hi = lo + 1 /\ hashRange(f, lo, hi) = f[lo + 1]
            /\ \A a, b : hashRange(f, lo, hi) # hashNode(a, b)
         \/ \E h \in Nat, cut \in Nat :
              /\ cut = lo + two(h) /\ lo < cut /\ cut < hi
              /\ hashRange(f, lo, hi) = hashNode(hashRange(f, lo, cut), hashRange(f, cut, hi))
<1>1. CASE hi = lo + 1
  <2>1. hashRange(f, lo, hi) = f[hi]
    BY <1>1, HashRangeIs
  <2>2. \E l, v : f[hi] = <<"leaf", l, v>>
    BY <1>1 DEF Leaves
  <2>3. \A a, b : hashRange(f, lo, hi) # hashNode(a, b)
    BY <2>1, <2>2, LeafNode, Zenon
  <2> QED
    BY <1>1, <2>1, <2>3, Zenon
<1>2. CASE hi # lo + 1
  <2>1. PICK n \in Nat : n = hi - lo /\ n > 1
    <3>1. hi - lo \in Nat /\ hi - lo > 1
      BY <1>2
    <3> QED
      BY <3>1
  <2>2. PICK h \in Nat : two(h) < n /\ n <= 2 * two(h)
    BY <2>1, Between
  <2>3. two(h) \in Nat /\ two(h) > 0
    BY TwoGrows
  <2>4. PICK cut \in Nat : cut = lo + two(h) /\ lo < cut /\ cut < hi /\ hi <= cut + two(h)
    BY <2>1, <2>2, <2>3
  <2>5. hashRange(f, lo, hi) = hashNode(hashRange(f, lo, cut), hashRange(f, cut, hi))
    BY <2>4, HashCut
  <2> QED
    BY <2>4, <2>5
<1> QED
  BY <1>1, <1>2

LEMMA HashTells ==
  ASSUME NEW f, NEW g
  PROVE  \A lo \in Nat, hi \in Nat, from \in Nat, to \in Nat : Tells(f, g, lo, hi, from, to)
<1> DEFINE F == {s \in Nat : \A lo \in Nat, hi \in Nat, from \in Nat, to \in Nat :
                                hi = lo + s => Tells(f, g, lo, hi, from, to)}
<1>1. ASSUME NEW s \in Nat, \A k \in Nat : k < s => k \in F
      PROVE  s \in F
  <2>1. SUFFICES ASSUME NEW lo \in Nat, NEW hi \in Nat, NEW from \in Nat, NEW to \in Nat, hi = lo + s,
                        lo < hi, from < to, Leaves(f, hi), Leaves(g, to), hashRange(f, lo, hi) = hashRange(g, from, to)
                 PROVE  hi - lo = to - from /\ \A d \in 1 .. hi - lo : f[lo + d] = g[from + d]
    BY DEF Tells
  <2>2. CASE hi = lo + 1 /\ hashRange(f, lo, hi) = f[lo + 1] /\ \A a, b : hashRange(f, lo, hi) # hashNode(a, b)
    <3>1. to = from + 1 /\ hashRange(g, from, to) = g[from + 1]
      <4>1. \A a, b : hashRange(g, from, to) # hashNode(a, b)
        BY <2>1, <2>2, Zenon
      <4> QED
        BY <2>1, <4>1, HashOne
    <3>2. f[lo + 1] = g[from + 1]
      BY <2>1, <2>2, <3>1, Zenon
    <3> QED
      BY <2>2, <3>1, <3>2
  <2>3. CASE ~(hi = lo + 1 /\ hashRange(f, lo, hi) = f[lo + 1] /\ \A a, b : hashRange(f, lo, hi) # hashNode(a, b))
    <3>1. PICK h \in Nat, cut \in Nat :
            /\ cut = lo + two(h) /\ lo < cut /\ cut < hi
            /\ hashRange(f, lo, hi) = hashNode(hashRange(f, lo, cut), hashRange(f, cut, hi))
      BY <2>1, <2>3, HashOne
    <3>2. PICK e \in Nat, mid \in Nat :
            /\ mid = from + two(e) /\ from < mid /\ mid < to
            /\ hashRange(g, from, to) = hashNode(hashRange(g, from, mid), hashRange(g, mid, to))
      <4>1. ~(\A a, b : hashRange(g, from, to) # hashNode(a, b))
        BY <2>1, <3>1, Zenon
      <4> QED
        BY <2>1, <4>1, HashOne
    <3>3. hashRange(f, lo, cut) = hashRange(g, from, mid) /\ hashRange(f, cut, hi) = hashRange(g, mid, to)
      <4>1. hashNode(hashRange(f, lo, cut), hashRange(f, cut, hi)) = hashNode(hashRange(g, from, mid), hashRange(g, mid, to))
        BY <2>1, <3>1, <3>2, Zenon
      <4> QED
        BY <4>1, NodeSame
    <3>4. Leaves(f, cut) /\ Leaves(g, mid)
      <4>1. \A i \in 1 .. cut : i \in 1 .. hi
        BY <3>1
      <4>2. \A i \in 1 .. mid : i \in 1 .. to
        BY <3>2
      <4> QED
        BY <2>1, <4>1, <4>2 DEF Leaves
    <3>5. PICK j \in Nat, k \in Nat : j = cut - lo /\ k = hi - cut /\ j < s /\ k < s /\ cut = lo + j /\ hi = cut + k
      <4>1. cut - lo \in Nat /\ hi - cut \in Nat /\ cut - lo < s /\ hi - cut < s
        BY <2>1, <3>1
      <4> QED
        BY <4>1
    <3>6. Tells(f, g, lo, cut, from, mid)
      BY <1>1, <3>5
    <3>7. Tells(f, g, cut, hi, mid, to)
      BY <1>1, <3>5
    <3>8. cut - lo = mid - from /\ \A d \in 1 .. cut - lo : f[lo + d] = g[from + d]
      BY <3>1, <3>2, <3>3, <3>4, <3>6 DEF Tells
    <3>9. hi - cut = to - mid /\ \A d \in 1 .. hi - cut : f[cut + d] = g[mid + d]
      BY <2>1, <3>1, <3>2, <3>3, <3>7 DEF Tells
    <3>10. hi - lo = to - from
      BY <3>8, <3>9
    <3>11. ASSUME NEW d \in 1 .. hi - lo PROVE f[lo + d] = g[from + d]
      <4>1. CASE d <= cut - lo
        <5>1. d \in 1 .. cut - lo
          BY <4>1
        <5> QED
          BY <3>8, <5>1
      <4>2. CASE ~(d <= cut - lo)
        <5>1. PICK c \in 1 .. hi - cut : lo + d = cut + c /\ from + d = mid + c
          <6>1. d - (cut - lo) \in 1 .. hi - cut
            BY <4>2
          <6>2. lo + d = cut + (d - (cut - lo)) /\ from + d = mid + (d - (cut - lo))
            BY <3>8
          <6> QED
            BY <6>1, <6>2
        <5>2. f[cut + c] = g[mid + c]
          BY <3>9
        <5> QED
          BY <5>1, <5>2, Zenon
      <4> QED
        BY <4>1, <4>2
    <3> QED
      BY <3>10, <3>11
  <2> QED
    BY <2>2, <2>3
<1>2. \A s \in Nat : s \in F
  <2> HIDE DEF F
  <2> QED
    BY <1>1, ByLess
<1>3. SUFFICES ASSUME NEW lo \in Nat, NEW hi \in Nat, NEW from \in Nat, NEW to \in Nat
               PROVE  Tells(f, g, lo, hi, from, to)
  OBVIOUS
<1>4. CASE lo < hi
  <2>1. PICK s \in Nat : hi = lo + s
    <3>1. hi - lo \in Nat /\ hi = lo + (hi - lo)
      BY <1>4
    <3> QED
      BY <3>1
  <2> QED
    BY <1>2, <2>1
<1>5. CASE ~(lo < hi)
  BY <1>5 DEF Tells
<1> QED
  BY <1>4, <1>5

\* A root commits to every leaf.
LEMMA RootTells ==
  ASSUME NEW f, NEW g, NEW n \in Nat, Leaves(f, n), Leaves(g, n), rootAt(f, n) = rootAt(g, n)
  PROVE  \A i \in 1 .. n : f[i] = g[i]
<1>1. Tells(f, g, 0, n, 0, n)
  BY HashTells
<1>2. CASE n = 0
  BY <1>2
<1>3. CASE n # 0
  <2>1. 0 < n /\ n - 0 = n
    BY <1>3
  <2>2. \A d \in 1 .. n : f[0 + d] = g[0 + d]
    BY <1>1, <2>1 DEF Tells, rootAt
  <2> QED
    BY <2>2
<1> QED
  BY <1>2, <1>3

-----------------------------------------------------------------------------
\* No two leaves have the same path.

LEMMA AddedSame ==
  ASSUME NEW S, NEW p \in Seq(S), NEW q \in Seq(S), NEW e \in S, NEW f \in S, Added(p, e) = Added(q, f)
  PROVE  p = q /\ e = f
<1>1. PICK n \in Nat, m \in Nat : n = Len(p) /\ m = Len(q)
  OBVIOUS
<1>2. Len(Added(p, e)) = n + 1 /\ Added(p, e)[n + 1] = e
  BY <1>1 DEF Added
<1>3. \A i \in 1 .. n : Added(p, e)[i] = p[i]
  BY <1>1 DEF Added
<1>4. Len(Added(q, f)) = m + 1 /\ Added(q, f)[m + 1] = f
  BY <1>1 DEF Added
<1>5. \A i \in 1 .. m : Added(q, f)[i] = q[i]
  BY <1>1 DEF Added
<1>6. n = m
  BY <1>2, <1>4
<1>7. e = f /\ \A i \in 1 .. n : p[i] = q[i]
  BY <1>2, <1>3, <1>4, <1>5, <1>6
<1>8. p = q
  <2>1. Len(p) = n /\ Len(q) = n
    BY <1>1, <1>6
  <2>2. p = [i \in 1 .. n |-> p[i]] /\ q = [i \in 1 .. n |-> q[i]]
    BY <2>1
  <2> QED
    BY <1>7, <2>2
<1> QED
  BY <1>7, <1>8

Unlike(f, n) == \A i \in 1 .. n, j \in 1 .. n : f[i] = f[j] => i = j

LEMMA NodesUnlike ==
  ASSUME NEW f, NEW n \in Nat, Leaves(f, n), Unlike(f, n), NEW h \in Nat, NEW i \in Nat, NEW j \in Nat,
         two(h) * i < n, two(h) * j < n, NodeAt(f, n, h, i) = NodeAt(f, n, h, j)
  PROVE  i = j
<1>1. PICK b \in Nat : b = two(h) /\ b > 0
  BY TwoGrows
<1>3. PICK s \in Nat, e \in Nat : s = b * i /\ e = EndOf(n, h, i) /\ s < e /\ e <= n
  BY <1>1 DEF EndOf
<1>4. PICK t \in Nat, d \in Nat : t = b * j /\ d = EndOf(n, h, j) /\ t < d /\ d <= n
  BY <1>1 DEF EndOf
<1>5. hashRange(f, s, e) = hashRange(f, t, d)
  BY <1>1, <1>3, <1>4, Zenon DEF NodeAt
<1>6. Leaves(f, e) /\ Leaves(f, d)
  <2>1. \A k \in 1 .. e : k \in 1 .. n
    BY <1>3
  <2>2. \A k \in 1 .. d : k \in 1 .. n
    BY <1>4
  <2> QED
    BY <2>1, <2>2 DEF Leaves
<1>7. Tells(f, f, s, e, t, d)
  BY HashTells
<1>8. \A k \in 1 .. e - s : f[s + k] = f[t + k]
  BY <1>3, <1>4, <1>5, <1>6, <1>7 DEF Tells
<1>9. f[s + 1] = f[t + 1] /\ s + 1 \in 1 .. n /\ t + 1 \in 1 .. n
  <2>1. 1 \in 1 .. e - s
    BY <1>3
  <2>2. f[s + 1] = f[t + 1]
    BY <1>8, <2>1
  <2> QED
    BY <1>3, <1>4, <2>2
<1>10. s = t
  BY <1>9 DEF Unlike
<1> QED
  BY <1>1, <1>3, <1>4, <1>10

\* Two leaves that part at a level have other siblings there.
LEMMA Parted ==
  ASSUME NEW f, NEW n \in Nat, Leaves(f, n), Unlike(f, n), NEW x \in Nat, x < n, NEW y \in Nat, y < n, NEW h \in Nat,
         Halved(x, h + 1) = Halved(y, h + 1), ~Odd(Halved(x, h)), Odd(Halved(y, h))
  PROVE  PathAt(f, n, h + 1, x) # PathAt(f, n, h + 1, y)
<1>1. PICK b \in Nat : b = two(h) /\ b > 0
  BY TwoGrows
<1>2. PICK i \in Nat : i = Halved(x, h) /\ b * i <= x /\ x < b * i + b
  BY <1>1, HalvedIs
<1>3. PICK j \in Nat : j = Halved(y, h) /\ b * j <= y /\ y < b * j + b
  BY <1>1, HalvedIs
<1>4. j = i + 1 /\ j - 1 = i
  <2>1. i = 2 * Halved(x, h + 1)
    BY <1>2, HalvedNext
  <2>2. j = 2 * Halved(y, h + 1) + 1
    BY <1>3, HalvedNext
  <2>3. Halved(x, h + 1) \in Nat
    BY HalvedIs
  <2> QED
    BY <2>1, <2>2, <2>3
<1>5. two(h) * i < n /\ two(h) * j < n
  BY <1>1, <1>2, <1>3
<1>6. ~Alone(n, x, h) /\ ~Alone(n, y, h)
  <2>1. ~(b * (i + 1) >= n)
    BY <1>1, <1>4, <1>5
  <2> QED
    BY <1>1, <1>2, <2>1, Zenon DEF Alone
<1>7. Sibling(f, n, x, h) = NodeAt(f, n, h, j)
  BY <1>2, <1>4, Zenon DEF Sibling
<1>8. Sibling(f, n, y, h) = NodeAt(f, n, h, i)
  BY <1>3, <1>4, Zenon DEF Sibling
<1>9. PathAt(f, n, h + 1, x) = Added(PathAt(f, n, h, x), Sibling(f, n, x, h))
  BY <1>6, PathUp
<1>10. PathAt(f, n, h + 1, y) = Added(PathAt(f, n, h, y), Sibling(f, n, y, h))
  BY <1>6, PathUp
<1>11. SUFFICES ASSUME PathAt(f, n, h + 1, x) = PathAt(f, n, h + 1, y) PROVE FALSE
  OBVIOUS
<1>12. PICK S : S = Nodes(f, n)
  OBVIOUS
<1>13. PICK p \in Seq(S), q \in Seq(S) : p = PathAt(f, n, h, x) /\ q = PathAt(f, n, h, y)
  BY <1>12, PathIs
<1>14. PICK u \in S, v \in S : u = Sibling(f, n, x, h) /\ v = Sibling(f, n, y, h)
  BY <1>12, SiblingIs
<1>15. Added(p, u) = Added(q, v)
  BY <1>9, <1>10, <1>11, <1>13, <1>14, Zenon
<1>16. u = v
  BY <1>15, AddedSame
<1>17. NodeAt(f, n, h, j) = NodeAt(f, n, h, i)
  BY <1>7, <1>8, <1>14, <1>16, Zenon
<1>18. i = j
  BY <1>5, <1>17, NodesUnlike
<1> QED
  BY <1>4, <1>18

LEMMA PathsUnlike ==
  ASSUME NEW f, NEW n \in Nat, Leaves(f, n), Unlike(f, n), NEW x \in Nat, x < n, NEW y \in Nat, y < n,
         inclusionProof(f, x, n) = inclusionProof(f, y, n)
  PROVE  x = y
<1> DEFINE F == {k \in Nat : k <= n => Halved(x, n - k) = Halved(y, n - k) /\ PathAt(f, n, n - k, x) = PathAt(f, n, n - k, y)}
<1>1. 0 \in F
  <2>1. n - 0 = n
    OBVIOUS
  <2>2. Halved(x, n) = 0 /\ Halved(y, n) = 0
    <3>1. two(n) \in Nat /\ n < two(n) /\ x < two(n) /\ y < two(n)
      BY TwoGrows
    <3> QED
      BY <3>1, HalvedOut
  <2>3. PathAt(f, n, n, x) = PathAt(f, n, n, y)
    BY PathTop
  <2>4. Halved(x, n - 0) = Halved(y, n - 0) /\ PathAt(f, n, n - 0, x) = PathAt(f, n, n - 0, y)
    BY <2>1, <2>2, <2>3, Zenon
  <2> QED
    BY <2>4
<1>2. ASSUME NEW k \in Nat, k \in F
      PROVE  k + 1 \in F
  <2>1. SUFFICES ASSUME k + 1 <= n
                 PROVE  Halved(x, n - (k + 1)) = Halved(y, n - (k + 1)) /\ PathAt(f, n, n - (k + 1), x) = PathAt(f, n, n - (k + 1), y)
    OBVIOUS
  <2>2. PICK h \in Nat : h = n - (k + 1) /\ h + 1 = n - k
    <3>1. n - (k + 1) \in Nat /\ n - (k + 1) + 1 = n - k
      BY <2>1
    <3> QED
      BY <3>1
  <2>3. Halved(x, h + 1) = Halved(y, h + 1) /\ PathAt(f, n, h + 1, x) = PathAt(f, n, h + 1, y)
    BY <1>2, <2>1, <2>2
  <2>4. Odd(Halved(x, h)) <=> Odd(Halved(y, h))
    <3>1. ~(~Odd(Halved(x, h)) /\ Odd(Halved(y, h)))
      BY <2>3, Parted
    <3>2. ~(~Odd(Halved(y, h)) /\ Odd(Halved(x, h)))
      BY <2>3, Parted
    <3> QED
      BY <3>1, <3>2, Zenon
  <2>5. Halved(x, h) = Halved(y, h)
    <3>1. /\ Odd(Halved(x, h)) => Halved(x, h) = 2 * Halved(x, h + 1) + 1
          /\ ~Odd(Halved(x, h)) => Halved(x, h) = 2 * Halved(x, h + 1)
      BY HalvedNext
    <3>2. /\ Odd(Halved(y, h)) => Halved(y, h) = 2 * Halved(y, h + 1) + 1
          /\ ~Odd(Halved(y, h)) => Halved(y, h) = 2 * Halved(y, h + 1)
      BY HalvedNext
    <3> QED
      BY <2>3, <2>4, <3>1, <3>2, Zenon
  <2>6. PathAt(f, n, h, x) = PathAt(f, n, h, y)
    <3>1. Alone(n, x, h) <=> Alone(n, y, h)
      BY <2>5, Zenon DEF Alone
    <3>2. Sibling(f, n, x, h) = Sibling(f, n, y, h)
      BY <2>5, Zenon DEF Sibling
    <3>3. PathAt(f, n, h + 1, x) =
            IF Alone(n, x, h) THEN PathAt(f, n, h, x) ELSE Added(PathAt(f, n, h, x), Sibling(f, n, x, h))
      BY PathUp
    <3>4. PathAt(f, n, h + 1, y) =
            IF Alone(n, y, h) THEN PathAt(f, n, h, y) ELSE Added(PathAt(f, n, h, y), Sibling(f, n, y, h))
      BY PathUp
    <3>5. CASE Alone(n, x, h)
      BY <2>3, <3>1, <3>3, <3>4, <3>5, Zenon
    <3>6. CASE ~Alone(n, x, h)
      <4>1. PICK S : S = Nodes(f, n)
        OBVIOUS
      <4>2. PICK p \in Seq(S), q \in Seq(S) : p = PathAt(f, n, h, x) /\ q = PathAt(f, n, h, y)
        BY <4>1, PathIs
      <4>3. PICK u \in S : u = Sibling(f, n, x, h)
        BY <4>1, SiblingIs
      <4>4. Added(p, u) = Added(q, u)
        BY <2>3, <3>1, <3>2, <3>3, <3>4, <3>6, <4>2, <4>3, Zenon
      <4>5. p = q
        BY <4>4, AddedSame
      <4> QED
        BY <4>2, <4>5, Zenon
    <3> QED
      BY <3>5, <3>6
  <2> QED
    BY <2>2, <2>5, <2>6, Zenon
<1>3. n \in F
  <2> HIDE DEF F
  <2> QED
    BY <1>1, <1>2, BySteps
<1>4. n - n = 0
  OBVIOUS
<1>5. Halved(x, 0) = Halved(y, 0)
  BY <1>3, <1>4
<1> QED
  BY <1>5, HalvedZero

-----------------------------------------------------------------------------
\* What the verifiers take.

LEMMA InclusionEnds ==
  ASSUME NEW leaf, NEW x, NEW n, NEW top, NEW path, verifyInclusion(leaf, x, n, top, path)
  PROVE  Ends(Point(x, n - 1, leaf, leaf), path, top)
<1>1. From(x, n - 1, leaf) = Point(x, n - 1, leaf, leaf)
  BY Zenon DEF From, Point
<1>2. PICK c : c = From(x, n - 1, leaf)
  OBVIOUS
<1>3. ClimbAll(c, path).ok /\ ClimbAll(c, path).sn = 0 /\ ClimbAll(c, path).r = top
  BY <1>2, Zenon DEF verifyInclusion
<1> QED
  BY <1>1, <1>2, <1>3, Zenon DEF Ends

\* The audit path of one leaf.
LEMMA PathTyped ==
  ASSUME NEW f, NEW n \in Nat, NEW x \in Nat, x < n
  PROVE  inclusionProof(f, x, n) \in Seq(Nodes(f, n))
<1>1. PathAt(f, n, n, x) \in Seq(Nodes(f, n))
  BY PathIs
<1>2. PathAt(f, n, n, x) = inclusionProof(f, x, n)
  BY PathTop
<1> QED
  BY <1>1, <1>2, Zenon

\* Whatever hashes are sent as an audit path, what they show at an index is the
\* entry there, and they are that entry's own path (verifyInclusion).
THEOREM AuditTells ==
  ASSUME NEW f, NEW n \in Nat, NEW x \in Nat, x < n, NEW leaf, NEW T, NEW path \in Seq(T),
         verifyInclusion(leaf, x, n, rootAt(f, n), path)
  PROVE  leaf = f[x + 1] /\ path = inclusionProof(f, x, n)
<1>1. PICK q \in Seq(Nodes(f, n)) : q = inclusionProof(f, x, n)
  BY PathTyped
<1>2. PICK top : top = rootAt(f, n)
  OBVIOUS
<1>3. PICK own : own = f[x + 1]
  OBVIOUS
<1>4. PICK y : y = n - 1
  OBVIOUS
<1>5. verifyInclusion(leaf, x, n, top, path)
  BY <1>2, Zenon
<1>6. verifyInclusion(own, x, n, top, q)
  <2>1. verifyInclusion(f[x + 1], x, n, rootAt(f, n), inclusionProof(f, x, n))
    BY PathShows
  <2> QED
    BY <1>1, <1>2, <1>3, <2>1, Zenon
<1>7. Ends(Point(x, n - 1, leaf, leaf), path, top)
  BY <1>5, InclusionEnds
<1>8. Ends(Point(x, n - 1, own, own), q, top)
  BY <1>6, InclusionEnds
<1>9. Ends(Point(x, y, leaf, leaf), path, top) /\ Ends(Point(x, y, own, own), q, top)
  BY <1>4, <1>7, <1>8, Zenon
<1>10. /\ leaf = own /\ path = q
       /\ leaf = own =>
            ClimbAll(Point(x, y, leaf, leaf), path).fr = ClimbAll(Point(x, y, own, own), q).fr
  BY <1>9, ClimbsAgree
<1> QED
  BY <1>1, <1>3, <1>10, Zenon

LEMMA InclusionExact ==
  ASSUME NEW f, NEW n \in Nat, Leaves(f, n), Unlike(f, n), NEW i \in 1 .. n, NEW j \in 1 .. n, NEW k \in 1 .. n
  PROVE  verifyInclusion(f[j], k - 1, n, rootAt(f, n), inclusionProof(f, i - 1, n)) <=> (i = j /\ i = k)
<1>1. PICK x \in Nat, z \in Nat : x = i - 1 /\ z = k - 1 /\ x < n /\ z < n /\ x + 1 = i /\ z + 1 = k
  <2>1. i - 1 \in Nat /\ k - 1 \in Nat /\ i - 1 < n /\ k - 1 < n /\ (i - 1) + 1 = i /\ (k - 1) + 1 = k
    OBVIOUS
  <2> QED
    BY <2>1
<1>2. verifyInclusion(f[x + 1], x, n, rootAt(f, n), inclusionProof(f, x, n))
  BY <1>1, PathShows
<1>4. ASSUME i = j, i = k
      PROVE  verifyInclusion(f[j], k - 1, n, rootAt(f, n), inclusionProof(f, i - 1, n))
  BY <1>1, <1>2, <1>4, Zenon
<1>5. ASSUME verifyInclusion(f[j], k - 1, n, rootAt(f, n), inclusionProof(f, i - 1, n))
      PROVE  i = j /\ i = k
  <2>1. PICK p \in Seq(Nodes(f, n)) : p = inclusionProof(f, x, n)
    BY <1>1, PathTyped
  <2>2. PICK u : u = f[j]
    OBVIOUS
  <2>3. verifyInclusion(u, z, n, rootAt(f, n), p)
    BY <1>1, <1>5, <2>1, <2>2, Zenon
  <2>4. u = f[z + 1] /\ p = inclusionProof(f, z, n)
    BY <1>1, <2>3, AuditTells
  <2>5. j = k
    BY <1>1, <2>2, <2>4, Zenon DEF Unlike
  <2>6. x = z
    BY <1>1, <2>1, <2>4, PathsUnlike
  <2> QED
    BY <1>1, <2>5, <2>6
<1> QED
  BY <1>4, <1>5, Zenon

\* Whatever hashes are sent as a proof of consistency, one that is taken against
\* a head is for the head's own earlier root (verifyConsistency).
THEOREM HeadTells ==
  ASSUME NEW f, NEW n \in Nat, NEW m \in Nat, 0 < m, m < n, NEW T, NEW top, NEW proof \in Seq(T),
         verifyConsistency(m, n, top, rootAt(f, n), proof)
  PROVE  top = rootAt(f, m)
<1>1. PICK x \in Nat : m = x + 1 /\ x + 1 < n
  <2>1. m - 1 \in Nat /\ m = (m - 1) + 1
    OBVIOUS
  <2> QED
    BY <2>1
<1>2. PICK t \in Nat : Full(x, t)
  <2>1. PICK t \in Nat : ~Odd(Halved(x, t)) /\ \A s \in Nat : s < t => Odd(Halved(x, s))
    BY LowestZero
  <2> QED
    BY <2>1 DEF Full
<1>3. PICK S : S = Nodes(f, n) \cup T \cup {top, rootAt(f, m)}
  OBVIOUS
<1>4. PICK own \in Seq(S) : own = consistencyProof(f, m, n)
  <2>1. consistencyProof(f, x + 1, n) \in Seq(Nodes(f, n))
    BY <1>1, ProofShows
  <2>2. consistencyProof(f, m, n) \in Seq(S)
    BY <1>1, <1>3, <2>1
  <2> QED
    BY <2>2
<1>5. PICK r : r = rootAt(f, m)
  OBVIOUS
<1>6. PICK z : z = rootAt(f, n)
  OBVIOUS
<1>7. verifyConsistency(m, n, r, z, own)
  <2>1. verifyConsistency(x + 1, n, rootAt(f, x + 1), rootAt(f, n), consistencyProof(f, x + 1, n))
    BY <1>1, ProofShows
  <2> QED
    BY <1>1, <1>4, <1>5, <1>6, <2>1, Zenon
<1>8. verifyConsistency(m, n, top, z, proof)
  BY <1>6, Zenon
<1>9. proof \in Seq(S) /\ top \in S /\ r \in S
  BY <1>3, <1>5
<1>10. /\ own # <<>>
       /\ Ascent(m, n, Led(m, r, own)).ok /\ Ascent(m, n, Led(m, r, own)).sn = 0
       /\ Ascent(m, n, Led(m, r, own)).r = z /\ Ascent(m, n, Led(m, r, own)).fr = r
  BY <1>7, VerifyIs
<1>11. /\ proof # <<>>
       /\ Ascent(m, n, Led(m, top, proof)).ok /\ Ascent(m, n, Led(m, top, proof)).sn = 0
       /\ Ascent(m, n, Led(m, top, proof)).r = z /\ Ascent(m, n, Led(m, top, proof)).fr = top
  BY <1>8, VerifyIs
<1>12. ASSUME NEW e \in S, NEW s \in Seq(S), s # <<>>
       PROVE  Led(m, e, s) \in Seq(S) /\ Led(m, e, s) # <<>>
  <2>1. <<e>> \o s \in Seq(S) /\ IsAfter(<<e>> \o s, e, s)
    BY <1>12, PutBefore
  <2>2. <<e>> \o s # <<>>
    BY <2>1, <1>12 DEF IsAfter
  <2> QED
    BY <1>12, <2>1, <2>2, Zenon DEF Led
<1>13. PICK p \in Seq(S) : p = Led(m, r, own) /\ p # <<>>
  BY <1>9, <1>10, <1>12, Zenon
<1>14. PICK q \in Seq(S) : q = Led(m, top, proof) /\ q # <<>>
  BY <1>9, <1>11, <1>12, Zenon
<1>15. PICK pt \in Seq(S), qt \in Seq(S) : pt = Tail(p) /\ qt = Tail(q)
  <2>1. Tail(p) \in Seq(S) /\ Tail(q) \in Seq(S)
    BY <1>13, <1>14
  <2> QED
    BY <2>1
<1>16. PICK b, d : b = p[1] /\ d = q[1]
  OBVIOUS
<1>17. Parts(p, b, pt) /\ Parts(q, d, qt)
  BY <1>15, <1>16, Zenon DEF Parts
<1>18. Ascent(x + 1, n, p) = ClimbAll(Point(Halved(x, t), Halved(n - 1, t), b, b), pt)
  BY <1>2, <1>17, AscentIs
<1>19. Ascent(x + 1, n, q) = ClimbAll(Point(Halved(x, t), Halved(n - 1, t), d, d), qt)
  BY <1>2, <1>17, AscentIs
<1>20. PICK fn, sn : fn = Halved(x, t) /\ sn = Halved(n - 1, t)
  OBVIOUS
<1>21. Ascent(m, n, p) = ClimbAll(Point(fn, sn, b, b), pt) /\ Ascent(m, n, q) = ClimbAll(Point(fn, sn, d, d), qt)
  BY <1>1, <1>18, <1>19, <1>20, Zenon
<1>22. Ends(Point(fn, sn, b, b), pt, z) /\ Ends(Point(fn, sn, d, d), qt, z)
  BY <1>10, <1>11, <1>13, <1>14, <1>21, Zenon DEF Ends
<1>23. ClimbAll(Point(fn, sn, b, b), pt).fr = ClimbAll(Point(fn, sn, d, d), qt).fr
  <2>1. /\ b = d /\ pt = qt
        /\ b = d => ClimbAll(Point(fn, sn, b, b), pt).fr = ClimbAll(Point(fn, sn, d, d), qt).fr
    BY <1>22, ClimbsAgree
  <2> QED
    BY <2>1, Zenon
<1>24. ClimbAll(Point(fn, sn, b, b), pt).fr = r /\ ClimbAll(Point(fn, sn, d, d), qt).fr = top
  BY <1>10, <1>11, <1>13, <1>14, <1>21, Zenon
<1> QED
  BY <1>5, <1>23, <1>24, Zenon

-----------------------------------------------------------------------------
(***************************************************************************)
(* What the log answers.                                                   *)
(***************************************************************************)

ServeTypeOK ==
  /\ entries \in Seq([label : Labels, version : Nat])
  /\ byLabel \in [Labels -> Seq(Nat)]
  /\ values \in [Labels -> {Null} \cup [index : Nat, version : Nat]]
  /\ walk \in [label : Labels \cup {Null}, got : Seq(Nat), total : Nat, size : Nat]

\* A label's list is of where its entries are, by version.
Listed ==
  /\ Len(entries) <= MaxEntries
  /\ \A l \in Labels : \A i \in 1 .. Len(byLabel[l]) :
       byLabel[l][i] \in 1 .. Len(entries) /\ entries[byLabel[l][i]] = [label |-> l, version |-> i]
  /\ \A l \in Labels : \A i, j \in 1 .. Len(byLabel[l]) : i < j => byLabel[l][i] < byLabel[l][j]
  /\ \A p \in 1 .. Len(entries) :
       /\ entries[p].version \in 1 .. Len(byLabel[entries[p].label])
       /\ byLabel[entries[p].label][entries[p].version] = p

\* What was read of a label's list, and what it had under the head.
ReadOf(all) ==
  /\ Len(walk.got) <= walk.total /\ walk.total <= Len(all)
  /\ \A i \in 1 .. Len(walk.got) : walk.got[i] = all[i]
  /\ \A i \in 1 .. Len(all) : i <= walk.total <=> all[i] <= walk.size

Reading ==
  /\ walk.label = Null => walk.got = <<>>
  /\ walk.size <= Len(entries)
  /\ walk.label # Null => ReadOf(byLabel[walk.label])

ServeInv == ServeTypeOK /\ Listed /\ Reading

\* The first of a set of numbers.
LEMMA Foremost ==
  ASSUME NEW n \in Nat, NEW S, S \subseteq 1 .. n, S # {}
  PROVE  \E k \in S : \A j \in S : k <= j
<1>1. SUFFICES ASSUME \A k \in S : \E j \in S : ~(k <= j) PROVE FALSE
  OBVIOUS
<1>2. PICK F : F = Nat \ S
  OBVIOUS
<1>3. \A k \in Nat : (\A m \in Nat : m < k => m \in F) => k \in F
  <2>1. TAKE k \in Nat
  <2>2. HAVE \A m \in Nat : m < k => m \in F
  <2>3. SUFFICES ASSUME k \in S PROVE FALSE
    BY <1>2
  <2>4. PICK j \in S : ~(k <= j)
    BY <1>1, <2>3
  <2>5. j \in Nat /\ j < k
    BY <2>4
  <2> QED
    BY <1>2, <2>2, <2>4, <2>5
<1>4. \A k \in Nat : k \in F
  BY <1>3, ByLess, Zenon
<1>5. PICK k \in S : TRUE
  OBVIOUS
<1> QED
  BY <1>2, <1>4, <1>5

LEMMA LabelThere ==
  ASSUME NEW l \in Labels
  PROVE  l # Null
<1>1. DOMAIN l = 1 .. DEPTH /\ 1 \in 1 .. DEPTH
  BY ServeAssumption DEF ServeAssumption
<1>2. DOMAIN <<>> = {}
  OBVIOUS
<1> QED
  BY <1>1, <1>2 DEF Null

\* A page is an initial part of what is asked for.
LEMMA FitIs ==
  ASSUME NEW idx \in Seq(Nat)
  PROVE  \E b \in 0 .. Len(idx) : Fit(idx) = SubSeq(idx, 1, b)
<1> DEFINE Sum[n \in 0 .. Len(idx)] == IF n = 0 THEN 0 ELSE Sum[n - 1] + Size[entries[idx[n]].version]
           over == {n \in 1 .. Len(idx) : Sum[n] > PageBytes}
           most == IF over = {} THEN Len(idx) ELSE (CHOOSE n \in over : \A k \in over : n <= k) - 1
           b == IF most = 0 /\ idx # <<>> THEN 1 ELSE most
<1>1. Fit(idx) = SubSeq(idx, 1, b)
  BY DEF Fit
<1>2. over \subseteq 1 .. Len(idx)
  OBVIOUS
<1> HIDE DEF Sum, over
<1>3. most \in 0 .. Len(idx)
  <2>1. CASE over = {}
    BY <2>1
  <2>2. CASE over # {}
    <3>1. \E n \in over : \A k \in over : n <= k
      <4>1. PICK m \in Nat : m = Len(idx)
        OBVIOUS
      <4>2. over \subseteq 1 .. m
        BY <1>2, <4>1
      <4> QED
        BY <2>2, <4>2, Foremost, Zenon
    <3>2. PICK c : c = CHOOSE n \in over : \A k \in over : n <= k
      OBVIOUS
    <3>3. c \in over
      BY <3>1, <3>2
    <3>4. most = c - 1
      BY <2>2, <3>2
    <3> QED
      BY <1>2, <3>3, <3>4
  <2> QED
    BY <2>1, <2>2
<1>4. idx # <<>> => Len(idx) >= 1
  OBVIOUS
<1> HIDE DEF most
<1>5. b \in 0 .. Len(idx)
  BY <1>3, <1>4
<1> QED
  BY <1>1, <1>5

\* What comes next of a list.
NextOfList(page, all, start) ==
  /\ page \in Seq(Nat) /\ start + Len(page) <= Len(all)
  /\ \A i \in 1 .. Len(page) : page[i] = all[start + i]

LEMMA HistoryIs ==
  ASSUME ServeAssumption, NEW l, NEW start \in Nat, byLabel[l] \in Seq(Nat), start <= Len(byLabel[l])
  PROVE  NextOfList(history(l, start), byLabel[l], start)
<1>1. PICK all \in Seq(Nat) : all = byLabel[l]
  OBVIOUS
<1>2. PICK end : end = Smaller(Len(all), start + MaxPage)
  OBVIOUS
<1>3. end \in Nat /\ end <= Len(all) /\ start <= end
  BY <1>1, <1>2 DEF Smaller, ServeAssumption
<1>4. PICK part : part = SubSeq(all, start + 1, end)
  OBVIOUS
<1>5. /\ part \in Seq(Nat) /\ Len(part) = end - start
      /\ \A i \in 1 .. Len(part) : part[i] = all[start + i]
  <2>1. PICK from \in Nat : from = start + 1
    OBVIOUS
  <2>2. \A i \in from .. end : all[i] \in Nat
    <3>1. TAKE i \in from .. end
    <3>2. i \in 1 .. Len(all)
      BY <1>1, <1>3, <2>1
    <3> QED
      BY <3>2, ElementOfSeq, Zenon
  <2>3. /\ SubSeq(all, from, end) \in Seq(Nat)
        /\ Len(SubSeq(all, from, end)) = IF from <= end THEN end - from + 1 ELSE 0
        /\ \A i \in 1 .. end - from + 1 : SubSeq(all, from, end)[i] = all[from + i - 1]
    <3>1. end \in Int /\ from \in Int
      BY <1>3
    <3> QED
      BY <2>2, <3>1, SubSeqProperties
  <2>4. part = SubSeq(all, from, end)
    BY <1>4, <2>1
  <2>5. end - from + 1 = end - start
    BY <1>3, <2>1
  <2>6. part \in Seq(Nat) /\ \A i \in 1 .. end - start : part[i] = all[from + i - 1]
    BY <2>3, <2>4, <2>5
  <2>7. Len(part) = end - start
    BY <1>3, <2>1, <2>3, <2>4
  <2>8. \A i \in Nat : from + i - 1 = start + i
    BY <2>1
  <2>9. \A i \in 1 .. Len(part) : i \in Nat /\ i \in 1 .. end - start
    BY <2>7
  <2> QED
    BY <2>6, <2>7, <2>8, <2>9
<1>6. PICK b \in 0 .. Len(part) : Fit(part) = SubSeq(part, 1, b)
  BY <1>5, FitIs
<1>7. history(l, start) = SubSeq(part, 1, b)
  BY <1>1, <1>2, <1>4, <1>6 DEF history
<1>8. PICK page : page = SubSeq(part, 1, b)
  OBVIOUS
<1>9. page \in Seq(Nat) /\ Len(page) = b /\ \A i \in 1 .. b : page[i] = part[i]
  <2>1. PICK m \in Int : m = b /\ 1 \in Int
    OBVIOUS
  <2>2. \A i \in 1 .. m : part[i] \in Nat
    <3>1. \A i \in 1 .. m : i \in 1 .. Len(part)
      BY <1>5, <2>1
    <3> QED
      BY <1>5, <3>1, ElementOfSeq
  <2>3. /\ SubSeq(part, 1, m) \in Seq(Nat)
        /\ Len(SubSeq(part, 1, m)) = IF 1 <= m THEN m - 1 + 1 ELSE 0
        /\ \A i \in 1 .. m - 1 + 1 : SubSeq(part, 1, m)[i] = part[1 + i - 1]
    BY <2>1, <2>2, SubSeqProperties
  <2>4. page = SubSeq(part, 1, m)
    BY <1>8, <2>1
  <2>5. m - 1 + 1 = m /\ (IF 1 <= m THEN m - 1 + 1 ELSE 0) = m
    BY <2>1
  <2>6. \A i \in 1 .. m : 1 + i - 1 = i
    OBVIOUS
  <2>7. \A i \in 1 .. m : page[i] = part[i]
    BY <2>3, <2>4, <2>5, <2>6
  <2> QED
    BY <2>1, <2>3, <2>4, <2>5, <2>7
<1>10. start + Len(page) <= Len(all) /\ \A i \in 1 .. Len(page) : page[i] = all[start + i]
  <2>1. Len(page) \in Nat /\ Len(page) <= end - start
    BY <1>3, <1>5, <1>6, <1>9
  <2>2. start + Len(page) <= Len(all)
    BY <1>1, <1>3, <2>1
  <2>3. \A i \in 1 .. Len(page) : i \in 1 .. Len(part)
    BY <1>3, <1>5, <2>1
  <2> QED
    BY <1>5, <1>9, <2>2, <2>3
<1> QED
  BY <1>1, <1>7, <1>8, <1>9, <1>10, Zenon DEF NextOfList

-----------------------------------------------------------------------------
LEMMA Started ==
  ASSUME ServeAssumption, ServeInit
  PROVE  ServeInv
<1>1. ServeTypeOK
  BY DEF ServeTypeOK, ServeInit, NoWalk
<1>2. Listed
  BY DEF Listed, ServeInit, ServeAssumption
<1>3. Reading
  BY DEF Reading, ServeInit, NoWalk
<1> QED
  BY <1>1, <1>2, <1>3 DEF ServeInv

\* A list and one more.
OneMore(old, new, x) ==
  /\ Len(new) = Len(old) + 1
  /\ \A i \in 1 .. Len(old) : new[i] = old[i]
  /\ new[Len(old) + 1] = x

LEMMA OneAppended ==
  ASSUME NEW S, NEW old \in Seq(S), NEW x \in S
  PROVE  Append(old, x) \in Seq(S) /\ OneMore(old, Append(old, x), x)
BY DEF OneMore

\* What publishing does to the log and to its lists.
Published(l) ==
  /\ OneMore(entries, entries', [label |-> l, version |-> Len(byLabel[l]) + 1])
  /\ OneMore(byLabel[l], byLabel'[l], Len(entries) + 1)
  /\ \A k \in Labels : k # l => byLabel'[k] = byLabel[k]
  /\ walk' = walk /\ Len(entries) < MaxEntries

LEMMA Publishes ==
  ASSUME ServeTypeOK, NEW l \in Labels, ApplyNext(l)
  PROVE  ServeTypeOK' /\ Published(l)
<1>1. PICK n \in Nat, v \in Nat : n = Len(entries) /\ v = Len(byLabel[l])
  BY DEF ServeTypeOK
<1>2. PICK e \in [label : Labels, version : Nat] : e = [label |-> l, version |-> v + 1]
  <2>1. PICK w \in Nat : w = v + 1
    OBVIOUS
  <2>2. [label |-> l, version |-> w] \in [label : Labels, version : Nat]
    OBVIOUS
  <2> QED
    BY <2>1, <2>2
<1>3. NextOf(l).version = v + 1 /\ NextOf(l).index = n
  BY <1>1 DEF NextOf
<1>4. entries' = Append(entries, e)
  BY <1>2, <1>3 DEF ApplyNext
<1>5. entries' \in Seq([label : Labels, version : Nat]) /\ OneMore(entries, entries', e)
  BY <1>4, OneAppended DEF ServeTypeOK
<1>6. byLabel'[l] = Append(byLabel[l], n + 1) /\ byLabel' \in [Labels -> Seq(Nat)]
  BY <1>1 DEF ApplyNext, ServeTypeOK
<1>7. OneMore(byLabel[l], byLabel'[l], n + 1)
  <2>1. PICK x \in Nat : x = n + 1
    BY <1>1
  <2>2. byLabel[l] \in Seq(Nat)
    BY DEF ServeTypeOK
  <2> QED
    BY <1>6, <2>1, <2>2, OneAppended
<1>8. \A k \in Labels : k # l => byLabel'[k] = byLabel[k]
  BY DEF ApplyNext, ServeTypeOK
<1>9. values' \in [Labels -> {Null} \cup [index : Nat, version : Nat]]
  <2>1. [index |-> NextOf(l).index, version |-> NextOf(l).version] \in [index : Nat, version : Nat]
    BY <1>1, <1>3
  <2> QED
    BY <2>1 DEF ApplyNext, ServeTypeOK
<1>10. walk' = walk /\ n < MaxEntries
  BY <1>1 DEF ApplyNext
<1>11. ServeTypeOK'
  BY <1>5, <1>6, <1>9, <1>10 DEF ServeTypeOK
<1>12. Published(l)
  BY <1>1, <1>2, <1>5, <1>7, <1>8, <1>10 DEF Published
<1> QED
  BY <1>11, <1>12

LEMMA ListedOn ==
  ASSUME ServeAssumption, ServeTypeOK, ServeTypeOK', Listed, NEW l \in Labels, Published(l)
  PROVE  Listed'
<1>1. PICK n \in Nat, v \in Nat : n = Len(entries) /\ v = Len(byLabel[l])
  BY DEF ServeTypeOK
<1>2. /\ Len(entries') = n + 1 /\ entries'[n + 1] = [label |-> l, version |-> v + 1]
      /\ \A p \in 1 .. n : entries'[p] = entries[p]
  BY <1>1 DEF Published, OneMore
<1>3. /\ Len(byLabel'[l]) = v + 1 /\ byLabel'[l][v + 1] = n + 1
      /\ \A i \in 1 .. v : byLabel'[l][i] = byLabel[l][i]
  BY <1>1 DEF Published, OneMore
<1>4. \A k \in Labels : k # l => byLabel'[k] = byLabel[k]
  BY DEF Published
<1>5. \A k \in Labels : \A i \in 1 .. Len(byLabel[k]) :
        byLabel[k][i] \in 1 .. n /\ entries[byLabel[k][i]] = [label |-> k, version |-> i]
  BY <1>1 DEF Listed
<1>6. Len(entries') <= MaxEntries
  BY <1>1, <1>2 DEF Published, ServeAssumption
<1>7. ASSUME NEW k \in Labels, NEW i \in 1 .. Len(byLabel'[k])
      PROVE  byLabel'[k][i] \in 1 .. n + 1 /\ entries'[byLabel'[k][i]] = [label |-> k, version |-> i]
  <2>0. ASSUME NEW x, x = byLabel[k][i], x = byLabel'[k][i], i \in 1 .. Len(byLabel[k])
        PROVE  byLabel'[k][i] \in 1 .. n + 1 /\ entries'[byLabel'[k][i]] = [label |-> k, version |-> i]
    <3>1. x \in 1 .. n /\ entries[x] = [label |-> k, version |-> i]
      <4>1. byLabel[k][i] \in 1 .. n /\ entries[byLabel[k][i]] = [label |-> k, version |-> i]
        BY <1>5, <2>0, Zenon
      <4> QED
        BY <2>0, <4>1, Zenon
    <3>2. x \in 1 .. n + 1
      BY <3>1
    <3> QED
      BY <1>2, <2>0, <3>1, <3>2
  <2>1. CASE k # l
    BY <1>4, <2>0, <2>1
  <2>2. CASE k = l /\ i \in 1 .. v
    <3>1. byLabel'[l][i] = byLabel[l][i]
      BY <1>3, <2>2
    <3> QED
      BY <1>1, <2>0, <2>2, <3>1
  <2>3. CASE k = l /\ i = v + 1
    BY <1>2, <1>3, <2>3
  <2>4. k = l => i \in 1 .. v \/ i = v + 1
    BY <1>3
  <2> QED
    BY <2>1, <2>2, <2>3, <2>4
<1>8. ASSUME NEW k \in Labels, NEW i \in 1 .. Len(byLabel'[k]), NEW j \in 1 .. Len(byLabel'[k]), i < j
      PROVE  byLabel'[k][i] < byLabel'[k][j]
  <2>1. \A a, b \in 1 .. Len(byLabel[k]) : a < b => byLabel[k][a] < byLabel[k][b]
    BY DEF Listed
  <2>2. CASE k # l
    BY <1>4, <1>8, <2>1, <2>2
  <2>3. CASE k = l /\ j \in 1 .. v
    <3>1. i \in 1 .. v
      BY <1>8, <2>3
    <3> QED
      BY <1>1, <1>3, <1>8, <2>1, <2>3, <3>1
  <2>4. CASE k = l /\ j = v + 1
    <3>1. i \in 1 .. v
      BY <1>3, <1>8, <2>4
    <3>2. byLabel'[l][i] = byLabel[l][i] /\ byLabel[l][i] \in 1 .. n
      BY <1>1, <1>3, <1>5, <3>1
    <3>3. byLabel'[l][i] < n + 1
      BY <3>2
    <3> QED
      BY <1>3, <2>4, <3>3
  <2>5. k = l => j \in 1 .. v \/ j = v + 1
    BY <1>3
  <2> QED
    BY <2>2, <2>3, <2>4, <2>5
<1>9. ASSUME NEW p \in 1 .. n + 1
      PROVE  /\ entries'[p].version \in 1 .. Len(byLabel'[entries'[p].label])
             /\ byLabel'[entries'[p].label][entries'[p].version] = p
  <2>1. CASE p = n + 1
    BY <1>2, <1>3, <2>1
  <2>2. CASE p \in 1 .. n
    <3>1. PICK k \in Labels, i \in Nat : entries[p].label = k /\ entries[p].version = i
      <4>1. entries \in Seq([label : Labels, version : Nat])
        BY DEF ServeTypeOK
      <4>2. entries[p] \in [label : Labels, version : Nat]
        BY <1>1, <2>2, <4>1, ElementOfSeq
      <4> QED
        BY <4>2
    <3>2. i \in 1 .. Len(byLabel[k]) /\ byLabel[k][i] = p
      BY <1>1, <2>2, <3>1 DEF Listed
    <3>3. i \in 1 .. Len(byLabel'[k]) /\ byLabel'[k][i] = p
      <4>1. CASE k # l
        BY <1>4, <3>2, <4>1
      <4>2. CASE k = l
        <5>1. i \in 1 .. v /\ byLabel[l][i] = p
          BY <1>1, <3>2, <4>2
        <5>2. i \in 1 .. v + 1
          BY <5>1
        <5>3. byLabel'[l][i] = p
          BY <1>3, <5>1, Zenon
        <5> QED
          BY <1>3, <4>2, <5>2, <5>3, Zenon
      <4> QED
        BY <4>1, <4>2
    <3> QED
      BY <1>2, <2>2, <3>1, <3>3
  <2> QED
    BY <2>1, <2>2
<1> QED
  BY <1>2, <1>6, <1>7, <1>8, <1>9, SMTT(40) DEF Listed

LEMMA ReadingOn ==
  ASSUME ServeAssumption, ServeTypeOK, ServeTypeOK', Listed, Reading, NEW l \in Labels, Published(l)
  PROVE  Reading'
<1>1. PICK n \in Nat, v \in Nat : n = Len(entries) /\ v = Len(byLabel[l])
  BY DEF ServeTypeOK
<1>2. walk' = walk /\ Len(entries') = n + 1
  BY <1>1 DEF Published, OneMore
<1>3. /\ Len(byLabel'[l]) = v + 1 /\ byLabel'[l][v + 1] = n + 1
      /\ \A i \in 1 .. v : byLabel'[l][i] = byLabel[l][i]
  BY <1>1 DEF Published, OneMore
<1>4. walk.size \in Nat /\ walk.total \in Nat /\ Len(walk.got) \in Nat /\ walk.size <= n
  BY <1>1 DEF ServeTypeOK, Reading
<1>5. ASSUME walk.label # Null
      PROVE  ReadOf(byLabel[walk.label])'
  <2>1. walk.label \in Labels /\ ReadOf(byLabel[walk.label])
    BY <1>5 DEF Reading, ServeTypeOK
  <2>2. CASE walk.label # l
    BY <1>2, <2>1, <2>2 DEF Published, ReadOf
  <2>3. CASE walk.label = l
    <3>1. /\ Len(walk.got) <= walk.total /\ walk.total <= v
          /\ \A i \in 1 .. Len(walk.got) : walk.got[i] = byLabel[l][i]
          /\ \A i \in 1 .. v : i <= walk.total <=> byLabel[l][i] <= walk.size
      BY <1>1, <2>1, <2>3 DEF ReadOf
    <3>2. walk.total <= v + 1
      BY <1>4, <3>1
    <3>3. \A i \in 1 .. Len(walk.got) : walk.got[i] = byLabel'[l][i]
      <4>1. TAKE i \in 1 .. Len(walk.got)
      <4>2. PICK g \in Nat : g = Len(walk.got)
        BY <1>4
      <4>3. g <= v /\ i \in 1 .. g
        BY <1>1, <1>4, <3>1, <4>2
      <4>4. i \in 1 .. v
        BY <1>1, <4>3
      <4> QED
        BY <1>3, <3>1, <4>4
    <3>4. ASSUME NEW i \in 1 .. v + 1
          PROVE  i <= walk.total <=> byLabel'[l][i] <= walk.size
      <4>1. CASE i \in 1 .. v
        BY <1>3, <3>1, <4>1
      <4>2. CASE i = v + 1
        BY <1>3, <1>4, <3>1, <4>2, SMTT(40)
      <4> QED
        BY <4>1, <4>2
    <3> QED
      BY <1>2, <1>3, <2>3, <3>1, <3>2, <3>3, <3>4 DEF ReadOf
  <2> QED
    BY <2>2, <2>3
<1> QED
  BY <1>2, <1>4, <1>5 DEF Reading

\* What a page does to what a reader has.
LEMMA Walks ==
  ASSUME ServeAssumption, ServeInv, NEW l \in Labels, Walk(l)
  PROVE  ServeTypeOK' /\ Listed' /\ Reading'
<1>1. PICK n \in Nat, v \in Nat, g \in Nat : n = Len(entries) /\ v = Len(byLabel[l]) /\ g = Len(walk.got)
  <2>1. walk.got \in Seq(Nat)
    BY DEF ServeInv, ServeTypeOK
  <2>2. byLabel[l] \in Seq(Nat)
    BY DEF ServeInv, ServeTypeOK
  <2>3. Len(entries) \in Nat
    BY DEF ServeInv, ServeTypeOK
  <2>4. Len(byLabel[l]) \in Nat /\ Len(walk.got) \in Nat
    BY <2>1, <2>2
  <2> QED
    BY <2>3, <2>4
<1>2. UNCHANGED <<entries, byLabel, values>>
  BY DEF Walk
<1>3. byLabel[l] \in Seq(Nat) /\ walk.got \in Seq(Nat) /\ l # Null
  BY LabelThere DEF ServeInv, ServeTypeOK
<1>4. g <= v /\ \A i \in 1 .. g : walk.got[i] = byLabel[l][i]
  <2>1. CASE walk.label = Null
    BY <1>1, <2>1 DEF ServeInv, Reading
  <2>2. CASE walk.label = l
    <3>1. ReadOf(byLabel[l])
      BY <1>3, <2>2 DEF ServeInv, Reading
    <3>2. walk.total \in Nat
      BY DEF ServeInv, ServeTypeOK
    <3> QED
      BY <1>1, <3>1, <3>2 DEF ReadOf
  <2> QED
    BY <2>1, <2>2 DEF Walk
<1>5. PICK page : page = history(l, Len(walk.got))
  OBVIOUS
<1>6. NextOfList(page, byLabel[l], g)
  BY <1>1, <1>3, <1>4, <1>5, HistoryIs
<1>7. PICK w \in Nat : w = Len(page) /\ page \in Seq(Nat) /\ g + w <= v
  BY <1>1, <1>6 DEF NextOfList
<1>8. PICK got : got = walk.got \o page
  OBVIOUS
<1>9. /\ got \in Seq(Nat) /\ Len(got) = g + w
      /\ \A i \in 1 .. g : got[i] = walk.got[i]
      /\ \A i \in 1 .. w : got[g + i] = page[i]
  BY <1>1, <1>3, <1>7, <1>8, SMTT(40)
<1>10. walk' = [label |-> l, got |-> got, total |-> v, size |-> n]
  BY <1>1, <1>5, <1>8 DEF Walk
<1>11. ServeTypeOK'
  BY <1>2, <1>9, <1>10 DEF ServeInv, ServeTypeOK
<1>12. Listed'
  BY <1>2 DEF ServeInv, Listed
<1>13. \A i \in 1 .. g + w : got[i] = byLabel[l][i]
  <2>1. TAKE i \in 1 .. g + w
  <2>2. CASE i \in 1 .. g
    BY <1>4, <1>9, <2>2
  <2>3. CASE ~(i \in 1 .. g)
    <3>1. PICK j \in 1 .. w : i = g + j
      <4>1. i - g \in 1 .. w /\ i = g + (i - g)
        BY <2>3
      <4> QED
        BY <4>1
    <3>2. page[j] = byLabel[l][g + j]
      BY <1>6, <1>7 DEF NextOfList
    <3> QED
      BY <1>9, <3>1, <3>2
  <2> QED
    BY <2>2, <2>3
<1>14. \A i \in 1 .. v : i <= v <=> byLabel[l][i] <= n
  <2>1. TAKE i \in 1 .. v
  <2>2. byLabel[l][i] \in 1 .. n
    BY <1>1 DEF ServeInv, Listed
  <2> QED
    BY <2>2
<1>15. ReadOf(byLabel[l])'
  <2>1. walk'.got = got /\ walk'.total = v /\ walk'.size = n /\ byLabel' = byLabel
    BY <1>2, <1>10
  <2>2. Len(got) <= v /\ v <= Len(byLabel[l])
    BY <1>1, <1>7, <1>9
  <2> QED
    BY <1>1, <1>9, <1>13, <1>14, <2>1, <2>2, Zenon DEF ReadOf
<1>16. Reading'
  BY <1>1, <1>2, <1>3, <1>10, <1>15 DEF Reading
<1> QED
  BY <1>11, <1>12, <1>16

LEMMA Stops ==
  ASSUME ServeAssumption, ServeInv, UNCHANGED <<entries, byLabel, values>>, walk' = NoWalk \/ walk' = walk
  PROVE  ServeInv'
<1>1. Listed' /\ ServeTypeOK'
  <2>1. Listed'
    BY DEF ServeInv, Listed
  <2>2. walk' \in [label : Labels \cup {Null}, got : Seq(Nat), total : Nat, size : Nat]
    <3>1. NoWalk \in [label : Labels \cup {Null}, got : Seq(Nat), total : Nat, size : Nat]
      BY DEF NoWalk
    <3> QED
      BY <3>1 DEF ServeInv, ServeTypeOK
  <2> QED
    BY <2>1, <2>2 DEF ServeInv, ServeTypeOK
<1>2. CASE walk' = NoWalk
  <2>1. walk'.label = Null /\ walk'.got = <<>> /\ walk'.size = 0
    BY <1>2 DEF NoWalk
  <2>2. Reading'
    BY <1>1, <2>1 DEF Reading, ServeTypeOK
  <2> QED
    BY <1>1, <2>2 DEF ServeInv
<1>3. CASE walk' = walk
  BY <1>1, <1>3 DEF ServeInv, Reading, ReadOf
<1> QED
  BY <1>2, <1>3

LEMMA Kept ==
  ASSUME ServeAssumption, ServeInv, [ServeNext]_serveVars
  PROVE  ServeInv'
<1>1. ASSUME NEW l \in Labels, ApplyNext(l)
      PROVE  ServeInv'
  <2>1. ServeTypeOK /\ Listed /\ Reading
    BY DEF ServeInv
  <2>2. ServeTypeOK' /\ Published(l)
    BY <1>1, <2>1, Publishes
  <2> QED
    BY <2>1, <2>2, ListedOn, ReadingOn DEF ServeInv
<1>2. ASSUME NEW l \in Labels, Walk(l)
      PROVE  ServeInv'
  BY <1>2, Walks DEF ServeInv
<1>3. ASSUME Done
      PROVE  ServeInv'
  BY <1>3, Stops DEF Done
<1>4. ASSUME UNCHANGED serveVars
      PROVE  ServeInv'
  BY <1>4, Stops DEF serveVars
<1> QED
  BY <1>1, <1>2, <1>3, <1>4 DEF ServeNext

\* Of every label, byLabel lists where its entries are, version by version; the
\* log has no entry that is not listed; and a reader has an initial part of a
\* list (_apply and history).
THEOREM ListsAreKept == ServeSpec => []ServeInv
<1>1. ServeInit => ServeInv
  BY Started, ServeAssumption
<1>2. ServeInv /\ [ServeNext]_serveVars => ServeInv'
  BY Kept, ServeAssumption
<1> QED
  BY <1>1, <1>2, PTL DEF ServeSpec

-----------------------------------------------------------------------------
LEMMA IndexesAre ==
  ASSUME ServeInv, NEW l \in Labels
  PROVE  /\ \A i \in 1 .. Len(byLabel[l]) : byLabel[l][i] \in Indexes(l)
         /\ \A p \in Indexes(l) : \E i \in 1 .. Len(byLabel[l]) : byLabel[l][i] = p
<1>1. PICK n \in Nat : n = Len(entries) /\ DOMAIN entries = 1 .. n
  BY DEF ServeInv, ServeTypeOK
<1>2. \A i \in 1 .. Len(byLabel[l]) : byLabel[l][i] \in Indexes(l)
  <2>1. TAKE i \in 1 .. Len(byLabel[l])
  <2>2. PICK p : p = byLabel[l][i]
    OBVIOUS
  <2>3. p \in 1 .. n /\ entries[p] = [label |-> l, version |-> i]
    BY <1>1, <2>2, Zenon DEF ServeInv, Listed
  <2> QED
    BY <1>1, <2>2, <2>3 DEF Indexes
<1>3. \A p \in Indexes(l) : \E i \in 1 .. Len(byLabel[l]) : byLabel[l][i] = p
  <2>1. TAKE p \in Indexes(l)
  <2>2. p \in 1 .. n /\ entries[p].label = l
    BY <1>1 DEF Indexes
  <2>3. entries[p].version \in 1 .. Len(byLabel[l]) /\ byLabel[l][entries[p].version] = p
    BY <1>1, <2>2, Zenon DEF ServeInv, Listed
  <2> QED
    BY <2>3
<1> QED
  BY <1>2, <1>3

LEMMA WholeBy ==
  ASSUME ServeAssumption, ServeInv
  PROVE  WalksWhole
<1>1. SUFFICES ASSUME walk.label # Null
               PROVE  LET has == {walk.got[i] : i \in DOMAIN walk.got}
                          due == {p \in Indexes(walk.label) : p <= walk.size}
                      IN
                      /\ \A i, j \in DOMAIN walk.got : i < j => walk.got[i] < walk.got[j]
                      /\ has \subseteq due
                      /\ \A p \in due, q \in has : p <= q => p \in has
                      /\ Len(walk.got) <= walk.total
                      /\ Len(walk.got) = walk.total => has = due
  BY DEF WalksWhole
<1>2. PICK l \in Labels : l = walk.label
  BY <1>1 DEF ServeInv, ServeTypeOK
<1>3. PICK all \in Seq(Nat) : all = byLabel[l]
  BY DEF ServeInv, ServeTypeOK
<1>4. PICK g \in Nat, total \in Nat, size \in Nat, v \in Nat :
        g = Len(walk.got) /\ DOMAIN walk.got = 1 .. g /\ total = walk.total /\ size = walk.size /\ v = Len(all)
  <2>1. walk.got \in Seq(Nat) /\ walk.total \in Nat /\ walk.size \in Nat
    BY DEF ServeInv, ServeTypeOK
  <2>2. Len(walk.got) \in Nat /\ DOMAIN walk.got = 1 .. Len(walk.got) /\ Len(all) \in Nat
    BY <2>1
  <2> QED
    BY <2>1, <2>2
<1>5. g <= total /\ total <= v
  BY <1>1, <1>2, <1>3, <1>4 DEF ServeInv, Reading, ReadOf
<1>6. \A i \in 1 .. g : i \in 1 .. v /\ walk.got[i] = all[i]
  <2>1. \A i \in 1 .. g : i \in 1 .. v
    BY <1>5
  <2> QED
    BY <1>1, <1>2, <1>3, <1>4, <2>1 DEF ServeInv, Reading, ReadOf
<1>7. \A i \in 1 .. v : i <= total <=> all[i] <= size
  BY <1>1, <1>2, <1>3, <1>4 DEF ServeInv, Reading, ReadOf
<1>8. \A i, j \in 1 .. v : i < j => all[i] < all[j]
  BY <1>3, <1>4 DEF ServeInv, Listed
<1>9. \A i \in 1 .. v : all[i] \in Nat
  BY <1>3, <1>4, ElementOfSeq
<1> DEFINE has == {walk.got[i] : i \in DOMAIN walk.got}
           due == {p \in Indexes(l) : p <= walk.size}
<1>10. has = {all[i] : i \in 1 .. g}
  BY <1>4, <1>6
<1>11. due = {all[i] : i \in 1 .. total}
  <2>1. ASSUME NEW p \in due
        PROVE  p \in {all[i] : i \in 1 .. total}
    <3>1. PICK i \in 1 .. v : all[i] = p
      BY <1>3, <1>4, <2>1, IndexesAre
    <3>2. i <= total
      BY <1>4, <1>7, <2>1, <3>1
    <3> QED
      BY <3>1, <3>2
  <2>2. ASSUME NEW i \in 1 .. total
        PROVE  all[i] \in due
    <3>1. i \in 1 .. v /\ i <= total
      BY <1>5
    <3>2. all[i] \in Indexes(l) /\ all[i] <= walk.size
      BY <1>3, <1>4, <1>7, <3>1, IndexesAre
    <3> QED
      BY <3>2
  <2> HIDE DEF due
  <2> QED
    BY <2>1, <2>2
<1> HIDE DEF has, due
<1>12. \A i, j \in DOMAIN walk.got : i < j => walk.got[i] < walk.got[j]
  BY <1>4, <1>6, <1>8
<1>13. has \subseteq due
  <2>1. \A i \in 1 .. g : i \in 1 .. total
    BY <1>5
  <2> QED
    BY <1>10, <1>11, <2>1
<1>14. \A p \in due, q \in has : p <= q => p \in has
  <2>1. TAKE p \in due, q \in has
  <2>2. HAVE p <= q
  <2>3. PICK i \in 1 .. total, j \in 1 .. g : p = all[i] /\ q = all[j]
    BY <1>10, <1>11
  <2>4. i \in 1 .. v /\ j \in 1 .. v
    BY <1>5
  <2>5. ~(j < i)
    BY <1>8, <1>9, <2>2, <2>3, <2>4
  <2>6. i \in 1 .. g
    BY <2>5
  <2> QED
    BY <1>10, <2>3, <2>6
<1>15. g = total => has = due
  BY <1>10, <1>11
<1> QED
  BY <1>2, <1>4, <1>5, <1>12, <1>13, <1>14, <1>15, Zenon DEF has, due

\* A history that is read page by page while the log grows is in order, has no
\* hole, and when it is as long as the reader was told it has all there was under
\* the last page's head (history and _fit).
THEOREM WalksAreWhole == ServeSpec => []WalksWhole
<1>1. ServeInv => WalksWhole
  BY WholeBy, ServeAssumption
<1> QED
  BY <1>1, ListsAreKept, PTL

-----------------------------------------------------------------------------
\* The leaves of the log's tree.
LEMMA ToldIs ==
  ASSUME ServeInv, NEW n \in Nat, n = Len(entries)
  PROVE  Leaves(LogLeaves(entries), n) /\ Unlike(LogLeaves(entries), n)
<1>1. DOMAIN entries = 1 .. n
  BY DEF ServeInv, ServeTypeOK
<1>2. \A i \in 1 .. n : LogLeaves(entries)[i] = <<"leaf", entries[i].label, entries[i].version>>
  BY <1>1 DEF LogLeaves, LeafHash
<1>3. Leaves(LogLeaves(entries), n)
  BY <1>2 DEF Leaves
<1>4. ASSUME NEW i \in 1 .. n, NEW j \in 1 .. n, LogLeaves(entries)[i] = LogLeaves(entries)[j]
      PROVE  i = j
  <2>1. entries[i].label = entries[j].label /\ entries[i].version = entries[j].version
    BY <1>2, <1>4
  <2>2. byLabel[entries[i].label][entries[i].version] = i /\ byLabel[entries[j].label][entries[j].version] = j
    BY DEF ServeInv, Listed
  <2> QED
    BY <2>1, <2>2
<1> QED
  BY <1>3, <1>4 DEF Unlike

LEMMA ForkIs ==
  ASSUME ServeAssumption, ServeInv, NEW n \in Nat, n = Len(entries), NEW i \in 1 .. n
  PROVE  /\ Leaves(LogLeaves(Forked(entries, i)), n)
         /\ LogLeaves(Forked(entries, i))[i] # LogLeaves(entries)[i]
<1>1. DOMAIN entries = 1 .. n
  BY DEF ServeInv, ServeTypeOK
<1>2. PICK e : e = Forked(entries, i)
  OBVIOUS
<1>3. DOMAIN e = 1 .. n /\ e[i].version = entries[i].version + MaxEntries
  <2>1. entries[i] \in [label : Labels, version : Nat]
    BY ElementOfSeq DEF ServeInv, ServeTypeOK
  <2> QED
    BY <1>1, <1>2, <2>1 DEF Forked
<1>4. \A j \in 1 .. n : LogLeaves(e)[j] = <<"leaf", e[j].label, e[j].version>>
  BY <1>3 DEF LogLeaves, LeafHash
<1>5. LogLeaves(entries)[i] = <<"leaf", entries[i].label, entries[i].version>>
  BY <1>1 DEF LogLeaves, LeafHash
<1>6. entries[i].version \in Nat /\ MaxEntries \in Nat /\ MaxEntries > 0
  <2>1. entries[i] \in [label : Labels, version : Nat]
    BY ElementOfSeq DEF ServeInv, ServeTypeOK
  <2> QED
    BY <2>1 DEF ServeAssumption
<1>7. e[i].version # entries[i].version
  BY <1>3, <1>6
<1>8. LogLeaves(e)[i] # LogLeaves(entries)[i]
  BY <1>4, <1>5, <1>7
<1> QED
  BY <1>2, <1>4, <1>8 DEF Leaves

LEMMA ExactBy ==
  ASSUME ServeInv
  PROVE  AuditsExact
<1>1. PICK n \in Nat : n = Len(entries)
  BY DEF ServeInv, ServeTypeOK
<1>2. PICK told : told = LogLeaves(entries)
  OBVIOUS
<1>3. Leaves(told, n) /\ Unlike(told, n)
  BY <1>1, <1>2, ToldIs
<1>4. \A i, j, k \in 1 .. n :
        verifyInclusion(told[j], k - 1, n, rootAt(told, n), inclusionProof(told, i - 1, n)) <=> (i = j /\ i = k)
  BY <1>3, InclusionExact
<1> QED
  BY <1>1, <1>2, <1>4, Zenon DEF AuditsExact

\* The audit path of an entry shows that entry at its index and no entry at any
\* other (inclusionProof and verifyInclusion).
THEOREM AuditsAreExact == ServeSpec => []AuditsExact
<1>1. ServeInv => AuditsExact
  BY ExactBy
<1> QED
  BY <1>1, ListsAreKept, PTL

-----------------------------------------------------------------------------
\* The head is shown to extend each earlier one of the same leaves.
LEMMA HeadShown ==
  ASSUME NEW f, NEW n \in Nat, NEW m \in 0 .. n
  PROVE  verifyConsistency(m, n, rootAt(f, m), rootAt(f, n), consistencyProof(f, m, n))
<1>1. CASE m = n
  BY <1>1, Zenon DEF verifyConsistency, consistencyProof
<1>2. CASE m # n /\ m = 0
  BY <1>2, Zenon DEF verifyConsistency, consistencyProof
<1>3. CASE m # n /\ m # 0
  <2>1. PICK x \in Nat : x + 1 = m /\ x + 1 < n
    <3>1. m - 1 \in Nat /\ (m - 1) + 1 = m /\ (m - 1) + 1 < n
      BY <1>3
    <3> QED
      BY <3>1
  <2>2. verifyConsistency(x + 1, n, rootAt(f, x + 1), rootAt(f, n), consistencyProof(f, x + 1, n))
    BY <2>1, ProofShows
  <2> QED
    BY <2>1, <2>2, Zenon
<1> QED
  BY <1>1, <1>2, <1>3

LEMMA ProofTyped ==
  ASSUME NEW f, NEW n \in Nat, NEW m \in Nat, 0 < m, m < n
  PROVE  consistencyProof(f, m, n) \in Seq(Nodes(f, n))
<1>1. PICK x \in Nat : x + 1 = m /\ x + 1 < n
  <2>1. m - 1 \in Nat /\ (m - 1) + 1 = m
    OBVIOUS
  <2> QED
    BY <2>1
<1>2. consistencyProof(f, x + 1, n) \in Seq(Nodes(f, n))
  BY <1>1, ProofShows
<1> QED
  BY <1>1, <1>2, Zenon

\* No head of other leaves is.
LEMMA HeadRefused ==
  ASSUME NEW f, NEW g, NEW n \in Nat, NEW m \in 1 .. n, Leaves(f, n), Leaves(g, n),
         NEW i \in 1 .. m, f[i] # g[i], NEW proof, proof \in {consistencyProof(f, m, n), consistencyProof(g, m, n)}
  PROVE  ~ verifyConsistency(m, n, rootAt(g, m), rootAt(f, n), proof)
<1>1. SUFFICES ASSUME verifyConsistency(m, n, rootAt(g, m), rootAt(f, n), proof) PROVE FALSE
  OBVIOUS
<1>2. m \in Nat /\ 0 < m /\ m <= n
  OBVIOUS
<1>3. rootAt(g, m) = rootAt(f, m)
  <2>1. CASE m = n
    BY <1>1, <2>1, Zenon DEF verifyConsistency
  <2>2. CASE m # n
    <3>1. m < n
      BY <1>2, <2>2
    <3>2. PICK T : proof \in Seq(T)
      <4>1. CASE proof = consistencyProof(f, m, n)
        BY <1>2, <3>1, <4>1, ProofTyped
      <4>2. CASE proof = consistencyProof(g, m, n)
        BY <1>2, <3>1, <4>2, ProofTyped
      <4> QED
        BY <4>1, <4>2
    <3> QED
      BY <1>1, <1>2, <3>1, <3>2, HeadTells
  <2> QED
    BY <2>1, <2>2
<1>4. Leaves(f, m) /\ Leaves(g, m)
  <2>1. \A j \in 1 .. m : j \in 1 .. n
    BY <1>2
  <2> QED
    BY <2>1, Zenon DEF Leaves
<1>5. \A j \in 1 .. m : g[j] = f[j]
  BY <1>2, <1>3, <1>4, RootTells
<1> QED
  BY <1>5

LEMMA AgreeBy ==
  ASSUME ServeAssumption, ServeInv
  PROVE  HeadsAgree
<1>1. PICK n \in Nat : n = Len(entries)
  BY DEF ServeInv, ServeTypeOK
<1>2. PICK told : told = LogLeaves(entries)
  OBVIOUS
<1>3. Leaves(told, n)
  BY <1>1, <1>2, ToldIs
<1>4. ASSUME NEW m \in 0 .. n
      PROVE  /\ verifyConsistency(m, n, rootAt(told, m), rootAt(told, n), consistencyProof(told, m, n))
             /\ \A i \in 1 .. m :
                  LET fork == LogLeaves(Forked(entries, i))
                  IN \A proof \in {consistencyProof(told, m, n), consistencyProof(fork, m, n)} :
                       ~ verifyConsistency(m, n, rootAt(fork, m), rootAt(told, n), proof)
  <2>1. verifyConsistency(m, n, rootAt(told, m), rootAt(told, n), consistencyProof(told, m, n))
    BY HeadShown
  <2>2. ASSUME NEW i \in 1 .. m, NEW fork, fork = LogLeaves(Forked(entries, i)),
               NEW proof \in {consistencyProof(told, m, n), consistencyProof(fork, m, n)}
        PROVE  ~ verifyConsistency(m, n, rootAt(fork, m), rootAt(told, n), proof)
    <3>1. m \in 1 .. n /\ i \in 1 .. n
      OBVIOUS
    <3>2. Leaves(fork, n) /\ fork[i] # told[i]
      BY <1>1, <1>2, <2>2, <3>1, ForkIs
    <3> QED
      BY <1>3, <3>1, <3>2, HeadRefused
  <2> QED
    BY <2>1, <2>2, Zenon
<1> QED
  BY <1>1, <1>2, <1>4, Zenon DEF HeadsAgree

\* The log's proofs show every earlier head of its own to be one the present head
\* extends, and the head of another history never is, by its proof or by that
\* history's (consistencyProof and verifyConsistency).
THEOREM HeadsAreOne == ServeSpec => []HeadsAgree
<1>1. ServeInv => HeadsAgree
  BY AgreeBy, ServeAssumption
<1> QED
  BY <1>1, ListsAreKept, PTL

Bits == [1 .. DEPTH -> {0, 1}]

MapLeaves == [label : Bits, index : Nat, version : Nat]

Half(Y, d, b) == {x \in Y : bit(x.label, d) = b}

LEMMA DepthIs == DEPTH \in Nat /\ DEPTH > 0
BY ServeAssumption DEF ServeAssumption

LEMMA BitIs ==
  ASSUME NEW l \in Bits, NEW d \in 0 .. DEPTH - 1
  PROVE  bit(l, d) \in {0, 1}
<1>1. d + 1 \in 1 .. DEPTH
  BY DepthIs
<1> QED
  BY <1>1 DEF bit, Bits

LEMMA SameBits ==
  ASSUME NEW l \in Bits, NEW k \in Bits, hasPrefix(l, k, DEPTH)
  PROVE  l = k
<1>1. ASSUME NEW i \in 1 .. DEPTH PROVE l[i] = k[i]
  <2>1. PICK d \in 0 .. DEPTH - 1 : d + 1 = i
    BY DepthIs
  <2> QED
    BY <2>1 DEF hasPrefix, bit
<1>2. l = [i \in 1 .. DEPTH |-> l[i]] /\ k = [i \in 1 .. DEPTH |-> k[i]]
  BY DEF Bits
<1>3. [i \in 1 .. DEPTH |-> l[i]] = [i \in 1 .. DEPTH |-> k[i]]
  BY <1>1
<1> QED
  BY <1>2, <1>3

-----------------------------------------------------------------------------
\* The hashes of empty subtrees.
EmptyBody(u, d) == IF d = DEPTH THEN <<"empty">> ELSE mapNodeHash(u[d + 1], u[d + 1])

IsEmpty(u, m) == u = [d \in m .. DEPTH |-> EmptyBody(u, d)]

LEMMA EmptyExists ==
  ASSUME NEW n \in Nat, n = DEPTH
  PROVE  \E u : IsEmpty(u, 0)
<1> DEFINE F == {k \in Nat : k <= n => \E u : IsEmpty(u, n - k)}
<1>1. 0 \in F
  <2> DEFINE u == [d \in n .. n |-> EmptyBody(<<>>, d)]
  <2>1. \A d \in n .. n : EmptyBody(<<>>, d) = EmptyBody(u, d)
    BY DEF EmptyBody
  <2>2. u = [d \in n .. n |-> EmptyBody(u, d)]
    BY <2>1
  <2>3. n - 0 = n
    OBVIOUS
  <2>4. IsEmpty(u, n)
    BY <2>2 DEF IsEmpty
  <2> HIDE DEF u
  <2> QED
    BY <2>3, <2>4
<1>2. ASSUME NEW k \in Nat, k \in F
      PROVE  k + 1 \in F
  <2>1. SUFFICES ASSUME k + 1 <= n PROVE \E u : IsEmpty(u, n - (k + 1))
    OBVIOUS
  <2>2. PICK m \in Nat : m = n - (k + 1) /\ n - k = m + 1 /\ m < n
    BY <2>1
  <2>3. PICK t : IsEmpty(t, m + 1)
    BY <1>2, <2>1, <2>2
  <2> DEFINE u == [d \in m .. n |-> EmptyBody(t, d)]
  <2>4. \A d \in m + 1 .. n : u[d] = t[d]
    BY <2>3 DEF IsEmpty
  <2> HIDE DEF u
  <2>5. \A d \in m .. n : d = n \/ u[d + 1] = t[d + 1]
    BY <2>4
  <2>6. \A d \in m .. n : EmptyBody(t, d) = EmptyBody(u, d)
    BY <2>5 DEF EmptyBody
  <2>7. u = [d \in m .. n |-> EmptyBody(u, d)]
    BY <2>6 DEF u
  <2>8. IsEmpty(u, m)
    BY <2>7 DEF IsEmpty
  <2> QED
    BY <2>2, <2>8
<1> HIDE DEF F
<1>3. n \in F
  BY <1>1, <1>2, BySteps
<1>4. n - n = 0
  OBVIOUS
<1> QED
  BY <1>3, <1>4 DEF F

LEMMA EmptyIs ==
  /\ EMPTY[DEPTH] = <<"empty">>
  /\ \A d \in 0 .. DEPTH - 1 : EMPTY[d] = mapNodeHash(EMPTY[d + 1], EMPTY[d + 1])
<1>1. PICK u : u = CHOOSE w : IsEmpty(w, 0)
  OBVIOUS
<1>2. IsEmpty(u, 0)
  BY <1>1, EmptyExists, DepthIs, Zenon
<1>3. EMPTY = u
  BY <1>1 DEF EMPTY, IsEmpty, EmptyBody
<1> QED
  BY <1>2, <1>3, DepthIs DEF IsEmpty, EmptyBody

\* Hashes up a way.
FoldBody(u, d, label, foot, h, siblings) == IF d = foot THEN h ELSE Join(label, d, u[d + 1], siblings[d])

IsFold(u, m, label, foot, h, siblings) == u = [d \in m .. foot |-> FoldBody(u, d, label, foot, h, siblings)]

LEMMA FoldExists ==
  ASSUME NEW n \in Nat, NEW foot, n = foot, NEW label, NEW h, NEW siblings
  PROVE  \E u : IsFold(u, 0, label, foot, h, siblings)
<1> DEFINE F == {k \in Nat : k <= n => \E u : IsFold(u, n - k, label, foot, h, siblings)}
<1>1. 0 \in F
  <2> DEFINE u == [d \in n .. n |-> FoldBody(<<>>, d, label, foot, h, siblings)]
  <2>1. \A d \in n .. n : FoldBody(<<>>, d, label, foot, h, siblings) = FoldBody(u, d, label, foot, h, siblings)
    BY DEF FoldBody
  <2>2. u = [d \in n .. n |-> FoldBody(u, d, label, foot, h, siblings)]
    BY <2>1
  <2>3. n - 0 = n
    OBVIOUS
  <2>4. IsFold(u, n, label, foot, h, siblings)
    BY <2>2 DEF IsFold
  <2> HIDE DEF u
  <2> QED
    BY <2>3, <2>4
<1>2. ASSUME NEW k \in Nat, k \in F
      PROVE  k + 1 \in F
  <2>1. SUFFICES ASSUME k + 1 <= n PROVE \E u : IsFold(u, n - (k + 1), label, foot, h, siblings)
    OBVIOUS
  <2>2. PICK m \in Nat : m = n - (k + 1) /\ n - k = m + 1 /\ m < n
    BY <2>1
  <2>3. PICK t : IsFold(t, m + 1, label, foot, h, siblings)
    BY <1>2, <2>1, <2>2
  <2> DEFINE u == [d \in m .. n |-> FoldBody(t, d, label, foot, h, siblings)]
  <2>4. \A d \in m + 1 .. n : u[d] = t[d]
    BY <2>3 DEF IsFold
  <2> HIDE DEF u
  <2>5. \A d \in m .. n : d = n \/ u[d + 1] = t[d + 1]
    BY <2>4
  <2>6. \A d \in m .. n : FoldBody(t, d, label, foot, h, siblings) = FoldBody(u, d, label, foot, h, siblings)
    BY <2>5 DEF FoldBody
  <2>7. u = [d \in m .. n |-> FoldBody(u, d, label, foot, h, siblings)]
    BY <2>6 DEF u
  <2>8. IsFold(u, m, label, foot, h, siblings)
    BY <2>7 DEF IsFold
  <2> QED
    BY <2>2, <2>8
<1> HIDE DEF F
<1>3. n \in F
  BY <1>1, <1>2, BySteps
<1>4. n - n = 0
  OBVIOUS
<1> QED
  BY <1>3, <1>4 DEF F

\* The hashes on a way, each joined from the one below.
Joined(f, label, foot, h, siblings) ==
  /\ f[foot] = h
  /\ \A d \in 0 .. foot - 1 : f[d] = Join(label, d, f[d + 1], siblings[d])

LEMMA FoldedIs ==
  ASSUME NEW label, NEW foot \in Nat, NEW h, NEW siblings
  PROVE  Joined(Folded(label, foot, h, siblings), label, foot, h, siblings)
<1>1. PICK u : u = CHOOSE w : IsFold(w, 0, label, foot, h, siblings)
  OBVIOUS
<1>2. IsFold(u, 0, label, foot, h, siblings)
  BY <1>1, FoldExists, Zenon
<1>3. Folded(label, foot, h, siblings) = u
  BY <1>1 DEF Folded, IsFold, FoldBody
<1>4. Joined(u, label, foot, h, siblings)
  BY <1>2 DEF IsFold, FoldBody, Joined
<1> QED
  BY <1>3, <1>4

\* Folds that end at the same hash started from the same one, whatever was
\* beside them.
LEMMA FoldedSame ==
  ASSUME NEW label, NEW foot \in Nat, NEW g, NEW h, NEW s, NEW r,
         Folded(label, foot, g, s)[0] = Folded(label, foot, h, r)[0]
  PROVE  g = h
<1>1. PICK u : u = Folded(label, foot, g, s)
  OBVIOUS
<1>2. PICK w : w = Folded(label, foot, h, r)
  OBVIOUS
<1>3. Joined(u, label, foot, g, s) /\ Joined(w, label, foot, h, r)
  BY <1>1, <1>2, FoldedIs
<1> DEFINE F == {d \in Nat : d <= foot => u[d] = w[d]}
<1>4. 0 \in F
  BY <1>1, <1>2
<1>5. ASSUME NEW d \in Nat, d \in F PROVE d + 1 \in F
  <2>1. SUFFICES ASSUME d + 1 <= foot PROVE u[d + 1] = w[d + 1]
    OBVIOUS
  <2>2. Join(label, d, u[d + 1], s[d]) = Join(label, d, w[d + 1], r[d])
    BY <1>3, <1>5, <2>1 DEF Joined
  <2> QED
    BY <2>2 DEF Join, mapNodeHash
<1> HIDE DEF F
<1>6. foot \in F
  BY <1>4, <1>5, BySteps
<1> QED
  BY <1>3, <1>6 DEF F, Joined

-----------------------------------------------------------------------------
\* The full tree: HashAt(Y, d) is the hash at depth d of the subtree with the
\* leaves Y.

\* Every set of leaves at every depth.
HashesBody(u, d, all) == 
  [has \in SUBSET all |->
     IF has = {} THEN EMPTY[d]
     ELSE IF d = DEPTH THEN mapLeafHash(CHOOSE l \in has : TRUE)
     ELSE mapNodeHash(u[d + 1][Half(has, d, 0)], u[d + 1][Half(has, d, 1)])]

IsHashes(u, m, all) == u = [d \in m .. DEPTH |-> HashesBody(u, d, all)]

LEMMA HashesExists ==
  ASSUME NEW n \in Nat, n = DEPTH, NEW all
  PROVE  \E u : IsHashes(u, 0, all)
<1> DEFINE F == {k \in Nat : k <= n => \E u : IsHashes(u, n - k, all)}
<1>1. 0 \in F
  <2> DEFINE u == [d \in n .. n |-> HashesBody(<<>>, d, all)]
  <2>1. \A d \in n .. n : HashesBody(<<>>, d, all) = HashesBody(u, d, all)
    BY DEF HashesBody
  <2>2. u = [d \in n .. n |-> HashesBody(u, d, all)]
    BY <2>1
  <2>3. n - 0 = n
    OBVIOUS
  <2>4. IsHashes(u, n, all)
    BY <2>2 DEF IsHashes
  <2> HIDE DEF u
  <2> QED
    BY <2>3, <2>4
<1>2. ASSUME NEW k \in Nat, k \in F
      PROVE  k + 1 \in F
  <2>1. SUFFICES ASSUME k + 1 <= n PROVE \E u : IsHashes(u, n - (k + 1), all)
    OBVIOUS
  <2>2. PICK m \in Nat : m = n - (k + 1) /\ n - k = m + 1 /\ m < n
    BY <2>1
  <2>3. PICK t : IsHashes(t, m + 1, all)
    BY <1>2, <2>1, <2>2
  <2> DEFINE u == [d \in m .. n |-> HashesBody(t, d, all)]
  <2>4. \A d \in m + 1 .. n : u[d] = t[d]
    BY <2>3 DEF IsHashes
  <2> HIDE DEF u
  <2>5. \A d \in m .. n : d = n \/ u[d + 1] = t[d + 1]
    BY <2>4
  <2>6. \A d \in m .. n : HashesBody(t, d, all) = HashesBody(u, d, all)
    BY <2>5 DEF HashesBody
  <2>7. u = [d \in m .. n |-> HashesBody(u, d, all)]
    BY <2>6 DEF u
  <2>8. IsHashes(u, m, all)
    BY <2>7 DEF IsHashes
  <2> QED
    BY <2>2, <2>8
<1> HIDE DEF F
<1>3. n \in F
  BY <1>1, <1>2, BySteps
<1>4. n - n = 0
  OBVIOUS
<1> QED
  BY <1>3, <1>4 DEF F

HashAt(Y, d) == (CHOOSE u : IsHashes(u, 0, MapLeaves))[d][Y]

LEMMA HashIs ==
  \E u : IsHashes(u, 0, MapLeaves) /\ \A d \in 0 .. DEPTH : \A Y \in SUBSET MapLeaves : HashAt(Y, d) = u[d][Y]
<1>1. PICK u : u = CHOOSE w : IsHashes(w, 0, MapLeaves)
  OBVIOUS
<1>2. IsHashes(u, 0, MapLeaves)
  BY <1>1, HashesExists, DepthIs, Zenon
<1>3. \A d \in 0 .. DEPTH : \A Y \in SUBSET MapLeaves : HashAt(Y, d) = u[d][Y]
  BY <1>1 DEF HashAt
<1> QED
  BY <1>2, <1>3

LEMMA HashNone ==
  ASSUME NEW d \in 0 .. DEPTH
  PROVE  HashAt({}, d) = EMPTY[d]
<1>1. PICK u : IsHashes(u, 0, MapLeaves) /\ \A e \in 0 .. DEPTH : \A Z \in SUBSET MapLeaves : HashAt(Z, e) = u[e][Z]
  BY HashIs
<1>2. {} \in SUBSET MapLeaves
  OBVIOUS
<1>3. u[d] = HashesBody(u, d, MapLeaves)
  BY <1>1 DEF IsHashes
<1>4. u[d][{}] = EMPTY[d]
  BY <1>2, <1>3 DEF HashesBody
<1> QED
  BY <1>1, <1>2, <1>4

LEMMA HashLeaf ==
  ASSUME NEW x \in MapLeaves
  PROVE  HashAt({x}, DEPTH) = mapLeafHash(x)
<1>1. PICK l : l = CHOOSE y \in {x} : TRUE
  OBVIOUS
<1>2. l = x
  BY <1>1
<1>3. PICK u : IsHashes(u, 0, MapLeaves) /\ \A e \in 0 .. DEPTH : \A Z \in SUBSET MapLeaves : HashAt(Z, e) = u[e][Z]
  BY HashIs
<1>4. u[DEPTH] = HashesBody(u, DEPTH, MapLeaves)
  BY <1>3, DepthIs DEF IsHashes
<1>5. u[DEPTH][{x}] = mapLeafHash(CHOOSE y \in {x} : TRUE)
  BY <1>4 DEF HashesBody
<1> QED
  BY <1>1, <1>2, <1>3, <1>5, DepthIs

LEMMA HashHalves ==
  ASSUME NEW d \in 0 .. DEPTH - 1, NEW Y \in SUBSET MapLeaves
  PROVE  HashAt(Y, d) = mapNodeHash(HashAt(Half(Y, d, 0), d + 1), HashAt(Half(Y, d, 1), d + 1))
<1>1. d \in 0 .. DEPTH /\ d + 1 \in 0 .. DEPTH /\ d # DEPTH
  BY DepthIs
<1>2. CASE Y = {}
  <2>1. Half(Y, d, 0) = {} /\ Half(Y, d, 1) = {}
    BY <1>2 DEF Half
  <2> QED
    BY <1>1, <1>2, <2>1, HashNone, EmptyIs
<1>3. CASE Y # {}
  <2>1. Half(Y, d, 0) \in SUBSET MapLeaves /\ Half(Y, d, 1) \in SUBSET MapLeaves
    BY DEF Half
  <2>2. PICK u : IsHashes(u, 0, MapLeaves) /\ \A e \in 0 .. DEPTH : \A Z \in SUBSET MapLeaves : HashAt(Z, e) = u[e][Z]
    BY HashIs
  <2>3. u[d] = HashesBody(u, d, MapLeaves)
    BY <1>1, <2>2 DEF IsHashes
  <2>4. u[d][Y] = mapNodeHash(u[d + 1][Half(Y, d, 0)], u[d + 1][Half(Y, d, 1)])
    BY <1>1, <1>3, <2>3 DEF HashesBody
  <2> QED
    BY <1>1, <2>1, <2>2, <2>4
<1> QED
  BY <1>2, <1>3

\* The same from a label's side.
LEMMA HashJoin ==
  ASSUME NEW d \in 0 .. DEPTH - 1, NEW Y \in SUBSET MapLeaves, NEW l \in Bits
  PROVE  HashAt(Y, d) = Join(l, d, HashAt(Half(Y, d, bit(l, d)), d + 1), HashAt(Half(Y, d, 1 - bit(l, d)), d + 1))
<1>1. CASE bit(l, d) = 0
  <2>1. 1 - bit(l, d) = 1
    BY <1>1
  <2> QED
    BY <1>1, <2>1, HashHalves DEF Join
<1>2. CASE bit(l, d) = 1
  <2>1. 1 - bit(l, d) = 0
    BY <1>2
  <2> QED
    BY <1>2, <2>1, HashHalves DEF Join
<1> QED
  BY <1>1, <1>2, BitIs

-----------------------------------------------------------------------------
\* Leaves of different labels that share their first d bits.
Cluster(Y, d) ==
  /\ Y \in SUBSET MapLeaves
  /\ \A a, b \in Y : a.label = b.label => a = b
  /\ \A a, b \in Y : hasPrefix(a.label, b.label, d)

Few(Y) == \A a, b \in Y : a = b

LEMMA ClusterPart ==
  ASSUME NEW d, NEW Y, Cluster(Y, d), NEW Z, Z \subseteq Y
  PROVE  Cluster(Z, d)
BY DEF Cluster

LEMMA ClusterHalf ==
  ASSUME NEW d \in 0 .. DEPTH - 1, NEW Y, Cluster(Y, d), NEW b
  PROVE  Cluster(Half(Y, d, b), d + 1)
<1>1. Cluster(Half(Y, d, b), d)
  BY ClusterPart DEF Half
<1>2. ASSUME NEW x \in Half(Y, d, b), NEW y \in Half(Y, d, b), NEW e \in 0 .. d
      PROVE  bit(x.label, e) = bit(y.label, e)
  <2>1. CASE e = d
    BY <2>1 DEF Half
  <2>2. CASE e # d
    <3>1. e \in 0 .. d - 1
      BY <2>2
    <3> QED
      BY <1>1, <3>1 DEF Cluster, hasPrefix
  <2> QED
    BY <2>1, <2>2
<1>3. (d + 1) - 1 = d
  OBVIOUS
<1> QED
  BY <1>1, <1>2, <1>3 DEF Cluster, hasPrefix

LEMMA ClusterEnd ==
  ASSUME NEW Y, Cluster(Y, DEPTH)
  PROVE  Few(Y)
<1> SUFFICES ASSUME NEW a \in Y, NEW b \in Y PROVE a = b
  BY DEF Few
<1>1. a.label \in Bits /\ b.label \in Bits
  BY DEF Cluster, MapLeaves
<1>2. a.label = b.label
  BY <1>1, SameBits DEF Cluster
<1> QED
  BY <1>2 DEF Cluster

LEMMA FewIs ==
  ASSUME NEW Y, Few(Y)
  PROVE  Y = {} \/ \E x \in Y : Y = {x}
BY DEF Few

LEMMA HalvesAll ==
  ASSUME NEW d \in 0 .. DEPTH - 1, NEW Y \in SUBSET MapLeaves
  PROVE  Y = Half(Y, d, 0) \cup Half(Y, d, 1)
<1>1. \A x \in Y : bit(x.label, d) \in {0, 1}
  <2> TAKE x \in Y
  <2>1. x.label \in Bits
    BY DEF MapLeaves
  <2> QED
    BY <2>1, BitIs
<1> QED
  BY <1>1 DEF Half

\* Two clusters of one hash are the same.
LEMMA HashesSame ==
  ASSUME NEW k \in 0 .. DEPTH, NEW Y, NEW Z, Cluster(Y, k), Cluster(Z, k), HashAt(Y, k) = HashAt(Z, k)
  PROVE  Y = Z
<1> DEFINE Told(d) == \A A, B : Cluster(A, d) /\ Cluster(B, d) /\ HashAt(A, d) = HashAt(B, d) => A = B
           F == {h \in Nat : h <= DEPTH => Told(DEPTH - h)}
<1>1. 0 \in F
  <2>1. SUFFICES ASSUME NEW A, NEW B, Cluster(A, DEPTH), Cluster(B, DEPTH), HashAt(A, DEPTH) = HashAt(B, DEPTH)
                 PROVE A = B
    <3>1. DEPTH - 0 = DEPTH
      BY DepthIs
    <3> QED
      BY <3>1
  <2>2. A \in SUBSET MapLeaves /\ B \in SUBSET MapLeaves
    BY <2>1 DEF Cluster
  <2>3. A = {} \/ \E x \in A : A = {x}
    BY <2>1, ClusterEnd, FewIs
  <2>4. B = {} \/ \E x \in B : B = {x}
    BY <2>1, ClusterEnd, FewIs
  <2>5. HashAt({}, DEPTH) = <<"empty">>
    <3>1. DEPTH \in 0 .. DEPTH
      BY DepthIs
    <3>2. HashAt({}, DEPTH) = EMPTY[DEPTH]
      BY <3>1, HashNone, Zenon
    <3> QED
      BY <3>2, EmptyIs, Zenon
  <2>6. \A x \in MapLeaves : HashAt({x}, DEPTH) = <<"leaf", x.label, x.index, x.version>>
    BY HashLeaf DEF mapLeafHash
  <2>7. \A x, y \in MapLeaves : x.label = y.label /\ x.index = y.index /\ x.version = y.version => x = y
    BY DEF MapLeaves
  <2>8. CASE A = {}
    <3>1. \A x \in MapLeaves : HashAt({x}, DEPTH) # HashAt({}, DEPTH)
      BY <2>5, <2>6
    <3> QED
      BY <2>1, <2>2, <2>4, <2>8, <3>1
  <2>9. CASE \E x \in A : A = {x}
    <3>1. PICK x \in A : A = {x}
      BY <2>9
    <3>2. x \in MapLeaves
      BY <2>2
    <3>3. HashAt({x}, DEPTH) # HashAt({}, DEPTH)
      BY <2>5, <2>6, <3>2
    <3>4. PICK y \in B : B = {y}
      BY <2>1, <2>4, <3>1, <3>3
    <3>5. y \in MapLeaves
      BY <2>2
    <3>6. <<"leaf", x.label, x.index, x.version>> = <<"leaf", y.label, y.index, y.version>>
      BY <2>1, <2>6, <3>1, <3>2, <3>4, <3>5
    <3> QED
      BY <2>7, <3>1, <3>2, <3>4, <3>5, <3>6
  <2> QED
    BY <2>3, <2>8, <2>9
<1>2. ASSUME NEW h \in Nat, h \in F PROVE h + 1 \in F
  <2>1. SUFFICES ASSUME h + 1 <= DEPTH PROVE Told(DEPTH - (h + 1))
    OBVIOUS
  <2>2. PICK d \in 0 .. DEPTH - 1 : d = DEPTH - (h + 1) /\ DEPTH - h = d + 1
    BY <2>1, DepthIs
  <2>3. Told(d + 1)
    BY <1>2, <2>1, <2>2, DepthIs
  <2>4. SUFFICES ASSUME NEW A, NEW B, Cluster(A, d), Cluster(B, d), HashAt(A, d) = HashAt(B, d)
                 PROVE A = B
    BY <2>2
  <2>5. A \in SUBSET MapLeaves /\ B \in SUBSET MapLeaves
    BY <2>4 DEF Cluster
  <2>6. ASSUME NEW b \in {0, 1} PROVE HashAt(Half(A, d, b), d + 1) = HashAt(Half(B, d, b), d + 1)
    <3>1. mapNodeHash(HashAt(Half(A, d, 0), d + 1), HashAt(Half(A, d, 1), d + 1)) =
          mapNodeHash(HashAt(Half(B, d, 0), d + 1), HashAt(Half(B, d, 1), d + 1))
      BY <2>4, <2>5, HashHalves
    <3> QED
      BY <3>1 DEF mapNodeHash
  <2>7. \A b \in {0, 1} : Cluster(Half(A, d, b), d + 1) /\ Cluster(Half(B, d, b), d + 1)
    BY <2>4, ClusterHalf
  <2>8. \A b \in {0, 1} : Half(A, d, b) = Half(B, d, b)
    BY <2>3, <2>6, <2>7
  <2> QED
    BY <2>5, <2>8, HalvesAll
<1> HIDE DEF F
<1>3. PICK h \in Nat : h <= DEPTH /\ DEPTH - h = k
  <2>1. DEPTH - k \in Nat /\ DEPTH - k <= DEPTH /\ DEPTH - (DEPTH - k) = k
    BY DepthIs
  <2> QED
    BY <2>1
<1>4. h \in F
  BY <1>1, <1>2, BySteps
<1>5. Told(k)
  BY <1>3, <1>4 DEF F
<1> QED
  BY <1>5

-----------------------------------------------------------------------------
\* What is below a way: Z[d] are the leaves in the subtree at depth d, each half
\* of the one above; its other half is what the sibling stands for.
FarHalf(Y, d, l) == Half(Y, d, 1 - bit(l, d))

Narrows(Z, foot, l) ==
  /\ \A d \in 0 .. foot : Z[d] \in SUBSET MapLeaves
  /\ \A d \in 0 .. foot - 1 : Z[d + 1] = Half(Z[d], d, bit(l, d))

\* What is folded up such a way: the hash at its foot and those beside it.
Feeds(Z, foot, l, h, siblings) ==
  /\ Narrows(Z, foot, l)
  /\ h = HashAt(Z[foot], foot)
  /\ \A d \in 0 .. foot - 1 : siblings[d] = HashAt(FarHalf(Z[d], d, l), d + 1)

Reaches(Z, foot, l, h, siblings) ==
  \A k \in 0 .. foot : Folded(l, foot, h, siblings)[k] = HashAt(Z[k], k)

LEMMA FoldsUp ==
  ASSUME NEW l \in Bits, NEW foot \in 0 .. DEPTH, NEW Z, NEW h, NEW siblings, Feeds(Z, foot, l, h, siblings)
  PROVE  Reaches(Z, foot, l, h, siblings)
<1>1. SUFFICES ASSUME NEW k \in 0 .. foot PROVE Folded(l, foot, h, siblings)[k] = HashAt(Z[k], k)
  BY DEF Reaches
<1>2. Narrows(Z, foot, l) /\ h = HashAt(Z[foot], foot)
  BY DEF Feeds
<1>3. PICK u : u = Folded(l, foot, h, siblings)
  OBVIOUS
<1>4. foot \in Nat /\ foot <= DEPTH
  BY DepthIs
<1>5. Joined(u, l, foot, h, siblings)
  BY <1>3, <1>4, FoldedIs
<1> DEFINE F == {j \in Nat : j <= foot => u[foot - j] = HashAt(Z[foot - j], foot - j)}
<1>6. 0 \in F
  <2>1. foot - 0 = foot
    BY <1>4
  <2>2. u[foot] = h
    BY <1>5 DEF Joined
  <2> QED
    BY <1>2, <2>1, <2>2
<1>7. ASSUME NEW j \in Nat, j \in F PROVE j + 1 \in F
  <2>1. SUFFICES ASSUME j + 1 <= foot PROVE u[foot - (j + 1)] = HashAt(Z[foot - (j + 1)], foot - (j + 1))
    OBVIOUS
  <2>2. PICK d \in 0 .. foot - 1 : d = foot - (j + 1) /\ foot - j = d + 1
    BY <1>4, <2>1
  <2>3. d \in 0 .. DEPTH - 1 /\ d \in 0 .. foot
    BY <1>4, <2>2, DepthIs
  <2>4. u[d + 1] = HashAt(Z[d + 1], d + 1)
    BY <1>4, <1>7, <2>1, <2>2
  <2>5. u[d] = Join(l, d, u[d + 1], siblings[d])
    BY <1>5, <2>2 DEF Joined
  <2>6. Z[d] \in SUBSET MapLeaves /\ Z[d + 1] = Half(Z[d], d, bit(l, d))
    BY <1>2, <2>2, <2>3 DEF Narrows
  <2>7. siblings[d] = HashAt(Half(Z[d], d, 1 - bit(l, d)), d + 1)
    BY <2>2 DEF Feeds, FarHalf
  <2>8. HashAt(Z[d], d) = Join(l, d, HashAt(Half(Z[d], d, bit(l, d)), d + 1), HashAt(Half(Z[d], d, 1 - bit(l, d)), d + 1))
    BY <2>3, <2>6, HashJoin
  <2>9. u[d] = HashAt(Z[d], d)
    BY <2>4, <2>5, <2>6, <2>7, <2>8
  <2> QED
    BY <2>2, <2>9
<1> HIDE DEF F
<1>8. PICK j \in Nat : j <= foot /\ foot - j = k
  <2>1. foot - k \in Nat /\ foot - k <= foot /\ foot - (foot - k) = k
    BY <1>4
  <2> QED
    BY <2>1
<1>9. j \in F
  BY <1>6, <1>7, BySteps
<1> QED
  BY <1>3, <1>8, <1>9 DEF F

LEMMA HalfOne ==
  ASSUME NEW x \in MapLeaves, NEW d \in 0 .. DEPTH - 1
  PROVE  Half({x}, d, bit(x.label, d)) = {x} /\ FarHalf({x}, d, x.label) = {}
<1>1. bit(x.label, d) \in {0, 1}
  BY BitIs DEF MapLeaves
<1>2. 1 - bit(x.label, d) # bit(x.label, d)
  BY <1>1
<1> QED
  BY <1>2 DEF Half, FarHalf

\* A chain is the hash of a subtree with one leaf.
LEMMA ChainIs ==
  ASSUME NEW x \in MapLeaves, NEW k \in 0 .. DEPTH
  PROVE  chainHash(x, k) = HashAt({x}, k)
<1>1. PICK Z : Z = [d \in 0 .. DEPTH |-> {x}]
  OBVIOUS
<1>2. PICK l \in Bits : l = x.label
  BY DEF MapLeaves
<1>3. Narrows(Z, DEPTH, l)
  <2>1. \A d \in 0 .. DEPTH : Z[d] = {x}
    BY <1>1
  <2>2. \A d \in 0 .. DEPTH - 1 : d \in 0 .. DEPTH /\ d + 1 \in 0 .. DEPTH
    BY DepthIs
  <2> QED
    <3>1. \A d \in 0 .. DEPTH : Z[d] \in SUBSET MapLeaves
      BY <2>1
    <3>2. ASSUME NEW d \in 0 .. DEPTH - 1 PROVE Z[d + 1] = Half(Z[d], d, bit(l, d))
      <4>1. Z[d] = {x} /\ Z[d + 1] = {x}
        BY <2>1, <2>2
      <4>2. Half({x}, d, bit(l, d)) = {x}
        BY <1>2, HalfOne
      <4> QED
        BY <4>1, <4>2
    <3> QED
      BY <3>1, <3>2 DEF Narrows
<1>4. PICK s : s = Filled(<<>>, DEPTH)
  OBVIOUS
<1>5. \A d \in 0 .. DEPTH - 1 : s[d] = HashAt(FarHalf(Z[d], d, l), d + 1)
  <2>1. TAKE d \in 0 .. DEPTH - 1
  <2>2. d \in 0 .. DEPTH /\ d + 1 \in 0 .. DEPTH
    BY DepthIs
  <2>3. s[d] = EMPTY[d + 1]
    BY <1>4 DEF Filled
  <2>4. FarHalf(Z[d], d, l) = {}
    BY <1>1, <1>2, <2>2, HalfOne
  <2> QED
    BY <2>2, <2>3, <2>4, HashNone
<1>6. PICK h : h = mapLeafHash(x)
  OBVIOUS
<1>7. h = HashAt(Z[DEPTH], DEPTH)
  BY <1>1, <1>6, HashLeaf, DepthIs
<1>8. DEPTH \in 0 .. DEPTH
  BY DepthIs
<1>9. Feeds(Z, DEPTH, l, h, s)
  BY <1>3, <1>5, <1>7 DEF Feeds
<1>10. Folded(l, DEPTH, h, s)[k] = HashAt(Z[k], k)
  <2>1. Reaches(Z, DEPTH, l, h, s)
    BY <1>8, <1>9, FoldsUp
  <2> QED
    BY <2>1 DEF Reaches
<1>11. chainHash(x, k) = Folded(l, DEPTH, h, s)[k]
  BY <1>2, <1>4, <1>6 DEF chainHash
<1> QED
  BY <1>1, <1>10, <1>11

-----------------------------------------------------------------------------
\* The compact tree: NodeOf(Y, d) is the subtree at depth d with the leaves Y.

\* Every set of leaves at every depth.
NodeBody(u, d) == 
  [has \in SUBSET MapLeaves |->
     IF has = {} THEN Null
     ELSE IF d = DEPTH \/ Few(has) THEN Single(CHOOSE l \in has : TRUE, d)
     ELSE Internal(u[d + 1][Half(has, d, 0)], u[d + 1][Half(has, d, 1)], d)]

IsNode(u, m) == u = [d \in m .. DEPTH |-> NodeBody(u, d)]

LEMMA NodeExists ==
  ASSUME NEW n \in Nat, n = DEPTH
  PROVE  \E u : IsNode(u, 0)
<1> DEFINE F == {k \in Nat : k <= n => \E u : IsNode(u, n - k)}
<1>1. 0 \in F
  <2> DEFINE u == [d \in n .. n |-> NodeBody(<<>>, d)]
  <2>1. \A d \in n .. n : NodeBody(<<>>, d) = NodeBody(u, d)
    BY DEF NodeBody
  <2>2. u = [d \in n .. n |-> NodeBody(u, d)]
    BY <2>1
  <2>3. n - 0 = n
    OBVIOUS
  <2>4. IsNode(u, n)
    BY <2>2 DEF IsNode
  <2> HIDE DEF u
  <2> QED
    BY <2>3, <2>4
<1>2. ASSUME NEW k \in Nat, k \in F
      PROVE  k + 1 \in F
  <2>1. SUFFICES ASSUME k + 1 <= n PROVE \E u : IsNode(u, n - (k + 1))
    OBVIOUS
  <2>2. PICK m \in Nat : m = n - (k + 1) /\ n - k = m + 1 /\ m < n
    BY <2>1
  <2>3. PICK t : IsNode(t, m + 1)
    BY <1>2, <2>1, <2>2
  <2> DEFINE u == [d \in m .. n |-> NodeBody(t, d)]
  <2>4. \A d \in m + 1 .. n : u[d] = t[d]
    BY <2>3 DEF IsNode
  <2> HIDE DEF u
  <2>5. \A d \in m .. n : d = n \/ u[d + 1] = t[d + 1]
    BY <2>4
  <2>6. \A d \in m .. n : NodeBody(t, d) = NodeBody(u, d)
    BY <2>5 DEF NodeBody
  <2>7. u = [d \in m .. n |-> NodeBody(u, d)]
    BY <2>6 DEF u
  <2>8. IsNode(u, m)
    BY <2>7 DEF IsNode
  <2> QED
    BY <2>2, <2>8
<1> HIDE DEF F
<1>3. n \in F
  BY <1>1, <1>2, BySteps
<1>4. n - n = 0
  OBVIOUS
<1> QED
  BY <1>3, <1>4 DEF F

NodeOf(Y, d) == (CHOOSE u : IsNode(u, 0))[d][Y]

LEMMA NodeIs ==
  \E u : IsNode(u, 0) /\ \A d \in 0 .. DEPTH : \A Y \in SUBSET MapLeaves : NodeOf(Y, d) = u[d][Y]
<1>1. PICK u : u = CHOOSE w : IsNode(w, 0)
  OBVIOUS
<1>2. IsNode(u, 0)
  BY <1>1, NodeExists, DepthIs, Zenon
<1>3. \A d \in 0 .. DEPTH : \A Y \in SUBSET MapLeaves : NodeOf(Y, d) = u[d][Y]
  BY <1>1 DEF NodeOf
<1> QED
  BY <1>2, <1>3

LEMMA NodeNone ==
  ASSUME NEW d \in 0 .. DEPTH
  PROVE  NodeOf({}, d) = Null
<1>1. PICK u : IsNode(u, 0) /\ \A e \in 0 .. DEPTH : \A Z \in SUBSET MapLeaves : NodeOf(Z, e) = u[e][Z]
  BY NodeIs
<1>2. u[d] = NodeBody(u, d)
  BY <1>1, DepthIs DEF IsNode
<1>3. u[d][{}] = Null
  BY <1>2 DEF NodeBody
<1> QED
  BY <1>1, <1>3

LEMMA NodeOne ==
  ASSUME NEW d \in 0 .. DEPTH, NEW x \in MapLeaves
  PROVE  NodeOf({x}, d) = Single(x, d)
<1>1. PICK u : IsNode(u, 0) /\ \A e \in 0 .. DEPTH : \A Z \in SUBSET MapLeaves : NodeOf(Z, e) = u[e][Z]
  BY NodeIs
<1>2. u[d] = NodeBody(u, d)
  BY <1>1, DepthIs DEF IsNode
<1>3. PICK l : l = CHOOSE y \in {x} : TRUE
  OBVIOUS
<1>4. l = x
  BY <1>3
<1>5. u[d][{x}] = Single(CHOOSE y \in {x} : TRUE, d)
  BY <1>2 DEF NodeBody, Few
<1>6. u[d][{x}] = Single(x, d)
  BY <1>3, <1>4, <1>5
<1> QED
  BY <1>1, <1>6

LEMMA NodeMany ==
  ASSUME NEW d \in 0 .. DEPTH - 1, NEW Y \in SUBSET MapLeaves, ~ Few(Y)
  PROVE  NodeOf(Y, d) = Internal(NodeOf(Half(Y, d, 0), d + 1), NodeOf(Half(Y, d, 1), d + 1), d)
<1>1. PICK u : IsNode(u, 0) /\ \A e \in 0 .. DEPTH : \A Z \in SUBSET MapLeaves : NodeOf(Z, e) = u[e][Z]
  BY NodeIs
<1>2. d \in 0 .. DEPTH /\ d + 1 \in 0 .. DEPTH /\ d # DEPTH
  BY DepthIs
<1>3. u[d] = NodeBody(u, d)
  BY <1>1, <1>2 DEF IsNode
<1>4. Y # {}
  BY DEF Few
<1>5. u[d][Y] = Internal(u[d + 1][Half(Y, d, 0)], u[d + 1][Half(Y, d, 1)], d)
  BY <1>2, <1>3, <1>4 DEF NodeBody
<1>6. Half(Y, d, 0) \in SUBSET MapLeaves /\ Half(Y, d, 1) \in SUBSET MapLeaves
  BY DEF Half
<1> QED
  BY <1>1, <1>2, <1>5, <1>6

\* From a label's side.
LEMMA NodeSide ==
  ASSUME NEW d \in 0 .. DEPTH - 1, NEW Y \in SUBSET MapLeaves, ~ Few(Y), NEW l \in Bits
  PROVE  NodeOf(Y, d) = Side(l, d, NodeOf(Half(Y, d, bit(l, d)), d + 1), NodeOf(FarHalf(Y, d, l), d + 1))
<1>1. CASE bit(l, d) = 0
  <2>1. 1 - bit(l, d) = 1
    BY <1>1
  <2> QED
    BY <1>1, <2>1, NodeMany DEF Side, FarHalf
<1>2. CASE bit(l, d) = 1
  <2>1. 1 - bit(l, d) = 0
    BY <1>2
  <2> QED
    BY <1>2, <2>1, NodeMany DEF Side, FarHalf
<1> QED
  BY <1>1, <1>2, BitIs

LEMMA InternalIs ==
  ASSUME NEW a, NEW b, NEW d
  PROVE  /\ ~IsEnd(Internal(a, b, d)) /\ Internal(a, b, d) # Null
         /\ Internal(a, b, d).left = a /\ Internal(a, b, d).right = b
         /\ Internal(a, b, d).hash = mapNodeHash(HashOf(a, d + 1), HashOf(b, d + 1))
BY DEF Internal, IsEnd, IsSingle, Null

LEMMA SingleIs ==
  ASSUME NEW x, NEW d
  PROVE  /\ IsEnd(Single(x, d)) /\ IsSingle(Single(x, d)) /\ Single(x, d) # Null
         /\ Single(x, d).leaf = x /\ Single(x, d).hash = chainHash(x, d)
BY DEF Single, IsEnd, IsSingle, Null

\* What there is at a place of the tree tells how many leaves it has.
EndOfOne(n, Y) ==
  /\ IsEnd(n) <=> Few(Y)
  /\ n = Null <=> Y = {}
  /\ \A x \in Y : Few(Y) => n # Null /\ IsSingle(n) /\ n.leaf = x

LEMMA EndIs ==
  ASSUME NEW d \in 0 .. DEPTH, NEW Y, Cluster(Y, d)
  PROVE  EndOfOne(NodeOf(Y, d), Y)
<1>1. Y \in SUBSET MapLeaves
  BY DEF Cluster
<1>2. CASE Y = {}
  <2>1. NodeOf(Y, d) = Null /\ Few(Y)
    BY <1>2, NodeNone DEF Few
  <2> QED
    BY <1>2, <2>1 DEF EndOfOne, IsEnd
<1>3. CASE \E x \in Y : Y = {x}
  <2>1. PICK x \in Y : Y = {x}
    BY <1>3
  <2>2. x \in MapLeaves
    BY <1>1
  <2>3. NodeOf(Y, d) = Single(x, d)
    BY <2>1, <2>2, NodeOne
  <2>4. Few(Y) /\ Y # {}
    BY <2>1 DEF Few
  <2>5. IsEnd(NodeOf(Y, d)) /\ NodeOf(Y, d) # Null /\ NodeOf(Y, d).leaf = x /\ IsSingle(NodeOf(Y, d))
    BY <2>3, SingleIs
  <2> QED
    BY <2>1, <2>4, <2>5 DEF EndOfOne
<1>4. CASE ~ Few(Y)
  <2>1. d # DEPTH
    BY <1>4, ClusterEnd
  <2>2. d \in 0 .. DEPTH - 1
    BY <2>1, DepthIs
  <2>3. NodeOf(Y, d) = Internal(NodeOf(Half(Y, d, 0), d + 1), NodeOf(Half(Y, d, 1), d + 1), d)
    BY <1>1, <1>4, <2>2, NodeMany
  <2>4. ~IsEnd(NodeOf(Y, d)) /\ NodeOf(Y, d) # Null
    BY <2>3, InternalIs
  <2>5. Y # {}
    BY <1>4 DEF Few
  <2> QED
    BY <1>4, <2>4, <2>5 DEF EndOfOne
<1> QED
  BY <1>2, <1>3, <1>4, FewIs

\* The compact tree has the hashes of the full one.
LEMMA NodeHash ==
  ASSUME NEW k \in 0 .. DEPTH, NEW Y, Cluster(Y, k)
  PROVE  HashOf(NodeOf(Y, k), k) = HashAt(Y, k)
<1> DEFINE Told(d) == \A A : Cluster(A, d) => HashOf(NodeOf(A, d), d) = HashAt(A, d)
           F == {h \in Nat : h <= DEPTH => Told(DEPTH - h)}
<1>1. ASSUME NEW d \in 0 .. DEPTH, NEW A, Cluster(A, d), Few(A)
      PROVE  HashOf(NodeOf(A, d), d) = HashAt(A, d)
  <2>1. A \in SUBSET MapLeaves
    BY <1>1 DEF Cluster
  <2>2. CASE A = {}
    BY <2>2, NodeNone, HashNone DEF HashOf
  <2>3. CASE \E x \in A : A = {x}
    <3>1. PICK x \in MapLeaves : A = {x}
      BY <2>1, <2>3
    <3>2. NodeOf(A, d) = Single(x, d)
      BY <3>1, NodeOne
    <3>3. NodeOf(A, d) # Null /\ NodeOf(A, d).hash = chainHash(x, d)
      BY <3>2, SingleIs
    <3>4. chainHash(x, d) = HashAt(A, d)
      BY <3>1, ChainIs
    <3> QED
      BY <3>3, <3>4 DEF HashOf
  <2> QED
    BY <1>1, <2>2, <2>3, FewIs
<1>2. 0 \in F
  <2>1. DEPTH - 0 = DEPTH /\ DEPTH \in 0 .. DEPTH
    BY DepthIs
  <2>2. \A A : Cluster(A, DEPTH) => Few(A)
    BY ClusterEnd
  <2>3. Told(DEPTH)
    BY <1>1, <2>1, <2>2
  <2> QED
    BY <2>1, <2>3
<1>3. ASSUME NEW h \in Nat, h \in F PROVE h + 1 \in F
  <2>1. SUFFICES ASSUME h + 1 <= DEPTH PROVE Told(DEPTH - (h + 1))
    OBVIOUS
  <2>2. PICK d \in 0 .. DEPTH - 1 : d = DEPTH - (h + 1) /\ DEPTH - h = d + 1
    BY <2>1, DepthIs
  <2>3. Told(d + 1)
    BY <1>3, <2>1, <2>2, DepthIs
  <2>4. SUFFICES ASSUME NEW A, Cluster(A, d) PROVE HashOf(NodeOf(A, d), d) = HashAt(A, d)
    BY <2>2
  <2>5. d \in 0 .. DEPTH
    BY DepthIs
  <2>6. CASE Few(A)
    BY <1>1, <2>4, <2>5, <2>6
  <2>7. CASE ~ Few(A)
    <3>1. A \in SUBSET MapLeaves
      BY <2>4 DEF Cluster
    <3>2. NodeOf(A, d) = Internal(NodeOf(Half(A, d, 0), d + 1), NodeOf(Half(A, d, 1), d + 1), d)
      BY <2>7, <3>1, NodeMany
    <3>3. NodeOf(A, d) # Null /\ NodeOf(A, d).hash =
            mapNodeHash(HashOf(NodeOf(Half(A, d, 0), d + 1), d + 1), HashOf(NodeOf(Half(A, d, 1), d + 1), d + 1))
      BY <3>2, InternalIs
    <3>4. \A b \in {0, 1} : Cluster(Half(A, d, b), d + 1)
      BY <2>4, ClusterHalf
    <3>5. \A b \in {0, 1} : HashOf(NodeOf(Half(A, d, b), d + 1), d + 1) = HashAt(Half(A, d, b), d + 1)
      BY <2>3, <3>4
    <3>6. HashAt(A, d) = mapNodeHash(HashAt(Half(A, d, 0), d + 1), HashAt(Half(A, d, 1), d + 1))
      BY <3>1, HashHalves
    <3> QED
      BY <3>3, <3>5, <3>6 DEF HashOf
  <2> QED
    BY <2>6, <2>7
<1> HIDE DEF F
<1>4. PICK h \in Nat : h <= DEPTH /\ DEPTH - h = k
  <2>1. DEPTH - k \in Nat /\ DEPTH - k <= DEPTH /\ DEPTH - (DEPTH - k) = k
    BY DepthIs
  <2> QED
    BY <2>1
<1>5. h \in F
  BY <1>2, <1>3, BySteps
<1>6. Told(k)
  BY <1>4, <1>5 DEF F
<1> QED
  BY <1>6

-----------------------------------------------------------------------------
\* The leaves that share a label's first d bits are those in the subtree at d on
\* its way.
Sharing(X, l, d) == {x \in X : hasPrefix(x.label, l, d)}

LEMMA SharingAll ==
  ASSUME NEW X, NEW l
  PROVE  Sharing(X, l, 0) = X
<1>1. 0 .. 0 - 1 = {}
  OBVIOUS
<1> QED
  BY <1>1 DEF Sharing, hasPrefix

LEMMA SharingNext ==
  ASSUME NEW X, NEW l, NEW d \in Nat
  PROVE  Sharing(X, l, d + 1) = Half(Sharing(X, l, d), d, bit(l, d))
<1>1. 0 .. (d + 1) - 1 = (0 .. d - 1) \cup {d}
  OBVIOUS
<1> QED
  BY <1>1 DEF Sharing, hasPrefix, Half

LEMMA SharingIs ==
  ASSUME NEW X, Cluster(X, 0), NEW l, NEW d \in Nat
  PROVE  Cluster(Sharing(X, l, d), d)
<1>1. Cluster(Sharing(X, l, d), 0)
  BY ClusterPart DEF Sharing
<1> QED
  BY <1>1 DEF Sharing, Cluster, hasPrefix

\* A label's way narrows to what it shares.
LEMMA SharingNarrows ==
  ASSUME NEW X, Cluster(X, 0), NEW l, NEW foot \in Nat
  PROVE  Narrows([d \in 0 .. foot |-> Sharing(X, l, d)], foot, l)
<1>1. \A d \in 0 .. foot : Sharing(X, l, d) \in SUBSET MapLeaves
  BY DEF Sharing, Cluster
<1>2. \A d \in 0 .. foot - 1 : d \in Nat /\ d \in 0 .. foot /\ d + 1 \in 0 .. foot
  OBVIOUS
<1> QED
  BY <1>1, <1>2, SharingNext DEF Narrows

\* The step down a way.
Down(node, l, d) == IF IsEnd(node) THEN node ELSE Near(node, l, d)

IsWay(u, n, root_, l) == u = [d \in 0 .. n |-> IF d = 0 THEN root_ ELSE Down(u[d - 1], l, d - 1)]

LEMMA WayExists ==
  ASSUME NEW n \in Nat, NEW root_, NEW l
  PROVE  \E u : IsWay(u, n, root_, l)
<1> DEFINE F == {k \in Nat : \E u : IsWay(u, k, root_, l)}
<1>1. 0 \in F
  <2>1. IsWay([d \in 0 .. 0 |-> root_], 0, root_, l)
    BY DEF IsWay
  <2> QED
    BY <2>1
<1>2. ASSUME NEW k \in Nat, k \in F
      PROVE  k + 1 \in F
  <2>1. PICK t : IsWay(t, k, root_, l)
    BY <1>2
  <2> DEFINE u == [d \in 0 .. k + 1 |-> IF d = 0 THEN root_ ELSE Down(t[d - 1], l, d - 1)]
  <2>2. \A d \in 0 .. k : u[d] = t[d]
    BY <2>1 DEF IsWay
  <2>3. \A d \in 0 .. k + 1 : d # 0 => d - 1 \in 0 .. k
    OBVIOUS
  <2>4. u = [d \in 0 .. k + 1 |-> IF d = 0 THEN root_ ELSE Down(u[d - 1], l, d - 1)]
    BY <2>2, <2>3
  <2>5. IsWay(u, k + 1, root_, l)
    BY <2>4 DEF IsWay
  <2> HIDE DEF u
  <2> QED
    BY <2>5
<1> HIDE DEF F
<1>3. n \in F
  BY <1>1, <1>2, BySteps
<1> QED
  BY <1>3 DEF F

LEMMA WayIs ==
  ASSUME NEW root_, NEW l
  PROVE  IsWay(Way(root_, l), DEPTH, root_, l)
<1>1. PICK u : u = CHOOSE w : IsWay(w, DEPTH, root_, l)
  OBVIOUS
<1>2. IsWay(u, DEPTH, root_, l)
  BY <1>1, WayExists, DepthIs, Zenon
<1>3. Way(root_, l) = u
  BY <1>1 DEF Way, IsWay, Down
<1> QED
  BY <1>2, <1>3

\* The subtree on a label's side, and the other.
LEMMA NearIs ==
  ASSUME NEW d \in 0 .. DEPTH - 1, NEW Y \in SUBSET MapLeaves, ~ Few(Y), NEW l \in Bits
  PROVE  /\ Near(NodeOf(Y, d), l, d) = NodeOf(Half(Y, d, bit(l, d)), d + 1)
         /\ Far(NodeOf(Y, d), l, d) = NodeOf(FarHalf(Y, d, l), d + 1)
<1>1. PICK a, b : a = NodeOf(Half(Y, d, 0), d + 1) /\ b = NodeOf(Half(Y, d, 1), d + 1)
  OBVIOUS
<1>2. NodeOf(Y, d).left = a /\ NodeOf(Y, d).right = b
  BY <1>1, NodeMany, InternalIs
<1>3. CASE bit(l, d) = 0
  <2>1. 1 - bit(l, d) = 1
    BY <1>3
  <2> QED
    BY <1>1, <1>2, <1>3, <2>1 DEF Near, Far, FarHalf
<1>4. CASE bit(l, d) = 1
  <2>1. 1 - bit(l, d) = 0
    BY <1>4
  <2> QED
    BY <1>1, <1>2, <1>4, <2>1 DEF Near, Far, FarHalf
<1> QED
  BY <1>3, <1>4, BitIs

\* A way goes down until what it shares is few.
LEMMA WayGoes ==
  ASSUME NEW X, Cluster(X, 0), NEW l \in Bits, NEW k \in 0 .. DEPTH,
         \A d \in 0 .. k - 1 : ~ Few(Sharing(X, l, d))
  PROVE  Way(NodeOf(X, 0), l)[k] = NodeOf(Sharing(X, l, k), k)
<1>1. PICK u : u = Way(NodeOf(X, 0), l)
  OBVIOUS
<1>2. IsWay(u, DEPTH, NodeOf(X, 0), l)
  BY <1>1, WayIs
<1> DEFINE F == {d \in Nat : d <= k => u[d] = NodeOf(Sharing(X, l, d), d)}
<1>3. 0 \in F
  BY <1>2, SharingAll, DepthIs DEF IsWay
<1>4. ASSUME NEW d \in Nat, d \in F PROVE d + 1 \in F
  <2>1. SUFFICES ASSUME d + 1 <= k PROVE u[d + 1] = NodeOf(Sharing(X, l, d + 1), d + 1)
    OBVIOUS
  <2>2. d \in 0 .. k - 1 /\ d \in 0 .. DEPTH - 1 /\ d \in 0 .. DEPTH /\ d + 1 \in 0 .. DEPTH
    BY <2>1, DepthIs
  <2>3. PICK Y : Y = Sharing(X, l, d)
    OBVIOUS
  <2>4. Cluster(Y, d) /\ ~Few(Y)
    BY <2>2, <2>3, SharingIs
  <2>5. Y \in SUBSET MapLeaves
    BY <2>4 DEF Cluster
  <2>6. ~IsEnd(NodeOf(Y, d))
    BY <2>2, <2>4, EndIs DEF EndOfOne
  <2>7. u[d] = NodeOf(Y, d)
    BY <1>4, <2>1, <2>3
  <2>8. u[d + 1] = Down(u[d], l, d)
    <3>1. (d + 1) - 1 = d /\ d + 1 # 0
      OBVIOUS
    <3> QED
      BY <1>2, <2>2, <3>1 DEF IsWay
  <2>9. u[d + 1] = Near(NodeOf(Y, d), l, d)
    BY <2>6, <2>7, <2>8 DEF Down
  <2>10. Near(NodeOf(Y, d), l, d) = NodeOf(Half(Y, d, bit(l, d)), d + 1)
    BY <2>2, <2>4, <2>5, NearIs
  <2> QED
    BY <2>3, <2>9, <2>10, SharingNext
<1> HIDE DEF F
<1>5. k \in F
  BY <1>3, <1>4, BySteps
<1> QED
  BY <1>1, <1>5 DEF F

\* Where a way ends.
EndsAt(X, l, foot) ==
  /\ foot \in 0 .. DEPTH /\ Few(Sharing(X, l, foot))
  /\ \A d \in 0 .. foot - 1 : ~ Few(Sharing(X, l, d))

LEMMA EndExists ==
  ASSUME NEW X, Cluster(X, 0), NEW l \in Bits
  PROVE  \E foot : EndsAt(X, l, foot)
<1>1. SUFFICES ASSUME \A d \in 0 .. DEPTH : Few(Sharing(X, l, d)) => \E e \in 0 .. d - 1 : Few(Sharing(X, l, e))
              PROVE FALSE
  BY DEF EndsAt
<1>2. PICK F : F = {d \in Nat : d <= DEPTH => ~Few(Sharing(X, l, d))}
  OBVIOUS
<1>3. \A k \in Nat : (\A m \in Nat : m < k => m \in F) => k \in F
  <2>1. TAKE k \in Nat
  <2>2. HAVE \A m \in Nat : m < k => m \in F
  <2>3. SUFFICES ASSUME k <= DEPTH, Few(Sharing(X, l, k)) PROVE FALSE
    BY <1>2
  <2>4. PICK e \in 0 .. k - 1 : Few(Sharing(X, l, e))
    BY <1>1, <2>3
  <2>5. e \in Nat /\ e < k /\ e <= DEPTH
    BY <2>3, <2>4, DepthIs
  <2> QED
    BY <1>2, <2>2, <2>4, <2>5
<1>4. \A k \in Nat : k \in F
  BY <1>3, ByLess, Zenon
<1>5. Few(Sharing(X, l, DEPTH))
  BY SharingIs, ClusterEnd, DepthIs
<1> QED
  BY <1>2, <1>4, <1>5, DepthIs

LEMMA FootIs ==
  ASSUME NEW X, Cluster(X, 0), NEW l \in Bits
  PROVE  EndsAt(X, l, Foot(Way(NodeOf(X, 0), l)))
<1>1. PICK way : way = Way(NodeOf(X, 0), l)
  OBVIOUS
<1>2. PICK f : EndsAt(X, l, f)
  BY EndExists
<1>3. f \in 0 .. DEPTH
  BY <1>2 DEF EndsAt
<1>4. ASSUME NEW d \in 0 .. f PROVE IsEnd(way[d]) <=> d = f
  <2>1. d \in 0 .. DEPTH /\ d \in Nat
    BY <1>3, DepthIs
  <2>2. \A e \in 0 .. d - 1 : ~ Few(Sharing(X, l, e))
    BY <1>2, <1>3 DEF EndsAt
  <2>3. way[d] = NodeOf(Sharing(X, l, d), d)
    BY <1>1, <2>1, <2>2, WayGoes
  <2>4. IsEnd(way[d]) <=> Few(Sharing(X, l, d))
    BY <2>1, <2>3, SharingIs, EndIs DEF EndOfOne
  <2>5. d # f => d \in 0 .. f - 1
    BY <1>3
  <2> QED
    BY <1>2, <2>4, <2>5 DEF EndsAt
<1>5. PICK g : g = Foot(way)
  OBVIOUS
<1>6. IsEnd(way[f]) /\ \A e \in 0 .. f - 1 : ~IsEnd(way[e])
  BY <1>3, <1>4
<1>7. g \in 0 .. DEPTH /\ IsEnd(way[g]) /\ \A e \in 0 .. g - 1 : ~IsEnd(way[e])
  BY <1>3, <1>5, <1>6 DEF Foot
<1>8. g = f
  <2>1. CASE g < f
    BY <1>3, <1>4, <1>7, <2>1
  <2>2. CASE f < g
    <3>1. f \in 0 .. g - 1
      BY <1>3, <1>7, <2>2
    <3> QED
      BY <1>6, <1>7, <3>1
  <2> QED
    BY <1>3, <1>7, <2>1, <2>2
<1> QED
  BY <1>1, <1>2, <1>5, <1>8

-----------------------------------------------------------------------------
\* A publish.

\* New nodes up a way.
BuildBody(u, d, label, foot, sub, others) == IF d = foot THEN sub ELSE Side(label, d, u[d + 1], others[d])

IsBuild(u, m, label, foot, sub, others) == u = [d \in m .. foot |-> BuildBody(u, d, label, foot, sub, others)]

LEMMA BuildExists ==
  ASSUME NEW n \in Nat, NEW foot, n = foot, NEW label, NEW sub, NEW others
  PROVE  \E u : IsBuild(u, 0, label, foot, sub, others)
<1> DEFINE F == {k \in Nat : k <= n => \E u : IsBuild(u, n - k, label, foot, sub, others)}
<1>1. 0 \in F
  <2> DEFINE u == [d \in n .. n |-> BuildBody(<<>>, d, label, foot, sub, others)]
  <2>1. \A d \in n .. n : BuildBody(<<>>, d, label, foot, sub, others) = BuildBody(u, d, label, foot, sub, others)
    BY DEF BuildBody
  <2>2. u = [d \in n .. n |-> BuildBody(u, d, label, foot, sub, others)]
    BY <2>1
  <2>3. n - 0 = n
    OBVIOUS
  <2>4. IsBuild(u, n, label, foot, sub, others)
    BY <2>2 DEF IsBuild
  <2> HIDE DEF u
  <2> QED
    BY <2>3, <2>4
<1>2. ASSUME NEW k \in Nat, k \in F
      PROVE  k + 1 \in F
  <2>1. SUFFICES ASSUME k + 1 <= n PROVE \E u : IsBuild(u, n - (k + 1), label, foot, sub, others)
    OBVIOUS
  <2>2. PICK m \in Nat : m = n - (k + 1) /\ n - k = m + 1 /\ m < n
    BY <2>1
  <2>3. PICK t : IsBuild(t, m + 1, label, foot, sub, others)
    BY <1>2, <2>1, <2>2
  <2> DEFINE u == [d \in m .. n |-> BuildBody(t, d, label, foot, sub, others)]
  <2>4. \A d \in m + 1 .. n : u[d] = t[d]
    BY <2>3 DEF IsBuild
  <2> HIDE DEF u
  <2>5. \A d \in m .. n : d = n \/ u[d + 1] = t[d + 1]
    BY <2>4
  <2>6. \A d \in m .. n : BuildBody(t, d, label, foot, sub, others) = BuildBody(u, d, label, foot, sub, others)
    BY <2>5 DEF BuildBody
  <2>7. u = [d \in m .. n |-> BuildBody(u, d, label, foot, sub, others)]
    BY <2>6 DEF u
  <2>8. IsBuild(u, m, label, foot, sub, others)
    BY <2>7 DEF IsBuild
  <2> QED
    BY <2>2, <2>8
<1> HIDE DEF F
<1>3. n \in F
  BY <1>1, <1>2, BySteps
<1>4. n - n = 0
  OBVIOUS
<1> QED
  BY <1>3, <1>4 DEF F

Sided(f, label, foot, sub, others) ==
  /\ f[foot] = sub
  /\ \A d \in 0 .. foot - 1 : f[d] = Side(label, d, f[d + 1], others[d])

LEMMA RebuiltIs ==
  ASSUME NEW label, NEW foot \in Nat, NEW sub, NEW others
  PROVE  Sided(Rebuilt(label, foot, sub, others), label, foot, sub, others)
<1>1. PICK u : u = CHOOSE w : IsBuild(w, 0, label, foot, sub, others)
  OBVIOUS
<1>2. IsBuild(u, 0, label, foot, sub, others)
  BY <1>1, BuildExists, Zenon
<1>3. Rebuilt(label, foot, sub, others) = u
  BY <1>1 DEF Rebuilt, IsBuild, BuildBody
<1>4. Sided(u, label, foot, sub, others)
  BY <1>2 DEF IsBuild, BuildBody, Sided
<1> QED
  BY <1>3, <1>4

\* What is rebuilt is the compact tree, as far up as there is more than a leaf.
Heaped(Z, o, sub, m, foot, l) ==
  /\ \A d \in m .. foot : Z[d] \in SUBSET MapLeaves
  /\ \A d \in m .. foot - 1 : ~Few(Z[d]) /\ Z[d + 1] = Half(Z[d], d, bit(l, d))
  /\ \A d \in m .. foot - 1 : o[d] = NodeOf(FarHalf(Z[d], d, l), d + 1)
  /\ sub = NodeOf(Z[foot], foot)

LEMMA BuildsUp ==
  ASSUME NEW l \in Bits, NEW foot \in 0 .. DEPTH, NEW m \in 0 .. foot, NEW Z, NEW sub, NEW o,
         Heaped(Z, o, sub, m, foot, l)
  PROVE  Rebuilt(l, foot, sub, o)[m] = NodeOf(Z[m], m)
<1>1. PICK u : u = Rebuilt(l, foot, sub, o)
  OBVIOUS
<1>2. foot \in Nat /\ foot <= DEPTH /\ m \in Nat /\ m <= foot
  BY DepthIs
<1>3. Sided(u, l, foot, sub, o)
  BY <1>1, <1>2, RebuiltIs
<1> DEFINE F == {j \in Nat : j <= foot - m => u[foot - j] = NodeOf(Z[foot - j], foot - j)}
<1>4. 0 \in F
  <2>1. foot - 0 = foot
    BY <1>2
  <2>2. u[foot] = sub
    BY <1>3 DEF Sided
  <2> QED
    BY <2>1, <2>2 DEF Heaped
<1>5. ASSUME NEW j \in Nat, j \in F PROVE j + 1 \in F
  <2>1. SUFFICES ASSUME j + 1 <= foot - m PROVE u[foot - (j + 1)] = NodeOf(Z[foot - (j + 1)], foot - (j + 1))
    OBVIOUS
  <2>2. PICK d \in m .. foot - 1 : d = foot - (j + 1) /\ foot - j = d + 1
    BY <1>2, <2>1
  <2>3. d \in 0 .. DEPTH - 1 /\ d \in 0 .. foot - 1 /\ d \in m .. foot
    BY <1>2, <2>2, DepthIs
  <2>4. u[d + 1] = NodeOf(Z[d + 1], d + 1)
    BY <1>2, <1>5, <2>1, <2>2
  <2>5. u[d] = Side(l, d, u[d + 1], o[d])
    BY <1>3, <2>3 DEF Sided
  <2>6. Z[d] \in SUBSET MapLeaves /\ Z[d + 1] = Half(Z[d], d, bit(l, d))
    BY <2>2, <2>3 DEF Heaped
  <2>7. ~Few(Z[d]) /\ o[d] = NodeOf(FarHalf(Z[d], d, l), d + 1)
    BY <2>2 DEF Heaped
  <2>8. NodeOf(Z[d], d) = Side(l, d, NodeOf(Half(Z[d], d, bit(l, d)), d + 1), NodeOf(FarHalf(Z[d], d, l), d + 1))
    BY <2>3, <2>6, <2>7, NodeSide
  <2>9. u[d] = NodeOf(Z[d], d)
    BY <2>4, <2>5, <2>6, <2>7, <2>8
  <2> QED
    BY <2>2, <2>9
<1> HIDE DEF F
<1>6. PICK j \in Nat : j <= foot - m /\ foot - j = m
  <2>1. foot - m \in Nat /\ foot - m <= foot - m /\ foot - (foot - m) = m
    BY <1>2
  <2> QED
    BY <2>1
<1>7. j \in F
  BY <1>4, <1>5, BySteps
<1> QED
  BY <1>1, <1>6, <1>7 DEF F

\* Where two labels part.
PartsAt(a, b, from, d) ==
  /\ d \in from .. DEPTH - 1 /\ bit(a, d) # bit(b, d)
  /\ \A e \in from .. d - 1 : bit(a, e) = bit(b, e)

LEMMA PartIs ==
  ASSUME NEW a \in Bits, NEW b \in Bits, NEW from \in 0 .. DEPTH, hasPrefix(a, b, from), a # b
  PROVE  PartsAt(a, b, from, Part(a, b, from))
<1>1. from \in Nat /\ from <= DEPTH
  BY DepthIs
<1>2. PICK S : S = {d \in from .. DEPTH - 1 : bit(a, d) # bit(b, d)}
  OBVIOUS
<1>3. \E d \in S : \A e \in S : d <= e
  <2>1. SUFFICES ASSUME \A d \in S : \E e \in S : ~(d <= e) PROVE FALSE
    OBVIOUS
  <2>2. PICK F : F = Nat \ S
    OBVIOUS
  <2>3. \A k \in Nat : (\A m \in Nat : m < k => m \in F) => k \in F
    <3>1. TAKE k \in Nat
    <3>2. HAVE \A m \in Nat : m < k => m \in F
    <3>3. SUFFICES ASSUME k \in S PROVE FALSE
      BY <2>2
    <3>4. PICK e \in S : ~(k <= e)
      BY <2>1, <3>3
    <3>5. e \in Nat /\ e < k
      BY <1>1, <1>2, <3>4
    <3> QED
      BY <2>2, <3>2, <3>4, <3>5
  <2>4. \A k \in Nat : k \in F
    BY <2>3, ByLess, Zenon
  <2>5. S = {}
    BY <1>1, <1>2, <2>2, <2>4
  <2>6. \A e \in from .. DEPTH - 1 : bit(a, e) = bit(b, e)
    BY <1>2, <2>5
  <2>7. \A e \in 0 .. DEPTH - 1 : e \in 0 .. from - 1 \/ e \in from .. DEPTH - 1
    BY <1>1, DepthIs
  <2>8. hasPrefix(a, b, DEPTH)
    BY <2>6, <2>7 DEF hasPrefix
  <2> QED
    BY <2>8, SameBits
<1>4. PICK d \in S : \A e \in S : d <= e
  BY <1>3
<1>5. d \in from .. DEPTH - 1 /\ bit(a, d) # bit(b, d) /\ \A e \in from .. d - 1 : bit(a, e) = bit(b, e)
  <2>1. d \in from .. DEPTH - 1 /\ bit(a, d) # bit(b, d)
    BY <1>2, <1>4
  <2>2. ASSUME NEW e \in from .. d - 1 PROVE bit(a, e) = bit(b, e)
    <3>1. e \in from .. DEPTH - 1 /\ ~(d <= e)
      BY <1>1, <2>1, DepthIs
    <3> QED
      BY <1>2, <1>4, <3>1
  <2> QED
    BY <2>1, <2>2
<1>6. PICK g : g = Part(a, b, from)
  OBVIOUS
<1>7. PartsAt(a, b, from, g)
  BY <1>5, <1>6 DEF Part, PartsAt
<1> QED
  BY <1>6, <1>7

\* Two leaves where there was one.
LEMMA BesideIs ==
  ASSUME NEW x \in MapLeaves, NEW e \in MapLeaves, x.label # e.label,
         NEW m \in 0 .. DEPTH, hasPrefix(x.label, e.label, m), NEW node, node.leaf = x
  PROVE  InsertBeside(node, m, e) = NodeOf({x, e}, m)
<1>1. PICK l \in Bits : l = e.label
  BY DEF MapLeaves
<1>2. x.label \in Bits
  BY DEF MapLeaves
<1>3. PICK d : d = Part(l, x.label, m)
  OBVIOUS
<1>4. hasPrefix(l, x.label, m)
  BY <1>1 DEF hasPrefix
<1>5. PartsAt(l, x.label, m, d)
  BY <1>1, <1>2, <1>3, <1>4, PartIs
<1>6. d \in 0 .. DEPTH - 1 /\ m <= d /\ m \in Nat /\ d \in Nat
  BY <1>5, DepthIs DEF PartsAt
<1>7. d \in 0 .. DEPTH /\ m \in 0 .. d /\ d + 1 \in 0 .. DEPTH
  BY <1>6, DepthIs
<1>8. PICK Z : Z = [k \in 0 .. d |-> {x, e}]
  OBVIOUS
<1>9. ~Few({x, e}) /\ {x, e} \in SUBSET MapLeaves
  BY DEF Few
<1>10. Half({x, e}, d, bit(l, d)) = {e} /\ FarHalf({x, e}, d, l) = {x}
  <2>1. bit(l, d) \in {0, 1} /\ bit(x.label, d) \in {0, 1} /\ bit(x.label, d) # bit(l, d)
    BY <1>2, <1>5, <1>6, BitIs DEF PartsAt
  <2>2. 1 - bit(l, d) = bit(x.label, d)
    BY <2>1
  <2> QED
    BY <1>1, <2>1, <2>2 DEF Half, FarHalf
<1>11. ASSUME NEW k \in m .. d - 1
       PROVE  Half({x, e}, k, bit(l, k)) = {x, e} /\ FarHalf({x, e}, k, l) = {}
  <2>1. k \in 0 .. DEPTH - 1
    BY <1>6, DepthIs
  <2>2. bit(l, k) \in {0, 1} /\ bit(x.label, k) = bit(l, k)
    BY <1>5, <2>1, BitIs DEF PartsAt
  <2>3. 1 - bit(l, k) # bit(l, k)
    BY <2>2
  <2> QED
    BY <1>1, <2>2, <2>3 DEF Half, FarHalf
<1>12. PICK sub : sub = Side(l, d, Single(e, d + 1), Single(x, d + 1))
  OBVIOUS
<1>13. sub = NodeOf(Z[d], d)
  <2>1. NodeOf({x, e}, d) = Side(l, d, NodeOf(Half({x, e}, d, bit(l, d)), d + 1), NodeOf(FarHalf({x, e}, d, l), d + 1))
    BY <1>6, <1>9, NodeSide
  <2>2. NodeOf({e}, d + 1) = Single(e, d + 1) /\ NodeOf({x}, d + 1) = Single(x, d + 1)
    BY <1>7, NodeOne
  <2>3. Z[d] = {x, e}
    BY <1>7, <1>8
  <2> QED
    BY <1>10, <1>12, <2>1, <2>2, <2>3
<1>14. PICK o : o = [k \in 0 .. d |-> Null]
  OBVIOUS
<1>15. ASSUME NEW k \in m .. d - 1 PROVE ~Few(Z[k]) /\ o[k] = NodeOf(FarHalf(Z[k], k, l), k + 1)
  <2>1. k \in 0 .. d /\ k + 1 \in 0 .. DEPTH
    BY <1>6, DepthIs
  <2>2. Z[k] = {x, e} /\ o[k] = Null
    BY <1>8, <1>14, <2>1
  <2>3. FarHalf({x, e}, k, l) = {}
    BY <1>11
  <2> QED
    BY <1>9, <2>1, <2>2, <2>3, NodeNone
<1>16. \A k \in m .. d : Z[k] \in SUBSET MapLeaves
  BY <1>6, <1>8, <1>9
<1>17. \A k \in m .. d - 1 : Z[k + 1] = Half(Z[k], k, bit(l, k))
  <2>1. TAKE k \in m .. d - 1
  <2>2. k \in 0 .. d /\ k + 1 \in 0 .. d
    BY <1>6
  <2> QED
    BY <1>8, <1>11, <2>2
<1>18. Heaped(Z, o, sub, m, d, l)
  BY <1>13, <1>15, <1>16, <1>17 DEF Heaped
<1>19. Rebuilt(l, d, sub, o)[m] = NodeOf(Z[m], m)
  BY <1>7, <1>18, BuildsUp
<1>20. InsertBeside(node, m, e) = Rebuilt(l, d, sub, o)[m]
  BY <1>1, <1>3, <1>12, <1>14 DEF InsertBeside
<1> QED
  BY <1>7, <1>8, <1>19, <1>20

-----------------------------------------------------------------------------
\* The leaves with one put in the place of that of its label.
Put(X, e) == {x \in X : x.label # e.label} \cup {e}

LEMMA PutIs ==
  ASSUME NEW d, NEW X, Cluster(X, d), NEW e \in MapLeaves, \A x \in X : hasPrefix(x.label, e.label, d)
  PROVE  Cluster(Put(X, e), d)
<1>1. Put(X, e) \in SUBSET MapLeaves
  BY DEF Put, Cluster
<1>2. \A a, b \in Put(X, e) : a.label = b.label => a = b
  BY DEF Put, Cluster
<1>3. \A a, b \in Put(X, e) : hasPrefix(a.label, b.label, d)
  BY DEF Put, Cluster, hasPrefix
<1> QED
  BY <1>1, <1>2, <1>3 DEF Cluster

LEMMA PutHalf ==
  ASSUME NEW X, NEW e, NEW d, NEW b, b = bit(e.label, d)
  PROVE  Half(Put(X, e), d, b) = Put(Half(X, d, b), e)
BY DEF Half, Put

LEMMA PutFar ==
  ASSUME NEW X, X \in SUBSET MapLeaves, NEW e \in MapLeaves, NEW d \in 0 .. DEPTH - 1
  PROVE  FarHalf(Put(X, e), d, e.label) = FarHalf(X, d, e.label)
<1>1. bit(e.label, d) \in {0, 1}
  BY BitIs DEF MapLeaves
<1>2. 1 - bit(e.label, d) # bit(e.label, d)
  BY <1>1
<1> QED
  BY <1>2 DEF FarHalf, Half, Put

LEMMA PutMany ==
  ASSUME NEW X, NEW d, Cluster(X, d), ~Few(X), NEW e
  PROVE  ~Few(Put(X, e))
<1>1. PICK a \in X, b \in X : a # b
  BY DEF Few
<1>2. a.label # b.label
  BY <1>1 DEF Cluster
<1>3. CASE a.label # e.label
  BY <1>1, <1>3 DEF Few, Put
<1>4. CASE b.label # e.label
  BY <1>1, <1>4 DEF Few, Put
<1> QED
  BY <1>2, <1>3, <1>4

\* The tree of a set takes a leaf and is the tree of the set with it.
LEMMA InsertIs ==
  ASSUME NEW X, Cluster(X, 0), NEW e \in MapLeaves
  PROVE  insert(NodeOf(X, 0), e) = NodeOf(Put(X, e), 0)
<1>1. PICK l \in Bits : l = e.label
  BY DEF MapLeaves
<1>2. PICK way : way = Way(NodeOf(X, 0), l)
  OBVIOUS
<1>3. PICK foot : foot = Foot(way)
  OBVIOUS
<1>4. EndsAt(X, l, foot)
  BY <1>2, <1>3, FootIs
<1>5. foot \in 0 .. DEPTH /\ foot \in Nat /\ Few(Sharing(X, l, foot))
  BY <1>4, DepthIs DEF EndsAt
<1>6. \A d \in 0 .. foot - 1 : ~Few(Sharing(X, l, d))
  BY <1>4 DEF EndsAt
<1>7. \A d \in 0 .. foot : Cluster(Sharing(X, l, d), d)
  BY <1>5, SharingIs
<1>8. ASSUME NEW d \in 0 .. foot PROVE way[d] = NodeOf(Sharing(X, l, d), d)
  <2>1. d \in 0 .. DEPTH
    BY <1>5, DepthIs
  <2>2. \A k \in 0 .. d - 1 : ~Few(Sharing(X, l, k))
    BY <1>5, <1>6
  <2> QED
    BY <1>2, <2>1, <2>2, WayGoes
<1>9. PICK Z : Z = [d \in 0 .. foot |-> Put(Sharing(X, l, d), e)]
  OBVIOUS
<1>10. PICK o : o = [d \in 0 .. foot - 1 |-> Far(way[d], l, d)]
  OBVIOUS
<1>11. PICK sub : sub = IF way[foot] = Null \/ way[foot].leaf.label = l THEN Single(e, foot)
                        ELSE InsertBeside(way[foot], foot, e)
  OBVIOUS
<1>12. \A d \in 0 .. foot : \A x \in Sharing(X, l, d) : hasPrefix(x.label, e.label, d)
  BY <1>1 DEF Sharing
<1>13. \A d \in 0 .. foot : Z[d] \in SUBSET MapLeaves
  <2>1. TAKE d \in 0 .. foot
  <2>2. Cluster(Put(Sharing(X, l, d), e), d)
    BY <1>7, <1>12, PutIs
  <2> QED
    BY <1>9, <2>2 DEF Cluster
<1>14. ASSUME NEW d \in 0 .. foot - 1
       PROVE  Z[d + 1] = Half(Z[d], d, bit(l, d)) /\ ~Few(Z[d]) /\ o[d] = NodeOf(FarHalf(Z[d], d, l), d + 1)
  <2>1. d \in 0 .. foot /\ d + 1 \in 0 .. foot /\ d \in 0 .. DEPTH - 1 /\ d \in Nat
    BY <1>5, DepthIs
  <2>2. PICK Y : Y = Sharing(X, l, d)
    OBVIOUS
  <2>3. Cluster(Y, d) /\ ~Few(Y)
    BY <1>6, <1>7, <2>1, <2>2
  <2>4. Y \in SUBSET MapLeaves
    BY <2>3 DEF Cluster
  <2>5. Z[d] = Put(Y, e) /\ Z[d + 1] = Put(Sharing(X, l, d + 1), e)
    BY <1>9, <2>1, <2>2
  <2>6. Sharing(X, l, d + 1) = Half(Y, d, bit(l, d))
    BY <2>1, <2>2, SharingNext
  <2>7. Half(Put(Y, e), d, bit(l, d)) = Put(Half(Y, d, bit(l, d)), e)
    BY <1>1, PutHalf
  <2>8. ~Few(Put(Y, e))
    BY <2>3, PutMany
  <2>9. FarHalf(Put(Y, e), d, l) = FarHalf(Y, d, l)
    BY <1>1, <2>1, <2>4, PutFar
  <2>10. Far(NodeOf(Y, d), l, d) = NodeOf(FarHalf(Y, d, l), d + 1)
    BY <2>1, <2>3, <2>4, NearIs
  <2>11. o[d] = Far(NodeOf(Y, d), l, d)
    BY <1>8, <1>10, <2>1, <2>2
  <2>12. o[d] = NodeOf(FarHalf(Z[d], d, l), d + 1)
    BY <2>5, <2>9, <2>10, <2>11
  <2> QED
    BY <2>5, <2>6, <2>7, <2>8, <2>12
<1>15. sub = NodeOf(Z[foot], foot)
  <2>1. PICK Y : Y = Sharing(X, l, foot)
    OBVIOUS
  <2>2. foot \in 0 .. foot
    BY <1>5
  <2>3. Cluster(Y, foot) /\ Few(Y) /\ way[foot] = NodeOf(Y, foot) /\ Z[foot] = Put(Y, e)
    BY <1>5, <1>7, <1>8, <1>9, <2>1, <2>2
  <2>4. EndOfOne(way[foot], Y)
    BY <1>5, <2>3, EndIs
  <2>5. NodeOf({e}, foot) = Single(e, foot)
    BY <1>5, NodeOne
  <2>6. CASE Y = {}
    <3>1. way[foot] = Null
      BY <2>4, <2>6 DEF EndOfOne
    <3>2. Put(Y, e) = {e}
      BY <2>6 DEF Put
    <3> QED
      BY <1>11, <2>3, <2>5, <3>1, <3>2
  <2>7. CASE \E x \in Y : Y = {x}
    <3>1. PICK x \in Y : Y = {x}
      BY <2>7
    <3>2. way[foot] # Null /\ way[foot].leaf = x
      BY <2>3, <2>4, <3>1 DEF EndOfOne
    <3>3. x \in MapLeaves /\ hasPrefix(x.label, l, foot)
      BY <2>1, <2>3, <3>1 DEF Cluster, Sharing
    <3>4. CASE x.label = l
      <4>1. Put(Y, e) = {e}
        BY <1>1, <3>1, <3>4 DEF Put
      <4> QED
        BY <1>11, <2>3, <2>5, <3>2, <3>4, <4>1
    <3>5. CASE x.label # l
      <4>1. Put(Y, e) = {x, e}
        BY <1>1, <3>1, <3>5 DEF Put
      <4>2. InsertBeside(way[foot], foot, e) = NodeOf({x, e}, foot)
        BY <1>1, <1>5, <3>2, <3>3, <3>5, BesideIs
      <4> QED
        BY <1>11, <2>3, <3>2, <3>5, <4>1, <4>2
    <3> QED
      BY <3>4, <3>5
  <2> QED
    BY <2>3, <2>6, <2>7, FewIs
<1>16. Heaped(Z, o, sub, 0, foot, l)
  BY <1>13, <1>14, <1>15 DEF Heaped
<1>17. 0 \in 0 .. foot
  BY <1>5
<1>18. Rebuilt(l, foot, sub, o)[0] = NodeOf(Z[0], 0)
  BY <1>5, <1>16, <1>17, BuildsUp
<1>19. insert(NodeOf(X, 0), e) = Rebuilt(l, foot, sub, o)[0]
  BY <1>1, <1>2, <1>3, <1>10, <1>11 DEF insert
<1>20. Z[0] = Put(X, e)
  BY <1>9, <1>17, SharingAll
<1> QED
  BY <1>18, <1>19, <1>20

-----------------------------------------------------------------------------
\* The proof of a label.

LEMMA SharingFewer ==
  ASSUME NEW X, NEW l, NEW foot \in Nat, NEW d \in Nat, foot <= d
  PROVE  Sharing(X, l, d) = {x \in Sharing(X, l, foot) : hasPrefix(x.label, l, d)}
<1>1. \A e \in 0 .. foot - 1 : e \in 0 .. d - 1
  OBVIOUS
<1> QED
  BY <1>1 DEF Sharing, hasPrefix

\* What is on the other side, past the place where two labels run together.
OnlyAt(S, x, d, p) == S = IF d = p THEN {x} ELSE {}

LEMMA PastEnd ==
  ASSUME NEW x \in MapLeaves, NEW l \in Bits, x.label # l, NEW foot \in 0 .. DEPTH, hasPrefix(x.label, l, foot),
         NEW d \in foot .. DEPTH - 1, NEW p, p = Part(l, x.label, foot),
         NEW Y, Y = {y \in {x} : hasPrefix(y.label, l, d)}
  PROVE  OnlyAt(FarHalf(Y, d, l), x, d, p)
<1>1. hasPrefix(l, x.label, foot) /\ x.label \in Bits
  BY DEF hasPrefix, MapLeaves
<1>2. PartsAt(l, x.label, foot, p)
  BY <1>1, PartIs
<1>3. p \in foot .. DEPTH - 1 /\ p \in 0 .. DEPTH - 1 /\ d \in 0 .. DEPTH - 1 /\ foot \in Nat
  BY <1>2, DepthIs DEF PartsAt
<1>4. bit(l, d) \in {0, 1} /\ bit(x.label, d) \in {0, 1}
  BY <1>1, <1>3, BitIs
<1>5. 1 - bit(l, d) = bit(x.label, d) <=> bit(l, d) # bit(x.label, d)
  BY <1>4
<1>6. CASE d < p
  <2>1. d \in foot .. p - 1 /\ d # p
    BY <1>3, <1>6
  <2>2. bit(l, d) = bit(x.label, d)
    BY <1>2, <2>1 DEF PartsAt
  <2> QED
    BY <1>5, <2>1, <2>2 DEF FarHalf, Half, OnlyAt
<1>7. CASE d = p
  <2>1. \A e \in 0 .. d - 1 : e \in 0 .. foot - 1 \/ e \in foot .. p - 1
    BY <1>3, <1>7
  <2>2. hasPrefix(x.label, l, d)
    BY <1>1, <1>2, <2>1 DEF hasPrefix, PartsAt
  <2>3. 1 - bit(l, d) = bit(x.label, d)
    BY <1>2, <1>5, <1>7 DEF PartsAt
  <2> QED
    BY <1>7, <2>2, <2>3 DEF FarHalf, Half, OnlyAt
<1>8. CASE d > p
  <2>1. p \in 0 .. d - 1 /\ d # p
    BY <1>3, <1>8
  <2>2. bit(x.label, p) # bit(l, p)
    BY <1>2 DEF PartsAt
  <2>3. ~hasPrefix(x.label, l, d)
    BY <2>1, <2>2 DEF hasPrefix
  <2> QED
    BY <2>1, <2>3 DEF FarHalf, Half, OnlyAt
<1> QED
  BY <1>3, <1>6, <1>7, <1>8

\* The sibling at a depth of a label's way.
Beside(X, l, d) == HashAt(FarHalf(Sharing(X, l, d), d, l), d + 1)

\* Above the end of a way it is in the tree.
LEMMA BesideAbove ==
  ASSUME NEW X, Cluster(X, 0), NEW l \in Bits, NEW foot, EndsAt(X, l, foot), NEW d \in 0 .. foot - 1,
         NEW n, n = Far(Way(NodeOf(X, 0), l)[d], l, d)
  PROVE  HashOf(n, d + 1) = Beside(X, l, d) /\ (n = Null => Beside(X, l, d) = EMPTY[d + 1])
<1>1. foot \in 0 .. DEPTH /\ foot \in Nat
  BY DepthIs DEF EndsAt
<1>2. d \in 0 .. DEPTH - 1 /\ d \in 0 .. DEPTH /\ d + 1 \in 0 .. DEPTH /\ d \in Nat
  BY <1>1, DepthIs
<1>3. PICK Y : Y = Sharing(X, l, d)
  OBVIOUS
<1>4. \A e \in 0 .. d - 1 : ~Few(Sharing(X, l, e))
  BY <1>1 DEF EndsAt
<1>5. Way(NodeOf(X, 0), l)[d] = NodeOf(Y, d)
  BY <1>2, <1>3, <1>4, WayGoes
<1>6. Cluster(Y, d) /\ ~Few(Y)
  BY <1>2, <1>3, SharingIs DEF EndsAt
<1>7. Y \in SUBSET MapLeaves
  BY <1>6 DEF Cluster
<1>8. n = NodeOf(FarHalf(Y, d, l), d + 1)
  BY <1>2, <1>5, <1>6, <1>7, NearIs
<1>9. Cluster(FarHalf(Y, d, l), d + 1)
  BY <1>2, <1>6, ClusterHalf DEF FarHalf
<1>10. HashOf(n, d + 1) = HashAt(FarHalf(Y, d, l), d + 1)
  BY <1>2, <1>8, <1>9, NodeHash
<1> QED
  BY <1>3, <1>10 DEF Beside, HashOf

\* Past it, there is at most one leaf to be beside.
AtMostOwn(Y, l) == Y = {} \/ \E x \in MapLeaves : Y = {x} /\ x.label = l

LEMMA BesideNone ==
  ASSUME NEW X, NEW l \in Bits, NEW foot \in 0 .. DEPTH, NEW d \in foot .. DEPTH - 1,
         AtMostOwn(Sharing(X, l, foot), l)
  PROVE  Beside(X, l, d) = EMPTY[d + 1]
<1>1. Sharing(X, l, foot) = {} \/ \E x \in MapLeaves : Sharing(X, l, foot) = {x} /\ x.label = l
  BY DEF AtMostOwn
<1>2. d \in Nat /\ foot \in Nat /\ foot <= d /\ d \in 0 .. DEPTH - 1 /\ d + 1 \in 0 .. DEPTH
  BY DepthIs
<1>3. Sharing(X, l, d) = {x \in Sharing(X, l, foot) : hasPrefix(x.label, l, d)}
  BY <1>2, SharingFewer
<1>4. FarHalf(Sharing(X, l, d), d, l) = {}
  <2>1. CASE Sharing(X, l, foot) = {}
    BY <1>3, <2>1 DEF FarHalf, Half
  <2>2. CASE \E x \in MapLeaves : Sharing(X, l, foot) = {x} /\ x.label = l
    <3>1. PICK x \in MapLeaves : Sharing(X, l, foot) = {x} /\ x.label = l
      BY <2>2
    <3>2. FarHalf({x}, d, l) = {}
      BY <1>2, <3>1, HalfOne
    <3> QED
      BY <1>3, <3>1, <3>2 DEF FarHalf, Half
  <2> QED
    BY <1>1, <2>1, <2>2
<1> QED
  BY <1>2, <1>4, HashNone DEF Beside

ChainAt(h, x, d, p) == h = IF d = p THEN chainHash(x, d + 1) ELSE EMPTY[d + 1]

LEMMA BesideOne ==
  ASSUME NEW X, NEW l \in Bits, NEW foot \in 0 .. DEPTH, NEW d \in foot .. DEPTH - 1,
         NEW x \in MapLeaves, Sharing(X, l, foot) = {x}, x.label # l,
         NEW p, p = Part(l, x.label, foot)
  PROVE  ChainAt(Beside(X, l, d), x, d, p)
<1>1. d \in Nat /\ foot \in Nat /\ foot <= d /\ d + 1 \in 0 .. DEPTH
  BY DepthIs
<1>2. PICK Y : Y = Sharing(X, l, d) /\ Y = {y \in {x} : hasPrefix(y.label, l, d)}
  BY <1>1, SharingFewer
<1>3. hasPrefix(x.label, l, foot)
  BY DEF Sharing
<1>4. OnlyAt(FarHalf(Y, d, l), x, d, p)
  BY <1>2, <1>3, PastEnd
<1>5. HashAt({x}, d + 1) = chainHash(x, d + 1) /\ HashAt({}, d + 1) = EMPTY[d + 1]
  BY <1>1, ChainIs, HashNone
<1> QED
  BY <1>2, <1>4, <1>5 DEF Beside, OnlyAt, ChainAt

LEMMA MapPathIs ==
  ASSUME NEW X, Cluster(X, 0), NEW l \in Bits, NEW d \in 0 .. DEPTH - 1
  PROVE  Filled(pathOf(NodeOf(X, 0), l), DEPTH)[d] = Beside(X, l, d)
<1>1. PICK way : way = Way(NodeOf(X, 0), l)
  OBVIOUS
<1>2. PICK foot : foot = Foot(way)
  OBVIOUS
<1>3. EndsAt(X, l, foot)
  BY <1>1, <1>2, FootIs
<1>4. foot \in 0 .. DEPTH /\ foot \in Nat /\ Few(Sharing(X, l, foot))
  BY <1>3, DepthIs DEF EndsAt
<1>5. PICK seen : seen = [e \in {e \in 0 .. foot - 1 : Far(way[e], l, e) # Null} |-> Far(way[e], l, e).hash]
  OBVIOUS
<1>6. PICK end : end = way[foot]
  OBVIOUS
<1>7. PICK part : part = Part(l, end.leaf.label, foot)
  OBVIOUS
<1>8. PICK s : s = pathOf(NodeOf(X, 0), l)
  OBVIOUS
<1>9. s = IF end = Null \/ end.leaf.label = l THEN seen ELSE And(seen, At(part, chainHash(end.leaf, part + 1)))
  BY <1>1, <1>2, <1>5, <1>6, <1>7, <1>8 DEF pathOf
<1>10. PICK Y : Y = Sharing(X, l, foot)
  OBVIOUS
<1>11. Cluster(Y, foot) /\ Few(Y)
  BY <1>4, <1>10, SharingIs
<1>12. end = NodeOf(Y, foot)
  BY <1>1, <1>3, <1>4, <1>6, <1>10, WayGoes DEF EndsAt
<1>13. EndOfOne(end, Y)
  BY <1>4, <1>11, <1>12, EndIs
<1>14. Y \in SUBSET MapLeaves
  BY <1>11 DEF Cluster
<1>15. PICK got : got = IF d \in DOMAIN s THEN s[d] ELSE EMPTY[d + 1]
  OBVIOUS
<1>16. got = Beside(X, l, d)
  <2>1. CASE d < foot
    <3>1. d \in 0 .. foot - 1
      BY <1>4, <2>1, DepthIs
    <3>2. PICK n : n = Far(way[d], l, d)
      OBVIOUS
    <3>3. HashOf(n, d + 1) = Beside(X, l, d) /\ (n = Null => Beside(X, l, d) = EMPTY[d + 1])
      BY <1>1, <1>3, <3>1, <3>2, BesideAbove
    <3>4. ~(end = Null \/ end.leaf.label = l) => part \in foot .. DEPTH - 1
      <4>1. SUFFICES ASSUME end # Null, end.leaf.label # l PROVE part \in foot .. DEPTH - 1
        OBVIOUS
      <4>2. PICK x \in Y : Y = {x}
        BY <1>11, <1>13, <4>1, FewIs DEF EndOfOne
      <4>3. end.leaf = x /\ x \in MapLeaves
        BY <1>11, <1>13, <1>14, <4>2 DEF EndOfOne
      <4>4. hasPrefix(l, x.label, foot) /\ x.label \in Bits
        BY <1>10, <4>2, <4>3 DEF Sharing, hasPrefix, MapLeaves
      <4>5. PartsAt(l, x.label, foot, part)
        BY <1>4, <1>7, <4>1, <4>3, <4>4, PartIs
      <4> QED
        BY <4>5 DEF PartsAt
    <3>5. ~(end = Null \/ end.leaf.label = l) => part # d
      BY <1>4, <3>1, <3>4
    <3>6. CASE n = Null
      <4>1. d \notin DOMAIN s
        BY <1>5, <1>9, <3>2, <3>5, <3>6 DEF And, At
      <4> QED
        BY <1>15, <3>3, <3>6, <4>1
    <3>7. CASE n # Null
      <4>1. d \in DOMAIN seen /\ seen[d] = n.hash
        BY <1>5, <3>1, <3>2, <3>7
      <4>2. d \in DOMAIN s /\ s[d] = seen[d]
        BY <1>9, <4>1 DEF And, At
      <4> QED
        BY <1>15, <3>3, <3>7, <4>1, <4>2 DEF HashOf
    <3> QED
      BY <3>6, <3>7
  <2>2. CASE ~(d < foot)
    <3>1. d \in foot .. DEPTH - 1 /\ d \notin 0 .. foot - 1
      BY <1>4, <2>2
    <3>2. d \notin DOMAIN seen
      BY <1>5, <3>1
    <3>3. CASE Y = {}
      <4>1. end = Null
        BY <1>13, <3>3 DEF EndOfOne
      <4>2. d \notin DOMAIN s
        BY <1>9, <3>2, <4>1
      <4> QED
        <5>1. AtMostOwn(Sharing(X, l, foot), l)
          BY <1>10, <3>3 DEF AtMostOwn
        <5>2. Beside(X, l, d) = EMPTY[d + 1]
          BY <1>4, <3>1, <5>1, BesideNone, Zenon
        <5> QED
          BY <1>15, <4>2, <5>2
    <3>4. CASE \E x \in Y : Y = {x}
      <4>1. PICK x \in Y : Y = {x}
        BY <3>4
      <4>2. end # Null /\ end.leaf = x /\ x \in MapLeaves
        BY <1>11, <1>13, <1>14, <4>1 DEF EndOfOne
      <4>3. CASE x.label = l
        <5>1. d \notin DOMAIN s
          BY <1>9, <3>2, <4>2, <4>3
        <5>2. Beside(X, l, d) = EMPTY[d + 1]
          <6>1. AtMostOwn(Sharing(X, l, foot), l)
            BY <1>10, <4>1, <4>2, <4>3 DEF AtMostOwn
          <6> QED
            BY <1>4, <3>1, <6>1, BesideNone, Zenon
        <5> QED
          BY <1>15, <5>1, <5>2
      <4>4. CASE x.label # l
        <5>1. ChainAt(Beside(X, l, d), x, d, part)
          BY <1>4, <1>7, <1>10, <3>1, <4>1, <4>2, <4>4, BesideOne
        <5>2. s = And(seen, At(part, chainHash(x, part + 1)))
          BY <1>9, <4>2, <4>4
        <5>3. d \in DOMAIN s <=> d = part
          BY <3>2, <5>2 DEF And, At
        <5>4. d = part => s[d] = chainHash(x, part + 1)
          BY <3>2, <5>2 DEF And, At
        <5> QED
          BY <1>15, <5>1, <5>3, <5>4 DEF ChainAt
      <4> QED
        BY <4>3, <4>4
    <3> QED
      BY <1>11, <3>3, <3>4, FewIs
  <2> QED
    BY <2>1, <2>2
<1>17. Filled(s, DEPTH)[d] = got
  BY <1>15 DEF Filled
<1> QED
  BY <1>8, <1>16, <1>17

\* The leaves that share a way, folded up with what is beside it, are all of them.
LEMMA FoldsTo ==
  ASSUME NEW X, Cluster(X, 0), NEW l \in Bits, NEW bits \in 0 .. DEPTH,
         NEW h, h = HashAt(Sharing(X, l, bits), bits),
         NEW s, \A d \in 0 .. bits - 1 : s[d] = Beside(X, l, d)
  PROVE  Folded(l, bits, h, s)[0] = HashAt(X, 0)
<1>1. PICK Z : Z = [d \in 0 .. bits |-> Sharing(X, l, d)]
  OBVIOUS
<1>2. bits \in Nat /\ bits \in 0 .. bits /\ 0 \in 0 .. bits
  BY DepthIs
<1>3. Narrows(Z, bits, l)
  BY <1>1, <1>2, SharingNarrows
<1>4. \A d \in 0 .. bits - 1 : s[d] = HashAt(FarHalf(Z[d], d, l), d + 1)
  <2>1. TAKE d \in 0 .. bits - 1
  <2>2. d \in 0 .. bits
    BY <1>2
  <2> QED
    BY <1>1, <2>2 DEF Beside
<1>5. PICK g : g = h
  OBVIOUS
<1>6. g = HashAt(Z[bits], bits)
  BY <1>1, <1>2, <1>5
<1>7. Folded(l, bits, g, s)[0] = HashAt(Z[0], 0)
  <2>1. Feeds(Z, bits, l, g, s)
    BY <1>3, <1>4, <1>6 DEF Feeds
  <2>2. 0 \in 0 .. bits
    BY <1>2
  <2> QED
    <3>1. Reaches(Z, bits, l, g, s)
      BY <2>1, FoldsUp
    <3> QED
      BY <2>2, <3>1 DEF Reaches
<1> QED
  BY <1>1, <1>2, <1>5, <1>7, SharingAll

\* The hash a way leads up from is that of the leaves that share it.
LEMMA ProofFrom ==
  ASSUME NEW X, Cluster(X, 0), NEW l \in Bits, NEW bits \in 0 .. DEPTH, NEW g, NEW s,
         Folded(l, bits, g, s)[0] = HashAt(X, 0)
  PROVE  g = HashAt(Sharing(X, l, bits), bits)
<1>1. PICK r : r = [d \in 0 .. bits - 1 |-> Beside(X, l, d)]
  OBVIOUS
<1>2. PICK h : h = HashAt(Sharing(X, l, bits), bits)
  OBVIOUS
<1>3. Folded(l, bits, h, r)[0] = HashAt(X, 0)
  BY <1>1, <1>2, FoldsTo
<1>4. bits \in Nat
  BY DepthIs
<1>5. Folded(l, bits, g, s)[0] = Folded(l, bits, h, r)[0]
  BY <1>3
<1>6. g = h
  BY <1>4, <1>5, FoldedSame
<1> QED
  BY <1>2, <1>6

\* What a label's proof shows is what there is at its place.
LEMMA MapProofShows ==
  ASSUME NEW X, Cluster(X, 0), NEW l \in Bits, NEW leaf, NEW top, top = HashAt(X, 0),
         NEW path, path = pathOf(NodeOf(X, 0), l)
  PROVE  verifyMapProof(top, l, leaf, path) <=>
           (IF leaf = Null THEN EMPTY[DEPTH] ELSE mapLeafHash(leaf)) = HashAt(Sharing(X, l, DEPTH), DEPTH)
<1>1. PICK s : s = Filled(path, DEPTH)
  OBVIOUS
<1>2. PICK g : g = IF leaf = Null THEN EMPTY[DEPTH] ELSE mapLeafHash(leaf)
  OBVIOUS
<1>3. PICK h : h = HashAt(Sharing(X, l, DEPTH), DEPTH)
  OBVIOUS
<1>4. DEPTH \in 0 .. DEPTH
  BY DepthIs
<1>5. \A d \in 0 .. DEPTH - 1 : s[d] = Beside(X, l, d)
  BY <1>1, MapPathIs
<1>6. Folded(l, DEPTH, h, s)[0] = top
  BY <1>3, <1>4, <1>5, FoldsTo
<1>7. verifyMapProof(top, l, leaf, path) <=> Folded(l, DEPTH, g, s)[0] = top
  BY <1>1, <1>2 DEF verifyMapProof
<1>8. Folded(l, DEPTH, g, s)[0] = top => g = h
  BY <1>3, <1>4, ProofFrom
<1> QED
  BY <1>2, <1>3, <1>6, <1>7, <1>8

LEMMA LeafThere ==
  ASSUME NEW x \in MapLeaves
  PROVE  x # Null
<1>1. x = [label |-> x.label, index |-> x.index, version |-> x.version]
  BY DEF MapLeaves
<1>2. [label |-> x.label, index |-> x.index, version |-> x.version] # <<>>
  OBVIOUS
<1> QED
  BY <1>1, <1>2 DEF Null

\* The leaf of a label, or that there is none.
SaysOf(X, l, leaf) ==
  IF leaf = Null THEN \A x \in X : x.label # l ELSE leaf \in X /\ leaf.label = l

\* No proof, however it came to be, shows against the root of some leaves
\* anything of a label but the leaf it has among them, or that it has none
\* (verifyMapProof).
THEOREM ProofTells ==
  ASSUME NEW X, Cluster(X, 0), NEW l \in Bits, NEW leaf \in MapLeaves \cup {Null}, NEW siblings,
         verifyMapProof(HashAt(X, 0), l, leaf, siblings)
  PROVE  SaysOf(X, l, leaf)
<1>1. PICK s : s = Filled(siblings, DEPTH)
  OBVIOUS
<1>2. PICK g : g = IF leaf = Null THEN EMPTY[DEPTH] ELSE mapLeafHash(leaf)
  OBVIOUS
<1>3. DEPTH \in 0 .. DEPTH /\ DEPTH \in Nat
  BY DepthIs
<1>4. Folded(l, DEPTH, g, s)[0] = HashAt(X, 0)
  BY <1>1, <1>2 DEF verifyMapProof
<1>5. PICK Y : Y = Sharing(X, l, DEPTH)
  OBVIOUS
<1>6. g = HashAt(Y, DEPTH)
  BY <1>3, <1>4, <1>5, ProofFrom
<1>7. Cluster(Y, DEPTH) /\ Y \in SUBSET MapLeaves
  BY <1>3, <1>5, SharingIs DEF Cluster
<1>8. \A x \in X : x \in MapLeaves /\ x.label \in Bits
  BY DEF Cluster, MapLeaves
<1>9. \A x \in Y : x \in X /\ x.label = l
  BY <1>5, <1>8, SameBits DEF Sharing
<1>10. \A x \in X : x.label = l => x \in Y
  BY <1>5 DEF Sharing, hasPrefix
<1>11. EMPTY[DEPTH] = <<"empty">> /\ HashAt({}, DEPTH) = <<"empty">>
  <2>1. DEPTH \in 0 .. DEPTH
    BY <1>3
  <2>2. HashAt({}, DEPTH) = EMPTY[DEPTH]
    BY <2>1, HashNone, Zenon
  <2> QED
    BY <2>2, EmptyIs, Zenon
<1>12. \A x \in MapLeaves : mapLeafHash(x) = <<"leaf", x.label, x.index, x.version>> /\ HashAt({x}, DEPTH) = mapLeafHash(x)
  BY HashLeaf DEF mapLeafHash
<1>13. \A x, y \in MapLeaves : x.label = y.label /\ x.index = y.index /\ x.version = y.version => x = y
  BY DEF MapLeaves
<1>14. \A x \in MapLeaves : <<"empty">> # <<"leaf", x.label, x.index, x.version>>
  OBVIOUS
<1>15. CASE leaf = Null
  <2>1. g = <<"empty">>
    BY <1>2, <1>11, <1>15
  <2>2. \A x \in MapLeaves : Y # {x}
    BY <1>6, <1>12, <1>14, <2>1
  <2>3. Y = {}
    BY <1>7, <2>2, ClusterEnd, FewIs
  <2> QED
    BY <1>10, <1>15, <2>3 DEF SaysOf
<1>16. CASE leaf # Null
  <2>1. leaf \in MapLeaves
    BY <1>16
  <2>2. g = <<"leaf", leaf.label, leaf.index, leaf.version>>
    BY <1>2, <1>12, <1>16, <2>1
  <2>3. Y # {}
    BY <1>6, <1>11, <1>14, <2>1, <2>2
  <2>4. PICK x \in Y : Y = {x}
    BY <1>7, <2>3, ClusterEnd, FewIs
  <2>5. x \in MapLeaves
    BY <1>7
  <2>6. <<"leaf", leaf.label, leaf.index, leaf.version>> = <<"leaf", x.label, x.index, x.version>>
    BY <1>6, <1>12, <2>2, <2>4, <2>5
  <2>7. leaf = x
    BY <1>13, <2>1, <2>5, <2>6
  <2> QED
    BY <1>9, <1>16, <2>4, <2>7 DEF SaysOf
<1> QED
  BY <1>15, <1>16

-----------------------------------------------------------------------------
\* The leaves under a node, in order.
Lists(s, Y) ==
  /\ s \in Seq(MapLeaves) /\ Y = {s[i] : i \in 1 .. Len(s)}
  /\ \A i, j \in 1 .. Len(s) : i < j => Below(s[i].label, s[j].label)

LEMMA ListsNone == Lists(<<>>, {})
<1>1. <<>> \in Seq(MapLeaves) /\ Len(<<>>) = 0
  OBVIOUS
<1>2. 1 .. 0 = {}
  OBVIOUS
<1> QED
  BY <1>1, <1>2 DEF Lists

LEMMA ListsOne ==
  ASSUME NEW x \in MapLeaves
  PROVE  Lists(<<x>>, {x})
<1>1. <<x>> \in Seq(MapLeaves) /\ Len(<<x>>) = 1 /\ <<x>>[1] = x
  OBVIOUS
<1>2. 1 .. 1 = {1}
  OBVIOUS
<1> QED
  BY <1>1, <1>2 DEF Lists

\* Those of the left half are before those of the right.
LEMMA ListsJoin ==
  ASSUME NEW d \in 0 .. DEPTH - 1, NEW Y, Cluster(Y, d), NEW s, NEW t,
         Lists(s, Half(Y, d, 0)), Lists(t, Half(Y, d, 1))
  PROVE  Lists(s \o t, Y)
<1>1. s \in Seq(MapLeaves) /\ t \in Seq(MapLeaves)
  BY DEF Lists
<1>2. PICK m \in Nat, n \in Nat : m = Len(s) /\ n = Len(t)
  BY <1>1
<1>3. PICK r : r = s \o t
  OBVIOUS
<1>4. r \in Seq(MapLeaves) /\ Len(r) = m + n
  BY <1>1, <1>2, <1>3
<1>5. \A i \in 1 .. m : r[i] = s[i]
  BY <1>1, <1>2, <1>3
<1>6. \A i \in 1 .. n : r[m + i] = t[i]
  BY <1>1, <1>2, <1>3
<1>7. \A i \in 1 .. m + n : i \in 1 .. m \/ \E j \in 1 .. n : i = m + j
  <2>1. TAKE i \in 1 .. m + n
  <2>2. i \notin 1 .. m => i - m \in 1 .. n /\ i = m + (i - m)
    OBVIOUS
  <2> QED
    BY <2>2
<1>8. \A i \in 1 .. n : m + i \in 1 .. m + n
  OBVIOUS
<1>9. \A i \in 1 .. m : i \in 1 .. m + n
  OBVIOUS
<1>10. Half(Y, d, 0) = {s[i] : i \in 1 .. m} /\ Half(Y, d, 1) = {t[i] : i \in 1 .. n}
  BY <1>2 DEF Lists
<1>11. Y = Half(Y, d, 0) \cup Half(Y, d, 1)
  BY HalvesAll DEF Cluster
<1>12. Y = {r[i] : i \in 1 .. m + n}
  <2>1. ASSUME NEW y \in Y PROVE \E i \in 1 .. m + n : y = r[i]
    <3>1. CASE y \in Half(Y, d, 0)
      BY <1>5, <1>9, <1>10, <3>1
    <3>2. CASE y \in Half(Y, d, 1)
      BY <1>6, <1>8, <1>10, <3>2
    <3> QED
      BY <1>11, <2>1, <3>1, <3>2
  <2>2. ASSUME NEW i \in 1 .. m + n PROVE r[i] \in Y
    <3>1. CASE i \in 1 .. m
      BY <1>5, <1>10, <1>11, <3>1
    <3>2. CASE \E j \in 1 .. n : i = m + j
      BY <1>6, <1>10, <1>11, <3>2
    <3> QED
      BY <1>7, <3>1, <3>2
  <2> QED
    BY <2>1, <2>2
<1>13. ASSUME NEW i \in 1 .. m, NEW j \in 1 .. n PROVE Below(s[i].label, t[j].label)
  <2>1. s[i] \in Half(Y, d, 0) /\ t[j] \in Half(Y, d, 1)
    BY <1>10
  <2>2. PICK a, b : a = s[i].label /\ b = t[j].label
    OBVIOUS
  <2>3. bit(a, d) = 0 /\ bit(b, d) = 1 /\ hasPrefix(a, b, d)
    BY <2>1, <2>2 DEF Half, Cluster
  <2> QED
    BY <2>2, <2>3 DEF Below, hasPrefix
<1>14. ASSUME NEW i \in 1 .. m + n, NEW j \in 1 .. m + n, i < j PROVE Below(r[i].label, r[j].label)
  <2>1. CASE i \in 1 .. m /\ j \in 1 .. m
    BY <1>2, <1>5, <1>14, <2>1 DEF Lists
  <2>2. CASE i \in 1 .. m /\ j \notin 1 .. m
    BY <1>5, <1>6, <1>7, <1>13, <2>2
  <2>3. CASE i \notin 1 .. m
    <3>1. PICK a \in 1 .. n : i = m + a
      BY <1>7, <2>3
    <3>2. PICK b \in 1 .. n : j = m + b
      BY <1>7, <1>14, <2>3
    <3>3. a < b
      BY <1>14, <3>1, <3>2
    <3> QED
      BY <1>2, <1>6, <3>1, <3>2, <3>3 DEF Lists
  <2> QED
    BY <2>1, <2>2, <2>3
<1>15. Lists(r, Y)
  BY <1>4, <1>12, <1>14 DEF Lists
<1> QED
  BY <1>3, <1>15

-----------------------------------------------------------------------------
\* The nodes of each level under a node, and the leaves under each.
Children(S) == UNION {{n.left, n.right} : n \in {m \in S : ~IsEnd(m)}}

IsLevel(u, n, node) == u = [d \in 0 .. n |-> IF d = 0 THEN {node} ELSE Children(u[d - 1])]

LEMMA LevelExists ==
  ASSUME NEW n \in Nat, NEW node
  PROVE  \E u : IsLevel(u, n, node)
<1> DEFINE F == {k \in Nat : \E u : IsLevel(u, k, node)}
<1>1. 0 \in F
  <2>1. IsLevel([d \in 0 .. 0 |-> {node}], 0, node)
    BY DEF IsLevel
  <2> QED
    BY <2>1
<1>2. ASSUME NEW k \in Nat, k \in F
      PROVE  k + 1 \in F
  <2>1. PICK t : IsLevel(t, k, node)
    BY <1>2
  <2> DEFINE u == [d \in 0 .. k + 1 |-> IF d = 0 THEN {node} ELSE Children(t[d - 1])]
  <2>2. \A d \in 0 .. k : u[d] = t[d]
    <3>1. \A d \in 0 .. k : t[d] = IF d = 0 THEN {node} ELSE Children(t[d - 1])
      BY <2>1 DEF IsLevel
    <3>2. \A d \in 0 .. k : d \in 0 .. k + 1
      OBVIOUS
    <3> QED
      BY <3>1, <3>2
  <2>3. \A d \in 0 .. k + 1 : d # 0 => d - 1 \in 0 .. k
    OBVIOUS
  <2>4. u = [d \in 0 .. k + 1 |-> IF d = 0 THEN {node} ELSE Children(u[d - 1])]
    BY <2>2, <2>3
  <2>5. IsLevel(u, k + 1, node)
    BY <2>4 DEF IsLevel
  <2> HIDE DEF u
  <2> QED
    BY <2>5
<1> HIDE DEF F
<1>3. n \in F
  BY <1>1, <1>2, BySteps
<1> QED
  BY <1>3 DEF F

\* The leaves under each node of each level.
OutBody(u, d, level) == 
  [n \in level[d] |->
     IF d > DEPTH \/ n = Null THEN <<>>
     ELSE IF IsSingle(n) THEN <<n.leaf>> ELSE u[d + 1][n.left] \o u[d + 1][n.right]]

IsOut(u, m, level) == u = [d \in m .. DEPTH + 1 |-> OutBody(u, d, level)]

LEMMA OutExists ==
  ASSUME NEW n \in Nat, n = DEPTH + 1, NEW level
  PROVE  \E u : IsOut(u, 0, level)
<1>1. n > DEPTH
  BY DepthIs
<1> DEFINE F == {k \in Nat : k <= n => \E u : IsOut(u, n - k, level)}
<1>2. 0 \in F
  <2> DEFINE u == [d \in n .. n |-> OutBody(<<>>, d, level)]
  <2>1. \A d \in n .. n : OutBody(<<>>, d, level) = OutBody(u, d, level)
    BY <1>1 DEF OutBody
  <2>2. u = [d \in n .. n |-> OutBody(u, d, level)]
    BY <2>1
  <2>3. n - 0 = n
    OBVIOUS
  <2>4. IsOut(u, n, level)
    BY <2>2 DEF IsOut
  <2> HIDE DEF u
  <2> QED
    BY <2>3, <2>4
<1>3. ASSUME NEW k \in Nat, k \in F
      PROVE  k + 1 \in F
  <2>1. SUFFICES ASSUME k + 1 <= n PROVE \E u : IsOut(u, n - (k + 1), level)
    OBVIOUS
  <2>2. PICK m \in Nat : m = n - (k + 1) /\ n - k = m + 1 /\ m < n
    BY <2>1
  <2>3. PICK t : IsOut(t, m + 1, level)
    BY <1>3, <2>1, <2>2
  <2> DEFINE u == [d \in m .. n |-> OutBody(t, d, level)]
  <2>4. \A d \in m + 1 .. n : u[d] = t[d]
    BY <2>3 DEF IsOut
  <2> HIDE DEF u
  <2>5. \A d \in m .. n : d = n \/ u[d + 1] = t[d + 1]
    BY <2>4
  <2>6. \A d \in m .. n : OutBody(t, d, level) = OutBody(u, d, level)
    BY <1>1, <2>5 DEF OutBody
  <2>7. u = [d \in m .. n |-> OutBody(u, d, level)]
    BY <2>6 DEF u
  <2>8. IsOut(u, m, level)
    BY <2>7 DEF IsOut
  <2> QED
    BY <2>2, <2>8
<1> HIDE DEF F
<1>4. n \in F
  BY <1>2, <1>3, BySteps
<1>5. n - n = 0
  OBVIOUS
<1> QED
  BY <1>4, <1>5 DEF F

LEMMA CollectBy ==
  ASSUME NEW node
  PROVE  \E level, out : IsLevel(level, DEPTH + 1, node) /\ IsOut(out, 0, level) /\ collect(node) = out[0][node]
<1>1. PICK level : level = CHOOSE u : IsLevel(u, DEPTH + 1, node)
  OBVIOUS
<1>2. PICK n \in Nat : n = DEPTH + 1
  BY DepthIs
<1>3. IsLevel(level, n, node)
  BY <1>1, <1>2, LevelExists, Zenon
<1>4. PICK out : out = CHOOSE u : IsOut(u, 0, level)
  OBVIOUS
<1>5. IsOut(out, 0, level)
  BY <1>2, <1>4, OutExists, Zenon
<1>6. collect(node) = out[0][node]
  BY <1>1, <1>4 DEF collect, IsLevel, Children, IsOut, OutBody
<1> QED
  BY <1>2, <1>3, <1>5, <1>6

\* What is collected from the tree of some leaves is these leaves, in order.
LEMMA CollectIs ==
  ASSUME NEW k \in 0 .. DEPTH, NEW Y, Cluster(Y, k)
  PROVE  Lists(collect(NodeOf(Y, k)), Y)
<1>1. PICK node : node = NodeOf(Y, k)
  OBVIOUS
<1>2. PICK level, out : IsLevel(level, DEPTH + 1, node) /\ IsOut(out, 0, level) /\ collect(node) = out[0][node]
  BY CollectBy
<1> DEFINE Told(d) == \A A : Cluster(A, d) /\ NodeOf(A, d) \in level[d - k] => Lists(out[d - k][NodeOf(A, d)], A)
           F == {h \in Nat : h <= DEPTH - k => Told(DEPTH - h)}
<1>3. ASSUME NEW d \in k .. DEPTH, NEW A, Cluster(A, d), NodeOf(A, d) \in level[d - k]
      PROVE  out[d - k][NodeOf(A, d)] =
               IF NodeOf(A, d) = Null THEN <<>>
               ELSE IF IsSingle(NodeOf(A, d)) THEN <<NodeOf(A, d).leaf>>
               ELSE out[(d - k) + 1][NodeOf(A, d).left] \o out[(d - k) + 1][NodeOf(A, d).right]
  <2>1. PICK e \in 0 .. DEPTH : e = d - k
    BY DepthIs
  <2>2. e \in 0 .. DEPTH + 1 /\ ~(e > DEPTH)
    BY DepthIs
  <2>3. out[e] = OutBody(out, e, level)
    BY <1>2, <2>2 DEF IsOut
  <2>4. PICK n : n = NodeOf(A, d)
    OBVIOUS
  <2>5. n \in level[e]
    BY <1>3, <2>1, <2>4
  <2>6. out[e][n] = IF n = Null THEN <<>>
                    ELSE IF IsSingle(n) THEN <<n.leaf>> ELSE out[e + 1][n.left] \o out[e + 1][n.right]
    BY <2>2, <2>3, <2>5 DEF OutBody
  <2> QED
    BY <2>1, <2>4, <2>6
<1>4. ASSUME NEW d \in k .. DEPTH, NEW A, Cluster(A, d), NodeOf(A, d) \in level[d - k], Few(A)
      PROVE  Lists(out[d - k][NodeOf(A, d)], A)
  <2>1. PICK n : n = NodeOf(A, d)
    OBVIOUS
  <2>2. PICK s : s = out[d - k][n]
    OBVIOUS
  <2>3. EndOfOne(n, A)
    <3>1. d \in 0 .. DEPTH
      BY DepthIs
    <3> QED
      BY <1>4, <2>1, <3>1, EndIs
  <2>4. s = IF n = Null THEN <<>> ELSE IF IsSingle(n) THEN <<n.leaf>> ELSE out[(d - k) + 1][n.left] \o out[(d - k) + 1][n.right]
    BY <1>3, <1>4, <2>1, <2>2
  <2>5. CASE A = {}
    <3>1. s = <<>>
      BY <2>3, <2>4, <2>5 DEF EndOfOne
    <3> QED
      BY <2>1, <2>2, <2>5, <3>1, ListsNone
  <2>6. CASE \E x \in A : A = {x}
    <3>1. PICK x \in A : A = {x}
      BY <2>6
    <3>2. n # Null /\ IsSingle(n) /\ n.leaf = x
      BY <1>4, <2>3, <3>1 DEF EndOfOne
    <3>3. s = <<x>> /\ x \in MapLeaves
      BY <1>4, <2>4, <3>2 DEF Cluster
    <3> QED
      BY <2>1, <2>2, <3>1, <3>3, ListsOne
  <2> QED
    BY <1>4, <2>5, <2>6, FewIs
<1>5. 0 \in F
  <2>1. DEPTH - 0 = DEPTH /\ DEPTH \in k .. DEPTH
    BY DepthIs
  <2>2. \A A : Cluster(A, DEPTH) => Few(A)
    BY ClusterEnd
  <2>3. Told(DEPTH)
    BY <1>4, <2>1, <2>2
  <2> QED
    BY <2>1, <2>3
<1>6. ASSUME NEW h \in Nat, h \in F PROVE h + 1 \in F
  <2>1. SUFFICES ASSUME h + 1 <= DEPTH - k PROVE Told(DEPTH - (h + 1))
    OBVIOUS
  <2>2. PICK d \in k .. DEPTH - 1 : d = DEPTH - (h + 1) /\ DEPTH - h = d + 1
    BY <2>1, DepthIs
  <2>3. h <= DEPTH - k /\ d \in 0 .. DEPTH - 1 /\ d \in k .. DEPTH
    BY <2>1, <2>2, DepthIs
  <2>4. Told(d + 1)
    BY <1>6, <2>2, <2>3
  <2>5. SUFFICES ASSUME NEW A, Cluster(A, d), NodeOf(A, d) \in level[d - k]
                 PROVE Lists(out[d - k][NodeOf(A, d)], A)
    BY <2>2
  <2>6. CASE Few(A)
    BY <1>4, <2>3, <2>5, <2>6
  <2>7. CASE ~ Few(A)
    <3>1. PICK n, a, b : n = NodeOf(A, d) /\ a = NodeOf(Half(A, d, 0), d + 1) /\ b = NodeOf(Half(A, d, 1), d + 1)
      OBVIOUS
    <3>2. n = Internal(a, b, d)
      BY <2>3, <2>5, <2>7, <3>1, NodeMany DEF Cluster
    <3>3. ~IsEnd(n) /\ n.left = a /\ n.right = b
      BY <3>2, InternalIs
    <3>4. PICK e \in 0 .. DEPTH : e = d - k /\ (d + 1) - k = e + 1
      BY <2>2, DepthIs
    <3>5. n \in level[e]
      BY <2>5, <3>1, <3>4
    <3>6. level[e + 1] = Children(level[e])
      <4>1. e + 1 \in 0 .. DEPTH + 1 /\ (e + 1) - 1 = e /\ e + 1 # 0
        BY DepthIs
      <4> QED
        BY <1>2, <4>1 DEF IsLevel
    <3>7. a \in level[e + 1] /\ b \in level[e + 1]
      BY <3>3, <3>5, <3>6 DEF Children
    <3>8. \A c \in {0, 1} : Cluster(Half(A, d, c), d + 1)
      BY <2>3, <2>5, ClusterHalf
    <3>9. Lists(out[e + 1][a], Half(A, d, 0)) /\ Lists(out[e + 1][b], Half(A, d, 1))
      BY <2>4, <3>1, <3>4, <3>7, <3>8
    <3>10. Lists(out[e + 1][a] \o out[e + 1][b], A)
      BY <2>3, <2>5, <3>9, ListsJoin
    <3>11. out[e][n] = out[e + 1][a] \o out[e + 1][b]
      BY <1>3, <2>3, <2>5, <3>1, <3>3, <3>4 DEF IsEnd
    <3> QED
      BY <3>1, <3>4, <3>10, <3>11
  <2> QED
    BY <2>6, <2>7
<1> HIDE DEF F
<1>7. PICK h \in Nat : h <= DEPTH - k /\ DEPTH - h = k
  <2>1. DEPTH - k \in Nat /\ DEPTH - k <= DEPTH - k /\ DEPTH - (DEPTH - k) = k
    BY DepthIs
  <2> QED
    BY <2>1
<1>8. h \in F
  BY <1>5, <1>6, BySteps
<1>9. Told(k)
  BY <1>7, <1>8 DEF F
<1>10. node \in level[k - k] /\ k - k = 0
  <2>1. k - k = 0 /\ 0 \in 0 .. DEPTH + 1
    BY DepthIs
  <2>2. level[0] = {node}
    BY <1>2, <2>1 DEF IsLevel
  <2> QED
    BY <2>1, <2>2
<1>11. Lists(out[0][node], Y)
  BY <1>1, <1>9, <1>10
<1> QED
  BY <1>1, <1>2, <1>11

-----------------------------------------------------------------------------
\* The hash of a part of a list.
Span(s, lo, hi) == {s[i] : i \in lo .. hi}

\* Every part of the list at every depth.
PieceBody(u, d, leaves) == 
  [r \in (1 .. Len(leaves) + 1) \X (0 .. Len(leaves)) |->
     LET lo == r[1]
         hi == r[2]
         split == Cardinality({i \in lo .. hi : bit(leaves[i].label, d) = 0})
     IN IF hi < lo THEN EMPTY[d]
        ELSE IF hi = lo THEN chainHash(leaves[lo], d)
        ELSE IF d = DEPTH THEN Null
        ELSE mapNodeHash(u[d + 1][<<lo, lo + split - 1>>], u[d + 1][<<lo + split, hi>>])]

IsPiece(u, m, leaves) == u = [d \in m .. DEPTH |-> PieceBody(u, d, leaves)]

LEMMA PieceExists ==
  ASSUME NEW n \in Nat, n = DEPTH, NEW leaves
  PROVE  \E u : IsPiece(u, 0, leaves)
<1> DEFINE F == {k \in Nat : k <= n => \E u : IsPiece(u, n - k, leaves)}
<1>1. 0 \in F
  <2> DEFINE u == [d \in n .. n |-> PieceBody(<<>>, d, leaves)]
  <2>1. \A d \in n .. n : PieceBody(<<>>, d, leaves) = PieceBody(u, d, leaves)
    BY DEF PieceBody
  <2>2. u = [d \in n .. n |-> PieceBody(u, d, leaves)]
    BY <2>1
  <2>3. n - 0 = n
    OBVIOUS
  <2>4. IsPiece(u, n, leaves)
    BY <2>2 DEF IsPiece
  <2> HIDE DEF u
  <2> QED
    BY <2>3, <2>4
<1>2. ASSUME NEW k \in Nat, k \in F
      PROVE  k + 1 \in F
  <2>1. SUFFICES ASSUME k + 1 <= n PROVE \E u : IsPiece(u, n - (k + 1), leaves)
    OBVIOUS
  <2>2. PICK m \in Nat : m = n - (k + 1) /\ n - k = m + 1 /\ m < n
    BY <2>1
  <2>3. PICK t : IsPiece(t, m + 1, leaves)
    BY <1>2, <2>1, <2>2
  <2> DEFINE u == [d \in m .. n |-> PieceBody(t, d, leaves)]
  <2>4. \A d \in m + 1 .. n : u[d] = t[d]
    BY <2>3 DEF IsPiece
  <2> HIDE DEF u
  <2>5. \A d \in m .. n : d = n \/ u[d + 1] = t[d + 1]
    BY <2>4
  <2>6. \A d \in m .. n : PieceBody(t, d, leaves) = PieceBody(u, d, leaves)
    BY <2>5 DEF PieceBody
  <2>7. u = [d \in m .. n |-> PieceBody(u, d, leaves)]
    BY <2>6 DEF u
  <2>8. IsPiece(u, m, leaves)
    BY <2>7 DEF IsPiece
  <2> QED
    BY <2>2, <2>8
<1> HIDE DEF F
<1>3. n \in F
  BY <1>1, <1>2, BySteps
<1>4. n - n = 0
  OBVIOUS
<1> QED
  BY <1>3, <1>4 DEF F

\* Where the leaves of a part are with bit 0 at a depth, and where with 1.
Splits(s, lo, hi, d, m) ==
  /\ m \in lo - 1 .. hi
  /\ {i \in lo .. hi : bit(s[i].label, d) = 0} = lo .. m
  /\ \A i \in lo .. hi : bit(s[i].label, d) \in {0, 1}

LEMMA SplitsAt ==
  ASSUME NEW s, NEW Y, Lists(s, Y), NEW d \in 0 .. DEPTH - 1,
         NEW lo \in 1 .. Len(s) + 1, NEW hi \in 0 .. Len(s), lo <= hi + 1, Cluster(Span(s, lo, hi), d)
  PROVE  \E m : Splits(s, lo, hi, d, m)
<1>1. s \in Seq(MapLeaves) /\ lo \in Nat /\ hi \in Nat
  BY DEF Lists
<1>2. \A i \in lo .. hi : i \in 1 .. Len(s) /\ s[i] \in Span(s, lo, hi)
  BY <1>1 DEF Span
<1>3. \A i \in lo .. hi : s[i].label \in Bits
  BY <1>2 DEF Cluster, MapLeaves
<1>4. \A i \in lo .. hi : bit(s[i].label, d) \in {0, 1}
  BY <1>3, BitIs
<1>5. ASSUME NEW i \in lo .. hi, NEW j \in lo .. hi, i < j, bit(s[j].label, d) = 0 PROVE bit(s[i].label, d) = 0
  <2>1. PICK a, b : a = s[i].label /\ b = s[j].label
    OBVIOUS
  <2>2. Below(a, b)
    BY <1>2, <1>5, <2>1 DEF Lists
  <2>3. hasPrefix(a, b, d)
    BY <1>2, <2>1 DEF Cluster
  <2>4. PICK e \in 0 .. DEPTH - 1 : bit(a, e) < bit(b, e) /\ \A f \in 0 .. e - 1 : bit(a, f) = bit(b, f)
    BY <2>2 DEF Below
  <2>5. a \in Bits /\ b \in Bits
    BY <1>3, <2>1
  <2>6. bit(a, e) \in {0, 1} /\ bit(b, e) \in {0, 1}
    BY <2>4, <2>5, BitIs
  <2>7. e \notin 0 .. d - 1
    BY <2>3, <2>4, <2>6 DEF hasPrefix
  <2>8. bit(a, d) \in {0, 1} /\ bit(b, d) = 0
    BY <1>4, <1>5, <2>1
  <2>9. CASE e = d
    BY <2>4, <2>6, <2>8, <2>9
  <2>10. CASE d < e
    BY <2>1, <2>4, <2>8, <2>10
  <2> QED
    BY <2>1, <2>4, <2>7, <2>9, <2>10
<1> DEFINE F == {n \in Nat : lo + n <= hi + 1 => \E m \in lo - 1 .. lo + n - 1 :
                   {i \in lo .. lo + n - 1 : bit(s[i].label, d) = 0} = lo .. m}
<1>6. 0 \in F
  <2>1. lo + 0 - 1 = lo - 1 /\ lo - 1 \in lo - 1 .. lo - 1 /\ lo .. lo - 1 = {}
    BY <1>1
  <2> QED
    BY <2>1
<1>7. ASSUME NEW n \in Nat, n \in F PROVE n + 1 \in F
  <2>1. SUFFICES ASSUME lo + (n + 1) <= hi + 1
                 PROVE \E m \in lo - 1 .. lo + (n + 1) - 1 :
                   {i \in lo .. lo + (n + 1) - 1 : bit(s[i].label, d) = 0} = lo .. m
    OBVIOUS
  <2>2. PICK p \in lo .. hi : p = lo + n /\ lo + (n + 1) - 1 = p /\ lo + n - 1 = p - 1
    BY <1>1, <2>1
  <2>3. PICK m \in lo - 1 .. p - 1 : {i \in lo .. p - 1 : bit(s[i].label, d) = 0} = lo .. m
    BY <1>1, <1>7, <2>1, <2>2
  <2>4. lo .. p = (lo .. p - 1) \cup {p} /\ p \in Nat
    BY <1>1
  <2>5. CASE bit(s[p].label, d) = 0
    <3>1. \A i \in lo .. p - 1 : bit(s[i].label, d) = 0
      <4>1. TAKE i \in lo .. p - 1
      <4>2. i \in lo .. hi /\ i < p
        BY <1>1
      <4> QED
        BY <1>5, <2>5, <4>2
    <3>2. {i \in lo .. p : bit(s[i].label, d) = 0} = lo .. p
      BY <2>4, <2>5, <3>1
    <3>3. p \in lo - 1 .. p
      BY <1>1
    <3> QED
      BY <2>2, <3>2, <3>3
  <2>6. CASE bit(s[p].label, d) # 0
    <3>1. {i \in lo .. p : bit(s[i].label, d) = 0} = lo .. m
      BY <2>3, <2>4, <2>6
    <3>2. m \in lo - 1 .. p
      BY <1>1
    <3> QED
      BY <2>2, <3>1, <3>2
  <2> QED
    BY <2>5, <2>6
<1> HIDE DEF F
<1>8. PICK n \in Nat : n = (hi + 1) - lo /\ lo + n <= hi + 1 /\ lo + n - 1 = hi
  BY <1>1
<1>9. n \in F
  BY <1>6, <1>7, BySteps
<1>10. \E m \in lo - 1 .. hi : {i \in lo .. hi : bit(s[i].label, d) = 0} = lo .. m
  BY <1>8, <1>9 DEF F
<1> QED
  BY <1>4, <1>10 DEF Splits

Halves(Y, d, A, B) == Half(Y, d, 0) = A /\ Half(Y, d, 1) = B

\* The halves of a part are its parts.
LEMMA SplitsIs ==
  ASSUME NEW s, NEW lo \in Nat, NEW hi \in Nat, NEW d, NEW m, Splits(s, lo, hi, d, m)
  PROVE  /\ Halves(Span(s, lo, hi), d, Span(s, lo, m), Span(s, m + 1, hi))
         /\ Cardinality({i \in lo .. hi : bit(s[i].label, d) = 0}) = m + 1 - lo
<1>1. m \in lo - 1 .. hi /\ m \in Int
  BY DEF Splits
<1>2. \A i \in lo .. hi : bit(s[i].label, d) = IF i <= m THEN 0 ELSE 1
  BY <1>1 DEF Splits
<1>3. \A i \in lo .. m : i \in lo .. hi /\ i <= m
  BY <1>1
<1>4. \A i \in m + 1 .. hi : i \in lo .. hi /\ ~(i <= m)
  BY <1>1
<1>5. \A i \in lo .. hi : (i <= m => i \in lo .. m) /\ (~(i <= m) => i \in m + 1 .. hi)
  BY <1>1
<1>6. Half(Span(s, lo, hi), d, 0) = Span(s, lo, m)
  BY <1>2, <1>3, <1>5 DEF Half, Span
<1>7. Half(Span(s, lo, hi), d, 1) = Span(s, m + 1, hi)
  BY <1>2, <1>4, <1>5 DEF Half, Span
<1>8. Cardinality(lo .. m) = IF lo > m THEN 0 ELSE m - lo + 1
  BY <1>1, FS_Interval
<1>9. Cardinality(lo .. m) = m + 1 - lo
  BY <1>1, <1>8
<1> QED
  BY <1>6, <1>7, <1>9 DEF Splits, Halves

\* A list has no leaf twice.
LEMMA ListsOnce ==
  ASSUME NEW s, NEW Y, Lists(s, Y), NEW i \in 1 .. Len(s), NEW j \in 1 .. Len(s), i < j
  PROVE  s[i] # s[j] /\ s[i].label # s[j].label
<1>1. PICK a, b : a = s[i].label /\ b = s[j].label
  OBVIOUS
<1>2. Below(a, b)
  BY <1>1 DEF Lists
<1>3. s[i] \in MapLeaves /\ s[j] \in MapLeaves
  <2>1. s \in Seq(MapLeaves)
    BY DEF Lists
  <2> QED
    BY <2>1, ElementOfSeq
<1>4. a \in Bits /\ b \in Bits
  BY <1>1, <1>3 DEF MapLeaves
<1>5. PICK e \in 0 .. DEPTH - 1 : bit(a, e) < bit(b, e)
  BY <1>2 DEF Below
<1>6. bit(a, e) \in {0, 1} /\ bit(b, e) \in {0, 1}
  BY <1>4, <1>5, BitIs
<1>7. a # b
  BY <1>5, <1>6
<1> QED
  BY <1>1, <1>7

LEMMA RootIs ==
  ASSUME NEW k \in 0 .. DEPTH, NEW Y, Cluster(Y, k), NEW s, Lists(s, Y)
  PROVE  bucketRoot(s, k) = HashAt(Y, k)
<1>1. PICK u : u = CHOOSE w : IsPiece(w, 0, s)
  OBVIOUS
<1>2. IsPiece(u, 0, s)
  BY <1>1, PieceExists, DepthIs, Zenon
<1>3. bucketRoot(s, k) = u[k][<<1, Len(s)>>]
  BY <1>1 DEF bucketRoot, IsPiece, PieceBody
<1>4. s \in Seq(MapLeaves)
  BY DEF Lists
<1>5. PICK n \in Nat : n = Len(s)
  BY <1>4
<1> DEFINE Told(d) == \A lo \in 1 .. n + 1, hi \in 0 .. n :
                        lo <= hi + 1 /\ Cluster(Span(s, lo, hi), d) => u[d][<<lo, hi>>] = HashAt(Span(s, lo, hi), d)
           F == {h \in Nat : h <= DEPTH => Told(DEPTH - h)}
<1>6. ASSUME NEW d \in 0 .. DEPTH, NEW lo \in 1 .. n + 1, NEW hi \in 0 .. n
      PROVE  u[d][<<lo, hi>>] =
               IF hi < lo THEN EMPTY[d]
               ELSE IF hi = lo THEN chainHash(s[lo], d)
               ELSE IF d = DEPTH THEN Null
               ELSE LET split == Cardinality({i \in lo .. hi : bit(s[i].label, d) = 0})
                    IN mapNodeHash(u[d + 1][<<lo, lo + split - 1>>], u[d + 1][<<lo + split, hi>>])
  <2>1. u[d] = PieceBody(u, d, s)
    BY <1>2 DEF IsPiece
  <2>2. PICK r : r = <<lo, hi>>
    OBVIOUS
  <2>3. r \in (1 .. Len(s) + 1) \X (0 .. Len(s)) /\ r[1] = lo /\ r[2] = hi
    BY <1>5, <2>2
  <2> QED
    BY <2>1, <2>2, <2>3 DEF PieceBody
<1>7. ASSUME NEW d \in 0 .. DEPTH, NEW lo \in 1 .. n + 1, NEW hi \in 0 .. n, hi <= lo,
             Cluster(Span(s, lo, hi), d)
      PROVE  u[d][<<lo, hi>>] = HashAt(Span(s, lo, hi), d)
  <2>1. CASE hi < lo
    <3>1. lo .. hi = {}
      BY <2>1
    <3>2. Span(s, lo, hi) = {}
      BY <3>1 DEF Span
    <3> QED
      BY <1>6, <2>1, <3>2, HashNone
  <2>2. CASE hi = lo
    <3>1. lo .. hi = {lo}
      BY <2>2
    <3>2. Span(s, lo, hi) = {s[lo]}
      BY <3>1 DEF Span
    <3>3. s[lo] \in MapLeaves
      BY <1>7, <3>2 DEF Cluster
    <3>4. chainHash(s[lo], d) = HashAt({s[lo]}, d)
      BY <3>3, ChainIs
    <3>5. u[d][<<lo, hi>>] = chainHash(s[lo], d)
      <4>1. ~(hi < lo)
        BY <2>2
      <4> QED
        BY <1>6, <2>2, <4>1, Zenon
    <3> QED
      BY <3>2, <3>4, <3>5
  <2> QED
    BY <1>7, <2>1, <2>2
<1>8. 0 \in F
  <2>1. DEPTH - 0 = DEPTH /\ DEPTH \in 0 .. DEPTH
    BY DepthIs
  <2>2. SUFFICES ASSUME NEW lo \in 1 .. n + 1, NEW hi \in 0 .. n, lo <= hi + 1, Cluster(Span(s, lo, hi), DEPTH)
                 PROVE u[DEPTH][<<lo, hi>>] = HashAt(Span(s, lo, hi), DEPTH)
    BY <2>1
  <2>3. hi <= lo
    <3>1. SUFFICES ASSUME lo < hi PROVE FALSE
      OBVIOUS
    <3>2. lo \in 1 .. Len(s) /\ hi \in 1 .. Len(s)
      BY <1>5, <3>1
    <3>3. s[lo] \in Span(s, lo, hi) /\ s[hi] \in Span(s, lo, hi)
      BY <3>1 DEF Span
    <3>4. s[lo] = s[hi]
      BY <2>2, <3>3, ClusterEnd DEF Few
    <3> QED
      BY <3>1, <3>2, <3>4, ListsOnce
  <2> QED
    BY <1>7, <2>1, <2>2, <2>3
<1>9. ASSUME NEW h \in Nat, h \in F PROVE h + 1 \in F
  <2>1. SUFFICES ASSUME h + 1 <= DEPTH PROVE Told(DEPTH - (h + 1))
    OBVIOUS
  <2>2. PICK d \in 0 .. DEPTH - 1 : d = DEPTH - (h + 1) /\ DEPTH - h = d + 1
    BY <2>1, DepthIs
  <2>3. d \in 0 .. DEPTH /\ d # DEPTH
    BY DepthIs
  <2>4. Told(d + 1)
    BY <1>9, <2>1, <2>2, DepthIs
  <2>5. SUFFICES ASSUME NEW lo \in 1 .. n + 1, NEW hi \in 0 .. n, lo <= hi + 1, Cluster(Span(s, lo, hi), d)
                 PROVE u[d][<<lo, hi>>] = HashAt(Span(s, lo, hi), d)
    BY <2>2
  <2>6. CASE hi <= lo
    BY <1>7, <2>3, <2>5, <2>6
  <2>7. CASE lo < hi
    <3>1. PICK m : Splits(s, lo, hi, d, m)
      BY <1>5, <2>5, SplitsAt
    <3>2. m \in lo - 1 .. hi /\ m \in 0 .. n /\ m + 1 \in 1 .. n + 1 /\ lo <= m + 1 /\ m + 1 <= hi + 1
      BY <3>1 DEF Splits
    <3>3. PICK A, B : A = Span(s, lo, m) /\ B = Span(s, m + 1, hi)
      OBVIOUS
    <3>4. Half(Span(s, lo, hi), d, 0) = A /\ Half(Span(s, lo, hi), d, 1) = B
      <4>1. Halves(Span(s, lo, hi), d, Span(s, lo, m), Span(s, m + 1, hi))
        <5>1. lo \in Nat /\ hi \in Nat
          OBVIOUS
        <5> QED
          BY <3>1, <5>1, SplitsIs, Zenon
      <4> QED
        BY <3>3, <4>1 DEF Halves
    <3>5. PICK split : split = Cardinality({i \in lo .. hi : bit(s[i].label, d) = 0})
      OBVIOUS
    <3>6. split = m + 1 - lo
      BY <3>1, <3>5, SplitsIs
    <3>7. lo + split - 1 = m /\ lo + split = m + 1
      BY <3>2, <3>6
    <3>8. u[d][<<lo, hi>>] = mapNodeHash(u[d + 1][<<lo, lo + split - 1>>], u[d + 1][<<lo + split, hi>>])
      BY <1>6, <2>3, <2>7, <3>5
    <3>9. u[d][<<lo, hi>>] = mapNodeHash(u[d + 1][<<lo, m>>], u[d + 1][<<m + 1, hi>>])
      BY <3>7, <3>8
    <3>10. Cluster(A, d + 1) /\ Cluster(B, d + 1)
      BY <2>5, <3>4, ClusterHalf
    <3>11. u[d + 1][<<lo, m>>] = HashAt(A, d + 1)
      BY <2>4, <3>2, <3>3, <3>10
    <3>12. u[d + 1][<<m + 1, hi>>] = HashAt(B, d + 1)
      BY <2>4, <3>2, <3>3, <3>10
    <3>13. HashAt(Span(s, lo, hi), d) = mapNodeHash(HashAt(A, d + 1), HashAt(B, d + 1))
      BY <2>5, <3>4, HashHalves DEF Cluster
    <3> QED
      BY <3>9, <3>11, <3>12, <3>13
  <2> QED
    BY <2>6, <2>7
<1> HIDE DEF F
<1>10. PICK h \in Nat : h <= DEPTH /\ DEPTH - h = k
  <2>1. DEPTH - k \in Nat /\ DEPTH - k <= DEPTH /\ DEPTH - (DEPTH - k) = k
    BY DepthIs
  <2> QED
    BY <2>1
<1>11. h \in F
  BY <1>8, <1>9, BySteps
<1>12. Told(k)
  BY <1>10, <1>11 DEF F
<1>13. Span(s, 1, n) = Y
  BY <1>5 DEF Span, Lists
<1>14. 1 \in 1 .. n + 1 /\ n \in 0 .. n /\ 1 <= n + 1
  OBVIOUS
<1>15. u[k][<<1, n>>] = HashAt(Span(s, 1, n), k)
  BY <1>12, <1>13, <1>14
<1> QED
  BY <1>3, <1>5, <1>13, <1>15

-----------------------------------------------------------------------------
\* A bucket.

\* What a walk down to a bucket meets, and what it finds there.
Descends(at, X, l, bits) ==
  /\ DOMAIN at.siblings = 0 .. bits - 1
  /\ \A d \in 0 .. bits - 1 : at.siblings[d] = Beside(X, l, d)
  /\ Lists(collect(at.node), Sharing(X, l, bits))

LEMMA DescendIs ==
  ASSUME NEW X, Cluster(X, 0), NEW l \in Bits, NEW bits \in 0 .. DEPTH,
         NEW at, at = descend(NodeOf(X, 0), l, bits)
  PROVE  Descends(at, X, l, bits)
<1>1. PICK way : way = Way(NodeOf(X, 0), l)
  OBVIOUS
<1>2. PICK foot : foot = Foot(way)
  OBVIOUS
<1>3. EndsAt(X, l, foot)
  BY <1>1, <1>2, FootIs
<1>4. foot \in 0 .. DEPTH /\ foot \in Nat /\ Few(Sharing(X, l, foot)) /\ bits \in Nat
  BY <1>3, DepthIs DEF EndsAt
<1>5. PICK end : end = way[foot]
  OBVIOUS
<1>6. PICK in \in BOOLEAN : in <=> (end = Null \/ hasPrefix(end.leaf.label, l, bits))
  OBVIOUS
<1>7. PICK part : part = Part(l, end.leaf.label, foot)
  OBVIOUS
<1>8. PICK siblings : siblings = [d \in 0 .. bits - 1 |->
        IF d < foot THEN HashOf(Far(way[d], l, d), d + 1)
        ELSE IF ~in /\ d = part THEN chainHash(end.leaf, d + 1) ELSE EMPTY[d + 1]]
  OBVIOUS
<1>9. PICK node : node = IF bits <= foot THEN way[bits] ELSE IF in THEN end ELSE Null
  OBVIOUS
<1>10. at.siblings = siblings /\ at.node = node
  <2>1. at = [siblings |-> siblings, node |-> node]
    BY <1>1, <1>2, <1>5, <1>6, <1>7, <1>8, <1>9 DEF descend
  <2> QED
    BY <2>1
<1>11. PICK Y : Y = Sharing(X, l, foot)
  OBVIOUS
<1>12. Cluster(Y, foot) /\ Few(Y)
  BY <1>4, <1>11, SharingIs
<1>13. end = NodeOf(Y, foot)
  BY <1>1, <1>3, <1>4, <1>5, <1>11, WayGoes DEF EndsAt
<1>14. EndOfOne(end, Y)
  BY <1>4, <1>12, <1>13, EndIs
<1>15. Y \in SUBSET MapLeaves
  BY <1>12 DEF Cluster
<1>16. ASSUME NEW d \in 0 .. bits - 1 PROVE siblings[d] = Beside(X, l, d)
  <2>1. d \in 0 .. DEPTH - 1 /\ d \in Nat
    BY DepthIs
  <2>2. CASE d < foot
    <3>1. d \in 0 .. foot - 1
      BY <1>4, <2>1, <2>2
    <3>2. PICK n : n = Far(way[d], l, d)
      OBVIOUS
    <3>3. HashOf(n, d + 1) = Beside(X, l, d)
      BY <1>1, <1>3, <3>1, <3>2, BesideAbove
    <3> QED
      BY <1>8, <2>2, <3>2, <3>3
  <2>3. CASE ~(d < foot)
    <3>1. d \in foot .. DEPTH - 1
      BY <1>4, <2>1, <2>3, DepthIs
    <3>2. siblings[d] = IF ~in /\ d = part THEN chainHash(end.leaf, d + 1) ELSE EMPTY[d + 1]
      BY <1>8, <2>3
    <3>3. CASE Y = {}
      <4>1. in
        BY <1>6, <1>14, <3>3 DEF EndOfOne
      <4>2. Beside(X, l, d) = EMPTY[d + 1]
        <5>1. AtMostOwn(Sharing(X, l, foot), l)
          BY <1>11, <3>3 DEF AtMostOwn
        <5> QED
          BY <1>4, <3>1, <5>1, BesideNone, Zenon
      <4> QED
        BY <3>2, <4>1, <4>2
    <3>4. CASE \E x \in Y : Y = {x}
      <4>1. PICK x \in Y : Y = {x}
        BY <3>4
      <4>2. end # Null /\ end.leaf = x /\ x \in MapLeaves
        BY <1>12, <1>14, <1>15, <4>1 DEF EndOfOne
      <4>3. CASE x.label = l
        <5>1. in
          BY <1>6, <4>2, <4>3 DEF hasPrefix
        <5>2. Beside(X, l, d) = EMPTY[d + 1]
          <6>1. AtMostOwn(Sharing(X, l, foot), l)
            BY <1>11, <4>1, <4>2, <4>3 DEF AtMostOwn
          <6> QED
            BY <1>4, <3>1, <6>1, BesideNone, Zenon
        <5> QED
          BY <3>2, <5>1, <5>2
      <4>4. CASE x.label # l
        <5>1. ChainAt(Beside(X, l, d), x, d, part)
          BY <1>4, <1>7, <1>11, <3>1, <4>1, <4>2, <4>4, BesideOne
        <5>2. CASE ~in
          BY <3>2, <4>2, <5>1, <5>2 DEF ChainAt
        <5>3. CASE in
          <6>1. hasPrefix(x.label, l, bits)
            BY <1>6, <4>2, <5>3
          <6>2. hasPrefix(l, x.label, foot) /\ x.label \in Bits
            BY <1>11, <4>1, <4>2 DEF Sharing, hasPrefix, MapLeaves
          <6>3. PartsAt(l, x.label, foot, part)
            BY <1>4, <1>7, <4>2, <4>4, <6>2, PartIs
          <6>4. d # part
            BY <6>1, <6>3 DEF hasPrefix, PartsAt
          <6> QED
            BY <3>2, <5>1, <6>4 DEF ChainAt
        <5> QED
          BY <5>2, <5>3
      <4> QED
        BY <4>3, <4>4
    <3> QED
      BY <1>12, <3>3, <3>4, FewIs
  <2> QED
    BY <2>2, <2>3
<1>17. Lists(collect(node), Sharing(X, l, bits))
  <2>1. CASE bits <= foot
    <3>1. \A d \in 0 .. bits - 1 : ~Few(Sharing(X, l, d))
      BY <1>3, <1>4, <2>1 DEF EndsAt
    <3>2. node = NodeOf(Sharing(X, l, bits), bits)
      BY <1>1, <1>9, <2>1, <3>1, WayGoes
    <3> QED
      BY <1>4, <3>2, SharingIs, CollectIs
  <2>2. CASE ~(bits <= foot)
    <3>1. Sharing(X, l, bits) = {x \in Y : hasPrefix(x.label, l, bits)}
      BY <1>4, <1>11, <2>2, SharingFewer
    <3>2. node = IF in THEN end ELSE Null
      BY <1>9, <2>2
    <3>3. Lists(collect(end), Y)
      BY <1>4, <1>12, <1>13, CollectIs
    <3>4. CASE Y = {}
      <4>1. in
        BY <1>6, <1>14, <3>4 DEF EndOfOne
      <4> QED
        BY <3>1, <3>2, <3>3, <3>4, <4>1
    <3>5. CASE \E x \in Y : Y = {x}
      <4>1. PICK x \in Y : Y = {x}
        BY <3>5
      <4>2. end # Null /\ end.leaf = x
        BY <1>12, <1>14, <4>1 DEF EndOfOne
      <4>3. in <=> hasPrefix(x.label, l, bits)
        BY <1>6, <4>2
      <4>4. CASE in
        <5>1. Sharing(X, l, bits) = Y
          BY <3>1, <4>1, <4>3, <4>4
        <5> QED
          BY <3>2, <3>3, <4>4, <5>1
      <4>5. CASE ~in
        <5>1. Sharing(X, l, bits) = {}
          BY <3>1, <4>1, <4>3, <4>5
        <5>2. Cluster({}, foot) /\ NodeOf({}, foot) = Null
          BY <1>4, NodeNone DEF Cluster
        <5>3. Lists(collect(Null), {})
          BY <1>4, <5>2, CollectIs
        <5> QED
          BY <3>2, <4>5, <5>1, <5>3
      <4> QED
        BY <4>4, <4>5
    <3> QED
      BY <1>12, <3>4, <3>5, FewIs
  <2> QED
    BY <2>1, <2>2
<1> QED
  BY <1>8, <1>10, <1>16, <1>17 DEF Descends

LEMMA BelowOn ==
  ASSUME NEW a, NEW b, NEW c, Below(a, b), Below(b, c), a \in Bits, b \in Bits, c \in Bits
  PROVE  Below(a, c)
<1>1. PICK d \in 0 .. DEPTH - 1 : bit(a, d) < bit(b, d) /\ \A f \in 0 .. d - 1 : bit(a, f) = bit(b, f)
  BY DEF Below
<1>2. PICK e \in 0 .. DEPTH - 1 : bit(b, e) < bit(c, e) /\ \A f \in 0 .. e - 1 : bit(b, f) = bit(c, f)
  BY DEF Below
<1>3. bit(a, d) \in {0, 1} /\ bit(b, d) \in {0, 1} /\ bit(b, e) \in {0, 1} /\ bit(c, e) \in {0, 1}
  BY BitIs
<1>4. d # e
  BY <1>1, <1>2, <1>3
<1>5. CASE d < e
  <2>1. bit(b, d) = bit(c, d)
    BY <1>2, <1>5
  <2>2. \A f \in 0 .. d - 1 : bit(a, f) = bit(c, f)
    BY <1>1, <1>2, <1>5
  <2> QED
    BY <1>1, <2>1, <2>2 DEF Below
<1>6. CASE e < d
  <2>1. bit(a, e) = bit(b, e)
    BY <1>1, <1>6
  <2>2. \A f \in 0 .. e - 1 : bit(a, f) = bit(c, f)
    BY <1>1, <1>2, <1>6
  <2> QED
    BY <1>2, <2>1, <2>2 DEF Below
<1> QED
  BY <1>4, <1>5, <1>6

\* Leaves of which each is below the next are in order.
LEMMA NextBelow ==
  ASSUME NEW s \in Seq(MapLeaves), \A i \in 1 .. Len(s) - 1 : Below(s[i].label, s[i + 1].label)
  PROVE  Lists(s, {s[i] : i \in 1 .. Len(s)})
<1>1. PICK n \in Nat : n = Len(s)
  OBVIOUS
<1>2. ASSUME NEW i \in 1 .. n PROVE s[i].label \in Bits
  <2>1. i \in 1 .. Len(s)
    BY <1>1
  <2>2. s[i] \in MapLeaves
    BY <2>1, ElementOfSeq
  <2> QED
    BY <2>2 DEF MapLeaves
<1>3. ASSUME NEW i \in 1 .. n PROVE \A j \in 1 .. n : i < j => Below(s[i].label, s[j].label)
  <2> DEFINE F == {k \in Nat : i + k + 1 <= n => Below(s[i].label, s[i + k + 1].label)}
  <2>1. 0 \in F
    <3>1. SUFFICES ASSUME i + 0 + 1 <= n PROVE Below(s[i].label, s[i + 0 + 1].label)
      OBVIOUS
    <3>2. i \in 1 .. Len(s) - 1 /\ i + 0 + 1 = i + 1
      BY <1>1, <3>1
    <3> QED
      BY <3>2
  <2>2. ASSUME NEW k \in Nat, k \in F PROVE k + 1 \in F
    <3>1. SUFFICES ASSUME i + (k + 1) + 1 <= n PROVE Below(s[i].label, s[i + (k + 1) + 1].label)
      OBVIOUS
    <3>2. PICK j \in 1 .. n - 1 : j = i + k + 1 /\ i + (k + 1) + 1 = j + 1 /\ i + k + 1 <= n
      BY <3>1
    <3>3. Below(s[i].label, s[j].label)
      BY <2>2, <3>2
    <3>4. Below(s[j].label, s[j + 1].label)
      BY <1>1, <3>2
    <3>5. j \in 1 .. n /\ j + 1 \in 1 .. n
      OBVIOUS
    <3>6. Below(s[i].label, s[j + 1].label)
      BY <1>2, <3>3, <3>4, <3>5, BelowOn
    <3> QED
      BY <3>2, <3>6
  <2> HIDE DEF F
  <2>3. \A k \in Nat : k \in F
    BY <2>1, <2>2, BySteps
  <2>4. ASSUME NEW j \in 1 .. n, i < j PROVE Below(s[i].label, s[j].label)
    <3>1. PICK k \in Nat : j = i + k + 1
      <4>1. j - i - 1 \in Nat /\ j = i + (j - i - 1) + 1
        BY <2>4
      <4> QED
        BY <4>1
    <3>2. i + k + 1 <= n
      BY <3>1
    <3>3. k \in F
      BY <2>3
    <3>4. Below(s[i].label, s[i + k + 1].label)
      BY <3>2, <3>3, Zenon DEF F
    <3> QED
      BY <3>1, <3>4, Zenon
  <2> QED
    BY <2>4
<1> QED
  BY <1>1, <1>3 DEF Lists

\* No list verifies against the root of some leaves, as those under a prefix,
\* but the list of them all in label order: none can be left out, added or
\* changed, whatever siblings come with it (verifyBucket).
THEOREM BucketTells ==
  ASSUME NEW X, Cluster(X, 0), NEW l \in Bits, NEW bits \in 0 .. DEPTH,
         NEW leaves \in Seq(MapLeaves), NEW siblings, verifyBucket(HashAt(X, 0), l, bits, leaves, siblings)
  PROVE  Lists(leaves, Sharing(X, l, bits))
<1>1. PICK Z : Z = {leaves[i] : i \in 1 .. Len(leaves)}
  OBVIOUS
<1>2. DOMAIN leaves = 1 .. Len(leaves)
  OBVIOUS
<1>3. \A i \in 1 .. Len(leaves) : hasPrefix(leaves[i].label, l, bits)
  BY <1>2 DEF verifyBucket
<1>4. Lists(leaves, Z)
  BY <1>1, NextBelow DEF verifyBucket
<1>5. Cluster(Z, bits)
  <2>1. Z \in SUBSET MapLeaves
    BY <1>1, ElementOfSeq
  <2>2. ASSUME NEW a \in Z, NEW b \in Z, a.label = b.label PROVE a = b
    <3>1. PICK i \in 1 .. Len(leaves), j \in 1 .. Len(leaves) : a = leaves[i] /\ b = leaves[j]
      BY <1>1
    <3>2. i \in Int /\ j \in Int
      OBVIOUS
    <3>3. ~(i < j)
      BY <1>4, <2>2, <3>1, ListsOnce
    <3>4. ~(j < i)
      BY <1>4, <2>2, <3>1, ListsOnce
    <3>5. i = j
      BY <3>2, <3>3, <3>4
    <3> QED
      BY <3>1, <3>5
  <2>3. \A a, b \in Z : hasPrefix(a.label, b.label, bits)
    BY <1>1, <1>3 DEF hasPrefix
  <2> QED
    BY <2>1, <2>2, <2>3 DEF Cluster
<1>6. bucketRoot(leaves, bits) = HashAt(Z, bits)
  BY <1>4, <1>5, RootIs
<1>7. PICK g : g = HashAt(Z, bits)
  OBVIOUS
<1>8. Folded(l, bits, g, siblings)[0] = HashAt(X, 0)
  BY <1>6, <1>7 DEF verifyBucket
<1>9. g = HashAt(Sharing(X, l, bits), bits)
  BY <1>8, ProofFrom
<1>10. Cluster(Sharing(X, l, bits), bits)
  BY SharingIs, DepthIs
<1>11. Z = Sharing(X, l, bits)
  BY <1>5, <1>7, <1>9, <1>10, HashesSame
<1> QED
  BY <1>4, <1>11

\* The list of all verifies, with what is beside the way to it.
LEMMA BucketShows ==
  ASSUME NEW X, Cluster(X, 0), NEW l \in Bits, NEW bits \in 0 .. DEPTH,
         NEW leaves, Lists(leaves, Sharing(X, l, bits)), NEW siblings, DOMAIN siblings = 0 .. bits - 1,
         \A d \in 0 .. bits - 1 : siblings[d] = Beside(X, l, d)
  PROVE  verifyBucket(HashAt(X, 0), l, bits, leaves, siblings)
<1>1. Cluster(Sharing(X, l, bits), bits)
  BY SharingIs, DepthIs
<1>2. PICK h : h = HashAt(Sharing(X, l, bits), bits)
  OBVIOUS
<1>3. bucketRoot(leaves, bits) = h
  BY <1>1, <1>2, RootIs
<1>4. Folded(l, bits, h, siblings)[0] = HashAt(X, 0)
  BY <1>2, FoldsTo
<1>5. leaves \in Seq(MapLeaves)
  BY DEF Lists
<1>6. \A i \in DOMAIN leaves : hasPrefix(leaves[i].label, l, bits)
  <2>1. DOMAIN leaves = 1 .. Len(leaves)
    BY <1>5
  <2>2. \A i \in 1 .. Len(leaves) : leaves[i] \in Sharing(X, l, bits)
    BY DEF Lists
  <2> QED
    BY <2>1, <2>2 DEF Sharing
<1>7. \A i \in 1 .. Len(leaves) - 1 : Below(leaves[i].label, leaves[i + 1].label)
  <2>1. Len(leaves) \in Nat
    BY <1>5
  <2>2. \A i \in 1 .. Len(leaves) - 1 : i \in 1 .. Len(leaves) /\ i + 1 \in 1 .. Len(leaves) /\ i < i + 1
    BY <2>1
  <2> QED
    BY <2>2 DEF Lists
<1> QED
  BY <1>3, <1>4, <1>6, <1>7 DEF verifyBucket

-----------------------------------------------------------------------------
\* The tree of MapTrue's definition is the full tree.
LEMMA TreeIs ==
  ASSUME NEW all \in SUBSET MapLeaves
  PROVE  TreeOf(all) = HashAt(all, 0)
<1>1. PICK t : t = CHOOSE u : IsHashes(u, 0, all)
  OBVIOUS
<1>2. IsHashes(t, 0, all)
  BY <1>1, HashesExists, DepthIs, Zenon
<1>3. TreeOf(all) = t[0][all]
  BY <1>1 DEF TreeOf, IsHashes, HashesBody, Half
<1> DEFINE Told(d) == \A Y \in SUBSET all : t[d][Y] = HashAt(Y, d)
           F == {h \in Nat : h <= DEPTH => Told(DEPTH - h)}
<1>4. \A d \in 0 .. DEPTH : t[d] = HashesBody(t, d, all)
  BY <1>2 DEF IsHashes
<1>5. 0 \in F
  <2>1. DEPTH - 0 = DEPTH /\ DEPTH \in 0 .. DEPTH
    BY DepthIs
  <2>2. PICK u : IsHashes(u, 0, MapLeaves) /\ \A e \in 0 .. DEPTH : \A Z \in SUBSET MapLeaves : HashAt(Z, e) = u[e][Z]
    BY HashIs
  <2>3. t[DEPTH] = HashesBody(t, DEPTH, all) /\ u[DEPTH] = HashesBody(u, DEPTH, MapLeaves)
    BY <1>4, <2>1, <2>2 DEF IsHashes
  <2>4. \A Y \in SUBSET all : Y \in SUBSET MapLeaves
    OBVIOUS
  <2>5. \A Y \in SUBSET all : t[DEPTH][Y] = IF Y = {} THEN EMPTY[DEPTH] ELSE mapLeafHash(CHOOSE l \in Y : TRUE)
    BY <2>3 DEF HashesBody
  <2>6. \A Y \in SUBSET all : u[DEPTH][Y] = IF Y = {} THEN EMPTY[DEPTH] ELSE mapLeafHash(CHOOSE l \in Y : TRUE)
    BY <2>3, <2>4 DEF HashesBody
  <2>7. \A Y \in SUBSET all : t[DEPTH][Y] = u[DEPTH][Y]
    BY <2>5, <2>6
  <2> QED
    BY <2>1, <2>2, <2>4, <2>7
<1>6. ASSUME NEW h \in Nat, h \in F PROVE h + 1 \in F
  <2>1. SUFFICES ASSUME h + 1 <= DEPTH PROVE Told(DEPTH - (h + 1))
    OBVIOUS
  <2>2. PICK d \in 0 .. DEPTH - 1 : d = DEPTH - (h + 1) /\ DEPTH - h = d + 1
    BY <2>1, DepthIs
  <2>3. Told(d + 1)
    BY <1>6, <2>1, <2>2, DepthIs
  <2>4. SUFFICES ASSUME NEW Y \in SUBSET all PROVE t[d][Y] = HashAt(Y, d)
    BY <2>2
  <2>5. d \in 0 .. DEPTH /\ d # DEPTH /\ Y \in SUBSET MapLeaves
    BY DepthIs
  <2>6. t[d] = HashesBody(t, d, all)
    BY <1>4, <2>5
  <2>7. CASE Y = {}
    <3>1. t[d][Y] = EMPTY[d]
      BY <2>6, <2>7 DEF HashesBody
    <3> QED
      BY <2>5, <2>7, <3>1, HashNone
  <2>8. CASE Y # {}
    <3>1. t[d][Y] = mapNodeHash(t[d + 1][Half(Y, d, 0)], t[d + 1][Half(Y, d, 1)])
      BY <2>5, <2>6, <2>8 DEF HashesBody
    <3>2. Half(Y, d, 0) \in SUBSET all /\ Half(Y, d, 1) \in SUBSET all
      BY DEF Half
    <3>3. HashAt(Y, d) = mapNodeHash(HashAt(Half(Y, d, 0), d + 1), HashAt(Half(Y, d, 1), d + 1))
      BY <2>5, HashHalves
    <3> QED
      BY <2>3, <3>1, <3>2, <3>3
  <2> QED
    BY <2>7, <2>8
<1> HIDE DEF F
<1>7. DEPTH \in F
  BY <1>5, <1>6, BySteps, DepthIs
<1>8. DEPTH <= DEPTH /\ DEPTH - DEPTH = 0
  BY DepthIs
<1>9. Told(0)
  BY <1>7, <1>8 DEF F
<1> QED
  BY <1>3, <1>9

-----------------------------------------------------------------------------
\* The leaves of the map are the latest versions, and its tree is theirs.
Newest == {MapLeaf(l) : l \in {l \in Labels : values[l] # Null}}

NewestOf(l) ==
  IF byLabel[l] = <<>> THEN values[l] = Null
  ELSE values[l] = [index |-> byLabel[l][Len(byLabel[l])] - 1, version |-> Len(byLabel[l])]

Mapped == root = NodeOf(Newest, 0) /\ \A l \in Labels : NewestOf(l)

MapInv == ServeInv /\ Mapped

LEMMA LeafIs ==
  ASSUME ServeTypeOK, NEW l \in Labels, values[l] # Null
  PROVE  MapLeaf(l) \in MapLeaves /\ MapLeaf(l).label = l
<1>1. values[l] \in [index : Nat, version : Nat]
  BY DEF ServeTypeOK
<1>2. l \in Bits
  BY ServeAssumption DEF ServeAssumption, Bits
<1> QED
  BY <1>1, <1>2 DEF MapLeaf, MapLeaves

LEMMA NewestIs ==
  ASSUME ServeTypeOK
  PROVE  Cluster(Newest, 0)
<1>1. Newest \in SUBSET MapLeaves
  BY LeafIs DEF Newest
<1>2. ASSUME NEW a \in Newest, NEW b \in Newest, a.label = b.label PROVE a = b
  <2>1. PICK l \in Labels : values[l] # Null /\ a = MapLeaf(l)
    BY DEF Newest
  <2>2. PICK k \in Labels : values[k] # Null /\ b = MapLeaf(k)
    BY DEF Newest
  <2>3. a.label = l /\ b.label = k
    BY <2>1, <2>2, LeafIs
  <2> QED
    BY <1>2, <2>1, <2>2, <2>3
<1>3. \A a, b \in Newest : hasPrefix(a.label, b.label, 0)
  <2>1. 0 .. 0 - 1 = {}
    OBVIOUS
  <2> QED
    BY <2>1 DEF hasPrefix
<1> QED
  BY <1>1, <1>2, <1>3 DEF Cluster

LEMMA MapStarted ==
  ASSUME ServeInit, ServeTypeOK
  PROVE  Mapped
<1>1. \A l \in Labels : values[l] = Null /\ byLabel[l] = <<>>
  BY DEF ServeInit
<1>2. Newest = {}
  BY <1>1 DEF Newest
<1>3. 0 \in 0 .. DEPTH
  BY DepthIs
<1>4. NodeOf({}, 0) = Null
  BY <1>3, NodeNone
<1> QED
  BY <1>1, <1>2, <1>4 DEF Mapped, NewestOf, ServeInit

\* A publish puts the label's next version in the place of its last.
LEMMA MapOn ==
  ASSUME MapInv, ServeTypeOK', NEW l \in Labels, ApplyNext(l)
  PROVE  Mapped'
<1>1. PICK n \in Nat, v \in Nat : n = Len(entries) /\ v = Len(byLabel[l])
  <2>1. byLabel[l] \in Seq(Nat) /\ Len(entries) \in Nat
    BY DEF MapInv, ServeInv, ServeTypeOK
  <2> QED
    BY <2>1
<1>2. PICK e : e = NextOf(l)
  OBVIOUS
<1>3. e = [label |-> l, index |-> n, version |-> v + 1]
  BY <1>1, <1>2 DEF NextOf
<1>4. l \in Bits /\ e \in MapLeaves /\ e.label = l
  BY <1>3, ServeAssumption DEF ServeAssumption, Bits, MapLeaves
<1>5. root' = insert(root, e)
  BY <1>2 DEF ApplyNext
<1>6. root' = NodeOf(Put(Newest, e), 0)
  BY <1>4, <1>5, NewestIs, InsertIs DEF MapInv, ServeInv, Mapped
<1>7. values' = [values EXCEPT ![l] = [index |-> n, version |-> v + 1]]
  BY <1>2, <1>3 DEF ApplyNext
<1>8. values'[l] = [index |-> n, version |-> v + 1] /\ \A k \in Labels : k # l => values'[k] = values[k]
  BY <1>7 DEF MapInv, ServeInv, ServeTypeOK
<1>9. \A k \in Labels : k # l => MapLeaf(k)' = MapLeaf(k)
  BY <1>8 DEF MapLeaf
<1>10. MapLeaf(l)' = e /\ values'[l] # Null
  BY <1>3, <1>8 DEF MapLeaf, Null
<1>11. Newest' = Put(Newest, e)
  <2>1. ASSUME NEW x, x \in Newest' PROVE x \in Put(Newest, e)
    <3>1. PICK k \in Labels : values'[k] # Null /\ x = MapLeaf(k)'
      BY <2>1 DEF Newest
    <3>2. CASE k = l
      BY <1>10, <3>1, <3>2 DEF Put
    <3>3. CASE k # l
      <4>1. values[k] # Null /\ x = MapLeaf(k)
        BY <1>8, <1>9, <3>1, <3>3
      <4>2. x \in Newest /\ x.label = k
        BY <4>1, LeafIs DEF Newest, MapInv, ServeInv
      <4> QED
        BY <1>4, <3>3, <4>2 DEF Put
    <3> QED
      BY <3>2, <3>3
  <2>2. ASSUME NEW x, x \in Put(Newest, e) PROVE x \in Newest'
    <3>1. CASE x = e
      BY <1>10, <3>1 DEF Newest
    <3>2. CASE x \in Newest /\ x.label # l
      <4>1. PICK k \in Labels : values[k] # Null /\ x = MapLeaf(k)
        BY <3>2 DEF Newest
      <4>2. k # l
        BY <3>2, <4>1, LeafIs DEF MapInv, ServeInv
      <4>3. values'[k] # Null /\ x = MapLeaf(k)'
        BY <1>8, <1>9, <4>1, <4>2
      <4> QED
        BY <4>3 DEF Newest
    <3> QED
      BY <1>4, <2>2, <3>1, <3>2 DEF Put
  <2> QED
    BY <2>1, <2>2
<1>12. ASSUME NEW k \in Labels PROVE NewestOf(k)'
  <2>1. byLabel' = [byLabel EXCEPT ![l] = Append(byLabel[l], n + 1)]
    BY <1>1 DEF ApplyNext
  <2>2. CASE k # l
    <3>1. byLabel'[k] = byLabel[k] /\ values'[k] = values[k]
      BY <1>8, <2>1, <2>2 DEF MapInv, ServeInv, ServeTypeOK
    <3>2. NewestOf(k)
      BY DEF MapInv, Mapped
    <3> QED
      BY <3>1, <3>2 DEF NewestOf
  <2>3. CASE k = l
    <3>1. byLabel[l] \in Seq(Nat) /\ byLabel'[l] = Append(byLabel[l], n + 1)
      BY <2>1 DEF MapInv, ServeInv, ServeTypeOK
    <3>2. Len(byLabel'[l]) = v + 1 /\ byLabel'[l][v + 1] = n + 1 /\ byLabel'[l] # <<>>
      <4>1. PICK s \in Seq(Nat) : s = byLabel[l]
        BY <3>1
      <4>2. PICK x \in Nat : x = n + 1
        OBVIOUS
      <4>3. Len(s) = v
        BY <1>1, <4>1
      <4>4. Len(Append(s, x)) = v + 1 /\ Append(s, x)[v + 1] = x /\ Append(s, x) # <<>>
        BY <4>3
      <4>5. byLabel'[l] = Append(s, x)
        BY <3>1, <4>1, <4>2
      <4> QED
        BY <4>2, <4>4, <4>5
    <3>3. (n + 1) - 1 = n
      OBVIOUS
    <3> QED
      BY <1>8, <2>3, <3>2, <3>3 DEF NewestOf
  <2> QED
    BY <2>2, <2>3
<1> QED
  BY <1>6, <1>11, <1>12 DEF Mapped

LEMMA MapStays ==
  ASSUME Mapped, UNCHANGED <<entries, byLabel, values, root>>
  PROVE  Mapped'
<1>1. Newest' = Newest
  BY DEF Newest, MapLeaf
<1>2. \A l \in Labels : NewestOf(l)' <=> NewestOf(l)
  BY DEF NewestOf
<1> QED
  BY <1>1, <1>2 DEF Mapped

\* Whatever is published in whatever order, the tree is the compact tree of the
\* labels' latest entries, and the table has these (SparseMerkleMap.set).
THEOREM MapIsKept == ServeSpec => []MapInv
<1>1. ServeInit => MapInv
  BY Started, MapStarted, ServeAssumption DEF MapInv, ServeInv
<1>2. MapInv /\ [ServeNext]_serveVars => MapInv'
  <2>1. SUFFICES ASSUME MapInv, [ServeNext]_serveVars PROVE MapInv'
    OBVIOUS
  <2>2. ServeInv'
    BY <2>1, Kept, ServeAssumption DEF MapInv
  <2>3. ASSUME NEW l \in Labels, ApplyNext(l) PROVE Mapped'
    BY <2>1, <2>2, <2>3, MapOn DEF ServeInv
  <2>4. ASSUME NEW l \in Labels, Walk(l) PROVE Mapped'
    BY <2>1, <2>4, MapStays DEF Walk, MapInv
  <2>5. ASSUME Done PROVE Mapped'
    BY <2>1, <2>5, MapStays DEF Done, MapInv
  <2>6. ASSUME UNCHANGED serveVars PROVE Mapped'
    BY <2>1, <2>6, MapStays DEF serveVars, MapInv
  <2>7. Mapped'
    BY <2>1, <2>3, <2>4, <2>5, <2>6 DEF ServeNext
  <2> QED
    BY <2>2, <2>7 DEF MapInv
<1> QED
  BY <1>1, <1>2, PTL DEF ServeSpec

-----------------------------------------------------------------------------
\* The latest entry of a label.
LEMMA LastOf ==
  ASSUME MapInv, NEW l \in Labels
  PROVE  /\ values[l] = Null <=> Indexes(l) = {}
         /\ values[l] # Null =>
              /\ values[l].index \in Nat /\ values[l].index + 1 \in Indexes(l)
              /\ entries[values[l].index + 1].version = values[l].version
              /\ \A i \in Indexes(l) : i <= values[l].index + 1
<1>1. PICK n \in Nat, v \in Nat : n = Len(entries) /\ v = Len(byLabel[l]) /\ DOMAIN entries = 1 .. n
  <2>1. byLabel[l] \in Seq(Nat) /\ entries \in Seq([label : Labels, version : Nat])
    BY DEF MapInv, ServeInv, ServeTypeOK
  <2> QED
    BY <2>1
<1>2. byLabel[l] \in Seq(Nat)
  BY DEF MapInv, ServeInv, ServeTypeOK
<1>3. \A i \in 1 .. v : byLabel[l][i] \in 1 .. n /\ entries[byLabel[l][i]] = [label |-> l, version |-> i]
  BY <1>1 DEF MapInv, ServeInv, Listed
<1>4. \A i \in Indexes(l) : entries[i].version \in 1 .. v /\ byLabel[l][entries[i].version] = i
  <2>1. TAKE i \in Indexes(l)
  <2>2. i \in 1 .. n /\ entries[i].label = l
    BY <1>1 DEF Indexes
  <2> QED
    BY <1>1, <2>2 DEF MapInv, ServeInv, Listed
<1>5. NewestOf(l)
  BY DEF MapInv, Mapped
<1>6. CASE v = 0
  <2>1. byLabel[l] = <<>>
    <3>1. PICK s \in Seq(Nat) : s = byLabel[l]
      BY <1>2
    <3>2. Len(s) = 0
      BY <1>1, <1>6, <3>1
    <3>3. s = <<>>
      BY <3>2
    <3> QED
      BY <3>1, <3>3
  <2>2. Indexes(l) = {}
    BY <1>4, <1>6
  <2> QED
    BY <1>5, <2>1, <2>2 DEF NewestOf
<1>7. CASE v # 0
  <2>1. byLabel[l] # <<>>
    BY <1>1, <1>2, <1>7
  <2>2. values[l] = [index |-> byLabel[l][v] - 1, version |-> v]
    BY <1>1, <1>5, <2>1 DEF NewestOf
  <2>3. PICK p \in 1 .. n : p = byLabel[l][v] /\ entries[p] = [label |-> l, version |-> v]
    BY <1>3, <1>7
  <2>4. p \in Indexes(l)
    BY <1>1, <2>3 DEF Indexes
  <2>5. \A i \in Indexes(l) : i <= p
    <3>1. TAKE i \in Indexes(l)
    <3>2. PICK j \in 1 .. v : byLabel[l][j] = i
      BY <1>4
    <3>3. CASE j = v
      BY <1>1, <2>3, <3>2, <3>3
    <3>4. CASE j < v
      <4>1. v \in 1 .. v
        BY <1>7
      <4>2. byLabel[l][j] < byLabel[l][v]
        BY <1>1, <3>4, <4>1 DEF MapInv, ServeInv, Listed
      <4>3. byLabel[l][j] \in 1 .. n
        BY <1>3
      <4> QED
        BY <2>3, <3>2, <4>2, <4>3
    <3> QED
      BY <3>3, <3>4
  <2>6. values[l].index = p - 1 /\ values[l].version = v /\ values[l] # Null
    BY <2>2, <2>3 DEF Null
  <2>7. p - 1 \in Nat /\ (p - 1) + 1 = p
    OBVIOUS
  <2>8. entries[p].version = v
    BY <2>3
  <2> QED
    BY <2>4, <2>5, <2>6, <2>7, <2>8
<1> QED
  BY <1>6, <1>7

\* What there is of a label at the end of its way.
LEMMA PlaceIs ==
  ASSUME ServeTypeOK, NEW l \in Labels
  PROVE  Sharing(Newest, l, DEPTH) = IF values[l] = Null THEN {} ELSE {MapLeaf(l)}
<1>1. \A k \in Labels : k \in Bits
  BY ServeAssumption DEF ServeAssumption, Bits
<1>2. \A k \in Labels : hasPrefix(k, l, DEPTH) => k = l
  BY <1>1, SameBits
<1>3. hasPrefix(l, l, DEPTH)
  BY DEF hasPrefix
<1>4. ASSUME NEW x, x \in Sharing(Newest, l, DEPTH) PROVE values[l] # Null /\ x = MapLeaf(l)
  <2>1. PICK k \in Labels : values[k] # Null /\ x = MapLeaf(k) /\ hasPrefix(x.label, l, DEPTH)
    BY <1>4 DEF Sharing, Newest
  <2>2. k = l
    BY <1>2, <2>1, LeafIs
  <2> QED
    BY <2>1, <2>2
<1>5. values[l] # Null => MapLeaf(l) \in Sharing(Newest, l, DEPTH)
  <2>1. SUFFICES ASSUME values[l] # Null PROVE MapLeaf(l) \in Sharing(Newest, l, DEPTH)
    OBVIOUS
  <2>2. MapLeaf(l) \in Newest /\ MapLeaf(l).label = l
    BY <2>1, LeafIs DEF Newest
  <2> QED
    BY <1>3, <2>2 DEF Sharing
<1> QED
  BY <1>4, <1>5

\* The i-th entry, as a leaf of the map, and whether it is its label's last.
VersionOf(i) == [label |-> entries[i].label, index |-> i - 1, version |-> entries[i].version]
IsLast(i) == \A j \in DOMAIN entries : entries[j].label = entries[i].label => j <= i

LEMMA VersionIs ==
  ASSUME MapInv, NEW l \in Labels, NEW i \in Indexes(l)
  PROVE  /\ values[l] # Null /\ VersionOf(i) \in MapLeaves /\ VersionOf(i).label = l
         /\ IsLast(i) <=> VersionOf(i) = MapLeaf(l)
         /\ IsLast(i) <=> i = values[l].index + 1
<1>1. entries \in Seq([label : Labels, version : Nat])
  BY DEF MapInv, ServeInv, ServeTypeOK
<1>2. i \in DOMAIN entries /\ i \in Nat /\ i >= 1 /\ entries[i] \in [label : Labels, version : Nat] /\ entries[i].label = l
  <2>1. i \in DOMAIN entries /\ entries[i].label = l
    BY DEF Indexes
  <2>2. i \in 1 .. Len(entries)
    BY <1>1, <2>1
  <2>3. entries[i] \in [label : Labels, version : Nat]
    BY <1>1, <2>2, ElementOfSeq
  <2>4. i \in Nat /\ i >= 1
    BY <1>1, <2>2
  <2> QED
    BY <2>1, <2>3, <2>4
<1>3. l \in Bits
  BY ServeAssumption DEF ServeAssumption, Bits
<1>4. VersionOf(i) \in MapLeaves /\ VersionOf(i).label = l /\ VersionOf(i).index = i - 1
  <2>1. i - 1 \in Nat
    BY <1>2
  <2> QED
    BY <1>2, <1>3, <2>1 DEF VersionOf, MapLeaves
<1>5. values[l] # Null
  BY LastOf
<1>6. PICK p : p = values[l].index + 1 /\ p \in Indexes(l) /\ p \in Nat /\ entries[p].version = values[l].version
  BY <1>5, LastOf
<1>7. \A j \in Indexes(l) : j <= p
  BY <1>5, <1>6, LastOf
<1>8. IsLast(i) <=> i = p
  <2>1. ASSUME IsLast(i) PROVE i = p
    <3>1. p <= i
      BY <1>2, <1>6, <2>1 DEF IsLast, Indexes
    <3>2. i <= p
      BY <1>7
    <3> QED
      BY <1>2, <1>6, <3>1, <3>2
  <2>2. ASSUME i = p PROVE IsLast(i)
    BY <1>2, <1>7, <2>2 DEF IsLast, Indexes
  <2> QED
    BY <2>1, <2>2
<1>9. values[l].index \in Nat /\ values[l].index = p - 1
  BY <1>5, <1>6, LastOf
<1>10. MapLeaf(l) = [label |-> l, index |-> p - 1, version |-> entries[p].version]
  BY <1>6, <1>9 DEF MapLeaf
<1>11. entries[p].label = l
  BY <1>6 DEF Indexes
<1>12. MapLeaf(l) = VersionOf(p)
  BY <1>10, <1>11 DEF VersionOf
<1>13. VersionOf(i) = VersionOf(p) => i = p
  <2>1. SUFFICES ASSUME VersionOf(i) = VersionOf(p) PROVE i = p
    OBVIOUS
  <2>2. VersionOf(i).index = i - 1 /\ VersionOf(p).index = p - 1
    BY DEF VersionOf
  <2>3. i - 1 = p - 1
    BY <2>1, <2>2
  <2> QED
    BY <1>2, <1>6, <2>3
<1> QED
  BY <1>4, <1>5, <1>6, <1>8, <1>12, <1>13

LEMMA VersionsAre ==
  ASSUME MapInv
  PROVE  Newest = {VersionOf(i) : i \in {i \in DOMAIN entries : IsLast(i)}}
<1>1. ASSUME NEW x, x \in Newest PROVE \E i \in DOMAIN entries : IsLast(i) /\ x = VersionOf(i)
  <2>1. PICK l \in Labels : values[l] # Null /\ x = MapLeaf(l)
    BY <1>1 DEF Newest
  <2>2. PICK i : i = values[l].index + 1 /\ i \in Indexes(l)
    BY <2>1, LastOf
  <2>3. IsLast(i) /\ VersionOf(i) = MapLeaf(l)
    BY <2>2, VersionIs
  <2> QED
    BY <2>1, <2>2, <2>3 DEF Indexes
<1>2. ASSUME NEW i \in DOMAIN entries, IsLast(i) PROVE VersionOf(i) \in Newest
  <2>1. entries \in Seq([label : Labels, version : Nat])
    BY DEF MapInv, ServeInv, ServeTypeOK
  <2>2. PICK l : l = entries[i].label
    OBVIOUS
  <2>3. l \in Labels
    <3>1. i \in 1 .. Len(entries)
      BY <2>1
    <3>2. entries[i] \in [label : Labels, version : Nat]
      BY <2>1, <3>1, ElementOfSeq
    <3> QED
      BY <2>2, <3>2
  <2>4. i \in Indexes(l)
    BY <2>2 DEF Indexes
  <2>5. values[l] # Null /\ VersionOf(i) = MapLeaf(l)
    BY <1>2, <2>3, <2>4, VersionIs
  <2> QED
    BY <2>3, <2>5 DEF Newest
<1> QED
  BY <1>1, <1>2

\* The leaf a proof of a label shows: its latest, or none.
Shown(l, leaf) ==
  IF values[l] = Null THEN leaf = Null ELSE leaf = MapLeaf(l)

LEMMA LeafShown ==
  ASSUME MapInv, NEW l \in Labels, NEW leaf, leaf = Null \/ (leaf \in MapLeaves /\ leaf.label = l)
  PROVE  verifyMapProof(HashOf(root, 0), l, leaf, pathOf(root, l)) <=> Shown(l, leaf)
<1>1. ServeTypeOK /\ root = NodeOf(Newest, 0)
  BY DEF MapInv, ServeInv, Mapped
<1>2. Cluster(Newest, 0)
  BY <1>1, NewestIs
<1>3. PICK top : top = HashOf(root, 0)
  OBVIOUS
<1>4. 0 \in 0 .. DEPTH /\ DEPTH \in 0 .. DEPTH
  BY DepthIs
<1>5. top = HashAt(Newest, 0)
  BY <1>1, <1>2, <1>3, <1>4, NodeHash
<1>6. PICK path : path = pathOf(NodeOf(Newest, 0), l)
  OBVIOUS
<1>7. l \in Bits
  BY ServeAssumption DEF ServeAssumption, Bits
<1>8. PICK h : h = HashAt(Sharing(Newest, l, DEPTH), DEPTH)
  OBVIOUS
<1>9. verifyMapProof(top, l, leaf, path) <=> (IF leaf = Null THEN EMPTY[DEPTH] ELSE mapLeafHash(leaf)) = h
  <2>1. verifyMapProof(top, l, leaf, path) <=>
          (IF leaf = Null THEN EMPTY[DEPTH] ELSE mapLeafHash(leaf)) = HashAt(Sharing(Newest, l, DEPTH), DEPTH)
    BY <1>2, <1>5, <1>6, <1>7, MapProofShows
  <2> QED
    BY <1>8, <2>1
<1>10. EMPTY[DEPTH] = <<"empty">> /\ HashAt({}, DEPTH) = <<"empty">>
  <2>1. DEPTH \in 0 .. DEPTH
    BY <1>4
  <2>2. HashAt({}, DEPTH) = EMPTY[DEPTH]
    BY <2>1, HashNone, Zenon
  <2> QED
    BY <2>2, EmptyIs, Zenon
<1>11. \A x \in MapLeaves : mapLeafHash(x) = <<"leaf", x.label, x.index, x.version>> /\ HashAt({x}, DEPTH) = mapLeafHash(x)
  BY HashLeaf DEF mapLeafHash
<1>12. \A x, y \in MapLeaves : x.label = y.label /\ x.index = y.index /\ x.version = y.version => x = y
  BY DEF MapLeaves
<1>13. \A x \in MapLeaves : x # Null
  BY LeafThere
<1>14. CASE values[l] = Null
  <2>1. h = <<"empty">>
    BY <1>1, <1>8, <1>10, <1>14, PlaceIs
  <2>2. CASE leaf = Null
    BY <1>1, <1>3, <1>6, <1>9, <1>10, <1>14, <2>1, <2>2 DEF Shown
  <2>3. CASE leaf \in MapLeaves
    <3>1. mapLeafHash(leaf) # h /\ leaf # Null
      <4>1. mapLeafHash(leaf) = <<"leaf", leaf.label, leaf.index, leaf.version>>
        BY <1>11, <2>3
      <4>2. <<"empty">> # <<"leaf", leaf.label, leaf.index, leaf.version>>
        OBVIOUS
      <4> QED
        BY <1>13, <2>1, <2>3, <4>1, <4>2
    <3> QED
      BY <1>1, <1>3, <1>6, <1>9, <1>14, <3>1 DEF Shown
  <2> QED
    BY <2>2, <2>3
<1>15. CASE values[l] # Null
  <2>1. PICK x \in MapLeaves : x = MapLeaf(l) /\ x.label = l
    BY <1>1, <1>15, LeafIs
  <2>2. h = mapLeafHash(x)
    BY <1>1, <1>8, <1>11, <1>15, <2>1, PlaceIs
  <2>3. CASE leaf = Null
    <3>1. EMPTY[DEPTH] # h
      <4>1. h = <<"leaf", x.label, x.index, x.version>>
        BY <1>11, <2>2
      <4>2. <<"empty">> # <<"leaf", x.label, x.index, x.version>>
        OBVIOUS
      <4> QED
        BY <1>10, <4>1, <4>2
    <3> QED
      BY <1>1, <1>3, <1>6, <1>9, <1>13, <1>15, <2>1, <2>3, <3>1 DEF Shown
  <2>4. CASE leaf \in MapLeaves
    <3>1. mapLeafHash(leaf) = h <=> leaf = x
      <4>1. mapLeafHash(leaf) = <<"leaf", leaf.label, leaf.index, leaf.version>>
        BY <1>11, <2>4
      <4>2. mapLeafHash(x) = <<"leaf", x.label, x.index, x.version>>
        BY <1>11
      <4>3. mapLeafHash(leaf) = mapLeafHash(x) =>
              leaf.label = x.label /\ leaf.index = x.index /\ leaf.version = x.version
        BY <4>1, <4>2
      <4> QED
        BY <1>12, <2>2, <2>4, <4>3
    <3> QED
      BY <1>1, <1>3, <1>6, <1>9, <1>13, <1>15, <2>1, <2>4, <3>1 DEF Shown
  <2> QED
    BY <2>3, <2>4
<1> QED
  BY <1>14, <1>15

LEMMA TrueBy ==
  ASSUME MapInv
  PROVE  MapTrue
<1>1. ServeTypeOK /\ root = NodeOf(Newest, 0)
  BY DEF MapInv, ServeInv, Mapped
<1>2. Cluster(Newest, 0)
  BY <1>1, NewestIs
<1>3. HashOf(root, 0) = TreeOf({VersionOf(i) : i \in {i \in DOMAIN entries : IsLast(i)}})
  <2>1. 0 \in 0 .. DEPTH
    BY DepthIs
  <2>2. HashOf(root, 0) = HashAt(Newest, 0)
    BY <1>1, <1>2, <2>1, NodeHash
  <2>3. TreeOf(Newest) = HashAt(Newest, 0)
    BY <1>2, TreeIs DEF Cluster
  <2> QED
    BY <2>2, <2>3, VersionsAre
<1>4. ASSUME NEW l \in Labels
      PROVE  /\ verifyMapProof(HashOf(root, 0), l, IF values[l] = Null THEN Null ELSE MapLeaf(l), pathOf(root, l))
             /\ verifyMapProof(HashOf(root, 0), l, Null, pathOf(root, l)) <=> (Indexes(l) = {})
             /\ \A i \in Indexes(l) : verifyMapProof(HashOf(root, 0), l, VersionOf(i), pathOf(root, l)) <=> IsLast(i)
  <2>1. \A x \in MapLeaves : x # Null
    BY LeafThere
  <2>2. PICK shown : shown = IF values[l] = Null THEN Null ELSE MapLeaf(l)
    OBVIOUS
  <2>3. shown = Null \/ (shown \in MapLeaves /\ shown.label = l)
    BY <1>1, <2>2, LeafIs
  <2>4. verifyMapProof(HashOf(root, 0), l, shown, pathOf(root, l))
    BY <2>2, <2>3, LeafShown DEF Shown
  <2>5. verifyMapProof(HashOf(root, 0), l, Null, pathOf(root, l)) <=> (Indexes(l) = {})
    <3>1. PICK none : none = Null
      OBVIOUS
    <3>2. verifyMapProof(HashOf(root, 0), l, none, pathOf(root, l)) <=> Shown(l, none)
      <4>1. none = Null \/ (none \in MapLeaves /\ none.label = l)
        BY <3>1
      <4> QED
        BY <4>1, LeafShown
    <3>3. Shown(l, none) <=> values[l] = Null
      BY <1>1, <2>1, <3>1, LeafIs DEF Shown
    <3> QED
      BY <3>1, <3>2, <3>3, LastOf
  <2>6. ASSUME NEW i \in Indexes(l)
        PROVE  verifyMapProof(HashOf(root, 0), l, VersionOf(i), pathOf(root, l)) <=> IsLast(i)
    <3>1. PICK x : x = VersionOf(i)
      OBVIOUS
    <3>2. values[l] # Null /\ x \in MapLeaves /\ x.label = l /\ (IsLast(i) <=> x = MapLeaf(l))
      BY <3>1, VersionIs
    <3>3. verifyMapProof(HashOf(root, 0), l, x, pathOf(root, l)) <=> Shown(l, x)
      BY <3>2, LeafShown
    <3> QED
      BY <3>1, <3>2, <3>3 DEF Shown
  <2> QED
    BY <2>2, <2>4, <2>5, <2>6
<1> QED
  BY <1>3, <1>4 DEF MapTrue, VersionOf, IsLast

\* The map's root is that of the full tree of the labels' latest entries, and
\* the proof of a label, present or absent, shows its latest entry and no other
\* (SparseMerkleMap.set and proof, verifyMapProof).
THEOREM MapIsTrue == ServeSpec => []MapTrue
<1>1. MapInv => MapTrue
  BY TrueBy
<1> QED
  BY <1>1, MapIsKept, PTL

-----------------------------------------------------------------------------
LEMMA PrefixIs ==
  ASSUME NEW l \in Labels, NEW bits \in 0 .. DEPTH
  PROVE  Prefix(l, bits) \in Bits
<1>1. l \in [1 .. DEPTH -> {0, 1}]
  BY ServeAssumption DEF ServeAssumption
<1>2. \A d \in 1 .. DEPTH : (IF d <= bits THEN l[d] ELSE 0) \in {0, 1}
  BY <1>1
<1> QED
  BY <1>2 DEF Prefix, Bits

\* The labels there are with a prefix.
Has(l, bits) == {k \in Labels : values[k] # Null /\ hasPrefix(k, l, bits)}

LEMMA HasIs ==
  ASSUME ServeTypeOK, NEW l, NEW bits
  PROVE  Has(l, bits) = {x.label : x \in Sharing(Newest, l, bits)}
<1>1. ASSUME NEW k, k \in Has(l, bits) PROVE \E x \in Sharing(Newest, l, bits) : k = x.label
  <2>1. k \in Labels /\ values[k] # Null /\ hasPrefix(k, l, bits)
    BY <1>1 DEF Has
  <2>2. MapLeaf(k) \in Newest /\ MapLeaf(k).label = k
    BY <2>1, LeafIs DEF Newest
  <2> QED
    BY <2>1, <2>2 DEF Sharing
<1>2. ASSUME NEW x, x \in Sharing(Newest, l, bits) PROVE x.label \in Has(l, bits)
  <2>1. x \in Newest /\ hasPrefix(x.label, l, bits)
    BY <1>2 DEF Sharing
  <2>2. PICK k \in Labels : values[k] # Null /\ x = MapLeaf(k)
    BY <2>1 DEF Newest
  <2>3. x.label = k
    BY <2>2, LeafIs
  <2> QED
    BY <2>1, <2>2, <2>3 DEF Has
<1> QED
  BY <1>1, <1>2

\* A list is as long as it has labels.
LEMMA ListsMany ==
  ASSUME NEW s, NEW Y, Lists(s, Y)
  PROVE  Cardinality({x.label : x \in Y}) = Len(s) /\ {s[i].label : i \in 1 .. Len(s)} = {x.label : x \in Y}
<1>1. PICK n \in Nat : n = Len(s)
  BY DEF Lists
<1>2. PICK K : K = {x.label : x \in Y}
  OBVIOUS
<1>3. K = {s[i].label : i \in 1 .. n}
  BY <1>1, <1>2 DEF Lists
<1>4. PICK f : f = [i \in 1 .. n |-> s[i].label]
  OBVIOUS
<1>5. \A i \in 1 .. n, j \in 1 .. n : i # j => f[i] # f[j]
  <2>1. TAKE i \in 1 .. n, j \in 1 .. n
  <2>2. i < j => s[i].label # s[j].label
    BY <1>1, ListsOnce
  <2>3. j < i => s[j].label # s[i].label
    BY <1>1, ListsOnce
  <2> QED
    BY <1>4, <2>2, <2>3
<1>6. f \in [1 .. n -> K]
  BY <1>3, <1>4
<1>7. f \in Injection(1 .. n, K)
  BY <1>5, <1>6 DEF Injection, IsInjective
<1>8. f \in Surjection(1 .. n, K)
  BY <1>3, <1>4, <1>6 DEF Surjection
<1>9. ExistsBijection(1 .. n, K)
  BY <1>7, <1>8 DEF ExistsBijection, Bijection
<1>10. Cardinality(K) = n
  BY <1>9, FS_CountingElements
<1> QED
  BY <1>1, <1>2, <1>3, <1>10

\* The entry a leaf of the map stands for is in the log.
LEMMA LeafAudited ==
  ASSUME MapInv, NEW x \in Newest
  PROVE  verifyInclusion(LeafHash(x.label, x.version), x.index, Len(entries), rootAt(LogLeaves(entries), Len(entries)),
                         inclusionProof(LogLeaves(entries), x.index, Len(entries)))
<1>1. PICK l \in Labels : values[l] # Null /\ x = MapLeaf(l)
  BY DEF Newest
<1>2. x.label = l /\ x.index = values[l].index /\ x.version = values[l].version
  BY <1>1 DEF MapLeaf
<1>3. PICK p : p = values[l].index + 1
  OBVIOUS
<1>4. values[l].index \in Nat /\ p \in Indexes(l) /\ entries[p].version = values[l].version
  BY <1>1, <1>3, LastOf
<1>5. PICK n \in Nat : n = Len(entries) /\ DOMAIN entries = 1 .. n
  <2>1. entries \in Seq([label : Labels, version : Nat])
    BY DEF MapInv, ServeInv, ServeTypeOK
  <2> QED
    BY <2>1
<1>6. p \in 1 .. n /\ entries[p].label = l /\ p - 1 = x.index
  BY <1>2, <1>3, <1>4, <1>5 DEF Indexes
<1>7. PICK told : told = LogLeaves(entries)
  OBVIOUS
<1>8. told[p] = LeafHash(x.label, x.version)
  BY <1>2, <1>4, <1>5, <1>6, <1>7 DEF LogLeaves
<1>9. verifyInclusion(told[p], p - 1, n, rootAt(told, n), inclusionProof(told, p - 1, n))
  BY <1>5, <1>6, <1>7, ExactBy DEF AuditsExact, MapInv
<1> QED
  BY <1>5, <1>6, <1>7, <1>8, <1>9

\* A list with one left out, or changed, is not a list of the same.
LEMMA ListWithout ==
  ASSUME NEW s, NEW Y, Lists(s, Y), NEW i \in 1 .. Len(s)
  PROVE  Without(s, i) \in Seq(MapLeaves) /\ ~Lists(Without(s, i), Y)
<1>1. s \in Seq(MapLeaves)
  BY DEF Lists
<1>2. PICK n \in Nat : n = Len(s) /\ i \in 1 .. n
  BY <1>1
<1>3. PICK a, b : a = SubSeq(s, 1, i - 1) /\ b = SubSeq(s, i + 1, n)
  OBVIOUS
<1>4. a \in Seq(MapLeaves) /\ Len(a) = i - 1 /\ \A j \in 1 .. i - 1 : a[j] = s[j]
  <2>1. \A j \in 1 .. i - 1 : s[j] \in MapLeaves
    BY <1>1, <1>2, ElementOfSeq
  <2> QED
    BY <1>1, <1>2, <1>3, <2>1
<1>5. b \in Seq(MapLeaves) /\ Len(b) = n - i /\ \A j \in 1 .. n - i : b[j] = s[i + j]
  <2>1. \A j \in i + 1 .. n : s[j] \in MapLeaves
    BY <1>1, <1>2, ElementOfSeq
  <2>2. (n - (i + 1)) + 1 = n - i
    BY <1>2
  <2>3. \A j \in 1 .. n - i : j + (i + 1) - 1 = i + j /\ i + j \in i + 1 .. n
    BY <1>2
  <2> QED
    BY <1>1, <1>2, <1>3, <2>1, <2>2, <2>3
<1>6. PICK r : r = a \o b
  OBVIOUS
<1>7. r \in Seq(MapLeaves) /\ Len(r) = n - 1
  BY <1>2, <1>4, <1>5, <1>6
<1>8. Without(s, i) = r
  BY <1>2, <1>3, <1>6 DEF Without
<1>9. ASSUME Lists(r, Y) PROVE FALSE
  <2>1. Cardinality({x.label : x \in Y}) = n
    BY <1>2, ListsMany
  <2>2. Cardinality({x.label : x \in Y}) = n - 1
    BY <1>7, <1>9, ListsMany
  <2> QED
    BY <1>2, <2>1, <2>2
<1> QED
  BY <1>7, <1>8, <1>9

LEMMA ListChanged ==
  ASSUME NEW X, Cluster(X, 0), NEW Y, Y \subseteq X, NEW s, Lists(s, Y), NEW i \in 1 .. Len(s),
         NEW r, r = [s EXCEPT ![i].version = @ + 1]
  PROVE  r \in Seq(MapLeaves) /\ ~Lists(r, Y)
<1>1. s \in Seq(MapLeaves)
  BY DEF Lists
<1>2. PICK n \in Nat : n = Len(s) /\ i \in 1 .. n /\ DOMAIN s = 1 .. n
  BY <1>1
<1>3. PICK x \in MapLeaves : x = s[i]
  BY <1>1, ElementOfSeq
<1>4. PICK e : e = [x EXCEPT !.version = x.version + 1]
  OBVIOUS
<1>5. e \in MapLeaves /\ e.label = x.label /\ e.version = x.version + 1 /\ x.version \in Nat
  BY <1>4 DEF MapLeaves
<1>6. r = [s EXCEPT ![i] = e]
  BY <1>3, <1>4
<1>7. r \in Seq(MapLeaves) /\ Len(r) = n /\ r[i] = e
  BY <1>1, <1>2, <1>5, <1>6
<1>8. ASSUME Lists(r, Y) PROVE FALSE
  <2>1. i \in 1 .. Len(r) /\ i \in 1 .. Len(s)
    BY <1>2, <1>7
  <2>2. e \in Y /\ x \in Y
    BY <1>3, <1>7, <1>8, <2>1 DEF Lists
  <2>3. e = x
    BY <1>5, <2>2 DEF Cluster
  <2>4. x.version + 1 = x.version
    BY <1>5, <2>3
  <2> QED
    BY <1>5, <2>4
<1> QED
  BY <1>7, <1>8

\* What is asked of a bucket.
Whole(q, b) ==
  /\ b = Null <=> Cardinality(Has(q.prefix, q.bits)) > MaxLeaves
  /\ b # Null =>
       /\ {b.leaves[i].label : i \in DOMAIN b.leaves} = Has(q.prefix, q.bits)
       /\ verifyAnswer(q, b.leaves, b.siblings, rootAt(LogLeaves(entries), Len(entries)), HashOf(root, 0))
       /\ \A i \in DOMAIN b.leaves :
            /\ ~verifyBucket(HashOf(root, 0), q.prefix, q.bits, Without(b.leaves, i), b.siblings)
            /\ ~verifyBucket(HashOf(root, 0), q.prefix, q.bits, [b.leaves EXCEPT ![i].version = @ + 1], b.siblings)

LEMMA BucketBy ==
  ASSUME MapInv, NEW q \in Queries, NEW b, b = bucket(root, q.prefix, q.bits, MaxLeaves)
  PROVE  Whole(q, b)
<1>1. PICK k \in Labels, bits \in 0 .. DEPTH : q = [prefix |-> Prefix(k, bits), bits |-> bits]
  BY DEF Queries
<1>2. PICK l : l = Prefix(k, bits)
  OBVIOUS
<1>3. q.prefix = l /\ q.bits = bits
  BY <1>1, <1>2
<1>4. ServeTypeOK /\ root = NodeOf(Newest, 0)
  BY DEF MapInv, ServeInv, Mapped
<1>5. PICK X : X = Newest
  OBVIOUS
<1>6. Cluster(X, 0)
  BY <1>4, <1>5, NewestIs
<1>7. l \in Bits /\ 0 \in 0 .. DEPTH
  BY <1>2, PrefixIs, DepthIs
<1>8. PICK map : map = HashOf(root, 0)
  OBVIOUS
<1>9. map = HashAt(X, 0)
  BY <1>4, <1>5, <1>6, <1>7, <1>8, NodeHash
<1>10. PICK at : at = descend(root, l, bits)
  OBVIOUS
<1>11. Descends(at, X, l, bits)
  BY <1>4, <1>5, <1>6, <1>7, <1>10, DescendIs
<1>12. PICK s, t : s = collect(at.node) /\ t = at.siblings
  OBVIOUS
<1>13. PICK Y : Y = Sharing(X, l, bits)
  OBVIOUS
<1>14. Lists(s, Y) /\ DOMAIN t = 0 .. bits - 1 /\ \A d \in 0 .. bits - 1 : t[d] = Beside(X, l, d)
  BY <1>11, <1>12, <1>13 DEF Descends
<1>15. s \in Seq(MapLeaves)
  BY <1>14 DEF Lists
<1>16. PICK n \in Nat : n = Len(s) /\ DOMAIN s = 1 .. n
  BY <1>15
<1>17. Has(l, bits) = {x.label : x \in Y}
  BY <1>4, <1>5, <1>13, HasIs
<1>18. Cardinality(Has(l, bits)) = n /\ {s[i].label : i \in 1 .. n} = Has(l, bits)
  BY <1>14, <1>16, <1>17, ListsMany
<1>19. b = IF Len(s) > MaxLeaves THEN Null ELSE [leaves |-> s, siblings |-> t]
  BY <1>3, <1>10, <1>12 DEF bucket
<1>20. MaxLeaves \in Nat
  BY ServeAssumption DEF ServeAssumption
<1>21. CASE n > MaxLeaves
  BY <1>3, <1>16, <1>18, <1>19, <1>21 DEF Whole
<1>22. CASE ~(n > MaxLeaves)
  <2>1. b = [leaves |-> s, siblings |-> t]
    BY <1>16, <1>19, <1>22
  <2>2. [leaves |-> s, siblings |-> t] # <<>>
    OBVIOUS
  <2>3. b # Null /\ b.leaves = s /\ b.siblings = t
    BY <2>1, <2>2 DEF Null
  <2>4. verifyBucket(map, l, bits, s, t)
    BY <1>6, <1>7, <1>9, <1>13, <1>14, BucketShows
  <2>5. \A i \in 1 .. n : s[i] \in Newest
    BY <1>5, <1>13, <1>14, <1>16 DEF Lists, Sharing
  <2>6. \A i \in DOMAIN s :
          verifyInclusion(LeafHash(s[i].label, s[i].version), s[i].index, Len(entries),
                          rootAt(LogLeaves(entries), Len(entries)),
                          inclusionProof(LogLeaves(entries), s[i].index, Len(entries)))
    BY <1>16, <2>5, LeafAudited
  <2>7. Len(s) <= MaxLeaves
    BY <1>16, <1>20, <1>22
  <2>8. verifyAnswer(q, s, t, rootAt(LogLeaves(entries), Len(entries)), map)
    BY <1>3, <2>4, <2>6, <2>7 DEF verifyAnswer
  <2>9. ASSUME NEW i \in DOMAIN s
         PROVE  /\ ~verifyBucket(map, l, bits, Without(s, i), t)
                /\ ~verifyBucket(map, l, bits, [s EXCEPT ![i].version = @ + 1], t)
    <3>1. i \in 1 .. Len(s) /\ Y \subseteq X
      BY <1>13, <1>16 DEF Sharing
    <3>2. PICK r : r = Without(s, i)
      OBVIOUS
    <3>3. r \in Seq(MapLeaves) /\ ~Lists(r, Y)
      BY <1>14, <3>1, <3>2, ListWithout
    <3>4. ~verifyBucket(map, l, bits, r, t)
      BY <1>6, <1>7, <1>9, <1>13, <3>3, BucketTells
    <3>5. PICK v : v = [s EXCEPT ![i].version = @ + 1]
      OBVIOUS
    <3>6. v \in Seq(MapLeaves) /\ ~Lists(v, Y)
      BY <1>6, <1>14, <3>1, <3>5, ListChanged
    <3>7. ~verifyBucket(map, l, bits, v, t)
      BY <1>6, <1>7, <1>9, <1>13, <3>6, BucketTells
    <3> QED
      BY <3>2, <3>4, <3>5, <3>7
  <2>10. ~(Cardinality(Has(l, bits)) > MaxLeaves)
    BY <1>18, <1>22
  <2>11. {s[i].label : i \in DOMAIN s} = Has(l, bits)
    BY <1>16, <1>18
  <2> QED
    BY <1>3, <1>8, <2>3, <2>8, <2>9, <2>10, <2>11 DEF Whole
<1> QED
  BY <1>21, <1>22

LEMMA BucketsBy ==
  ASSUME MapInv
  PROVE  BucketsWhole
<1>1. ASSUME NEW q \in Queries
      PROVE  Whole(q, bucket(root, q.prefix, q.bits, MaxLeaves))
  BY BucketBy
<1> QED
  BY <1>1, Zenon DEF BucketsWhole, Whole, Has

\* A bucket has each label with its prefix, or is refused when these are too
\* many; it verifies, with its audit paths, and without one of its labels or
\* with a version changed it does not (bucket, verifyBucketAnswer).
THEOREM BucketsAreWhole == ServeSpec => []BucketsWhole
<1>1. MapInv => BucketsWhole
  BY BucketsBy
<1> QED
  BY <1>1, MapIsKept, PTL

=============================================================================
