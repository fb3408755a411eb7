---------------------------- MODULE KtMirrorProofs ----------------------------
(***************************************************************************)
(* What holds of the mirror for every set of labels, every page size and   *)
(* cap, and any number of failures of any kind: the types, that a sync     *)
(* begins from the last verified head, that a directory with a head loads, *)
(* that nothing but a log that changed is taken for a fork, and that what  *)
(* has been served is kept and only ever extended.                         *)
(***************************************************************************)
EXTENDS KtMirror, SequenceTheorems, TLAPS

\* What was served changes as one, wherever it does.
USE DEF served

\* The history a head describes.
Of(h) == IF h = None THEN <<>> ELSE h

Typed == TypeOK /\ came \subseteq History \cup {None}

\* Memory, the head and the file say the same, except while one of them is
\* being replaced or has to be read again.
AtRest == mem = Of(head) /\ head = record /\ file = Of(record)

Held ==
  /\ pc \in {"idle", "head", "proof", "page"} => reload \/ AtRest
  /\ pc \in {"head", "proof", "page", "append", "rename", "dir"} => ~reload
  /\ pc \notin {"page", "append"} => spool = <<>>
  /\ pc \in {"proof", "page"} => sth # None /\ Len(mem) < Len(sth)
  /\ pc = "proof" => mem # <<>>

\* What is being committed is well formed and goes on from what was.
Committed ==
  /\ pc \in {"append", "rename", "dir"} => sth # None /\ Contract!WellFormed(sth) /\ mem = sth
  /\ pc = "append" => file = Of(record) /\ sth = file \o spool
  /\ pc = "rename" => file = sth /\ synced = Len(sth) /\ Contract!Extends(sth, Of(record))
  /\ pc = "dir" => file = sth /\ record = sth

\* The disk holds, synced, every history whose head a machine may come back with.
Kept ==
  /\ \A r \in came : r = None \/
       /\ Len(r) <= synced /\ Contract!Extends(file, r) /\ Contract!WellFormed(r)
       /\ record # None /\ Contract!Extends(record, r)
  /\ cut \/ pc = "dir" \/ came = {record}

\* While the log is honest, whatever it has said is the beginning of what it
\* says now.
Believed ==
  honest =>
    /\ ~diverged /\ Contract!WellFormed(told)
    /\ \A r \in came : r = None \/ Contract!Extends(told, r)
    /\ sth = None \/ Contract!Extends(told, sth)
    /\ pc = "page" => Contract!Extends(told, mem \o spool)

Inv == Typed /\ Held /\ Committed /\ Kept /\ ServedKept /\ Believed

-----------------------------------------------------------------------------
\* Histories and their beginnings.
LEMMA ExtendsSelf ==
  ASSUME NEW f \in Seq(Line)
  PROVE  Contract!Extends(f, f) /\ Contract!Extends(f, <<>>)
  BY DEF Contract!Extends

LEMMA ExtendsOn ==
  ASSUME NEW f \in Seq(Line), NEW g \in Seq(Line), NEW h \in Seq(Line),
         Contract!Extends(f, g), Contract!Extends(g, h)
  PROVE  Contract!Extends(f, h)
  BY DEF Contract!Extends

LEMMA ExtendsBoth ==
  ASSUME NEW f \in Seq(Line), NEW g \in Seq(Line), NEW h \in Seq(Line),
         Contract!Extends(f, g), Contract!Extends(f, h), Len(h) <= Len(g)
  PROVE  Contract!Extends(g, h)
  BY DEF Contract!Extends

LEMMA ExtendsEqual ==
  ASSUME NEW f \in Seq(Line), NEW g \in Seq(Line), Contract!Extends(f, g), Len(f) = Len(g)
  PROVE  f = g
  BY DEF Contract!Extends

LEMMA FirstIs ==
  ASSUME NEW f \in Seq(Line), NEW n \in 0 .. Len(f)
  PROVE  First(f, n) \in Seq(Line) /\ Len(First(f, n)) = n /\ Contract!Extends(f, First(f, n))
  BY DEF First, Contract!Extends

LEMMA FirstOf ==
  ASSUME NEW f \in Seq(Line), NEW g \in Seq(Line), Contract!Extends(f, g)
  PROVE  First(f, Len(g)) = g
<1>1. Len(g) \in 0 .. Len(f)
  BY DEF Contract!Extends
<1>2. PICK h \in Seq(Line) : h = First(f, Len(g))
  BY <1>1, FirstIs
<1>3. Len(h) = Len(g) /\ Contract!Extends(f, h)
  BY <1>1, <1>2, FirstIs
<1>4. Contract!Extends(h, g)
  BY <1>3, ExtendsBoth
<1> QED
  BY <1>2, <1>3, <1>4, ExtendsEqual

LEMMA JoinIs ==
  ASSUME NEW f \in Seq(Line), NEW g \in Seq(Line)
  PROVE  /\ f \o g \in Seq(Line) /\ Len(f \o g) = Len(f) + Len(g) /\ Contract!Extends(f \o g, f)
         /\ f \o <<>> = f /\ <<>> \o f = f
  BY DEF Contract!Extends

LEMMA PartIs ==
  ASSUME NEW f \in Seq(Line), NEW k \in Nat, NEW n \in Nat, k + n <= Len(f)
  PROVE  /\ SubSeq(f, k + 1, k + n) \in Seq(Line) /\ Len(SubSeq(f, k + 1, k + n)) = n
         /\ \A j \in 1 .. n : SubSeq(f, k + 1, k + n)[j] = f[k + j]
  OBVIOUS

LEMMA JoinAgain ==
  ASSUME NEW f \in Seq(Line), NEW g \in Seq(Line), NEW h \in Seq(Line)
  PROVE  (f \o g) \o h = f \o (g \o h)
  OBVIOUS

LEMMA JoinAt ==
  ASSUME NEW f \in Seq(Line), NEW g \in Seq(Line)
  PROVE  \A j \in 1 .. Len(f) + Len(g) : (f \o g)[j] = IF j <= Len(f) THEN f[j] ELSE g[j - Len(f)]
  OBVIOUS

LEMMA Onwards ==
  ASSUME NEW t \in Seq(Line), NEW a \in Seq(Line), NEW q \in Seq(Line), NEW b \in Seq(Line),
         Contract!Extends(t, a), Len(b) = Len(a) + Len(q), Len(b) <= Len(t),
         \A j \in 1 .. Len(b) : b[j] = IF j <= Len(a) THEN a[j] ELSE q[j - Len(a)],
         \A j \in 1 .. Len(q) : q[j] = t[Len(a) + j]
  PROVE  Contract!Extends(t, b)
<1>1. ASSUME NEW j \in 1 .. Len(b)
      PROVE  t[j] = b[j]
  <2>1. CASE j <= Len(a)
    BY <2>1 DEF Contract!Extends
  <2>2. CASE ~(j <= Len(a))
    <3>1. j - Len(a) \in 1 .. Len(q) /\ Len(a) + (j - Len(a)) = j
      BY <2>2
    <3>2. q[j - Len(a)] = t[Len(a) + (j - Len(a))]
      BY <3>1, Zenon
    <3>3. b[j] = q[j - Len(a)]
      BY <2>2, Zenon
    <3> QED
      BY <3>1, <3>2, <3>3
  <2> QED
    BY <2>1, <2>2
<1> QED
  BY <1>1 DEF Contract!Extends

\* A page the log hands out goes on from what it handed out before.
LEMMA PageIs ==
  ASSUME NEW t \in Seq(Line), NEW m \in Seq(Line), NEW s \in Seq(Line), NEW q \in Seq(Line),
         Contract!Extends(t, m \o s), Len(m) + Len(s) + Len(q) <= Len(t),
         \A j \in 1 .. Len(q) : q[j] = t[Len(m) + Len(s) + j]
  PROVE  Contract!Extends(t, m \o (s \o q))
<1>1. m \o s \in Seq(Line) /\ Len(m \o s) = Len(m) + Len(s)
  BY JoinIs
<1>2. PICK a \in Seq(Line) : a = m \o s
  BY <1>1
<1>3. Len(a) = Len(m) + Len(s) /\ Contract!Extends(t, a)
  BY <1>1, <1>2
<1>4. m \o (s \o q) = a \o q
  <2>1. (m \o s) \o q = m \o (s \o q)
    BY JoinAgain
  <2> QED
    BY <1>2, <2>1
<1>5. PICK b \in Seq(Line) : b = a \o q
  BY JoinIs
<1>6. Len(b) = Len(a) + Len(q)
  BY <1>5, JoinIs
<1>7. \A j \in 1 .. Len(a) + Len(q) : b[j] = IF j <= Len(a) THEN a[j] ELSE q[j - Len(a)]
  BY <1>5, JoinAt
<1>8. Len(b) <= Len(t) /\ \A j \in 1 .. Len(q) : q[j] = t[Len(a) + j]
  BY <1>3, <1>6
<1>9. \A j \in 1 .. Len(b) : b[j] = IF j <= Len(a) THEN a[j] ELSE q[j - Len(a)]
  BY <1>6, <1>7, Zenon
<1>10. Contract!Extends(t, b)
  BY <1>3, <1>6, <1>8, <1>9, Onwards, Zenon
<1> QED
  BY <1>4, <1>5, <1>10, Zenon

LEMMA WellFormedPart ==
  ASSUME NEW f \in Seq(Line), NEW g \in Seq(Line), Contract!Extends(f, g), Contract!WellFormed(f)
  PROVE  Contract!WellFormed(g)
<1>1. Len(g) <= Len(f) /\ \A k \in 1 .. Len(g) : f[k] = g[k]
  BY DEF Contract!Extends
<1>2. ASSUME NEW k \in 1 .. Len(g)
      PROVE  Contract!WellPlaced(g, k)
  <2>1. Contract!WellPlaced(f, k)
    BY <1>1 DEF Contract!WellFormed
  <2>2. \A j \in 1 .. k - 1 : j \in 1 .. Len(g)
    OBVIOUS
  <2> QED
    BY <1>1, <2>1, <2>2, Zenon DEF Contract!WellPlaced
<1> QED
  BY <1>2 DEF Contract!WellFormed

LEMMA OfIs ==
  ASSUME NEW h \in History \cup {None}
  PROVE  Of(h) \in Seq(Line) /\ Len(Of(h)) = HeadSize(h)
  BY DEF Of, HeadSize, History

-----------------------------------------------------------------------------
\* What the steps do.  What the log shows may be nothing an honest one could.
Suspect ==
  \/ pc = "head" /\ Len(told) < Len(mem)
  \/ pc = "head" /\ Len(told) = Len(mem) /\ head # None /\ told # head
  \/ /\ pc = "proof" /\ Len(told) >= Len(sth)
     /\ ~(First(told, Len(sth)) = sth /\ First(sth, Len(mem)) = head)
  \/ /\ pc = "page" /\ Got = Len(sth)
     /\ ~(mem \o spool = sth /\ Contract!WellFormed(sth))

\* A sync that is over believed nothing.
Over ==
  /\ pc \in {"head", "proof", "page"} /\ pc' = "idle" /\ sth' = None /\ spool' = <<>>
  /\ honest' = honest \/ honest' = FALSE
  /\ diverged' = diverged \/ (diverged' = TRUE /\ (Suspect \/ honest' = FALSE))
  /\ spent' = spent \/ spent' = spent + 1
  /\ UNCHANGED <<told, mem, head, reload, disk, cut, served>>

Known ==
  /\ pc = "head" /\ Len(told) = Len(mem) /\ (head # None => told = head)
  /\ sth' = told /\ pc' = "rename"
  /\ UNCHANGED <<told, honest, mem, head, reload, diverged, spool, disk, cut, served, spent>>

Newer ==
  /\ pc = "head" /\ Len(told) > Len(mem)
  /\ sth' = told /\ pc' = IF mem = <<>> THEN "page" ELSE "proof"
  /\ UNCHANGED <<told, honest, mem, head, reload, diverged, spool, disk, cut, served, spent>>

Proved ==
  /\ pc = "proof" /\ pc' = "page"
  /\ UNCHANGED <<told, honest, ram, disk, cut, served, spent>>

Paged(n) ==
  /\ pc = "page" /\ pc' = pc /\ Got + n <= Len(told)
  /\ spool' = spool \o SubSeq(told, Got + 1, Got + n)
  /\ UNCHANGED <<told, honest, mem, head, reload, diverged, sth, disk, cut, served, spent>>

Verified ==
  /\ pc = "page" /\ mem \o spool = sth /\ Contract!WellFormed(sth)
  /\ mem' = sth /\ pc' = "append"
  /\ UNCHANGED <<told, honest, head, reload, diverged, sth, spool, disk, cut, served, spent>>

\* A head is in place, its directory synced or not.
Done ==
  /\ Commit
  /\ (came' = {record} /\ cut' = FALSE) \/ (came' = came /\ cut' = TRUE)
  /\ spent' = spent \/ spent' = spent + 1

Aside ==
  \/ \E l \in Label, v \in 1 .. MaxVersion : Grow(l, v)
  \/ \E h \in Others(told) : Fork(h)
  \/ UNCHANGED vars

LEMMA Steps ==
  ASSUME [Next]_vars
  PROVE  \/ Start \/ Reset \/ Sync \/ Serve \/ Over \/ Known \/ Newer \/ Proved
         \/ \E n \in 1 .. PageSize : Paged(n)
         \/ Verified \/ AppendLines \/ AppendFails \/ Rename \/ RenameFails \/ Done
         \/ Reread \/ Unread \/ Kill \/ PowerLoss \/ Aside
<1>1. GotHead => Over \/ Known \/ Newer
  BY Zenon DEF GotHead, GiveUp, Diverge, Over, Suspect, Known, Newer
<1>2. GotProof => Over \/ Proved
  BY Zenon DEF GotProof, GiveUp, Diverge, Over, Suspect, Proved, ram
<1>3. ASSUME NEW n \in 1 .. PageSize, GotPage(n)
      PROVE  Over \/ Paged(n)
  BY <1>3, Zenon DEF GotPage, GiveUp, Over, Paged
<1>4. Verify => Over \/ Verified
  BY Zenon DEF Verify, Diverge, Holds, Over, Suspect, Verified
<1>5. NoAnswer \/ Impostor => Over
  BY Zenon DEF NoAnswer, Impostor, GiveUp, Diverge, Over, Fault
<1>6. SyncDir \/ SyncDirFails => Done
  BY Zenon DEF SyncDir, SyncDirFails, Done, Fault
<1> QED
  BY <1>1, <1>2, <1>3, <1>4, <1>5, <1>6, Zenon DEF Next, Run, Failure, Aside

\* load makes memory and the file what the head on the disk describes.
LEMMA LoadIs ==
  ASSUME Typed, Kept, Load
  PROVE  /\ head' = record /\ mem' = Of(record) /\ file' = Of(record) /\ reload' = FALSE
         /\ torn' \in BOOLEAN /\ synced' \in 0 .. Len(file') /\ Of(record) \in Seq(Line)
         /\ \A r \in came : r = None \/ (Len(r) <= synced' /\ Contract!Extends(file', r))
         /\ UNCHANGED <<record, came>>
<1>0. /\ file \in Seq(Line) /\ synced \in 0 .. Len(file) /\ torn \in BOOLEAN
      /\ record \in History \cup {None} /\ record \in came /\ came \subseteq History \cup {None}
  BY DEF Typed, TypeOK, History
<1>1. /\ Loads /\ head' = record /\ mem' = First(file, HeadSize(record)) /\ reload' = FALSE
      /\ file' = First(file, HeadSize(record)) /\ UNCHANGED <<record, came>>
      /\ \/ Len(file) > HeadSize(record) \/ torn
         \/ UNCHANGED <<torn, synced>>
      /\ (torn' = FALSE /\ synced' = Len(file')) \/ UNCHANGED <<torn, synced>>
      /\ Len(file) > HeadSize(record) => synced' = Len(file')
  BY Zenon DEF Load, Loaded
<1>2. First(file, HeadSize(record)) = Of(record)
  <2>1. CASE record = None
    BY <1>0, <1>1, <2>1 DEF Loads, HeadSize, Of, First
  <2>2. CASE record # None
    BY <1>0, <1>1, <2>2 DEF Loads, HeadSize, Of
  <2> QED
    BY <2>1, <2>2
<1>3. Of(record) \in Seq(Line) /\ Len(Of(record)) = HeadSize(record) /\ HeadSize(record) <= Len(file)
  <2>1. Of(record) \in Seq(Line) /\ Len(Of(record)) = HeadSize(record)
    BY <1>0, OfIs
  <2>2. HeadSize(record) <= Len(file)
    BY <1>0, <1>1 DEF Loads, HeadSize
  <2> QED
    BY <2>1, <2>2
<1>4. torn' \in BOOLEAN
  BY <1>0, <1>1
<1>5. synced' \in 0 .. Len(file')
  <2>1. CASE synced' = Len(file')
    BY <1>1, <1>2, <1>3, <2>1
  <2>2. CASE synced' = synced /\ ~(Len(file) > HeadSize(record))
    BY <1>0, <1>1, <1>2, <1>3, <2>2
  <2> QED
    BY <1>1, <2>1, <2>2
<1>6. ASSUME NEW r \in came, r # None
      PROVE  Len(r) <= synced' /\ Contract!Extends(file', r)
  <2>1. Len(r) <= synced /\ record # None /\ Contract!Extends(record, r)
    BY <1>6 DEF Kept
  <2>2. Contract!Extends(file', r) /\ Len(r) <= Len(file')
    BY <1>1, <1>2, <2>1 DEF Of, Contract!Extends
  <2>3. Len(r) <= synced'
    BY <1>1, <2>1, <2>2
  <2> QED
    BY <2>2, <2>3
<1> QED
  BY <1>1, <1>2, <1>3, <1>4, <1>5, <1>6

\* Nothing an honest log shows is suspect.
LEMMA HonestIsNot ==
  ASSUME Inv, honest
  PROVE  ~Suspect
<1>0. /\ told \in Seq(Line) /\ mem \in Seq(Line) /\ spool \in Seq(Line) /\ head \in Seq(Line) \cup {None}
      /\ sth \in Seq(Line) \cup {None} /\ record \in came
  BY DEF Inv, Typed, TypeOK, History
<1>1. /\ Contract!WellFormed(told) /\ \A r \in came : r = None \/ Contract!Extends(told, r)
      /\ sth = None \/ Contract!Extends(told, sth)
      /\ pc = "page" => Contract!Extends(told, mem \o spool)
  BY Zenon DEF Inv, Believed
<1>2. pc \in {"head", "proof", "page"} => AtRest
  BY DEF Inv, Held
<1>3. pc \in {"proof", "page"} => sth # None /\ Len(mem) < Len(sth)
  BY DEF Inv, Held
<1>4. pc = "proof" => mem # <<>>
  BY DEF Inv, Held
<1>5. pc \in {"head", "proof", "page"} /\ head # None => mem = head /\ head \in Seq(Line) /\ Contract!Extends(told, head)
  BY <1>0, <1>1, <1>2, Zenon DEF AtRest, Of
<1>6. CASE pc = "head"
  <2>1. ~(Len(told) < Len(mem))
    <3>1. CASE head = None
      BY <1>0, <1>2, <1>6, <3>1 DEF AtRest, Of
    <3>2. CASE head # None
      BY <1>0, <1>5, <1>6, <3>2 DEF Contract!Extends
    <3> QED
      BY <3>1, <3>2
  <2>2. ASSUME Len(told) = Len(mem), head # None
        PROVE  told = head
    BY <1>0, <1>5, <1>6, <2>2, ExtendsEqual
  <2> QED
    BY <1>6, <2>1, <2>2, Zenon DEF Suspect
<1>7. CASE pc = "proof"
  <2>1. head # None
    BY <1>2, <1>4, <1>7 DEF AtRest, Of
  <2>2. mem = head /\ head \in Seq(Line) /\ Contract!Extends(told, head)
    BY <1>5, <1>7, <2>1
  <2>3. sth \in Seq(Line) /\ Contract!Extends(told, sth) /\ Len(head) <= Len(sth)
    BY <1>0, <1>1, <1>3, <1>7, <2>2
  <2>4. First(told, Len(sth)) = sth
    BY <1>0, <2>3, FirstOf
  <2>5. Contract!Extends(sth, head)
    BY <1>0, <2>2, <2>3, ExtendsBoth
  <2>6. First(sth, Len(head)) = head
    BY <2>2, <2>3, <2>5, FirstOf
  <2> QED
    BY <1>7, <2>2, <2>4, <2>6, Zenon DEF Suspect
<1>8. CASE pc = "page"
  <2>1. sth \in Seq(Line) /\ Contract!Extends(told, sth)
    BY <1>0, <1>1, <1>3, <1>8
  <2>2. Contract!WellFormed(sth)
    BY <1>0, <1>1, <2>1, WellFormedPart
  <2>3. PICK h \in Seq(Line) : h = mem \o spool /\ Len(h) = Got
    BY <1>0, JoinIs DEF Got
  <2>4. ASSUME Got = Len(sth)
        PROVE  h = sth
    <3>1. Contract!Extends(told, h)
      BY <1>1, <1>8, <2>3
    <3>2. Len(h) <= Len(sth) /\ Len(sth) = Len(h)
      BY <2>1, <2>3, <2>4
    <3>3. Contract!Extends(sth, h)
      BY <1>0, <2>1, <3>1, <3>2, ExtendsBoth
    <3> QED
      BY <2>1, <3>2, <3>3, ExtendsEqual
  <2> QED
    BY <1>8, <2>2, <2>3, <2>4, Zenon DEF Suspect
<1> QED
  BY <1>6, <1>7, <1>8, Zenon DEF Suspect

\* Cut off or not, what follows the file's own lines leaves them there.
LEMMA FileIs ==
  ASSUME Inv, AppendFails \/ Kill
  PROVE  /\ file' \in Seq(Line) /\ Contract!Extends(file', file) /\ torn' \in BOOLEAN
         /\ UNCHANGED <<synced, record, came>>
<1>1. file \in Seq(Line) /\ spool \in Seq(Line) /\ torn \in BOOLEAN
  BY DEF Inv, Typed, TypeOK, History
<1>2. /\ \/ file' = file /\ torn' = torn
         \/ \E n \in 0 .. Len(spool) : file' = file \o First(spool, n) /\ torn' \in BOOLEAN
      /\ UNCHANGED <<synced, record, came>>
  <2>1. CASE AppendFails
    <3>1. \A n \in 0 .. Len(spool) : (n < Len(spool)) \in BOOLEAN
      OBVIOUS
    <3> QED
      BY <2>1, <3>1, Zenon DEF AppendFails, disk
  <2>2. CASE Kill
    BY <2>2, Zenon DEF Kill
  <2> QED
    BY <2>1, <2>2
<1>3. CASE file' = file /\ torn' = torn
  BY <1>1, <1>2, <1>3, ExtendsSelf
<1>4. ASSUME NEW n \in 0 .. Len(spool), file' = file \o First(spool, n) /\ torn' \in BOOLEAN
      PROVE  file' \in Seq(Line) /\ Contract!Extends(file', file)
  <2>1. First(spool, n) \in Seq(Line)
    BY <1>1, <1>4, FirstIs
  <2> QED
    BY <1>1, <1>4, <2>1, JoinIs
<1> QED
  BY <1>1, <1>2, <1>3, <1>4, Zenon

\* What a step that is none of the mirror's does.
LEMMA AsideIs ==
  ASSUME Inv, Aside
  PROVE  /\ pc' = pc /\ mem' = mem /\ head' = head /\ reload' = reload /\ diverged' = diverged
         /\ sth' = sth /\ spool' = spool /\ file' = file /\ torn' = torn /\ synced' = synced
         /\ record' = record /\ came' = came /\ cut' = cut /\ attested' = attested /\ lost' = lost
         /\ told' \in Seq(Line) /\ honest' \in BOOLEAN /\ spent' \in Nat
         /\ honest' => honest /\ Contract!Extends(told', told) /\ Contract!WellFormed(told')
<1>1. /\ pc' = pc /\ mem' = mem /\ head' = head /\ reload' = reload /\ diverged' = diverged
      /\ sth' = sth /\ spool' = spool /\ file' = file /\ torn' = torn /\ synced' = synced
      /\ record' = record /\ came' = came /\ cut' = cut /\ attested' = attested /\ lost' = lost
  BY Zenon DEF Aside, Grow, Fork, vars, ram, disk
<1>2. told \in Seq(Line) /\ honest \in BOOLEAN /\ spent \in Nat
  BY DEF Inv, Typed, TypeOK, History
<1>3. ASSUME NEW l \in Label, NEW v \in 1 .. MaxVersion, Grow(l, v)
      PROVE  /\ told' \in Seq(Line) /\ honest' \in BOOLEAN /\ spent' \in Nat
             /\ honest' => honest /\ Contract!Extends(told', told) /\ Contract!WellFormed(told')
  <2>1. PICK x : x = [idx |-> Len(told), label |-> l, v |-> v, sig |-> TRUE]
    OBVIOUS
  <2>2. x \in Line
    BY <1>2, <2>1 DEF Line
  <2>3. told' = Append(told, x) /\ Contract!WellFormed(told') /\ honest' = honest /\ spent' = spent /\ honest
    BY <1>3, <2>1, Zenon DEF Grow
  <2>4. told' \in Seq(Line) /\ Contract!Extends(told', told)
    BY <1>2, <2>2, <2>3 DEF Contract!Extends
  <2> QED
    BY <1>2, <2>3, <2>4, Zenon
<1>4. ASSUME NEW h \in Others(told), Fork(h)
      PROVE  told' \in Seq(Line) /\ honest' = FALSE /\ spent' \in Nat
  <2>1. told' = h /\ honest' = FALSE /\ spent' = spent + 1
    BY <1>4, Zenon DEF Fork, Fault
  <2>2. h \in Seq(Line)
    <3>1. CASE \E n \in 0 .. Len(told) - 1 : h = First(told, n)
      BY <1>2, <3>1, FirstIs
    <3>2. ASSUME NEW k \in DOMAIN told, NEW v \in 1 .. MaxVersion, h = [told EXCEPT ![k].v = v]
          PROVE  h \in Seq(Line)
      <4>1. k \in 1 .. Len(told) /\ told[k] \in Line
        BY <1>2, <3>2
      <4>2. PICK x : x = [told[k] EXCEPT !.v = v]
        OBVIOUS
      <4>3. x \in Line
        BY <4>1, <4>2 DEF Line
      <4>4. h = [told EXCEPT ![k] = x]
        BY <3>2, <4>2
      <4> QED
        BY <1>2, <4>1, <4>3, <4>4
    <3>3. ASSUME NEW i \in 0 .. Len(told), NEW l \in Label, NEW v \in 1 .. MaxVersion,
                 h = Append(told, [idx |-> i, label |-> l, v |-> v, sig |-> TRUE])
          PROVE  h \in Seq(Line)
      <4>1. PICK x : x = [idx |-> i, label |-> l, v |-> v, sig |-> TRUE]
        OBVIOUS
      <4>2. x \in Line
        BY <1>2, <4>1 DEF Line
      <4> QED
        BY <1>2, <3>3, <4>1, <4>2
    <3> QED
      <4>1. \/ \E n \in 0 .. Len(told) - 1 : h = First(told, n)
            \/ \E k \in DOMAIN told, v \in 1 .. MaxVersion : h = [told EXCEPT ![k].v = v]
            \/ \E i \in 0 .. Len(told), l \in Label, v \in 1 .. MaxVersion :
                 h = Append(told, [idx |-> i, label |-> l, v |-> v, sig |-> TRUE])
        <5> DEFINE A == {First(told, n) : n \in 0 .. Len(told) - 1}
                   B == {[told EXCEPT ![k].v = v] : k \in DOMAIN told, v \in 1 .. MaxVersion}
                   C == {Append(told, [idx |-> i, label |-> l, v |-> v, sig |-> TRUE]) :
                            i \in 0 .. Len(told), l \in Label, v \in 1 .. MaxVersion}
        <5>1. h \in A => \E n \in 0 .. Len(told) - 1 : h = First(told, n)
          OBVIOUS
        <5>2. h \in B => \E k \in DOMAIN told, v \in 1 .. MaxVersion : h = [told EXCEPT ![k].v = v]
          OBVIOUS
        <5>3. h \in C => \E i \in 0 .. Len(told), l \in Label, v \in 1 .. MaxVersion :
                           h = Append(told, [idx |-> i, label |-> l, v |-> v, sig |-> TRUE])
          OBVIOUS
        <5>4. Others(told) = A \cup B \cup C
          BY DEF Others
        <5> HIDE DEF A, B, C
        <5> QED
          BY <1>4, <5>1, <5>2, <5>3, <5>4, Zenon
      <4> QED
        BY <4>1, <3>1, <3>2, <3>3, Zenon
  <2> QED
    BY <1>2, <2>1, <2>2
<1>5. CASE UNCHANGED vars
  <2>1. told' = told /\ honest' = honest /\ spent' = spent
    BY <1>5, Zenon DEF vars
  <2>2. honest' => Contract!WellFormed(told)
    BY <2>1, Zenon DEF Inv, Believed
  <2> QED
    BY <1>1, <1>2, <2>1, <2>2, ExtendsSelf, Zenon
<1> QED
  BY <1>1, <1>3, <1>4, <1>5, Zenon DEF Aside

-----------------------------------------------------------------------------
\* The parts of the invariant, step by step.
Flags ==
  /\ honest \in BOOLEAN /\ reload \in BOOLEAN /\ diverged \in BOOLEAN /\ torn \in BOOLEAN
  /\ cut \in BOOLEAN /\ lost \in BOOLEAN

Data ==
  /\ told \in Seq(Line) /\ mem \in Seq(Line) /\ spool \in Seq(Line) /\ file \in Seq(Line) /\ attested \in Seq(Line)
  /\ head \in Seq(Line) \cup {None} /\ sth \in Seq(Line) \cup {None} /\ record \in Seq(Line) \cup {None}
  /\ record \in came /\ came \subseteq Seq(Line) \cup {None} /\ synced \in 0 .. Len(file) /\ spent \in Nat
  /\ pc \in {"down", "idle", "head", "proof", "page", "append", "rename", "dir", "recover"}

LEMMA TypedIs == Typed <=> Flags /\ Data
  BY Zenon DEF Typed, TypeOK, History, Flags, Data

LEMMA TypedIsNext == Typed' <=> Flags' /\ Data'
  BY Zenon DEF Typed, TypeOK, History, Flags, Data

LEMMA TypedLoad ==
  ASSUME Inv, Start \/ Sync \/ Reread
  PROVE  Typed'
<1>1. Typed /\ Kept /\ Flags /\ Data
  BY TypedIs DEF Inv
<1>2. /\ told' = told /\ honest' = honest /\ cut' = cut /\ attested' = attested /\ spent' = spent
      /\ lost' = lost
      /\ pc' = "idle" \/ pc' = "head"
      /\ diverged' = diverged \/ diverged' = FALSE
      /\ sth' = sth \/ sth' = None
      /\ spool' = spool \/ spool' = <<>>
      /\ Load \/ (mem' = mem /\ head' = head /\ reload' = reload /\ UNCHANGED disk)
  BY Zenon DEF Start, Sync, Reread
<1>3. /\ mem' \in Seq(Line) /\ head' \in Seq(Line) \cup {None} /\ file' \in Seq(Line) /\ synced' \in 0 .. Len(file')
      /\ record' = record /\ came' = came /\ reload' \in BOOLEAN /\ torn' \in BOOLEAN
  <2>1. CASE Load
    <3>1. /\ head' = record /\ mem' = Of(record) /\ file' = Of(record) /\ reload' = FALSE
          /\ torn' \in BOOLEAN /\ synced' \in 0 .. Len(file') /\ Of(record) \in Seq(Line)
          /\ record' = record /\ came' = came
      BY <1>1, <2>1, LoadIs
    <3> QED
      BY <1>1, <3>1, Zenon DEF Data
  <2>2. CASE mem' = mem /\ head' = head /\ reload' = reload /\ UNCHANGED disk
    BY <1>1, <2>2, Zenon DEF disk, Data, Flags
  <2> QED
    BY <1>2, <2>1, <2>2
<1>4. Data'
  <2>1. /\ told' = told /\ attested' = attested /\ spent' = spent
        /\ pc' = "idle" \/ pc' = "head"
        /\ sth' = sth \/ sth' = None
        /\ spool' = spool \/ spool' = <<>>
    BY <1>2, Zenon
  <2>2. Data
    BY <1>1
  <2>3. /\ mem' \in Seq(Line) /\ head' \in Seq(Line) \cup {None} /\ file' \in Seq(Line) /\ synced' \in 0 .. Len(file')
        /\ record' = record /\ came' = came
    BY <1>3, Zenon
  <2>4. spool' \in Seq(Line)
    BY <2>1, <2>2, EmptySeq DEF Data
  <2>5. sth' \in Seq(Line) \cup {None}
    BY <2>1, <2>2 DEF Data
  <2> QED
    BY <2>1, <2>2, <2>3, <2>4, <2>5 DEF Data
<1>5. Flags'
  BY <1>1, <1>2, <1>3, Zenon DEF Flags
<1> QED
  BY <1>4, <1>5, TypedIsNext

LEMMA TypedRest ==
  ASSUME Inv, Reset \/ Serve \/ Over \/ Known \/ Newer \/ Proved \/ Verified \/ Unread \/ RenameFails
  PROVE  Typed'
<1>1. Flags /\ Data
  BY TypedIs DEF Inv
<1>2. Flags'
  <2>1. CASE Reset \/ Serve \/ Over \/ Known
    BY <1>1, <2>1, Zenon DEF Flags, Reset, Serve, Over, Known, ram, disk
  <2>2. CASE Newer \/ Proved
    BY <1>1, <2>2, Zenon DEF Flags, Newer, Proved, ram, disk
  <2>3. CASE Verified
    BY <1>1, <2>3, Zenon DEF Flags, Verified, disk
  <2>4. CASE Unread \/ RenameFails
    BY <1>1, <2>4, Zenon DEF Flags, Unread, RenameFails, ram, disk
  <2> QED
    BY <2>1, <2>2, <2>3, <2>4, Zenon
<1>3. Data'
  <2>1. CASE Reset
    BY <1>1, <2>1 DEF Reset, Data
  <2>2. CASE Serve
    BY <1>1, <2>2 DEF Serve, ram, disk, Data
  <2>3. CASE Over
    <3>1. /\ pc' = "idle" /\ sth' = None /\ spool' = <<>> /\ told' = told /\ mem' = mem /\ head' = head
          /\ UNCHANGED disk /\ attested' = attested
          /\ spent' = spent \/ spent' = spent + 1
      BY <2>3, Zenon DEF Over
    <3> QED
      BY <1>1, <3>1 DEF disk, Data
  <2>4. CASE Known
    BY <1>1, <2>4 DEF Known, disk, Data
  <2>5. CASE Newer
    BY <1>1, <2>5 DEF Newer, disk, Data
  <2>6. CASE Proved
    BY <1>1, <2>6 DEF Proved, ram, disk, Data
  <2>7. CASE Verified
    <3>1. sth # None
      BY <2>7, Zenon DEF Inv, Held, Verified
    <3>2. /\ mem' = sth /\ pc' = "append" /\ told' = told /\ head' = head /\ sth' = sth /\ spool' = spool
          /\ UNCHANGED disk /\ attested' = attested /\ spent' = spent
      BY <2>7, Zenon DEF Verified
    <3> QED
      BY <1>1, <3>1, <3>2 DEF disk, Data
  <2>8. CASE Unread
    BY <1>1, <2>8 DEF Unread, Fault, disk, Data
  <2>9. CASE RenameFails
    BY <1>1, <2>9 DEF RenameFails, Fault, ram, disk, Data
  <2> QED
    BY <2>1, <2>2, <2>3, <2>4, <2>5, <2>6, <2>7, <2>8, <2>9, Zenon
<1> QED
  BY <1>2, <1>3, TypedIsNext

LEMMA TypedCommit ==
  ASSUME Inv, AppendLines \/ AppendFails \/ Rename \/ Done
  PROVE  Typed'
<1>1. Flags /\ Data
  BY TypedIs DEF Inv
<1>2. Flags'
  <2>1. CASE AppendLines \/ Rename \/ Done
    BY <1>1, <2>1, Zenon DEF Flags, AppendLines, Rename, Done, Commit, ram
  <2>2. CASE AppendFails
    <3>1. torn' \in BOOLEAN
      BY <2>2, FileIs
    <3> QED
      BY <1>1, <2>2, <3>1, Zenon DEF Flags, AppendFails
  <2> QED
    BY <2>1, <2>2
<1>3. pc \in {"append", "rename", "dir"} => sth # None
  BY DEF Inv, Committed
<1>4. Data
  BY <1>1
<1>5. Data'
  <2>1. CASE AppendLines
    <3>1. /\ file' = file \o spool /\ synced' = Len(file') /\ pc' = "rename" /\ spool' = <<>>
          /\ told' = told /\ mem' = mem /\ head' = head /\ sth' = sth /\ record' = record /\ came' = came
          /\ attested' = attested /\ spent' = spent
      BY <2>1, Zenon DEF AppendLines
    <3>2. file' \in Seq(Line)
      BY <1>4, <3>1, JoinIs DEF Data
    <3> QED
      BY <1>4, <3>1, <3>2 DEF Data
  <2>2. CASE AppendFails
    <3>1. file' \in Seq(Line) /\ Len(file) <= Len(file') /\ synced' = synced /\ record' = record /\ came' = came
      BY <2>2, FileIs DEF Contract!Extends
    <3>2. /\ pc' = "recover" /\ spool' = <<>> /\ told' = told /\ mem' = mem /\ head' = head /\ sth' = sth
          /\ attested' = attested /\ spent' = spent + 1
      BY <2>2, Zenon DEF AppendFails, Fault
    <3> QED
      BY <1>4, <3>1, <3>2 DEF Data
  <2>3. CASE Rename
    <3>1. sth # None
      BY <1>3, <2>3 DEF Rename
    <3> QED
      BY <1>4, <2>3, <3>1 DEF Rename, ram, Data
  <2>4. CASE Done
    <3>1. sth # None
      BY <1>3, <2>4 DEF Done, Commit
    <3>2. /\ came' = {record} \/ came' = came
          /\ head' = sth /\ attested' = sth /\ pc' = "idle" /\ sth' = None
          /\ told' = told /\ mem' = mem /\ spool' = spool /\ file' = file /\ synced' = synced
          /\ record' = record /\ (spent' = spent \/ spent' = spent + 1)
      BY <2>4, Zenon DEF Done, Commit
    <3> QED
      BY <1>4, <3>1, <3>2 DEF Data
  <2> QED
    BY <2>1, <2>2, <2>3, <2>4
<1> QED
  BY <1>2, <1>5, TypedIsNext

\* What a power failure leaves.
LEMMA PowerIs ==
  ASSUME Inv, PowerLoss
  PROVE  /\ file' \in Seq(Line) /\ synced' = Len(file') /\ torn' \in BOOLEAN
         /\ Contract!Extends(file, file') /\ record' \in came /\ came' = {record'}
         /\ record' = None \/ Len(record') <= synced'
<1>1. Data
  BY TypedIs DEF Inv
<1>2. record' \in came /\ came' = {record'}
  BY Zenon DEF PowerLoss
<1>3. record' = None \/ (record' \in Seq(Line) /\ Len(record') <= synced)
  BY <1>1, <1>2 DEF Inv, Kept, Data
<1>4. PICK n \in (IF HeadSize(record') = 0 THEN 0 ELSE synced) .. Len(file) :
        /\ file' = First(file, n) /\ synced' = n
        /\ torn' \in IF n < Len(file) \/ torn THEN BOOLEAN ELSE {FALSE}
  BY Zenon DEF PowerLoss
<1>5. torn' \in BOOLEAN
  BY <1>4, Zenon
<1>6. file' = First(file, n) /\ synced' = n
  BY <1>4, Zenon
<1>7. n \in 0 .. Len(file)
  BY <1>1 DEF Data
<1>8. file' \in Seq(Line) /\ Len(file') = n /\ Contract!Extends(file, file')
  BY <1>1, <1>6, <1>7, FirstIs DEF Data
<1>9. record' = None \/ Len(record') <= n
  <2>1. CASE record' # None /\ HeadSize(record') = 0
    BY <1>7, <2>1 DEF HeadSize
  <2>2. CASE record' # None /\ HeadSize(record') # 0
    <3>1. n \in synced .. Len(file)
      BY <2>2
    <3> QED
      BY <1>1, <1>3, <2>2, <3>1 DEF Data
  <2> QED
    BY <2>1, <2>2
<1> QED
  BY <1>2, <1>5, <1>6, <1>8, <1>9

LEMMA TypedFail ==
  ASSUME Inv, Kill \/ PowerLoss
  PROVE  Typed'
<1>1. Flags /\ Data
  BY TypedIs DEF Inv
<1>2. /\ pc' = "down" /\ mem' = <<>> /\ head' = None /\ reload' = FALSE /\ diverged' = FALSE
      /\ sth' = None /\ spool' = <<>> /\ told' = told /\ attested' = attested /\ spent' = spent + 1
      /\ honest' = honest
  BY Zenon DEF Kill, PowerLoss, Forget, Fault
<1>3. cut' \in BOOLEAN /\ lost' \in BOOLEAN
  <2>1. (cut \/ pc = "dir") \in BOOLEAN /\ (lost \/ (cut /\ record' # record)) \in BOOLEAN
    OBVIOUS
  <2> QED
    BY <1>1, <2>1, Zenon DEF Kill, PowerLoss, Flags
<1>4. /\ file' \in Seq(Line) /\ torn' \in BOOLEAN /\ synced' \in 0 .. Len(file')
      /\ record' \in came' /\ came' \subseteq came
  <2>1. CASE Kill
    <3>1. /\ file' \in Seq(Line) /\ Len(file) <= Len(file') /\ torn' \in BOOLEAN /\ synced' = synced
          /\ record' = record /\ came' = came
      BY <2>1, FileIs DEF Contract!Extends
    <3>2. synced' \in 0 .. Len(file')
      <4>1. Data
        BY <1>1
      <4>2. file' \in Seq(Line) /\ Len(file) <= Len(file') /\ synced' = synced
        BY <3>1
      <4> QED
        BY <4>1, <4>2 DEF Data
    <3> QED
      BY <1>1, <3>1, <3>2, Zenon DEF Data
  <2>2. CASE PowerLoss
    BY <2>2, PowerIs
  <2> QED
    BY <2>1, <2>2
<1>5. Flags'
  BY <1>1, <1>2, <1>3, <1>4, Zenon DEF Flags
<1>6. Data'
  <2>1. Data
    BY <1>1
  <2>2. /\ file' \in Seq(Line) /\ synced' \in 0 .. Len(file') /\ record' \in came' /\ came' \subseteq came
    BY <1>4
  <2>3. /\ pc' = "down" /\ mem' = <<>> /\ head' = None /\ sth' = None /\ spool' = <<>>
        /\ told' = told /\ attested' = attested /\ spent' = spent + 1
    BY <1>2
  <2> QED
    BY <2>1, <2>2, <2>3 DEF Data
<1> QED
  BY <1>5, <1>6, TypedIsNext

LEMMA TypedPage ==
  ASSUME Inv, NEW n \in 1 .. PageSize, Paged(n)
  PROVE  /\ Typed' /\ (Contract!Extends(told, mem \o spool) => Contract!Extends(told, mem \o spool'))
<1>1. Flags /\ Data
  BY TypedIs DEF Inv
<1>2. told \in Seq(Line) /\ mem \in Seq(Line) /\ spool \in Seq(Line) /\ n \in Nat
  BY <1>1, MirrorAssumption DEF Data
<1>3. PICK q : q = SubSeq(told, Got + 1, Got + n)
  OBVIOUS
<1>4. Got \in Nat /\ Got = Len(mem) + Len(spool) /\ Got + n <= Len(told)
  BY <1>2 DEF Got, Paged
<1>5. q \in Seq(Line) /\ Len(q) = n /\ \A j \in 1 .. Len(q) : q[j] = told[Got + j]
  <2>1. PICK k \in Nat : k = Got
    BY <1>4
  <2>2. k + n <= Len(told) /\ q = SubSeq(told, k + 1, k + n)
    BY <1>3, <1>4, <2>1
  <2>3. q \in Seq(Line) /\ Len(q) = n /\ \A j \in 1 .. n : q[j] = told[k + j]
    BY <1>2, <2>2, PartIs
  <2> QED
    BY <2>1, <2>3
<1>6. /\ spool' = spool \o q /\ pc' = pc /\ told' = told /\ mem' = mem /\ head' = head /\ sth' = sth
      /\ UNCHANGED disk /\ attested' = attested /\ spent' = spent
  BY <1>3, Zenon DEF Paged
<1>7. spool' \in Seq(Line)
  BY <1>2, <1>5, <1>6, JoinIs
<1>8. Data'
  <2>1. Data
    BY <1>1
  <2> QED
    BY <1>6, <1>7, <2>1 DEF disk, Data
<1>9. Flags'
  BY <1>1, Zenon DEF Flags, Paged, disk
<1>10. ASSUME Contract!Extends(told, mem \o spool)
       PROVE  Contract!Extends(told, mem \o spool')
  <2>1. Len(mem) + Len(spool) + Len(q) <= Len(told)
    BY <1>4, <1>5
  <2>2. \A j \in 1 .. Len(q) : q[j] = told[Len(mem) + Len(spool) + j]
    BY <1>4, <1>5, Zenon
  <2>3. Contract!Extends(told, mem \o (spool \o q))
    BY <1>2, <1>5, <1>10, <2>1, <2>2, PageIs, Zenon
  <2> QED
    BY <1>6, <2>3
<1> QED
  BY <1>8, <1>9, <1>10, TypedIsNext

LEMMA TypedAside ==
  ASSUME Inv, Aside
  PROVE  Typed'
<1>1. Flags /\ Data
  BY TypedIs DEF Inv
<1>2. Flags'
  BY <1>1, AsideIs, Zenon DEF Flags
<1>3. /\ pc' = pc /\ mem' = mem /\ head' = head /\ sth' = sth /\ spool' = spool /\ file' = file
      /\ synced' = synced /\ record' = record /\ came' = came /\ attested' = attested
      /\ told' \in Seq(Line) /\ spent' \in Nat
  BY AsideIs, Zenon
<1>4. Data'
  BY <1>1, <1>3, Zenon DEF Data
<1> QED
  BY <1>2, <1>4, TypedIsNext

LEMMA TypedStep ==
  ASSUME Inv, [Next]_vars
  PROVE  Typed'
BY Steps, TypedLoad, TypedRest, TypedCommit, TypedFail, TypedPage, TypedAside, Zenon

LEMMA HeldStep ==
  ASSUME Inv, [Next]_vars
  PROVE  Held'
<1>1. Data /\ Held /\ Committed /\ Typed /\ Kept
  BY TypedIs DEF Inv
<1>2. ASSUME Load, pc' \in {"idle", "head"}, spool' = <<>>
      PROVE  Held'
  <2>1. /\ head' = record /\ mem' = Of(record) /\ file' = Of(record) /\ reload' = FALSE /\ record' = record
    BY <1>1, <1>2, LoadIs
  <2>2. AtRest'
    BY <2>1, Zenon DEF AtRest, Of
  <2> QED
    BY <1>2, <2>1, <2>2 DEF Held
<1>3. CASE Start \/ Reread
  BY <1>2, <1>3 DEF Start, Reread
<1>4. CASE Sync
  <2>1. spool' = <<>> /\ pc' = "head"
    BY <1>1, <1>4 DEF Sync, Held
  <2>2. CASE Load
    BY <1>2, <2>1, <2>2
  <2>3. CASE ~reload /\ UNCHANGED <<mem, head, reload, disk>>
    <3>1. AtRest
      BY <1>1, <1>4, <2>3 DEF Sync, Held
    <3>2. mem' = mem /\ head' = head /\ record' = record /\ file' = file /\ ~reload'
      BY <2>3, Zenon DEF disk
    <3>3. AtRest'
      BY <3>1, <3>2, Zenon DEF AtRest, Of
    <3> QED
      BY <2>1, <3>2, <3>3 DEF Held
  <2> QED
    BY <1>4, <2>2, <2>3, Zenon DEF Sync
<1>5. CASE Reset \/ Kill \/ PowerLoss
  <2>1. pc' = "down" /\ spool' = <<>>
    BY <1>5, Zenon DEF Reset, Kill, PowerLoss, Forget
  <2> QED
    BY <2>1 DEF Held
<1>6. CASE Serve \/ Aside
  <2>1. /\ pc' = pc /\ mem' = mem /\ head' = head /\ reload' = reload /\ sth' = sth /\ spool' = spool
        /\ file' = file /\ record' = record
    BY <1>6, AsideIs, Zenon DEF Serve, ram, disk
  <2> QED
    BY <1>1, <2>1, Zenon DEF Held, AtRest, Of
<1>7. CASE Over
  <2>1. /\ pc \in {"head", "proof", "page"} /\ pc' = "idle" /\ spool' = <<>>
        /\ mem' = mem /\ head' = head /\ reload' = reload /\ file' = file /\ record' = record
    BY <1>7, Zenon DEF Over, disk
  <2>2. AtRest
    BY <1>1, <2>1 DEF Held
  <2>3. AtRest'
    BY <2>1, <2>2, Zenon DEF AtRest, Of
  <2> QED
    BY <2>1, <2>3 DEF Held
<1>8. CASE Known \/ Verified
  <2>1. /\ pc \in {"head", "page"} /\ pc' \in {"rename", "append"} /\ reload' = reload
        /\ pc = "head" => spool' = spool
        /\ pc' = "rename" => pc = "head"
    BY <1>8 DEF Known, Verified
  <2> QED
    BY <1>1, <2>1 DEF Held
<1>9. CASE Newer
  <2>1. /\ pc = "head" /\ Len(told) > Len(mem) /\ sth' = told /\ pc' = IF mem = <<>> THEN "page" ELSE "proof"
        /\ mem' = mem /\ head' = head /\ reload' = reload /\ spool' = spool /\ file' = file /\ record' = record
    BY <1>9, Zenon DEF Newer, disk
  <2>2. AtRest /\ ~reload /\ spool = <<>>
    BY <1>1, <2>1 DEF Held
  <2>3. AtRest'
    BY <2>1, <2>2, Zenon DEF AtRest, Of
  <2>4. sth' # None /\ Len(mem') < Len(sth')
    BY <1>1, <2>1, NoneAssumption DEF Data
  <2>5. pc' \in {"page", "proof"} /\ (pc' = "proof" => mem' # <<>>)
    BY <2>1
  <2> QED
    BY <2>1, <2>2, <2>3, <2>4, <2>5 DEF Held
<1>10. CASE Proved \/ \E n \in 1 .. PageSize : Paged(n)
  <2>1. /\ pc \in {"proof", "page"} /\ pc' = "page" /\ mem' = mem /\ head' = head /\ reload' = reload
        /\ sth' = sth /\ file' = file /\ record' = record
    BY <1>10, Zenon DEF Proved, Paged, ram, disk
  <2>2. AtRest /\ ~reload /\ sth # None /\ Len(mem) < Len(sth)
    BY <1>1, <2>1 DEF Held
  <2>3. AtRest'
    BY <2>1, <2>2, Zenon DEF AtRest, Of
  <2> QED
    BY <2>1, <2>2, <2>3 DEF Held
<1>11. CASE AppendLines \/ Rename
  <2>1. pc \in {"append", "rename"} /\ pc' \in {"rename", "dir"} /\ reload' = reload
    BY <1>11, Zenon DEF AppendLines, Rename, ram
  <2>2. spool' = <<>>
    BY <1>1, <1>11 DEF AppendLines, Rename, ram, Held
  <2> QED
    BY <1>1, <2>1, <2>2 DEF Held
<1>12. CASE AppendFails \/ RenameFails
  <2>1. pc' = "recover" /\ spool' = <<>>
    BY <1>1, <1>12 DEF AppendFails, RenameFails, ram, Held
  <2> QED
    BY <2>1 DEF Held
<1>13. CASE Done
  <2>1. /\ pc = "dir" /\ pc' = "idle" /\ mem' = mem /\ head' = sth /\ spool' = spool
        /\ file' = file /\ record' = record
    BY <1>13, Zenon DEF Done, Commit
  <2>2. spool = <<>> /\ sth # None /\ mem = sth /\ file = sth /\ record = sth
    BY <1>1, <2>1 DEF Held, Committed
  <2>3. AtRest'
    BY <2>1, <2>2, Zenon DEF AtRest, Of
  <2> QED
    BY <2>1, <2>2, <2>3 DEF Held
<1>14. CASE Unread
  <2>1. pc' = "idle" /\ spool' = <<>> /\ reload' = TRUE
    BY <1>14, Zenon DEF Unread
  <2> QED
    BY <2>1 DEF Held
<1> QED
  BY <1>3, <1>4, <1>5, <1>6, <1>7, <1>8, <1>9, <1>10, <1>11, <1>12, <1>13, <1>14, Steps, Zenon

LEMMA CommittedStep ==
  ASSUME Inv, [Next]_vars
  PROVE  Committed'
<1>1. Data /\ Held /\ Committed /\ Kept
  BY TypedIs DEF Inv
<1>2. CASE Start \/ Reread \/ Sync \/ Reset \/ Kill \/ PowerLoss \/ Over \/ AppendFails \/ RenameFails \/ Done \/ Unread
  <2>1. pc' \in {"down", "idle", "head", "recover"}
    BY <1>2, Zenon
       DEF Start, Reread, Sync, Reset, Kill, PowerLoss, Forget, Over, AppendFails, RenameFails, Done, Commit, Unread
  <2> QED
    BY <2>1 DEF Committed
<1>3. CASE Newer \/ Proved \/ \E n \in 1 .. PageSize : Paged(n)
  <2>1. pc' \in {"proof", "page"}
    BY <1>3, Zenon DEF Newer, Proved, Paged
  <2> QED
    BY <2>1 DEF Committed
<1>4. CASE Serve \/ Aside
  <2>1. /\ pc' = pc /\ mem' = mem /\ sth' = sth /\ spool' = spool
        /\ file' = file /\ record' = record /\ synced' = synced
    BY <1>4, AsideIs, Zenon DEF Serve, ram, disk
  <2> QED
    BY <1>1, <2>1, Zenon DEF Committed, Of
<1>5. CASE Known
  <2>1. /\ pc = "head" /\ Len(told) = Len(mem) /\ (head # None => told = head) /\ sth' = told /\ pc' = "rename"
        /\ mem' = mem /\ file' = file /\ record' = record /\ synced' = synced
    BY <1>5, Zenon DEF Known, disk
  <2>2. mem = Of(head) /\ head = record /\ file = Of(record)
    BY <1>1, <2>1 DEF Held, AtRest
  <2>3. told = Of(head)
    <3>1. CASE head = None
      BY <1>1, <2>1, <2>2, <3>1 DEF Of, Data
    <3>2. CASE head # None
      BY <2>1, <3>2 DEF Of
    <3> QED
      BY <3>1, <3>2
  <2>4. told # None /\ told \in Seq(Line)
    BY <1>1, NoneAssumption DEF Data
  <2>5. Contract!WellFormed(told) /\ synced = Len(told)
    <3>1. CASE record = None
      BY <1>1, <2>2, <2>3, <3>1 DEF Of, Data, Contract!WellFormed
    <3>2. CASE record # None
      <4>1. record \in came
        BY <1>1 DEF Data
      <4>2. Len(record) <= synced /\ Contract!WellFormed(record)
        BY <1>1, <3>2, <4>1 DEF Kept
      <4> QED
        BY <1>1, <2>2, <2>3, <3>2, <4>2 DEF Of, Data
    <3> QED
      BY <3>1, <3>2
  <2>6. Contract!Extends(told, told)
    BY <2>4, ExtendsSelf
  <2>7. /\ sth' = told /\ mem' = told /\ file' = told /\ Of(record)' = told
    BY <2>1, <2>2, <2>3, Zenon DEF Of
  <2> QED
    BY <2>1, <2>4, <2>5, <2>6, <2>7 DEF Committed
<1>6. CASE Verified
  <2>1. /\ pc = "page" /\ mem \o spool = sth /\ Contract!WellFormed(sth) /\ mem' = sth /\ pc' = "append"
        /\ sth' = sth /\ spool' = spool /\ file' = file /\ record' = record
    BY <1>6, Zenon DEF Verified, disk
  <2>2. sth # None /\ mem = Of(record) /\ file = Of(record)
    BY <1>1, <2>1 DEF Held, AtRest
  <2> QED
    BY <2>1, <2>2 DEF Committed, Of
<1>7. CASE AppendLines
  <2>1. /\ pc = "append" /\ file' = file \o spool /\ synced' = Len(file') /\ pc' = "rename"
        /\ mem' = mem /\ sth' = sth /\ record' = record
    BY <1>7, Zenon DEF AppendLines
  <2>2. sth # None /\ Contract!WellFormed(sth) /\ mem = sth /\ file = Of(record) /\ sth = file \o spool
    BY <1>1, <2>1 DEF Committed
  <2>3. Contract!Extends(sth, Of(record))
    <3>1. Contract!Extends(file \o spool, file)
      BY <1>1, JoinIs DEF Data
    <3> QED
      BY <2>2, <3>1
  <2>4. file' = sth /\ synced' = Len(sth) /\ Of(record)' = Of(record)
    BY <2>1, <2>2, Zenon DEF Of
  <2> QED
    BY <2>1, <2>2, <2>3, <2>4 DEF Committed
<1>8. CASE Rename
  <2>1. pc = "rename" /\ pc' = "dir" /\ record' = sth /\ mem' = mem /\ sth' = sth /\ file' = file
    BY <1>8, Zenon DEF Rename, ram
  <2>2. sth # None /\ Contract!WellFormed(sth) /\ mem = sth /\ file = sth
    BY <1>1, <2>1 DEF Committed
  <2> QED
    BY <2>1, <2>2 DEF Committed
<1> QED
  BY <1>2, <1>3, <1>4, <1>5, <1>6, <1>7, <1>8, Steps, Zenon

\* Most steps leave the disk and what was served as they are.
Quiet ==
  /\ file' = file /\ synced' = synced /\ record' = record /\ came' = came
  /\ cut' = cut /\ (pc = "dir" => pc' = "dir")

LEMMA QuietSteps ==
  ASSUME Inv, [Next]_vars
  PROVE  \/ Start \/ Reset \/ Sync \/ AppendLines \/ AppendFails \/ Rename \/ Done \/ Reread \/ Kill \/ PowerLoss
         \/ Quiet /\ (UNCHANGED served \/ Serve)
<1>1. Over \/ Known \/ Newer \/ Proved \/ Verified \/ (\E n \in 1 .. PageSize : Paged(n)) \/ RenameFails \/ Unread
        => UNCHANGED disk /\ cut' = cut /\ UNCHANGED served /\ pc \in {"head", "proof", "page", "rename", "recover"}
  BY Zenon DEF Over, Known, Newer, Proved, Verified, Paged, RenameFails, Unread, disk
<1>2. pc \in {"head", "proof", "page", "rename", "recover"} => pc # "dir"
  OBVIOUS
<1>3. Serve => UNCHANGED disk /\ cut' = cut /\ pc' = pc
  BY Zenon DEF Serve
<1>4. Aside => Quiet /\ UNCHANGED served
  BY AsideIs, Zenon DEF Quiet
<1> QED
  BY <1>1, <1>2, <1>3, <1>4, Steps, Zenon DEF Quiet, disk

LEMMA KeptStep ==
  ASSUME Inv, [Next]_vars
  PROVE  Kept'
<1>1. Data /\ Typed /\ Kept /\ Committed
  BY TypedIs DEF Inv
<1>2. ASSUME NEW r \in came, r # None
      PROVE  /\ r \in Seq(Line) /\ Len(r) <= synced /\ Contract!Extends(file, r) /\ Contract!WellFormed(r)
             /\ record # None /\ Contract!Extends(record, r)
  BY <1>1, <1>2 DEF Kept, Data
<1>3. CASE Start \/ Sync \/ Reread
  <2>1. cut' = cut /\ pc # "dir"
    BY <1>3 DEF Start, Sync, Reread
  <2>2. CASE Load
    <3>1. /\ record' = record /\ came' = came
          /\ \A r \in came : r = None \/ (Len(r) <= synced' /\ Contract!Extends(file', r))
      BY <1>1, <2>2, LoadIs
    <3> QED
      BY <1>1, <2>1, <3>1, Zenon DEF Kept
  <2>3. CASE UNCHANGED disk
    BY <1>1, <2>1, <2>3, Zenon DEF Kept, disk
  <2> QED
    BY <1>3, <2>2, <2>3, Zenon DEF Start, Sync, Reread
<1>4. CASE Reset
  <2>1. record' = None /\ came' = {None}
    BY <1>4, Zenon DEF Reset
  <2> QED
    BY <2>1 DEF Kept
<1>5. CASE AppendLines
  <2>1. /\ file' = file \o spool /\ synced' = Len(file') /\ record' = record /\ came' = came
        /\ cut' = cut /\ pc # "dir"
    BY <1>5 DEF AppendLines
  <2>2. file' \in Seq(Line) /\ Contract!Extends(file', file)
    BY <1>1, <2>1, JoinIs DEF Data
  <2>3. ASSUME NEW r \in came, r # None
        PROVE  Len(r) <= synced' /\ Contract!Extends(file', r)
    <3>1. Contract!Extends(file', r)
      BY <1>1, <1>2, <2>2, <2>3, ExtendsOn DEF Data
    <3> QED
      BY <2>1, <3>1 DEF Contract!Extends
  <2> QED
    BY <1>1, <2>1, <2>3, Zenon DEF Kept
<1>6. CASE AppendFails \/ Kill
  <2>1. file' \in Seq(Line) /\ Contract!Extends(file', file) /\ UNCHANGED <<synced, record, came>>
    BY <1>6, FileIs
  <2>2. cut' \/ came = {record}
    BY <1>1, <1>6 DEF AppendFails, Kill, Kept
  <2>3. ASSUME NEW r \in came, r # None
        PROVE  Contract!Extends(file', r)
    BY <1>1, <1>2, <2>1, <2>3, ExtendsOn DEF Data
  <2> QED
    BY <1>1, <2>1, <2>2, <2>3, Zenon DEF Kept
<1>7. CASE Rename
  <2>1. record' = sth /\ came' = came \cup {sth} /\ pc' = "dir" /\ file' = file /\ synced' = synced /\ pc = "rename"
    BY <1>7, Zenon DEF Rename
  <2>2. /\ sth # None /\ Contract!WellFormed(sth) /\ file = sth /\ synced = Len(sth) /\ sth \in Seq(Line)
    BY <1>1, <2>1 DEF Committed, Data
  <2>3. ASSUME NEW r \in came', r # None
        PROVE  /\ Len(r) <= synced' /\ Contract!Extends(file', r) /\ Contract!WellFormed(r)
               /\ record' # None /\ Contract!Extends(record', r)
    <3>1. CASE r = sth
      BY <2>1, <2>2, <3>1, ExtendsSelf
    <3>2. CASE r \in came
      BY <1>2, <2>1, <2>2, <2>3, <3>2
    <3> QED
      BY <2>1, <3>1, <3>2
  <2> QED
    BY <2>1, <2>3, Zenon DEF Kept
<1>8. CASE Done
  <2>1. /\ file' = file /\ synced' = synced /\ record' = record
        /\ came' = {record} \/ (came' = came /\ cut' = TRUE)
    BY <1>8, Zenon DEF Done, Commit
  <2>2. ASSUME record # None
        PROVE  /\ Len(record) <= synced /\ Contract!Extends(file, record) /\ Contract!WellFormed(record)
               /\ Contract!Extends(record, record)
    BY <1>1, <1>2, <2>2 DEF Data
  <2> QED
    BY <1>1, <2>1, <2>2, Zenon DEF Kept
<1>9. CASE PowerLoss
  <2>1. /\ file' \in Seq(Line) /\ synced' = Len(file') /\ Contract!Extends(file, file')
        /\ record' \in came /\ came' = {record'} /\ (record' = None \/ Len(record') <= synced')
    BY <1>9, PowerIs
  <2>2. ASSUME record' # None
        PROVE  /\ Len(record') <= synced' /\ Contract!Extends(file', record') /\ Contract!WellFormed(record')
               /\ Contract!Extends(record', record')
    <3>1. PICK r \in came : r = record'
      BY <2>1
    <3>2. r \in Seq(Line) /\ Contract!Extends(file, r) /\ Contract!WellFormed(r)
      BY <1>2, <2>2, <3>1
    <3>3. Len(r) <= Len(file')
      BY <2>1, <2>2, <3>1
    <3>4. Contract!Extends(file', r)
      BY <1>1, <2>1, <3>2, <3>3, ExtendsBoth DEF Data
    <3> QED
      BY <2>1, <2>2, <3>1, <3>2, <3>4, ExtendsSelf
  <2> QED
    BY <2>1, <2>2, Zenon DEF Kept
<1>10. CASE Quiet
  BY <1>1, <1>10, Zenon DEF Kept, Quiet
<1> QED
  BY <1>3, <1>4, <1>5, <1>6, <1>7, <1>8, <1>9, <1>10, QuietSteps, Zenon

\* A directory that has a head loads.
LEMMA AlwaysLoads ==
  ASSUME Inv, record # None
  PROVE  Loads
<1>1. Data /\ record \in Seq(Line) /\ record \in came
  BY TypedIs DEF Inv, Data
<1>2. Contract!Extends(file, record)
  BY <1>1 DEF Inv, Kept
<1>3. First(file, Len(record)) = record
  BY <1>1, <1>2, FirstOf DEF Data
<1> QED
  BY <1>2, <1>3 DEF Loads, Contract!Extends

LEMMA ServedStep ==
  ASSUME Inv, [Next]_vars
  PROVE  ServedKept'
<1>1. Data /\ Flags /\ Kept /\ Committed /\ ServedKept
  BY TypedIs DEF Inv
<1>2. CASE UNCHANGED served /\ came' \subseteq came /\ record' = record /\ (cut => cut')
  BY <1>1, <1>2, Zenon DEF ServedKept
<1>3. CASE Start \/ Sync \/ Reread
  BY <1>2, <1>3, Zenon DEF Start, Sync, Reread, Load, disk
<1>4. CASE Reset
  <2>1. record = None
    BY <1>4, AlwaysLoads, Zenon DEF Reset
  <2>2. None \in came
    BY <1>1, <2>1 DEF Data
  <2>3. came' \subseteq came /\ record' = record /\ UNCHANGED served /\ cut' = cut
    BY <1>4, <2>1, <2>2 DEF Reset
  <2> QED
    BY <1>2, <2>3
<1>5. CASE AppendLines \/ AppendFails \/ Kill
  <2>1. came' = came /\ record' = record /\ UNCHANGED served
    BY <1>5, Zenon DEF AppendLines, AppendFails, Kill, disk
  <2>2. cut => cut'
    BY <1>5 DEF AppendLines, AppendFails, Kill
  <2> QED
    BY <1>2, <2>1, <2>2, Zenon
<1>6. CASE Rename
  <2>1. /\ pc = "rename" /\ came' = came \cup {sth} /\ record' = sth
        /\ UNCHANGED served /\ cut' = cut
    BY <1>6, Zenon DEF Rename
  <2>2. ASSUME attested # <<>>, ~lost
        PROVE  sth # None /\ Contract!Extends(sth, attested)
    <3>1. record \in came
      BY <1>1 DEF Data
    <3>2. record # None /\ Contract!Extends(record, attested)
      BY <1>1, <2>2, <3>1 DEF ServedKept
    <3>3. sth # None /\ Contract!Extends(sth, record)
      BY <1>1, <2>1, <3>2 DEF Committed, Of
    <3> QED
      BY <1>1, <3>2, <3>3, ExtendsOn DEF Data
  <2> QED
    BY <1>1, <2>1, <2>2 DEF ServedKept
<1>7. CASE Done
  <2>1. /\ pc = "dir" /\ attested' = sth /\ record' = record
        /\ came' = {record} \/ (came' = came /\ cut' = TRUE)
    BY <1>7, Zenon DEF Done, Commit
  <2>2. record = sth /\ sth # None /\ sth \in Seq(Line)
    BY <1>1, <2>1 DEF Committed, Data
  <2> QED
    BY <2>1, <2>2, ExtendsSelf DEF ServedKept
<1>8. CASE PowerLoss
  <2>1. record' \in came /\ came' = {record'}
    BY <1>8, PowerIs
  <2>2. attested' = attested /\ lost' = (lost \/ (cut /\ record' # record))
    BY <1>8, Zenon DEF PowerLoss
  <2>3. ASSUME attested' # <<>>, ~lost'
        PROVE  record' # None /\ Contract!Extends(record', attested')
    <3>1. attested # <<>> /\ ~lost /\ (cut => record' = record)
      BY <1>1, <2>2, <2>3
    <3> QED
      BY <1>1, <2>1, <2>2, <3>1 DEF ServedKept
  <2> QED
    BY <2>1, <2>3 DEF ServedKept
<1>9. CASE Quiet /\ UNCHANGED served
  BY <1>2, <1>9, Zenon DEF Quiet
<1>10. CASE Quiet /\ Serve
  <2>1. /\ came' = came /\ cut' = cut /\ record' = record /\ attested' = record
        /\ record # None /\ pc # "dir"
    BY <1>10 DEF Quiet, Serve
  <2>2. cut \/ came = {record}
    BY <1>1, <2>1 DEF Kept
  <2>3. Contract!Extends(record, record)
    BY <1>1, <2>1, ExtendsSelf DEF Data
  <2> QED
    BY <2>1, <2>2, <2>3 DEF ServedKept
<1> QED
  BY <1>3, <1>4, <1>5, <1>6, <1>7, <1>8, <1>9, <1>10, QuietSteps, Zenon

LEMMA BelievedStep ==
  ASSUME Inv, [Next]_vars
  PROVE  Believed'
<1>1. Data /\ Held /\ Committed /\ Believed
  BY TypedIs DEF Inv
<1>2. SUFFICES ASSUME honest'
               PROVE  /\ ~diverged' /\ Contract!WellFormed(told')
                      /\ \A r \in came' : r = None \/ Contract!Extends(told', r)
                      /\ sth' = None \/ Contract!Extends(told', sth')
                      /\ pc' = "page" => Contract!Extends(told', mem' \o spool')
  BY Zenon DEF Believed
<1>3. honest /\ told' \in Seq(Line) /\ Contract!Extends(told', told) /\ Contract!WellFormed(told')
  <2>1. CASE Aside
    BY <1>2, <2>1, AsideIs, Zenon
  <2>2. CASE told' = told /\ (honest' => honest)
    <3>1. told \in Seq(Line)
      BY <1>1 DEF Data
    <3>2. Contract!WellFormed(told)
      BY <1>1, <1>2, <2>2, Zenon DEF Believed
    <3> QED
      BY <1>2, <2>2, <3>1, <3>2, ExtendsSelf
  <2>3. \/ Aside
        \/ told' = told /\ (honest' = honest \/ honest' = FALSE)
    BY Steps, Zenon
       DEF Start, Reset, Sync, Serve, Over, Known, Newer, Proved, Paged, Verified, AppendLines, AppendFails,
           Rename, RenameFails, Done, Commit, Reread, Unread, Kill, PowerLoss
  <2> QED
    BY <2>1, <2>2, <2>3, Zenon
<1>4. /\ ~diverged
      /\ sth = None \/ Contract!Extends(told, sth)
      /\ \A r \in came : r = None \/ Contract!Extends(told, r)
      /\ pc = "page" => Contract!Extends(told, mem \o spool)
  BY <1>1, <1>3, Zenon DEF Believed
<1>5. ASSUME NEW h \in Seq(Line), Contract!Extends(told, h)
      PROVE  Contract!Extends(told', h)
  BY <1>1, <1>3, <1>5, ExtendsOn DEF Data
<1>6. ~diverged'
  <2>1. CASE Over
    <3>1. ~Suspect
      BY <1>3, HonestIsNot
    <3> QED
      BY <1>2, <1>4, <2>1, <3>1, Zenon DEF Over
  <2>2. CASE Aside
    BY <1>4, <2>2, AsideIs, Zenon
  <2>3. \/ Over \/ Aside
        \/ diverged' = diverged \/ diverged' = FALSE
    BY Steps, Zenon
       DEF Start, Reset, Sync, Serve, Known, Newer, Proved, Paged, Verified, AppendLines, AppendFails,
           Rename, RenameFails, Done, Commit, Reread, Unread, Kill, PowerLoss, Forget, ram
  <2> QED
    BY <1>4, <2>1, <2>2, <2>3, Zenon
<1>7. ASSUME NEW r \in came', r # None
      PROVE  Contract!Extends(told', r)
  <2>1. CASE r \in came
    <3>1. r \in Seq(Line) /\ Contract!Extends(told, r)
      BY <1>1, <1>4, <1>7, <2>1 DEF Data
    <3> QED
      BY <1>5, <3>1
  <2>2. CASE r = sth
    <3>1. r \in Seq(Line) /\ Contract!Extends(told, r)
      BY <1>1, <1>4, <1>7, <2>2 DEF Data
    <3> QED
      BY <1>5, <3>1
  <2>3. \/ came' \subseteq came \cup {sth}
        \/ came' = {None}
    <3>1. CASE Start \/ Sync \/ Reread \/ AppendLines \/ AppendFails \/ Kill
      <4>1. came' = came
        BY <3>1, Zenon DEF Start, Sync, Reread, Load, AppendLines, AppendFails, Kill, disk
      <4> QED
        BY <4>1
    <3>2. CASE Reset
      BY <3>2, Zenon DEF Reset
    <3>3. CASE Rename
      BY <3>3 DEF Rename
    <3>4. CASE Done
      <4>1. (came' = {record} \/ came' = came) /\ record \in came
        BY <1>1, <3>4, Zenon DEF Done, Commit, Data
      <4> QED
        BY <4>1
    <3>5. CASE PowerLoss
      <4>1. came' = {record'} /\ record' \in came
        BY <3>5, PowerIs
      <4> QED
        BY <4>1
    <3>6. CASE Quiet
      BY <3>6 DEF Quiet
    <3> QED
      BY <3>1, <3>2, <3>3, <3>4, <3>5, <3>6, QuietSteps, Zenon
  <2> QED
    BY <1>7, <2>1, <2>2, <2>3
<1>8. sth' = None \/ Contract!Extends(told', sth')
  <2>1. CASE sth' = sth
    BY <1>1, <1>4, <1>5, <2>1 DEF Data
  <2>2. CASE sth' = told
    BY <1>3, <2>2
  <2>3. CASE Aside
    BY <2>1, <2>3, AsideIs, Zenon
  <2>4. \/ Aside
        \/ sth' = sth \/ sth' = told \/ sth' = None
    BY Steps, Zenon
       DEF Start, Reset, Sync, Serve, Over, Known, Newer, Proved, Paged, Verified, AppendLines, AppendFails,
           Rename, RenameFails, Done, Commit, Reread, Unread, Kill, PowerLoss, Forget, ram
  <2> QED
    BY <2>1, <2>2, <2>3, <2>4, Zenon
<1>9. ASSUME pc' = "page"
      PROVE  Contract!Extends(told', mem' \o spool')
  <2>1. CASE Serve \/ Aside
    <3>1. pc' = pc /\ mem' = mem /\ spool' = spool
      BY <2>1, AsideIs, Zenon DEF Serve, ram
    <3>2. mem \o spool \in Seq(Line)
      BY <1>1, JoinIs DEF Data
    <3> QED
      BY <1>4, <1>5, <1>9, <3>1, <3>2
  <2>2. CASE Newer
    <3>1. pc = "head" /\ mem' = mem /\ spool' = spool /\ pc' = IF mem = <<>> THEN "page" ELSE "proof"
      BY <2>2, Zenon DEF Newer
    <3>2. mem = <<>> /\ spool = <<>>
      BY <1>1, <1>9, <3>1 DEF Held
    <3>3. mem' \o spool' = <<>>
      BY <3>1, <3>2
    <3>4. Contract!Extends(told', <<>>)
      BY <1>3, ExtendsSelf
    <3> QED
      BY <3>3, <3>4
  <2>3. CASE Proved
    <3>1. pc = "proof" /\ mem' = mem /\ spool' = spool
      BY <2>3, Zenon DEF Proved, ram
    <3>2. mem # <<>> /\ spool = <<>> /\ mem = Of(head) /\ head = record
      BY <1>1, <3>1 DEF Held, AtRest
    <3>3. mem \in Seq(Line) /\ mem \in came /\ mem # None
      BY <1>1, <3>2, NoneAssumption DEF Of, Data
    <3>4. mem' \o spool' = mem
      BY <3>1, <3>2, <3>3, JoinIs
    <3> QED
      BY <1>4, <1>5, <3>3, <3>4
  <2>4. ASSUME NEW n \in 1 .. PageSize, Paged(n)
        PROVE  Contract!Extends(told', mem' \o spool')
    <3>1. pc = "page" /\ mem' = mem /\ told' = told
      BY <2>4, Zenon DEF Paged
    <3> QED
      BY <1>4, <2>4, <3>1, TypedPage
  <2>5. \/ Serve \/ Aside \/ Newer \/ Proved \/ \E n \in 1 .. PageSize : Paged(n)
        \/ pc' \in {"down", "idle", "head", "append", "rename", "dir", "recover"}
    BY Steps, Zenon
       DEF Start, Reset, Sync, Over, Known, Verified, AppendLines, AppendFails,
           Rename, RenameFails, Done, Commit, Reread, Unread, Kill, PowerLoss, Forget
  <2> QED
    BY <1>9, <2>1, <2>2, <2>3, <2>4, <2>5
<1> QED
  BY <1>3, <1>6, <1>7, <1>8, <1>9, Zenon

-----------------------------------------------------------------------------
LEMMA InvInit == Init => Inv
<1> SUFFICES ASSUME Init PROVE Inv
  OBVIOUS
<1>1. Flags
  BY Zenon DEF Init, Flags
<1>2. Data
  BY EmptySeq DEF Init, Data
<1>3. Held /\ Committed /\ Kept /\ ServedKept
  BY DEF Init, Held, AtRest, Of, Committed, Kept, ServedKept
<1>4. Believed
  <2>1. Contract!WellFormed(<<>>)
    BY DEF Contract!WellFormed
  <2> QED
    BY <2>1, Zenon DEF Init, Believed
<1> QED
  BY <1>1, <1>2, <1>3, <1>4, TypedIs DEF Inv

LEMMA InvStep == Inv /\ [Next]_vars => Inv'
  BY TypedStep, HeldStep, CommittedStep, KeptStep, ServedStep, BelievedStep, Zenon DEF Inv

LEMMA InvAlways == Spec => []Inv
  BY InvInit, InvStep, PTL DEF Spec

-----------------------------------------------------------------------------
\* Every variable keeps its type.
THEOREM TypeCorrect == Spec => []TypeOK
<1>1. Inv => TypeOK
  BY DEF Inv, Typed
<1> QED
  BY <1>1, InvAlways, PTL

\* Nothing that only failed is taken for a fork: an honest log's mirror stays
\* with it, whatever is lost, killed or cut off, in any order.
THEOREM NoAlarm == Spec => []NoFalseAlarm
<1>1. Inv => NoFalseAlarm
  BY Zenon DEF Inv, Believed, NoFalseAlarm
<1> QED
  BY <1>1, InvAlways, PTL

\* A sync starts from what the last verified head describes, after any failed
\* one and any recovery.
THEOREM FromHead == Spec => []FromItsHead
<1>1. Inv => FromItsHead
  BY DEF Inv, Held, AtRest, Of, FromItsHead
<1> QED
  BY <1>1, InvAlways, PTL

\* No failure leaves a directory with a head that load refuses.
THEOREM RepairsAlways == Spec => []Repairs
<1>1. Inv => Repairs
  BY AlwaysLoads, Zenon DEF Repairs
<1> QED
  BY <1>1, InvAlways, PTL

\* A head that was served is on the disk, or one that extends it is, and a
\* machine comes back with such a head once a directory was synced after it; what
\* takes it back is a power loss while none was.
THEOREM ServedStays == Spec => []ServedKept
<1>1. Inv => ServedKept
  BY Zenon DEF Inv
<1> QED
  BY <1>1, InvAlways, PTL

\* The heads the witness serves are those of one history, that grows by well
\* formed lines: it implements what AppendOnlyLog promises, but for the first
\* head served after a power loss that took back one whose directory was not
\* synced, for a kill or because the sync failed and mirror.js swallows that.
THEOREM Implements == Spec => AppendOnly
<1>1. ASSUME Inv, [Next]_vars
      PROVE  [lost \/ Contract!Next]_attested
  <2>1. Data /\ Flags /\ Kept /\ Committed /\ ServedKept
    BY <1>1, TypedIs DEF Inv
  <2>2. ASSUME record # None, ~lost
        PROVE  Contract!Extends(record, attested) /\ Contract!WellFormed(record)
    <3>1. record \in Seq(Line) /\ record \in came
      BY <2>1, <2>2 DEF Data
    <3>2. Contract!WellFormed(record)
      BY <2>1, <2>2, <3>1 DEF Kept
    <3>3. Contract!Extends(record, attested)
      <4>1. CASE attested = <<>>
        BY <3>1, <4>1, ExtendsSelf
      <4>2. CASE attested # <<>>
        BY <2>1, <2>2, <3>1, <4>2 DEF ServedKept
      <4> QED
        BY <4>1, <4>2
    <3> QED
      BY <3>2, <3>3
  <2>3. CASE attested' = record /\ record # None
    BY <2>2, <2>3 DEF Contract!Next
  <2>4. CASE Done
    <3>1. attested' = sth /\ sth = record /\ sth # None
      BY <2>1, <2>4 DEF Done, Commit, Committed
    <3> QED
      BY <2>3, <3>1
  <2>5. \/ attested' = attested \/ Done
        \/ attested' = record /\ record # None
    BY <1>1, QuietSteps, Zenon
       DEF Start, Reset, Sync, Serve, AppendLines, AppendFails, Rename, Reread, Kill, PowerLoss
  <2> QED
    BY <2>3, <2>4, <2>5, Zenon
<1> QED
  BY <1>1, InvAlways, PTL DEF Spec, AppendOnly
=============================================================================
