--------------------------- MODULE AppendOnlyLog ---------------------------
(***************************************************************************)
(* What the key-transparency log promises whoever holds one of its signed  *)
(* heads, and a mirror whoever follows it: the history a head commits to   *)
(* is only ever extended, by lines that are well formed where they stand.  *)
(* KtLog (kt/lib/log.js) and KtMirror (kt/lib/mirror.js) are shown to      *)
(* implement it.                                                           *)
(***************************************************************************)
EXTENDS Naturals, Sequences

VARIABLE entries \* the history of the last head anybody was given

\* s is an initial part of t.
Extends(t, s) == Len(s) <= Len(t) /\ \A k \in DOMAIN s : t[k] = s[k]

\* Line k sits at its own index, its version is above every earlier one of
\* its label, and no unsigned line follows a signed one.
WellPlaced(f, k) ==
  /\ f[k].idx = k - 1
  /\ \A j \in 1 .. k - 1 : /\ f[j].label = f[k].label => f[j].v < f[k].v
                           /\ f[j].sig => f[k].sig

WellFormed(f) == \A k \in DOMAIN f : WellPlaced(f, k)

Init == WellFormed(entries)

Next == Extends(entries', entries) /\ WellFormed(entries')

Spec == Init /\ [][Next]_entries
=============================================================================
