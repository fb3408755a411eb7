--------------------------- MODULE HandleRegistry ---------------------------
(***************************************************************************)
(* What the handle log promises about a name (kt/lib/handles.js): whoever  *)
(* claims it first has it, its owner key publishes under it, and only the  *)
(* recovery key it is committed to changes either.  Two parties hold keys: *)
(* a user, and a stranger who may come to hold the user's owner keys but   *)
(* never a recovery key of the user's.  KtHandles implements this.         *)
(***************************************************************************)
EXTENDS Naturals

CONSTANTS
  Label,
  Owner,     \* owner keys
  Recovery,  \* recovery keys; a commitment is to one of them
  Mine,      \* the keys that are the user's
  None       \* no key, and no record

VARIABLES
  registry, \* who has each label
  stolen    \* the user's owner keys that the stranger has too

vars == <<registry, stolen>>

\* The sets of keys that one party holds all of.
OneHolds(keys) == keys \subseteq Mine \/ keys \cap Mine \subseteq stolen

Init == registry = [l \in Label |-> None] /\ stolen = {}

Becomes(l, o, c, v) ==
  /\ registry' = [registry EXCEPT ![l] = [owner |-> o, rc |-> c, version |-> v]]
  /\ UNCHANGED stolen

Claim(l, o, c) == registry[l] = None /\ Becomes(l, o, c, 1)

Update(l) ==
  /\ registry[l] # None
  /\ Becomes(l, registry[l].owner, registry[l].rc, registry[l].version + 1)

\* The user signs with keys of the user's, for a commitment of the user's.
Recover(l, o, c) ==
  /\ registry[l] # None
  /\ OneHolds({registry[l].rc, o}) /\ (registry[l].rc \in Mine => c \in Mine)
  /\ Becomes(l, o, c, registry[l].version + 1)

Steal(k) == stolen' = stolen \cup {k} /\ UNCHANGED registry

Next ==
  \/ \E l \in Label, o \in Owner, c \in Recovery : Claim(l, o, c) \/ Recover(l, o, c)
  \/ \E l \in Label : Update(l)
  \/ \E k \in Owner \cap Mine : Steal(k)

Spec == Init /\ [][Next]_vars

-----------------------------------------------------------------------------
IsMine(l) == registry[l] # None /\ registry[l].owner \in Mine /\ registry[l].rc \in Mine

\* A name the user has stays the user's, whatever the stranger holds of the
\* owner keys: nothing but the user's recovery key changes whose it is.
MineStaysMine == [][\A l \in Label : IsMine(l) => IsMine(l)']_vars
=============================================================================
