----------------------------- MODULE MCUnreachable -----------------------------
(* Small stores for Unreachable: hashes are 1..N.  Objects of every kind and
   health, a commit that names one or two objects (in one order: the result of
   the walk does not depend on it), a tree with at most one entry, links that
   may form cycles.                                                         *)
EXTENDS Unreachable, Integers

CONSTANT N

MCHash == 1..N

Only(k, hl, ls) == {[kind |-> k, health |-> hl, links |-> l] : l \in ls}

One == {<<a>> : a \in MCHash}
Ascending == {p \in MCHash \X MCHash : p[1] < p[2]}

MCSlots ==
  Only("blob", "absent", {<< >>}) \cup Only("blob", "good", {<< >>})
    \cup Only("commit", "good", One \cup Ascending)
    \cup Only("tree", "good", {<< >>} \cup One)
    \cup Only("tag", "good", One)
    \cup Only("commit", "unreadable", One)
    \cup Only("tree", "unparsable", One)

(* Up to renaming hashes: no ref, one ref, two refs on one or two objects.  *)
MCTips == {<< >>, <<1>>, <<1, 1>>, <<1, 2>>}

(* A handful of slots for the termination run: every cycle of one to three
   commits or trees, with damage.                                           *)
MCFewSlots ==
  Only("blob", "absent", {<< >>}) \cup Only("commit", "good", One)
    \cup Only("tree", "good", Ascending) \cup Only("commit", "unparsable", One)
=============================================================================
