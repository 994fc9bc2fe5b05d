------------------------------ MODULE MCCommitWalk ------------------------------
(* Small histories for CommitWalk: hashes are 1..N.                          *)
EXTENDS CommitWalk

CONSTANT N

MCHash == 1..N
MCTime == 0..1

Broken == [commit |-> FALSE, parents |-> << >>, author |-> 0, committer |-> 0, signed |-> FALSE]

Commits(parents, authors, committers, signed) ==
  [commit : {TRUE}, parents : parents, author : authors, committer : committers, signed : signed]

One == {<<p>> : p \in MCHash}
Two == {<<p, q>> : p, q \in MCHash}

(* Acyclic histories: a parent is a smaller hash.                           *)
Older(h, ps) == {p \in ps : \A i \in DOMAIN p : p[i] < h}
Acyclic(objects) ==
  {g \in [MCHash -> objects] : \A h \in MCHash : g[h].parents \in Older(h, {g[h].parents})}

(* Shapes: every commit with up to two parents, damage anywhere.            *)
Shapes == Acyclic({Broken} \cup Commits({<< >>} \cup One \cup Two, {0}, {0}, {TRUE}))

(* One line of history, every signature.                                    *)
LineParents(h) == IF h = 1 THEN << >> ELSE <<h - 1>>
Lines(authors, committers, signed) ==
  {g \in [MCHash -> Commits({LineParents(h) : h \in MCHash}, authors, committers, signed)] :
     \A h \in MCHash : g[h].parents = LineParents(h)}
SignedLines == Lines({0}, {0}, BOOLEAN)
TimedLines == Lines(MCTime, MCTime, {TRUE})

(* Single parents, loops included: what damaged commits may form.           *)
Loops == [MCHash -> {Broken} \cup Commits({<< >>} \cup One, {0}, {0}, {TRUE})]

(* ... in which no commit names itself.                                     *)
Rings == {g \in Loops : \A h \in MCHash : g[h].parents # <<h>>}

Histories == Shapes \cup Loops \cup SignedLines \cup TimedLines
=============================================================================
