------------------------------- MODULE DeltaChain -------------------------------
(***************************************************************************)
(* Reading one object through packfiles (core/src/pack.rs: read_packed,     *)
(* read_object_at, resolve_base; core/src/repo.rs: read_object) in a store  *)
(* at rest: the loose file first, then the first pack that indexes the      *)
(* hash, then the chain of delta bases, by offset inside the pack or by     *)
(* hash through all the packs again.  Bytes are reduced to whether they are *)
(* the right ones; the recursion is a loop, because its callers only inflate *)
(* and apply on the way back (inflate, apply_delta, verify).                *)
(***************************************************************************)
EXTENDS Naturals, Sequences, FiniteSets

CONSTANTS
  Hash,      \* object names
  MaxDepth,  \* MAX_DELTA_DEPTH
  Stores     \* the stores read: [packDir, packs, loose]

(* A pack entry: a whole object, a delta on the entry `back` entries before
   it, a delta on a named object, or bytes with no object header.  An entry
   that is not right inflates to other bytes than git wrote, or, a delta, to
   none.                                                                    *)
Entry == [h : Hash, t : {"base", "ofs", "ref", "junk"}, back : Nat, base : Hash, right : BOOLEAN]

(* idx: "v2"; "old", any other version; "io", the file cannot be read.
   offset: the entry that idx_lookup finds for each hash, 0 for none, and more
   than there are for an error or an offset where nothing is; a damaged index
   may name another entry, or none for a hash that the pack holds.
   data: FALSE when the .pack beside the index cannot be read.              *)
Pack == [idx : {"v2", "old", "io"}, offset : [Hash -> Nat], data : BOOLEAN, entries : Seq(Entry)]

LooseFile == {"none", "right", "wrong", "junk"}

(* packs are in the order of their sorted index names; where there is no
   objects/pack there are none.                                             *)
ObjectStore ==
  {s \in [packDir : {"dir", "absent", "unreadable"}, packs : Seq(Pack), loose : [Hash -> LooseFile]] :
     s.packDir = "absent" => s.packs = << >>}

ASSUME DeltaChainAssumption == MaxDepth \in Nat /\ Stores \subseteq ObjectStore

VARIABLES
  store, want,   \* the evidence and the hash asked for
  pc,            \* "loose", "packed", "at", "base", "done"
  name,          \* the hash read_packed is looking for: want, or a delta base
  at,            \* [p, i]: the entry read_object_at stands on
  depth,         \* its depth argument
  hops,          \* delta links followed so far, counted to MaxDepth + 1 (history)
  right,         \* whether every piece used so far is the right one
  result         \* "ok", "notfound", "unsupported" or "err" once pc = "done"

vars == <<store, want, pc, name, at, depth, hops, right, result>>

Nowhere == [p |-> 0, i |-> 0]

Holds(pack, h) == \E i \in DOMAIN pack.entries : pack.entries[i].h = h

(* The packs that end read_packed's search: those whose index names h and
   those whose index cannot be searched.                                    *)
Stops(s, h) ==
  {p \in DOMAIN s.packs : s.packs[p].idx = "v2" => s.packs[p].offset[h] # 0}

(* The definitions named "...Fault" are seeded faults: each stands for a
   plausible mistake in the definition that follows it, and is used only to
   show that a property would notice it.                                    *)

FirstFault(S) == CHOOSE p \in S : \A q \in S : q <= p   \* unsorted index paths
First(S) == CHOOSE p \in S : \A q \in S : p <= q

Here == store.packs[at.p].entries[at.i]

TooDeepFault(d) == FALSE                            \* no depth guard
TooDeepOffByOneFault(d) == d >= MaxDepth            \* one link short
TooDeep(d) == d > MaxDepth

DeeperFault(d) == d                                 \* depth is handed on as it is
Deeper(d) == d + 1

Init ==
  /\ store \in Stores /\ want \in Hash
  /\ pc = "loose" /\ name = want /\ at = Nowhere
  /\ depth = 0 /\ hops = 0 /\ right = TRUE /\ result = "none"

Finish(r) ==
  /\ pc' = "done" /\ result' = r
  /\ UNCHANGED <<name, at, depth, hops>>

(* The whole object at the end of the chain is inflated and the deltas are
   applied to it: wrong pieces may not fit together.                        *)
Rebuilt ==
  \/ Finish("ok")
  \/ ~right' /\ hops > 0 /\ Finish("err")

(* What a loose file answers; the caller says what its absence means.       *)
FromLoose(h) ==
  \/ /\ store.loose[h] \in {"right", "wrong"}
     /\ right' = (right /\ store.loose[h] = "right") /\ Rebuilt
  \/ store.loose[h] = "junk" /\ Finish("err") /\ UNCHANGED right

ReadLoose ==
  /\ pc = "loose"
  /\ \/ FromLoose(want)
     \/ /\ store.loose[want] = "none" /\ pc' = "packed"
        /\ UNCHANGED <<name, at, depth, hops, right, result>>

(* No pack answers: the object is not there, or the base may be loose.      *)
NoPackFault == Finish("notfound")                   \* bases are in packs only
NoPack ==
  IF hops = 0 THEN Finish("notfound")
  ELSE pc' = "base" /\ UNCHANGED <<name, at, depth, hops, result>>

(* read_packed, for the object and again for each base named by hash: the
   chain then starts at depth 0.                                            *)
ReadPacked ==
  /\ pc = "packed"
  /\ LET stops == Stops(store, name)
         pack  == store.packs[First(stops)]
         home  == pack.offset[name]
     IN  IF store.packDir # "dir" \/ stops = {} THEN NoPack /\ UNCHANGED right
         ELSE CASE pack.idx = "old" -> Finish("unsupported") /\ UNCHANGED right
                [] \/ pack.idx = "io"
                   \/ pack.idx = "v2" /\ (~pack.data \/ home \notin DOMAIN pack.entries) ->
                     Finish("err") /\ UNCHANGED right
                [] OTHER -> /\ at' = [p |-> First(stops), i |-> home]
                            /\ depth' = 0 /\ pc' = "at"
                            /\ right' = (right /\ pack.entries[home].h = name)
                            /\ UNCHANGED <<name, hops, result>>

Hop == hops' = IF hops > MaxDepth THEN hops ELSE hops + 1

(* A base by offset: it must lie inside the pack, behind or at the delta.   *)
ToOffset ==
  IF Here.back >= at.i THEN Finish("err")
  ELSE /\ at' = [at EXCEPT !.i = @ - Here.back]
       /\ depth' = Deeper(depth) /\ Hop
       /\ UNCHANGED <<pc, name, result>>

BaseNameFault == name                               \* the delta itself
BaseName == Here.base

(* A base by name: resolve_base guards the depth before it looks.           *)
ToName ==
  IF TooDeep(depth + 1) THEN Finish("err")
  ELSE /\ name' = BaseName /\ pc' = "packed"
       /\ depth' = Deeper(depth) /\ Hop
       /\ UNCHANGED <<at, result>>

(* One call of read_object_at.                                              *)
ReadAt ==
  /\ pc = "at"
  /\ right' = (right /\ Here.right)
  /\ IF TooDeep(depth) THEN Finish("err")
     ELSE CASE Here.t = "junk" -> Finish("err")
            [] Here.t = "base" -> Rebuilt
            [] Here.t = "ofs"  -> ToOffset
            [] Here.t = "ref"  -> ToName

(* resolve_base's fallback: a base that no pack holds may be loose.         *)
LooseBase ==
  /\ pc = "base"
  /\ \/ FromLoose(name)
     \/ store.loose[name] = "none" /\ Finish("notfound") /\ UNCHANGED right

Terminated == pc = "done" /\ UNCHANGED vars

Next ==
  \/ /\ ReadLoose \/ ReadPacked \/ ReadAt \/ LooseBase
     /\ UNCHANGED <<store, want>>
  \/ Terminated

Spec == Init /\ [][Next]_vars

(* One thread runs the read to its end.                                     *)
FairSpec == Spec /\ WF_vars(Next)

-----------------------------------------------------------------------------
(* A pack git wrote: everything parses, the index names what the pack holds,
   every base is in the same pack, and the bases descend, within the depth
   the reader allows.                                                       *)
BaseOf(pack, i) ==
  LET e == pack.entries[i]
  IN  CASE e.t = "ofs" -> {i - e.back}
        [] e.t = "ref" -> {j \in DOMAIN pack.entries : pack.entries[j].h = e.base}
        [] OTHER -> {}

Descends(pack, rank) ==
  \A i \in DOMAIN pack.entries : \A j \in BaseOf(pack, i) : rank[j] < rank[i]

IndexSound(pack) ==
  \A h \in Hash :
    IF Holds(pack, h)
    THEN pack.offset[h] \in DOMAIN pack.entries /\ pack.entries[pack.offset[h]].h = h
    ELSE pack.offset[h] = 0

SelfContained(pack) ==
  /\ pack.idx = "v2" /\ pack.data /\ IndexSound(pack)
  /\ \A i, j \in DOMAIN pack.entries :
       pack.entries[i].h = pack.entries[j].h => i = j
  /\ \A i \in DOMAIN pack.entries :
       /\ pack.entries[i].t # "junk" /\ pack.entries[i].right
       /\ pack.entries[i].t = "ofs" => pack.entries[i].back < i
       /\ pack.entries[i].t = "ref" => BaseOf(pack, i) # {}
  /\ \E rank \in [DOMAIN pack.entries -> 0..MaxDepth] : Descends(pack, rank)

Healthy(s) ==
  /\ s.packDir # "unreadable"
  /\ \A p \in DOMAIN s.packs : SelfContained(s.packs[p])
  /\ \A h \in Hash : s.loose[h] \in {"none", "right"}

Stored(h) ==
  store.loose[h] # "none" \/ \E p \in DOMAIN store.packs : Holds(store.packs[p], h)

(* Stored, and hidden: in no loose file, and in no pack whose index says so. *)
Hidden(h) ==
  /\ store.loose[h] = "none"
  /\ \A p \in DOMAIN store.packs : store.packs[p].idx = "v2" /\ store.packs[p].offset[h] = 0

TypeOK ==
  /\ store \in ObjectStore /\ want \in Hash /\ name \in Hash
  /\ pc \in {"loose", "packed", "at", "base", "done"}
  /\ at \in [p : Nat, i : Nat]
  /\ at # Nowhere =>
       at.p \in DOMAIN store.packs /\ at.i \in DOMAIN store.packs[at.p].entries
  /\ depth \in 0..MaxDepth + 1 /\ hops \in 0..MaxDepth + 1
  /\ right \in BOOLEAN /\ result \in {"none", "ok", "notfound", "unsupported", "err"}

(* In a store of packs that git wrote, however they overlap (the state a gc
   leaves behind), every stored object reads, with its right bytes, and the
   others are reported missing: that the base of a delta is looked up in all
   the packs again never leads the chain astray.                            *)
HealthyReads ==
  pc = "done" /\ Healthy(store) =>
    IF Stored(want) THEN result = "ok" /\ right ELSE result = "notfound"

(* What is read, in turn, to read want: itself, what an index takes for any
   of these, and what a stored delta of any of these is made on.            *)
Needed ==
  {g \in Hash : \A S \in SUBSET Hash :
     /\ want \in S
     /\ \A p \in DOMAIN store.packs : LET e == store.packs[p].entries IN
          /\ \A i \in DOMAIN e : e[i].h \in S =>
               /\ e[i].t = "ref" => e[i].base \in S
               /\ e[i].t = "ofs" /\ e[i].back < i => e[i - e[i].back].h \in S
          /\ \A h \in S : LET i == store.packs[p].offset[h] IN i \in DOMAIN e => e[i].h \in S
     => g \in S}

(* When a stored object may be said to be missing (core/src/repo.rs,
   read_object): whatever is damaged, only if it, or an object its delta
   chain leads to, is in no pack and no loose file, or in packs only and all
   their indexes, searched to the end, are wrong about it; or if objects/pack
   cannot be listed.  One index that names it, or cannot be searched, is
   enough for another answer.                                               *)
NotFoundHonest ==
  pc = "done" /\ result = "notfound" =>
    store.packDir = "unreadable" \/ \E h \in Needed : ~Stored(h) \/ Hidden(h)

(* Why: every pack the chain moves to sorts before the one it left, or is
   the same one.                                                            *)
PacksDescend ==
  [][at # Nowhere /\ at'.p > at.p => ~Healthy(store)]_vars

(* The read of any object ends: SECURITY.md has it that "delta chains and
   object walks are bounded against non-terminating traversals".            *)
Ends == <>(pc = "done")
=============================================================================
