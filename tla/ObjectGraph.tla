------------------------------ MODULE ObjectGraph ------------------------------
(***************************************************************************)
(* The content-addressed graph that git-core navigates: what `read_object`, *)
(* `read_commit` and `read_tree` (core/src/repo.rs) answer for each hash,   *)
(* with the bytes of an object reduced to its kind, its health and the      *)
(* sequence of hashes it names.                                             *)
(*                                                                          *)
(* The graph is NOT assumed acyclic.  Hashes make a cycle impossible in an  *)
(* intact store, but the reader hands out objects whose SHA-1 does not      *)
(* match (`RawObject::verified` is a flag, not an error), so on damaged     *)
(* evidence an object may name any other, itself included.                  *)
(***************************************************************************)
EXTENDS Sequences, Functions

CONSTANTS
  Hash,   \* object names
  Slots   \* the slots a store may hold under a name

Kind == {"commit", "tree", "blob", "tag"}

(* "absent": no file names the hash.  "unreadable": the object is listed but
   read_object returns Err.  "unparsable": read_object succeeds, but the
   payload is refused by CommitObject::parse or TreeObject::parse.          *)
Health == {"absent", "unreadable", "unparsable", "good"}

(* links: the hashes written in the object, in the order the walk pushes
   them (a commit: its tree, then its parents; a tree: its entries; a tag:
   its target, which git-core never parses).                                *)
Slot == [kind : Kind, health : Health, links : Seq(Hash)]

ASSUME SlotsAssumption == Slots \subseteq Slot

Store == [Hash -> Slots]

Present(store) == {h \in Hash : store[h].health # "absent"}

Readable(store, h) == store[h].health \in {"unparsable", "good"}

Parsed(store, h) == store[h].health = "good"

-----------------------------------------------------------------------------
(* A set of hashes is closed under edges when it holds every successor of
   its members; Closure(edges, roots) is the least closed set above roots.
   Written without recursion so that proofs can use it.                     *)
IsClosed(edges, S) == \A g \in S : edges[g] \subseteq S

Closure(edges, roots) ==
  {h \in Hash : \A S \in SUBSET Hash : roots \subseteq S /\ IsClosed(edges, S) => h \in S}

(* Every link an object really contains, whether or not the reader sees it. *)
TrueEdges(store) == [h \in Hash |-> Range(store[h].links)]
=============================================================================
