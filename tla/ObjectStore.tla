------------------------------ MODULE ObjectStore ------------------------------
(***************************************************************************)
(* The object store while git maintains it: GitRepo::read_object and        *)
(* GitRepo::all_objects (core/src/repo.rs), with the files that             *)
(* loose::read_loose, loose::list_loose, pack::read_packed and              *)
(* pack::list_packed open, one file or directory to a step, against a git   *)
(* that writes objects, repacks them and removes what it has packed.  The   *)
(* base of a delta that is named by its hash is looked up again, pack by    *)
(* pack.  Object and index contents are sound; what a damaged one does, and *)
(* how deep deltas may go, is in DeltaChain and IdxLookup.  LiveStore asks  *)
(* what one call promises, LiveAudit what an audit made of many calls does. *)
(***************************************************************************)
EXTENDS Naturals, FiniteSets

CONSTANTS
  Hash,        \* object names
  PackId,      \* pack names, in the order in which the reader sorts them
  Delta,       \* [Hash -> SUBSET Hash]: the bases git may name for a delta of each object
  MaxCommands  \* bound on the git commands run meanwhile

ASSUME ObjectStoreAssumption ==
  /\ PackId \subseteq Nat \ {0}   \* 0 stands for no pack
  /\ Delta \in [Hash -> SUBSET Hash]
  /\ MaxCommands \in Nat

VARIABLES
  loose,     \* hashes that have a loose file
  idx,       \* packs whose .idx is there
  data,      \* packs whose .pack is there
  holds,     \* [PackId -> SUBSET Hash]: what each pack holds, or held; {} for a name not used yet
  fresh,     \* git: the pack being installed, {} when none is
  old,       \* git: the packs that a repack makes redundant
  commands,  \* git commands run so far
  call,      \* the reader's call: "read_object" or "all_objects"
  target,    \* the hash that read_object was asked for
  want,      \* the hash it looks for now: the target, or the base of a delta
  based,     \* TRUE: it looks for a base
  pc,        \* the place it looks in: "loose", "shards", "packdir", "idx", "data", "baseloose", "done"
  todo,      \* fan-out directories, or indexes, listed and not yet opened
  at,        \* the pack whose index named the hash it looks for
  got,       \* the hashes all_objects has collected
  answer     \* "ok", "notfound" or "io" once pc = "done"

files  == <<loose, idx, data, holds>>
git    == <<fresh, old, commands>>
aim    == <<call, target, want, based>>
reader == <<aim, pc, todo, at, got, answer>>

Held(packs) == UNION {holds[p] : p \in packs}
Packed == Held(idx \cap data)
Stored == loose \cup Packed

(* A store at rest, its objects in loose files or packs or both.            *)
AtRest ==
  /\ holds \in [PackId -> SUBSET Hash]
  /\ idx \in SUBSET PackId /\ data = idx
  /\ \A p \in PackId : p \in idx <=> holds[p] # {}
  /\ loose \in SUBSET Hash
  /\ fresh = {} /\ old = {} /\ commands = 0

-----------------------------------------------------------------------------
(* The definitions named "...Fault" are seeded faults: each stands for a
   plausible mistake in the definition that follows it, and is used only to
   show that a property would notice it.                                    *)

Answered(a) == pc' = "done" /\ answer' = a

(* read_loose: the file is there, or the packs are tried.                   *)
ReadLooseFault ==                                   \* packs before loose files
  /\ call = "read_object" /\ pc = "loose"
  /\ todo' = idx /\ pc' = "idx"
  /\ UNCHANGED <<aim, at, got, answer>>
ReadLoose ==
  /\ call = "read_object" /\ pc = "loose"
  /\ IF target \in loose THEN Answered("ok") ELSE pc' = "packdir" /\ UNCHANGED answer
  /\ UNCHANGED <<aim, todo, at, got>>

(* list_loose: objects/ names the fan-out directories, here one to a hash
   (an empty one may linger), then each is listed.                          *)
ListShards ==
  /\ call = "all_objects" /\ pc = "loose"
  /\ \E shards \in SUBSET Hash : loose \subseteq shards /\ todo' = shards
  /\ pc' = "shards"
  /\ UNCHANGED <<aim, at, got, answer>>

ListShard ==
  /\ pc = "shards"
  /\ \/ \E h \in todo :
          /\ todo' = todo \ {h} /\ got' = got \cup (loose \cap {h})
          /\ UNCHANGED pc
     \/ todo = {} /\ pc' = "packdir" /\ UNCHANGED <<todo, got>>
  /\ UNCHANGED <<aim, at, answer>>

(* read_packed, list_packed: the indexes of objects/pack, to be opened in
   the order of their names.                                                *)
ReadPackDir ==
  /\ pc = "packdir"
  /\ todo' = idx /\ pc' = "idx"
  /\ UNCHANGED <<aim, at, got, answer>>

(* The names in the index of a pack.                                        *)
Indexed(p) == holds[p]

(* fs::read(&idx_path)?: an index that is listed and gone is an error.      *)
GoneFault == UNCHANGED <<pc, answer>>               \* `else { continue }`
Gone == Answered("io")

ReadIdx ==
  /\ pc = "idx"
  /\ \E p \in todo :
       /\ \A q \in todo : p <= q
       /\ todo' = todo \ {p}
       /\ IF p \notin idx THEN Gone /\ UNCHANGED <<at, got>>
          ELSE IF call = "all_objects"
          THEN got' = got \cup Indexed(p) /\ UNCHANGED <<pc, at, answer>>
          ELSE IF want \in Indexed(p)
          THEN at' = p /\ pc' = "data" /\ UNCHANGED <<got, answer>>
          ELSE UNCHANGED <<pc, at, got, answer>>
  /\ UNCHANGED <<aim>>

(* No pack names it: a base may still be a loose object (resolve_base).       *)
NoMoreIdx ==
  /\ pc = "idx" /\ todo = {}
  /\ IF based THEN pc' = "baseloose" /\ UNCHANGED answer
     ELSE Answered(IF call = "all_objects" THEN "ok" ELSE "notfound")
  /\ UNCHANGED <<aim, todo, at, got>>

(* read_object_at: the entry is a delta whose base, which git wrote to the
   same pack, is named by its hash and looked up in all the packs once more.
   (A base at an offset is in the bytes that have just been read.)          *)
BaseSought ==
  /\ \E g \in Delta[want] \cap holds[at] : want' = g
  /\ based' = TRUE /\ pc' = "packdir" /\ UNCHANGED answer

(* fs::read(.pack)?                                                         *)
ReadData ==
  /\ pc = "data"
  /\ \/ Answered(IF at \in data THEN "ok" ELSE "io") /\ UNCHANGED <<want, based>>
     \/ at \in data /\ BaseSought
  /\ UNCHANGED <<call, target, todo, at, got>>

(* resolve_base: the loose file of the base, after the packs.               *)
ReadBase ==
  /\ pc = "baseloose"
  /\ Answered(IF want \in loose THEN "ok" ELSE "notfound")
  /\ UNCHANGED <<aim, todo, at, got>>

ReaderStep ==
  ReadLoose \/ ListShards \/ ListShard \/ ReadPackDir \/ ReadIdx \/ NoMoreIdx \/ ReadData \/ ReadBase

-----------------------------------------------------------------------------
(* git at work: what it does to the files, each change one rename or unlink. *)

Command == commands < MaxCommands /\ commands' = commands + 1

(* git add, commit, fetch: an object the store does not have.               *)
WriteObject(h) ==
  /\ Command /\ h \notin Stored
  /\ loose' = loose \cup {h}
  /\ UNCHANGED <<idx, data, holds, fresh, old>>

(* git repack: a pack of all the objects, or of those git keeps packed, under
   a name that may sort anywhere, and that comes back only for a pack of the
   same objects; the .pack is in place before the .idx.                     *)
Repack(p, keep) ==
  /\ Command /\ fresh = {} /\ old = {}
  /\ p \notin idx \cup data /\ holds[p] \in {{}, keep}
  /\ keep # {} /\ keep \subseteq Stored
  /\ data' = data \cup {p} /\ holds' = [holds EXCEPT ![p] = keep]
  /\ fresh' = {p}
  /\ UNCHANGED <<loose, idx, old>>

(* ... and what the old packs hold and the new one does not becomes loose
   (repack -A) before they go.                                              *)
Install ==
  /\ fresh # {}
  /\ idx' = idx \cup fresh /\ old' = idx /\ fresh' = {}
  /\ loose' = loose \cup (Held(idx) \ Held(fresh))
  /\ UNCHANGED <<data, holds, commands>>

(* The redundant packs go, the index of each first.                         *)
DropIdx(p) ==
  /\ p \in old \cap idx
  /\ idx' = idx \ {p}
  /\ UNCHANGED <<loose, data, holds, fresh, old, commands>>

DropData(p) ==
  /\ p \in old \ idx
  /\ data' = data \ {p} /\ old' = old \ {p}
  /\ UNCHANGED <<loose, idx, holds, fresh, commands>>

(* git prune-packed: a loose file whose object is in a pack goes.           *)
PrunePacked(h) ==
  /\ h \in loose /\ h \in Held(idx \ old)
  /\ loose' = loose \ {h}
  /\ UNCHANGED <<idx, data, holds, fresh, old, commands>>

GitStep ==
  \/ \E h \in Hash : WriteObject(h) \/ PrunePacked(h)
  \/ \E p \in PackId : DropIdx(p) \/ DropData(p)
  \/ \E p \in PackId, keep \in SUBSET Hash : Repack(p, keep)
  \/ Install
=============================================================================
