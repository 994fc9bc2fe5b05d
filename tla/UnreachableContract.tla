-------------------------- MODULE UnreachableContract --------------------------
(***************************************************************************)
(* What audit_unreachable (forensic/src/unreachable.rs) promises its caller *)
(* about a store that nobody writes to: either one verdict that lists       *)
(* exactly the stored objects the refs do not lead to, or an error when the *)
(* refs or the object list cannot be read.  It never answers from a partial *)
(* set of refs.                                                             *)
(***************************************************************************)
EXTENDS ObjectGraph

CONSTANT Tips   \* the ref tips a repository may have, each a sequence of hashes

VARIABLES
  store,    \* [Hash -> Slots]: the object store
  tips,     \* the targets of every ref, in enumeration order
  bootOk,   \* FALSE: the refs subsystem exists but cannot be read
  listOk,   \* FALSE: a pack index cannot be enumerated
  verdict   \* what the caller has been told

vars == <<store, tips, bootOk, listOk, verdict>>

Pending == [status |-> "pending", findings |-> {}]

(* The walk follows a readable, well-formed commit or tree; a tag is opaque
   and a damaged object is a leaf.                                          *)
Transparent(h) == Parsed(store, h) /\ store[h].kind \in {"commit", "tree"}

WalkEdges == [h \in Hash |-> IF Transparent(h) THEN Range(store[h].links) ELSE {}]

Unreached == Present(store) \ Closure(WalkEdges, Range(tips))

KindLabel(h) == IF Readable(store, h) THEN store[h].kind ELSE "unknown"

Exact == {[object |-> h, kind |-> KindLabel(h)] : h \in Unreached}

Init ==
  /\ store \in Store
  /\ tips \in Tips
  /\ bootOk \in BOOLEAN
  /\ listOk \in BOOLEAN
  /\ verdict = Pending

Answer ==
  /\ verdict = Pending
  /\ \/ bootOk /\ listOk /\ verdict' = [status |-> "ok", findings |-> Exact]
     \/ ~(bootOk /\ listOk) /\ verdict' = [status |-> "err", findings |-> {}]
  /\ UNCHANGED <<store, tips, bootOk, listOk>>

Spec == Init /\ [][Answer]_vars
=============================================================================
