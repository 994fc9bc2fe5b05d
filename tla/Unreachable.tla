------------------------------ MODULE Unreachable ------------------------------
(***************************************************************************)
(* audit_unreachable and reachable_set (forensic/src/unreachable.rs) on a   *)
(* store at rest: the ref tips seed a work-list, each popped hash is marked *)
(* reached and expanded once, and every stored object left unmarked is      *)
(* reported with its kind.                                                  *)
(***************************************************************************)
EXTENDS ObjectGraph

CONSTANT Tips   \* the ref tips a repository may have, each a sequence of hashes

ASSUME TipsAssumption == Tips \subseteq Seq(Hash)

VARIABLES
  store, tips,      \* the evidence: objects and ref targets, never written
  bootOk, listOk,   \* whether the refs, and the object list, can be read
  pc,               \* "roots", "walk", "diff", then the result "ok" or "err"
  stack,            \* Vec<GitHash>: popped and pushed at its end
  reached,          \* HashSet<GitHash>
  todo,             \* objects audit_unreachable has still to look at
  findings          \* Vec<UnreachableObject>, its order forgotten

evidence == <<store, tips, bootOk, listOk>>
vars == <<store, tips, bootOk, listOk, pc, stack, reached, todo, findings>>

Stopped == {"ok", "err"}

Top == stack[Len(stack)]

(* The definitions named "...Fault" are seeded faults: each stands for a
   plausible mistake in the definition that follows it, and is used only to
   show that a property would notice it.                                    *)

PopFault(s) == s                                    \* peeks, never pops
Pop(s) == SubSeq(s, 1, Len(s) - 1)

SeenFault(h) == FALSE                               \* no visited set
Seen(h) == h \in reached

(* What a newly reached object adds to the work-list.                       *)
PushedFault(h) ==                                   \* the tree, not the parents
  IF Parsed(store, h) /\ store[h].kind \in {"commit", "tree"} /\ store[h].links # << >>
  THEN << store[h].links[1] >> ELSE << >>
Pushed(h) ==
  IF Parsed(store, h) /\ store[h].kind \in {"commit", "tree"} THEN store[h].links ELSE << >>

(* The kind written in the finding; "unknown" when the object cannot be read. *)
ReportedKindFault(h) == store[h].health             \* the error, not the kind
ReportedKind(h) == IF Readable(store, h) THEN store[h].kind ELSE "unknown"

(* `?`: an error ends the audit.                                            *)
NextPhaseFault(ok, phase) == phase                  \* unwrap_or_default()
NextPhase(ok, phase) == IF ok THEN phase ELSE "err"

Init ==
  /\ store \in Store
  /\ tips \in Tips
  /\ bootOk \in BOOLEAN
  /\ listOk \in BOOLEAN
  /\ pc = "roots"
  /\ stack = << >>
  /\ reached = {}
  /\ todo = {}
  /\ findings = {}

(* all_refs_checked()? seeds the stack; a bootstrap failure ends the audit. *)
ReadRoots ==
  /\ pc = "roots"
  /\ pc' = NextPhase(bootOk, "walk")
  /\ stack' = IF bootOk THEN tips ELSE << >>
  /\ UNCHANGED <<evidence, reached, todo, findings>>

SkipSeen ==
  /\ pc = "walk" /\ stack # << >> /\ Seen(Top)
  /\ stack' = Pop(stack)
  /\ UNCHANGED <<evidence, pc, reached, todo, findings>>

Visit ==
  /\ pc = "walk" /\ stack # << >> /\ ~Seen(Top)
  /\ reached' = reached \cup {Top}
  /\ stack' = Pop(stack) \o Pushed(Top)
  /\ UNCHANGED <<evidence, pc, todo, findings>>

(* The walk is over; all_objects()? lists the store.                        *)
ListObjects ==
  /\ pc = "walk" /\ stack = << >>
  /\ pc' = NextPhase(listOk, "diff")
  /\ todo' = IF listOk THEN Present(store) ELSE {}
  /\ UNCHANGED <<evidence, stack, reached, findings>>

Examine(h) ==
  /\ pc = "diff" /\ h \in todo
  /\ todo' = todo \ {h}
  /\ findings' = IF h \in reached THEN findings
                 ELSE findings \cup {[object |-> h, kind |-> ReportedKind(h)]}
  /\ UNCHANGED <<evidence, pc, stack, reached>>

Return ==
  /\ pc = "diff" /\ todo = {}
  /\ pc' = "ok"
  /\ UNCHANGED <<evidence, stack, reached, todo, findings>>

Terminated == pc \in Stopped /\ UNCHANGED vars

Next ==
  \/ ReadRoots \/ SkipSeen \/ Visit \/ ListObjects
  \/ (\E h \in Hash : Examine(h))
  \/ Return \/ Terminated

Spec == Init /\ [][Next]_vars

(* One thread runs the audit to its end: it is never preempted for ever.    *)
FairSpec == Spec /\ WF_vars(Next)

-----------------------------------------------------------------------------
(* Every variable ranges over what its Rust type allows.                    *)
TypeOK ==
  /\ store \in Store /\ tips \in Tips /\ bootOk \in BOOLEAN /\ listOk \in BOOLEAN
  /\ pc \in {"roots", "walk", "diff"} \cup Stopped
  /\ stack \in Seq(Hash)
  /\ reached \in SUBSET Hash
  /\ todo \in SUBSET Hash
  /\ findings \in SUBSET [object : Hash, kind : Kind \cup {"unknown"}]

Contract ==
  INSTANCE UnreachableContract WITH
    verdict <- [status |-> IF pc \in Stopped THEN pc ELSE "pending",
                findings |-> IF pc = "ok" THEN findings ELSE {}]

Frontier == reached \cup Range(stack)

Lead == Closure(Contract!WalkEdges, Range(tips))

Reports(S) == {[object |-> h, kind |-> Contract!KindLabel(h)] : h \in S}

(* What each phase of the audit has settled.                                *)
PhaseInv ==
  /\ pc = "roots" => stack = << >> /\ reached = {}
  /\ pc = "walk" => bootOk
  /\ pc \in {"roots", "walk", "err"} => findings = {}
  /\ todo \subseteq Present(store)
  /\ pc \in {"diff", "ok"} =>
       /\ stack = << >> /\ bootOk /\ listOk
       /\ findings = Reports((Present(store) \ todo) \ reached)
  /\ pc = "ok" => todo = {}

(* The work-list invariant that makes the walk compute a closure: nothing is
   marked or queued that the tips do not lead to, every tip is marked or
   queued, and so is everything a marked object links to.                   *)
WalkInv ==
  /\ pc # "roots" => Frontier \subseteq Lead
  /\ pc \notin {"roots", "err"} => Range(tips) \subseteq Frontier
  /\ \A h \in reached : Contract!WalkEdges[h] \subseteq Frontier
  /\ PhaseInv

(* Every step of the walk either marks a new object or shortens the
   work-list: no object is expanded twice, so the walk ends on any store,
   cyclic ones included.                                                    *)
WalkVariant ==
  [][pc = "walk" /\ pc' = "walk" =>
       \/ reached \subseteq reached' /\ reached # reached'
       \/ reached' = reached /\ Len(stack') < Len(stack)]_vars

(* A damaged object costs the audit only what hangs below it: when a flagged
   object is named by a commit or tree that could be read and parsed, that
   one is flagged too, and no ref tip is ever flagged.                      *)
DamageContained ==
  pc = "ok" => \A f \in findings :
    /\ f.object \notin Range(tips)
    /\ \A g \in Present(store) :
         Contract!Transparent(g) /\ f.object \in TrueEdges(store)[g]
           => \E e \in findings : e.object = g

(* The audit implements its contract: one exact verdict, or an error when
   the refs or the listing fail.                                            *)
ImplementsContract == Contract!Spec

(* The audit of any store, damaged or cyclic, ends.                         *)
Terminates == <>(pc \in Stopped)
=============================================================================
