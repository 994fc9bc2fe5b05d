------------------------------- MODULE LiveAudit -------------------------------
(***************************************************************************)
(* audit_unreachable (forensic/src/unreachable.rs) on a repository in use:  *)
(* the walk of Unreachable, made of the read_object and all_objects calls   *)
(* of ObjectStore, file by file, while git commits, moves branches and      *)
(* repacks.  The refs are read one by one, a ref to a file; packed refs and  *)
(* symbolic ones are in Refs.  Objects are sound; damage is in Unreachable. *)
(***************************************************************************)
EXTENDS ObjectStore, Sequences, Functions

CONSTANTS
  Links,     \* [Hash -> Seq(Hash)]: what each object names; blobs name nothing
  Branch     \* refs

ASSUME LiveAuditAssumption == Links \in [Hash -> Seq(Hash)]

VARIABLES
  tip,       \* [Branch -> SUBSET Hash]: {} or the one hash of the branch
  phase,     \* "roots", "refs", "walk", "object", "parse", "list", "diff", "kind", "ok", "err"
  unread,    \* branches listed and not read yet
  stack, reached, left, findings,  \* as in Unreachable (left is its todo)
  anchored,  \* [Branch -> SUBSET Hash]: what each led to at every moment (history)
  lost,      \* TRUE: the walk missed an object that git was just moving (history)
  garbage    \* hashes stored, led to by no branch, at every moment, never loosened (history)

walk == <<phase, unread, stack, reached, left, findings>>
history == <<anchored, lost, garbage>>
auditVars == <<files, git, reader, tip, walk, history>>

Edges == [h \in Hash |-> Range(Links[h])]

Tips(branches) == UNION {branches[b] : b \in Branch}

(* What hashes, and branches, lead to.                                      *)
Below(roots) ==
  {h \in Hash : \A S \in SUBSET Hash :
     roots \subseteq S /\ (\A g \in S : Edges[g] \subseteq S) => h \in S}
Reachable(branches) == Below(Tips(branches))

(* A branch never names an object that is not stored, whole.                *)
Intact == Reachable(tip) \subseteq Stored

AuditInit ==
  /\ AtRest
  /\ tip \in [Branch -> {{}} \cup {{h} : h \in Hash}]
  /\ Intact /\ \A h \in Stored : Edges[h] \subseteq Stored
  /\ call = "read_object" /\ target \in {CHOOSE h \in Hash : TRUE} /\ want = target /\ based = FALSE
  /\ pc = "done" /\ todo = {} /\ at = 0 /\ got = {} /\ answer = "none"
  /\ phase = "roots" /\ unread = {} /\ stack = << >> /\ reached = {} /\ left = {} /\ findings = {}
  /\ anchored = [b \in Branch |-> Below(tip[b])]
  /\ garbage = Stored \ Reachable(tip) /\ lost = FALSE

-----------------------------------------------------------------------------
(* The definitions named "...Fault" are seeded faults: each stands for a
   plausible mistake in the definition that follows it, and is used only to
   show that a property would notice it.                                    *)

(* A call begins; ReaderStep takes it to pc = "done".                       *)
Start(c, h) ==
  /\ call' = c /\ target' = h /\ want' = h /\ based' = FALSE /\ pc' = "loose"
  /\ todo' = {} /\ at' = 0 /\ got' = {} /\ answer' = "none"

Idle == UNCHANGED reader

(* all_refs_checked()?: the refs are listed, then read one after the other;
   one that is gone when it is read is passed over.                         *)
ListRefs ==
  /\ phase = "roots"
  /\ unread' = {b \in Branch : tip[b] # {}} /\ phase' = "refs" /\ Idle
  /\ UNCHANGED <<stack, reached, left, findings>>

ReadRef ==
  /\ phase = "refs"
  /\ \E b \in unread :
       /\ unread' = unread \ {b}
       /\ stack' = IF tip[b] = {} THEN stack ELSE Append(stack, CHOOSE h \in tip[b] : TRUE)
  /\ Idle /\ UNCHANGED <<phase, reached, left, findings>>

NoMoreRefs ==
  /\ phase = "refs" /\ unread = {}
  /\ phase' = "walk" /\ Idle
  /\ UNCHANGED <<unread, stack, reached, left, findings>>

Top == stack[Len(stack)]
Pop == SubSeq(stack, 1, Len(stack) - 1)

SkipSeen ==
  /\ phase = "walk" /\ stack # << >> /\ Top \in reached
  /\ stack' = Pop /\ Idle
  /\ UNCHANGED <<unread, phase, reached, left, findings>>

ReadTop ==
  /\ phase = "walk" /\ stack # << >> /\ Top \notin reached
  /\ reached' = reached \cup {Top} /\ stack' = Pop
  /\ Start("read_object", Top) /\ phase' = "object"
  /\ UNCHANGED <<unread, left, findings>>

(* read_object(..) else continue; a commit or a tree is then read again, by
   read_commit or read_tree.                                                *)
ReadAgain ==
  /\ phase = "object" /\ pc = "done"
  /\ IF answer = "ok" /\ Links[target] # << >>
     THEN Start("read_object", target) /\ phase' = "parse"
     ELSE phase' = "walk" /\ Idle
  /\ UNCHANGED <<unread, stack, reached, left, findings>>

FoundFault(h) == Tail(Links[h])                     \* the parents, not the tree
Found(h) == Links[h]

Expand ==
  /\ phase = "parse" /\ pc = "done"
  /\ stack' = IF answer = "ok" THEN stack \o Found(target) ELSE stack
  /\ phase' = "walk" /\ Idle
  /\ UNCHANGED <<unread, reached, left, findings>>

(* all_objects()?                                                           *)
List ==
  /\ phase = "walk" /\ stack = << >>
  /\ Start("all_objects", target) /\ phase' = "list"
  /\ UNCHANGED <<unread, stack, reached, left, findings>>

Listed ==
  /\ phase = "list" /\ pc = "done"
  /\ IF answer = "ok" THEN phase' = "diff" /\ left' = got
     ELSE phase' = "err" /\ UNCHANGED left
  /\ Idle
  /\ UNCHANGED <<unread, stack, reached, findings>>

(* The object is reached, or its kind is read for the finding.              *)
Examine(h) ==
  /\ phase = "diff" /\ h \in left
  /\ left' = left \ {h}
  /\ IF h \in reached THEN UNCHANGED phase /\ Idle
     ELSE phase' = "kind" /\ Start("read_object", h)
  /\ UNCHANGED <<unread, stack, reached, findings>>

Flag ==
  /\ phase = "kind" /\ pc = "done"
  /\ findings' = findings \cup {[object |-> target, known |-> answer = "ok"]}
  /\ phase' = "diff" /\ Idle
  /\ UNCHANGED <<unread, stack, reached, left>>

Return ==
  /\ phase = "diff" /\ left = {}
  /\ phase' = "ok" /\ Idle
  /\ UNCHANGED <<unread, stack, reached, left, findings>>

AuditStep ==
  \/ ListRefs \/ ReadRef \/ NoMoreRefs \/ SkipSeen \/ ReadTop \/ ReadAgain \/ Expand \/ List \/ Listed
  \/ (\E h \in Hash : Examine(h)) \/ Flag \/ Return

-----------------------------------------------------------------------------
(* git commit: the new objects first, the branch last.                      *)
NewObject(h) == Edges[h] \subseteq Stored /\ WriteObject(h) /\ UNCHANGED tip

(* git commit, branch, reset: a branch moves to an object that is there.    *)
MoveBranch(b, h) ==
  /\ Command /\ h \in Stored /\ tip[b] # {h}
  /\ tip' = [tip EXCEPT ![b] = {h}]
  /\ UNCHANGED <<files, fresh, old>>

(* git branch -D                                                            *)
DeleteBranch(b) ==
  /\ Command /\ tip[b] # {}
  /\ tip' = [tip EXCEPT ![b] = {}]
  /\ UNCHANGED <<files, fresh, old>>

(* git gc: git repack -A -d and git prune-packed, as in ObjectStore; what a
   branch leads to stays packed.                                            *)
Maintain ==
  /\ \/ \E h \in Hash : PrunePacked(h)
     \/ \E p \in PackId : DropIdx(p) \/ DropData(p)
     \/ \E p \in PackId, keep \in SUBSET Hash :
          Reachable(tip) \subseteq keep /\ Repack(p, keep)
     \/ Install
  /\ UNCHANGED tip

GitWork ==
  \/ \E h \in Hash : NewObject(h)
  \/ \E b \in Branch, h \in Hash : MoveBranch(b, h)
  \/ \E b \in Branch : DeleteBranch(b)
  \/ Maintain

Witness ==
  /\ anchored' = [b \in Branch |-> anchored[b] \cap Below(tip'[b])]
  /\ garbage' = ((garbage \cap Stored') \ Reachable(tip')) \ (loose' \ loose)
  /\ UNCHANGED lost

Returned == phase \in {"ok", "err"} /\ UNCHANGED auditVars

AuditNext ==
  \/ /\ ReaderStep
     /\ lost' = (lost \/ (phase \in {"object", "parse"} /\ answer' \in {"io", "notfound"}))
     /\ UNCHANGED <<files, git, tip, walk, anchored, garbage>>
  \/ AuditStep /\ UNCHANGED <<files, git, tip, history>>
  \/ phase \notin {"ok", "err"} /\ GitWork /\ UNCHANGED <<reader, walk>> /\ Witness
  \/ Returned

AuditSpec == AuditInit /\ [][AuditNext]_auditVars

-----------------------------------------------------------------------------
Flagged == {f.object : f \in findings}

(* A busy store costs no false alarm as long as no read of the walk fails:
   what one and the same branch led to all through the audit is not flagged,
   while git commits, makes, moves and deletes branches and repacks.  (What
   another branch took over may be: the reader can come to the one before it
   is there and to the other when it is gone.)                              *)
AnchoredUnflagged ==
  phase = "ok" /\ ~lost => \A b \in Branch : Flagged \cap anchored[b] = {}

(* Nothing is missed, whatever git does to the files: an object that is
   stored, and that no branch leads to, all through the audit is flagged, or
   the audit fails, unless git moves it from a pack to a loose file.        *)
GarbageFlagged ==
  phase = "ok" => garbage \subseteq Flagged

(* "An object present in the store yet reachable from no ref"
   (forensic/src/unreachable.rs, UnreachableObject): what a branch led to
   all through the audit is not flagged.                                    *)
FlaggedUnreachable ==
  phase = "ok" => \A b \in Branch : Flagged \cap anchored[b] = {}
=============================================================================
