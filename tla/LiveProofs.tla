------------------------------- MODULE LiveProofs -------------------------------
(***************************************************************************)
(* The theorems about a store in use: what one call promises (LiveStore)    *)
(* and what the audit does (LiveAudit), for any number of objects, packs,   *)
(* branches and git commands.                                               *)
(***************************************************************************)
EXTENDS LiveStore, LiveAudit, TLAPS, SequenceTheorems

(* What a call of read_object or all_objects owes to an object that stays in
   the store, for the single call and for the whole audit.

   The files, the pack that git is installing, one at a time, and the places
   each call looks in.                                                      *)
FilesType ==
  /\ loose \subseteq Hash /\ idx \subseteq PackId /\ data \subseteq PackId
  /\ holds \in [PackId -> SUBSET Hash]
  /\ fresh \subseteq PackId /\ \A p, q \in fresh : p = q

CallType ==
  /\ call \in {"read_object", "all_objects"}
  /\ pc = "shards" => call = "all_objects"
  /\ pc \in {"data", "baseloose"} \/ answer = "notfound" \/ based => call = "read_object"
  /\ pc = "baseloose" => based
  /\ based \in BOOLEAN /\ (~based => want = target)

(* The call is still to find h.                                             *)
Sought(h) == IF call = "read_object" THEN ~based /\ h = target ELSE h \notin got

(* Where an object that no loose file holds is found: in a pack still to be
   opened; when that pack's index has gone, the call fails.                 *)
Ahead(h) == \E p \in todo : h \in holds[p]

(* What the call owes to h: as long as it is to find it, it is still to look
   where h lies.                                                            *)
Owed(h) ==
  /\ h \in Stored
  /\ Sought(h) =>
       /\ pc = "shards" /\ h \in loose => h \in todo
       /\ pc = "packdir" => h \notin loose
       /\ pc = "idx" => h \notin loose /\ Ahead(h)
       /\ pc = "done" => answer # "notfound" /\ (call = "all_objects" => answer # "ok")

-----------------------------------------------------------------------------
(* The calls look in their own places.                                      *)
LEMMA ReaderTypes ==
  ASSUME CallType, ReaderStep
  PROVE  CallType'
<1> USE DEF CallType, aim
<1>1. CASE ReadLoose \/ ListShards \/ ListShard \/ ReadPackDir
  BY <1>1 DEF ReadLoose, ListShards, ListShard, ReadPackDir, Answered
<1>2. CASE ReadIdx \/ NoMoreIdx
  BY <1>2 DEF ReadIdx, NoMoreIdx, Answered, Gone
<1>3. CASE ReadData \/ ReadBase
  BY <1>3 DEF ReadData, BaseSought, ReadBase, Answered
<1> QED BY <1>1, <1>2, <1>3 DEF ReaderStep

(* The reader never leaves a place before it has taken what it looks for.   *)
LEMMA ReaderKeeps ==
  ASSUME NEW h, CallType, Owed(h), ReaderStep, UNCHANGED files
  PROVE  Owed(h)'
<1> USE DEF Owed, files, Stored, Packed, Held, CallType, aim
<1>1. CASE ReadLoose
  BY <1>1 DEF ReadLoose, Answered, Sought
<1>2. CASE ListShards
  BY <1>2 DEF ListShards, Sought
<1>3. CASE ListShard
  BY <1>3 DEF ListShard, Sought
<1>4. CASE ReadPackDir
  BY <1>4 DEF ReadPackDir, Sought, Ahead
<1>5. CASE ReadIdx
  <2>1. PICK p \in todo :
          /\ todo' = todo \ {p}
          /\ \/ p \notin idx /\ pc' = "done" /\ answer' = "io"
             \/ p \in idx /\ call = "all_objects" /\ got' = got \cup holds[p] /\ pc' = pc
             \/ p \in idx /\ call # "all_objects" /\ want \in holds[p] /\ pc' = "data"
             \/ p \in idx /\ call # "all_objects" /\ want \notin holds[p] /\ pc' = pc
    BY <1>5 DEF ReadIdx, Gone, Answered, Indexed
  <2>2. UNCHANGED aim /\ pc = "idx" /\ (call # "all_objects" => UNCHANGED got)
    BY <1>5 DEF ReadIdx
  <2>3. Sought(h) => h \notin loose /\ Ahead(h)
    BY <2>2
  <2>4. CASE p \notin idx /\ pc' = "done" /\ answer' = "io"
    BY <2>2, <2>4
  <2>5. CASE p \in idx /\ call = "all_objects" /\ got' = got \cup holds[p] /\ pc' = pc
    BY <2>1, <2>2, <2>3, <2>5 DEF Sought, Ahead
  <2>6. CASE p \in idx /\ call # "all_objects" /\ want \in holds[p] /\ pc' = "data"
    BY <2>2, <2>6
  <2>7. CASE p \in idx /\ call # "all_objects" /\ want \notin holds[p] /\ pc' = pc
    BY <2>1, <2>2, <2>3, <2>7 DEF Sought, Ahead
  <2> QED BY <2>1, <2>4, <2>5, <2>6, <2>7
<1>6. CASE NoMoreIdx
  BY <1>6 DEF NoMoreIdx, Sought, Ahead, Answered
<1>7. CASE ReadData
  BY <1>7 DEF ReadData, BaseSought, Sought, Answered
<1>8. CASE ReadBase
  BY <1>8 DEF ReadBase, Sought, Answered
<1> QED BY <1>1, <1>2, <1>3, <1>4, <1>5, <1>6, <1>7, <1>8 DEF ReaderStep

-----------------------------------------------------------------------------
(* The files stay files.                                                    *)
LEMMA GitTypes ==
  ASSUME FilesType, GitStep
  PROVE  FilesType'
<1> USE DEF FilesType
<1>1. ASSUME NEW h \in Hash, WriteObject(h) \/ PrunePacked(h) PROVE FilesType'
  BY <1>1 DEF WriteObject, PrunePacked
<1>2. ASSUME NEW p \in PackId, DropIdx(p) \/ DropData(p) PROVE FilesType'
  BY <1>2 DEF DropIdx, DropData
<1>3. ASSUME NEW p \in PackId, NEW keep \in SUBSET Hash, Repack(p, keep) PROVE FilesType'
  BY <1>3 DEF Repack
<1>4. CASE Install
  BY <1>4 DEF Install, Held
<1> QED BY <1>1, <1>2, <1>3, <1>4 DEF GitStep

(* A pack keeps what it holds, and so does its name.                        *)
LEMMA PackKeeps ==
  ASSUME FilesType, GitStep, NEW p, NEW h \in holds[p]
  PROVE  h \in holds'[p]
<1>1. ASSUME NEW q \in PackId, NEW keep \in SUBSET Hash, Repack(q, keep) PROVE h \in holds'[p]
  BY <1>1 DEF Repack, FilesType
<1>2. CASE UNCHANGED holds
  BY <1>2
<1> QED BY <1>1, <1>2 DEF GitStep, WriteObject, PrunePacked, DropIdx, DropData, Install

(* Whatever git does to the files, an object that stays in the store and is
   not loosened stays where the call will look.                             *)
LEMMA GitKeeps ==
  ASSUME NEW h, FilesType, Owed(h), GitStep, UNCHANGED reader, h \in Stored', h \notin loose' \ loose
  PROVE  Owed(h)'
<1>1. ASSUME h \notin loose, Ahead(h) PROVE Ahead(h)'
  <2>1. PICK p \in todo : h \in holds[p]
    BY <1>1 DEF Ahead
  <2>2. h \in holds'[p]
    BY <2>1, PackKeeps
  <2> QED BY <2>1, <2>2 DEF Ahead, reader
<1> QED BY <1>1 DEF Owed, Sought, reader, aim

-----------------------------------------------------------------------------
(* A store at rest is one of files.                                         *)
LEMMA AtRestTypes ==
  ASSUME AtRest
  PROVE  FilesType
BY DEF AtRest, FilesType

-----------------------------------------------------------------------------
(* One call: what was always there is what the call owes, and a base that
   was packed when the packs were listed is still to be met in one of them. *)
BaseAhead ==
  based /\ want \in packed =>
    /\ pc = "idx" => Ahead(want)
    /\ pc # "baseloose"
    /\ pc = "done" => answer # "notfound"

CallInv == FilesType /\ CallType /\ BaseAhead /\ \A h \in always : Owed(h)

(* The reader on its way to a base.                                         *)
LEMMA ReaderMeetsBase ==
  ASSUME CallInv, ReaderStep, UNCHANGED files, Mark
  PROVE  BaseAhead'
<1> USE DEF CallInv, CallType, BaseAhead, Mark, files, aim
<1>1. CASE ReadLoose \/ ListShards \/ ListShard
  BY <1>1 DEF ReadLoose, ListShards, ListShard, Answered
<1>2. CASE ReadPackDir
  BY <1>2 DEF ReadPackDir, Ahead, Held
<1>3. CASE ReadIdx
  BY <1>3 DEF ReadIdx, Gone, Answered, Indexed, Ahead
<1>4. CASE NoMoreIdx
  BY <1>4 DEF NoMoreIdx, Answered, Ahead
<1>5. CASE ReadData
  BY <1>5 DEF ReadData, BaseSought, Answered
<1>6. CASE ReadBase
  BY <1>6 DEF ReadBase, Answered
<1> QED BY <1>1, <1>2, <1>3, <1>4, <1>5, <1>6 DEF ReaderStep

(* The invariant of a call, whatever git does meanwhile.                    *)
LEMMA CallInvariant == Spec => []CallInv
<1>1. Init => CallInv
  BY AtRestTypes DEF Init, CallInv, CallType, BaseAhead, Owed
<1>2. CallInv /\ [Next]_vars => CallInv'
  <2> SUFFICES ASSUME CallInv, [Next]_vars PROVE CallInv'
    OBVIOUS
  <2>1. CASE ReaderStep /\ UNCHANGED <<files, git>> /\ Mark
    <3>1. ASSUME NEW h \in always' PROVE Owed(h)'
      BY <2>1, <3>1, ReaderKeeps DEF CallInv, Mark
    <3>2. FilesType'
      BY <2>1 DEF CallInv, FilesType, files, git
    <3> QED BY <2>1, <3>1, <3>2, ReaderTypes, ReaderMeetsBase DEF CallInv
  <2>2. CASE GitStep /\ UNCHANGED reader /\ Remember
    <3>1. ASSUME NEW h \in always' PROVE Owed(h)'
      <4>1. h \in always /\ h \in Stored' /\ h \notin loose' \ loose
        BY <2>2, <3>1 DEF Remember
      <4> QED BY <2>2, <4>1, GitKeeps DEF CallInv
    <3>2. CallType'
      BY <2>2 DEF CallInv, CallType, reader, aim
    <3>3. Ahead(want) => Ahead(want)'
      BY <2>2, PackKeeps DEF CallInv, Ahead, reader, aim
    <3>4. BaseAhead'
      BY <2>2, <3>3 DEF CallInv, BaseAhead, Remember, reader, aim
    <3> QED BY <2>2, <3>1, <3>2, <3>4, GitTypes DEF CallInv
  <2>3. CASE UNCHANGED vars
    BY <2>3 DEF vars, files, git, reader, aim, CallInv, CallType, FilesType, BaseAhead, Owed, Stored, Packed, Held,
       Sought, Ahead
  <2> QED BY <2>1, <2>2, <2>3 DEF Next, Terminated
<1> QED BY <1>1, <1>2, PTL DEF Spec

(* In any store, against any number of git commands: read_object never
   reports missing, when it looks for it, what was stored all the while and
   never loosened.                                                          *)
THEOREM ReadHonest == Spec => []NoMisleadingNotFound
<1>1. CallInv => NoMisleadingNotFound
  BY DEF CallInv, CallType, Owed, NoMisleadingNotFound, Sought
<1> QED BY <1>1, CallInvariant, PTL

(* ... nor, of the bases it looks for by hash, one that a pack held when the
   packs were listed.                                                       *)
THEOREM BaseHonest == Spec => []BaseNotMissed
<1>1. CallInv => BaseNotMissed
  BY DEF CallInv, BaseAhead, BaseNotMissed
<1> QED BY <1>1, CallInvariant, PTL

(* ... and all_objects names it, or fails.                                  *)
THEOREM ListingComplete == Spec => []ListComplete
<1>1. CallInv => ListComplete
  BY DEF CallInv, Owed, ListComplete, Sought
<1> QED BY <1>1, CallInvariant, PTL

-----------------------------------------------------------------------------
(* The whole audit.  First, what an object leads to.                        *)

(* An object names objects.                                                 *)
LEMMA EdgesTypes ==
  ASSUME NEW h \in Hash
  PROVE  Links[h] \in Seq(Hash) /\ Edges[h] = Range(Links[h]) /\ Edges[h] \subseteq Hash
<1>1. Links[h] \in Seq(Hash)
  BY LiveAuditAssumption
<1>2. Range(Links[h]) \subseteq Hash
  BY <1>1, ElementOfSeq, RangeEquality
<1> QED BY <1>1, <1>2 DEF Edges

(* Below(R) is the least closed set that holds R.                           *)
LEMMA BelowProperties ==
  ASSUME NEW R \in SUBSET Hash
  PROVE  /\ R \subseteq Below(R) /\ Below(R) \subseteq Hash
         /\ \A g \in Below(R) : Edges[g] \subseteq Below(R)
         /\ \A S \in SUBSET Hash : R \subseteq S /\ (\A g \in S : Edges[g] \subseteq S) => Below(R) \subseteq S
<1>1. R \subseteq Below(R) /\ Below(R) \subseteq Hash
  BY DEF Below
<1>2. ASSUME NEW g \in Below(R), NEW h \in Edges[g] PROVE h \in Below(R)
  BY <1>2, EdgesTypes DEF Below
<1> QED BY <1>1, <1>2 DEF Below

(* It grows with R, and what it holds already adds nothing to it.           *)
LEMMA BelowGrows ==
  ASSUME NEW R \in SUBSET Hash, NEW Q \in SUBSET Hash
  PROVE  /\ R \subseteq Q => Below(R) \subseteq Below(Q)
         /\ Below(R \cup Q) = Below(R) \cup Below(Q)
         /\ Q \subseteq Below(R) => Below(R \cup Q) = Below(R)
<1>1. R \cup Q \in SUBSET Hash /\ Below(R) \cup Below(Q) \in SUBSET Hash
  BY BelowProperties
<1>2. ASSUME R \subseteq Q PROVE Below(R) \subseteq Below(Q)
  BY <1>2, BelowProperties
<1>3. Below(R) \subseteq Below(R \cup Q) /\ Below(Q) \subseteq Below(R \cup Q)
  BY <1>1, BelowProperties
<1>4. Below(R \cup Q) \subseteq Below(R) \cup Below(Q)
  <2> DEFINE S == Below(R) \cup Below(Q)
  <2>1. S \in SUBSET Hash /\ R \cup Q \subseteq S
    BY BelowProperties
  <2>2. \A g \in S : Edges[g] \subseteq S
    BY BelowProperties
  <2>3. Below(R \cup Q) \subseteq S
    <3> HIDE DEF S
    <3> QED BY <1>1, <2>1, <2>2, BelowProperties
  <2> QED BY <2>3
<1>5. Q \subseteq Below(R) => Below(Q) \subseteq Below(R)
  BY <1>1, BelowProperties
<1> QED BY <1>2, <1>3, <1>4, <1>5

(* The work-list: what is pushed, popped and appended.                      *)
LEMMA StackProperties ==
  ASSUME NEW s \in Seq(Hash)
  PROVE  /\ Range(s) \subseteq Hash
         /\ \A h \in Hash : Append(s, h) \in Seq(Hash) /\ Range(Append(s, h)) = Range(s) \cup {h}
         /\ \A t \in Seq(Hash) : s \o t \in Seq(Hash) /\ Range(s \o t) = Range(s) \cup Range(t)
         /\ s # << >> => LET t == SubSeq(s, 1, Len(s) - 1) IN
              /\ s[Len(s)] \in Hash /\ t \in Seq(Hash)
              /\ Range(s) = Range(t) \cup {s[Len(s)]}
<1>1. Range(s) \subseteq Hash
  BY ElementOfSeq, RangeEquality
<1>2. ASSUME NEW h \in Hash PROVE Append(s, h) \in Seq(Hash) /\ Range(Append(s, h)) = Range(s) \cup {h}
  <2> DEFINE t == Append(s, h)
  <2>1. t \in Seq(Hash) /\ Len(t) = Len(s) + 1 /\ t[Len(s) + 1] = h /\ \A i \in 1..Len(s) : t[i] = s[i]
    BY AppendProperties
  <2>2. Len(s) \in Nat
    BY LenProperties
  <2> HIDE DEF t
  <2>3. Range(t) = {t[i] : i \in 1..Len(s) + 1} /\ Range(s) = {s[i] : i \in 1..Len(s)}
    BY <2>1, RangeEquality
  <2>4. Range(t) = Range(s) \cup {h}
    BY <2>1, <2>2, <2>3
  <2> QED BY <2>1, <2>4 DEF t
<1>3. ASSUME NEW t \in Seq(Hash) PROVE s \o t \in Seq(Hash) /\ Range(s \o t) = Range(s) \cup Range(t)
  BY RangeConcatenation, ConcatProperties
<1>4. ASSUME s # << >>
      PROVE  LET t == SubSeq(s, 1, Len(s) - 1) IN
              /\ s[Len(s)] \in Hash /\ t \in Seq(Hash)
              /\ Range(s) = Range(t) \cup {s[Len(s)]}
  <2> DEFINE n == Len(s)
             t == SubSeq(s, 1, n - 1)
  <2>1. n \in Nat \ {0} /\ \A i \in 1..n : s[i] \in Hash
    BY <1>4, EmptySeq, LenProperties, ElementOfSeq
  <2>2. t \in Seq(Hash) /\ Len(t) = n - 1 /\ \A i \in 1..n-1 : t[i] = s[i]
    <3>1. /\ t \in Seq(Hash) /\ Len(t) = IF 1 <= n - 1 THEN (n - 1) - 1 + 1 ELSE 0
          /\ \A i \in 1..(n - 1) - 1 + 1 : t[i] = s[1 + i - 1]
      <4> HIDE DEF n
      <4>1. n - 1 \in Int /\ \A i \in 1..n-1 : s[i] \in Hash
        BY <2>1
      <4> QED BY <4>1, SubSeqProperties
    <3> HIDE DEF n, t
    <3>2. ASSUME NEW i \in 1..n-1 PROVE t[i] = s[i]
      <4>1. i \in 1..(n - 1) - 1 + 1 /\ 1 + i - 1 = i
        BY <2>1
      <4> QED BY <3>1, <4>1
    <3> QED BY <2>1, <3>1, <3>2
  <2> HIDE DEF n, t
  <2>3. Range(t) = {t[i] : i \in 1..n-1} /\ Range(s) = {s[i] : i \in 1..n}
    BY <2>2, RangeEquality DEF n
  <2>4. Range(s) = Range(t) \cup {s[n]}
    BY <2>1, <2>2, <2>3
  <2> QED BY <2>1, <2>2, <2>4 DEF n, t
<1> QED BY <1>1, <1>2, <1>3, <1>4

(* What the walk has found so far, and the object it is reading.            *)
Seen == Range(stack) \cup reached
Pending == IF phase \in {"object", "parse"} THEN {target} ELSE {}

AuditType ==
  /\ FilesType /\ CallType /\ got \subseteq Hash
  /\ tip \in [Branch -> SUBSET Hash] /\ \A b \in Branch : \A g, h \in tip[b] : g = h
  /\ unread \subseteq Branch
  /\ stack \in Seq(Hash) /\ reached \subseteq Hash /\ left \subseteq Hash
  /\ phase \in {"object", "parse", "kind"} => target \in Hash

(* In each phase, what the phases before have left behind.                  *)
PhaseInv ==
  /\ phase \in {"object", "parse"} => target \in reached /\ (~lost /\ pc = "done" => answer = "ok")
  /\ phase \notin {"roots", "refs"} => unread = {}
  /\ phase \in {"list", "diff", "kind", "ok"} => stack = << >>
  /\ phase = "list" => call = "all_objects"
  /\ phase \notin {"diff", "kind", "ok"} => findings = {}
  /\ phase = "kind" => target \notin reached
  /\ Flagged \cap reached = {}

(* As long as no read of the walk has failed, what the marked objects name is
   marked or queued; and what each branch read has led to ever since is found
   below what is marked or queued.                                          *)
WalkedInv ==
  /\ ~lost => \A g \in reached \ Pending : Edges[g] \subseteq Seen
  /\ \A b \in Branch :
       /\ anchored[b] \subseteq Below(tip[b])
       /\ phase # "roots" /\ b \notin unread => anchored[b] \subseteq Below(Seen)

(* The walk never comes to garbage, and the diff comes to all of it.        *)
GarbageInv ==
  /\ garbage \cap Below(Seen) = {} /\ garbage \cap Reachable(tip) = {}
  /\ \A h \in garbage : Owed(h)
  /\ phase \in {"diff", "kind", "ok"} =>
       garbage \subseteq left \cup Flagged \cup (IF phase = "kind" THEN {target} ELSE {})
  /\ phase = "ok" => left = {}

AuditInv == AuditType /\ PhaseInv /\ WalkedInv /\ GarbageInv

(* What the walk has found are objects, covered by themselves.              *)
LEMMA SeenTypes ==
  ASSUME AuditType
  PROVE  /\ Seen \subseteq Hash /\ Seen \subseteq Below(Seen)
         /\ \A b \in Branch : tip[b] \subseteq Tips(tip)
         /\ Tips(tip) \subseteq Hash
<1>1. Seen \subseteq Hash
  BY StackProperties DEF AuditType, Seen
<1> QED BY <1>1, BelowProperties DEF AuditType, Tips

(* A store at rest, and a walk that has not begun.                          *)
LEMMA AuditStarts == AuditInit => AuditInv
<1> SUFFICES ASSUME AuditInit PROVE AuditInv
  OBVIOUS
<1>1. AuditType
  <2>1. FilesType /\ CallType
    BY AtRestTypes DEF AuditInit, CallType
  <2>2. tip \in [Branch -> SUBSET Hash] /\ \A b \in Branch : \A g, h \in tip[b] : g = h
    BY DEF AuditInit
  <2> QED BY <2>1, <2>2 DEF AuditInit, AuditType
<1>2. PhaseInv
  BY DEF AuditInit, PhaseInv, Flagged
<1>3. Seen = {}
  BY DEF AuditInit, Seen, Range
<1>4. WalkedInv
  BY <1>3 DEF AuditInit, WalkedInv
<1>5. GarbageInv
  <2>1. Below({}) = {}
    <3>1. Below({}) \subseteq {}
      BY BelowProperties
    <3> QED BY <3>1
  <2>2. \A h \in garbage : Owed(h)
    BY DEF AuditInit, Owed
  <2> QED BY <1>3, <2>1, <2>2 DEF AuditInit, GarbageInv
<1> QED BY <1>1, <1>2, <1>4, <1>5 DEF AuditInv

(* A step of the call that the audit is in.                                 *)
LEMMA AuditReads ==
  ASSUME AuditInv, ReaderStep,
         lost' = (lost \/ (phase \in {"object", "parse"} /\ answer' \in {"io", "notfound"})),
         UNCHANGED <<files, git, tip, walk, anchored, garbage>>
  PROVE  AuditInv'
<1> USE DEF AuditInv
<1>1. target' = target /\ call' = call /\ pc # "done"
  BY DEF ReaderStep, ReadLoose, ListShards, ListShard, ReadPackDir, ReadIdx, NoMoreIdx, ReadData,
         BaseSought, ReadBase, aim
<1>2. pc' = "done" => answer' \in {"ok", "io", "notfound"}
  BY <1>1 DEF ReaderStep, ReadLoose, ListShards, ListShard, ReadPackDir, ReadIdx, NoMoreIdx, ReadData, BaseSought,
     ReadBase, Answered, Gone
<1>3. AuditType'
  <2>1. FilesType' /\ CallType'
    BY ReaderTypes DEF AuditType, FilesType, files, git
  <2>2. got' \subseteq Hash
    BY DEF AuditType, FilesType, Indexed, ReaderStep, ReadLoose, ListShards, ListShard, ReadPackDir, ReadIdx,
           NoMoreIdx, ReadData, BaseSought, ReadBase
  <2> QED BY <1>1, <2>1, <2>2 DEF AuditType, walk
<1>4. PhaseInv'
  BY <1>1, <1>2 DEF PhaseInv, walk, Flagged
<1>5. WalkedInv'
  BY <1>1 DEF WalkedInv, walk, Pending, Seen
<1>6. GarbageInv'
  <2>1. ASSUME NEW h \in garbage PROVE Owed(h)'
    BY ReaderKeeps DEF GarbageInv, AuditType
  <2> QED BY <1>1, <2>1 DEF GarbageInv, walk, Seen, Flagged
<1> QED BY <1>3, <1>4, <1>5, <1>6

(* A step of git, in the files or in the branches.                          *)
LEMMA AuditBesideGit ==
  ASSUME AuditInv, GitWork, UNCHANGED <<reader, walk>>, Witness
  PROVE  AuditInv'
<1> USE DEF AuditInv
<1>1. GitStep \/ UNCHANGED <<files, fresh, old>>
  BY DEF GitWork, NewObject, MoveBranch, DeleteBranch, Maintain, GitStep
<1>2. FilesType'
  BY <1>1, GitTypes DEF AuditType, FilesType, files
<1>3. tip' \in [Branch -> SUBSET Hash] /\ \A b \in Branch : \A g, h \in tip'[b] : g = h
  <2> USE DEF AuditType
  <2>1. ASSUME NEW b \in Branch, NEW h \in Hash, MoveBranch(b, h)
        PROVE  tip' \in [Branch -> SUBSET Hash] /\ \A c \in Branch : \A f, g \in tip'[c] : f = g
    BY <2>1 DEF MoveBranch
  <2>2. ASSUME NEW b \in Branch, DeleteBranch(b)
        PROVE  tip' \in [Branch -> SUBSET Hash] /\ \A c \in Branch : \A f, g \in tip'[c] : f = g
    BY <2>2 DEF DeleteBranch
  <2>3. CASE UNCHANGED tip
    BY <2>3
  <2> QED BY <2>1, <2>2, <2>3 DEF GitWork, NewObject, Maintain
<1>4. AuditType'
  BY <1>2, <1>3 DEF AuditType, CallType, reader, aim, walk
<1>5. PhaseInv'
  BY DEF PhaseInv, Witness, Flagged, reader, aim, walk
<1>6. WalkedInv'
  <2>1. \A b \in Branch : anchored'[b] \subseteq anchored[b] /\ anchored'[b] \subseteq Below(tip'[b])
    BY DEF Witness
  <2>2. Seen' = Seen /\ Pending' = Pending /\ Below(Seen') = Below(Seen)
    BY DEF Seen, Pending, reader, aim, walk
  <2>3. ~lost' => \A g \in reached' \ Pending' : Edges[g] \subseteq Seen'
    BY <2>2 DEF WalkedInv, Witness, walk
  <2>4. \A b \in Branch : phase' # "roots" /\ b \notin unread' => anchored'[b] \subseteq Below(Seen')
    <3>1. \A b \in Branch : phase # "roots" /\ b \notin unread => anchored[b] \subseteq Below(Seen)
      BY Zenon DEF WalkedInv
    <3>2. phase' = phase /\ unread' = unread
      BY DEF walk
    <3> QED BY <2>1, <2>2, <3>1, <3>2
  <2> QED BY <2>1, <2>3, <2>4 DEF WalkedInv
<1>7. GarbageInv'
  <2>1. /\ garbage' \subseteq garbage /\ garbage' \cap Reachable(tip)' = {}
        /\ \A h \in garbage' : h \in Stored' /\ h \notin loose' \ loose
    BY DEF Witness
  <2>2. ASSUME NEW h \in garbage' PROVE Owed(h)'
    <3>1. CASE GitStep
      BY <2>1, <2>2, <3>1, GitKeeps DEF GarbageInv, AuditType
    <3>2. CASE UNCHANGED <<files, fresh, old>>
      BY <2>1, <2>2, <3>2 DEF GarbageInv, Owed, Sought, Ahead, files, reader, aim
    <3> QED BY <1>1, <3>1, <3>2
  <2>3. Seen' = Seen /\ Below(Seen)' = Below(Seen)
    BY DEF Seen, walk
  <2> QED BY <2>1, <2>2, <2>3 DEF GarbageInv, Flagged, reader, aim, walk
<1> QED BY <1>4, <1>5, <1>6, <1>7

(* A step of the audit touches no file, and leaves the call alone or begins
   one: whatever the call owes it still owes.                               *)
LEMMA StoreKept ==
  ASSUME AuditInv, UNCHANGED <<files, git, tip, history>>,
         Idle \/ (/\ call' \in {"read_object", "all_objects"} /\ want' = target' /\ based' = FALSE
                 /\ pc' = "loose" /\ got' = {} /\ answer' = "none")
  PROVE  /\ FilesType' /\ CallType' /\ got' \subseteq Hash
         /\ \A h \in garbage' : Owed(h)'
<1> USE DEF AuditInv, AuditType, history, files, git
<1>1. FilesType'
  BY DEF FilesType
<1>2. Stored' = Stored
  BY DEF Stored, Packed, Held
<1>3. CASE Idle
  <2>1. ASSUME NEW h \in garbage' PROVE Owed(h)'
    BY <1>2, <1>3, <2>1 DEF Idle, reader, aim, GarbageInv, Owed, Sought, Ahead
  <2> QED BY <1>1, <1>3, <2>1 DEF Idle, reader, aim, CallType
<1>4. CASE /\ call' \in {"read_object", "all_objects"} /\ want' = target' /\ based' = FALSE
           /\ pc' = "loose" /\ got' = {} /\ answer' = "none"
  <2>1. ASSUME NEW h \in garbage' PROVE Owed(h)'
    BY <1>2, <1>4, <2>1 DEF GarbageInv, Owed
  <2> QED BY <1>1, <1>4, <2>1 DEF CallType
<1> QED BY <1>3, <1>4

(* The audit's own steps, one by one.  The refs are listed: one that names
   nothing leads to nothing.                                                *)
LEMMA ListRefsKeeps ==
  ASSUME AuditInv, ListRefs, UNCHANGED <<files, git, tip, history>>
  PROVE  AuditInv'
<1> USE DEF AuditInv, ListRefs, Idle, reader, aim, aim, history, files, git
<1>1. AuditType'
  BY DEF AuditType, FilesType, CallType
<1>2. PhaseInv'
  BY DEF PhaseInv, Flagged
<1>3. Seen' = Seen /\ Below(Seen)' = Below(Seen)
  BY DEF Seen
<1>4. WalkedInv'
  <2>1. Below({}) \subseteq Below(Seen)
    BY SeenTypes, BelowGrows
  <2>2. ASSUME NEW b \in Branch, b \notin unread' PROVE anchored'[b] \subseteq Below(Seen)
    <3>1. tip[b] = {}
      BY <2>2
    <3>2. anchored' = anchored
      OBVIOUS
    <3>3. anchored[b] \subseteq Below(tip[b])
      BY Zenon DEF WalkedInv
    <3> QED BY <2>1, <3>1, <3>2, <3>3
  <2> QED BY <1>3, <2>2 DEF WalkedInv, Pending
<1>5. GarbageInv'
  BY <1>3 DEF GarbageInv, Flagged, Owed, Stored, Packed, Held, Sought, Ahead
<1> QED BY <1>1, <1>2, <1>4, <1>5

(* The hash of a ref is queued; a branch may not name garbage.              *)
LEMMA ReadRefKeeps ==
  ASSUME AuditInv, ReadRef, UNCHANGED <<files, git, tip, history>>
  PROVE  AuditInv'
<1> USE DEF AuditInv, Idle, reader, aim, aim, history, files, git
<1>1. PICK b \in unread :
        /\ phase = "refs" /\ unread' = unread \ {b} /\ UNCHANGED <<reader, phase, reached, left, findings>>
        /\ stack' = IF tip[b] = {} THEN stack ELSE Append(stack, CHOOSE h \in tip[b] : TRUE)
  BY DEF ReadRef
<1>2. stack' \in Seq(Hash) /\ Seen' = Seen \cup tip[b] /\ b \in Branch /\ tip[b] \subseteq Hash
  <2>1. b \in Branch /\ tip[b] \subseteq Hash /\ stack \in Seq(Hash) /\ \A g, h \in tip[b] : g = h
    BY DEF AuditType
  <2>2. CASE tip[b] = {}
    BY <1>1, <2>1, <2>2 DEF Seen
  <2>3. CASE tip[b] # {}
    <3>1. PICK h \in tip[b] : tip[b] = {h} /\ (CHOOSE g \in tip[b] : TRUE) = h
      BY <2>1, <2>3
    <3>2. stack' = Append(stack, h) /\ h \in Hash
      BY <1>1, <2>1, <2>3, <3>1
    <3> QED BY <1>1, <2>1, <3>1, <3>2, StackProperties DEF Seen
  <2> QED BY <2>2, <2>3
<1>3. Below(Seen') = Below(Seen) \cup Below(tip[b]) /\ Below(tip[b]) \subseteq Reachable(tip)
  BY <1>2, SeenTypes, BelowGrows DEF Reachable
<1>4. AuditType'
  BY <1>1, <1>2 DEF AuditType, FilesType, CallType
<1>5. PhaseInv'
  BY <1>1 DEF PhaseInv, Flagged
<1>6. WalkedInv'
  BY <1>1, <1>2, <1>3 DEF WalkedInv, Pending
<1>7. GarbageInv'
  BY <1>1, <1>3 DEF GarbageInv, Flagged, Owed, Stored, Packed, Held, Sought, Ahead
<1> QED BY <1>4, <1>5, <1>6, <1>7

(* Every ref is read.                                                       *)
LEMMA NoMoreRefsKeeps ==
  ASSUME AuditInv, NoMoreRefs, UNCHANGED <<files, git, tip, history>>
  PROVE  AuditInv'
<1> USE DEF AuditInv, NoMoreRefs, Idle, reader, aim, aim, history, files, git
<1>1. Seen' = Seen /\ Below(Seen)' = Below(Seen)
  BY DEF Seen
<1>2. AuditType' /\ PhaseInv'
  BY DEF AuditType, FilesType, CallType, PhaseInv, Flagged
<1>3. WalkedInv'
  BY <1>1 DEF WalkedInv, Pending
<1>4. GarbageInv'
  BY <1>1 DEF GarbageInv, Flagged, Owed, Stored, Packed, Held, Sought, Ahead
<1> QED BY <1>2, <1>3, <1>4

(* The top of the work-list, marked already.                                *)
LEMMA SkipSeenKeeps ==
  ASSUME AuditInv, SkipSeen, UNCHANGED <<files, git, tip, history>>
  PROVE  AuditInv'
<1> USE DEF AuditInv, SkipSeen, history
<1>1. stack' \in Seq(Hash) /\ Seen' = Seen /\ Below(Seen)' = Below(Seen)
  <2>1. Top \in Hash /\ Pop \in Seq(Hash) /\ Range(stack) = Range(Pop) \cup {Top}
    BY StackProperties DEF AuditType, Pop, Top
  <2>2. stack' = Pop /\ reached' = reached /\ Top \in reached
    OBVIOUS
  <2>3. Seen' = Seen
    BY <2>1, <2>2 DEF Seen
  <2> QED BY <2>1, <2>2, <2>3
<1>2. AuditType'
  BY <1>1, StoreKept DEF AuditType, Idle, reader, aim
<1>3. PhaseInv'
  BY DEF PhaseInv, Flagged, Idle, reader, aim
<1>4. WalkedInv'
  BY <1>1 DEF WalkedInv, Pending
<1>5. GarbageInv'
  BY <1>1, StoreKept DEF GarbageInv, Flagged
<1> QED BY <1>2, <1>3, <1>4, <1>5

(* ... or marked now, and read: it is pending.                              *)
LEMMA ReadTopKeeps ==
  ASSUME AuditInv, ReadTop, UNCHANGED <<files, git, tip, history>>
  PROVE  AuditInv'
<1> USE DEF AuditInv, ReadTop, Start, history
<1>1. stack' \in Seq(Hash) /\ Top \in Hash /\ Seen' = Seen /\ Below(Seen)' = Below(Seen)
  <2>1. Top \in Hash /\ Pop \in Seq(Hash) /\ Range(stack) = Range(Pop) \cup {Top}
    BY StackProperties DEF AuditType, Pop, Top
  <2>2. stack' = Pop /\ reached' = reached \cup {Top}
    OBVIOUS
  <2>3. Seen' = Seen
    BY <2>1, <2>2 DEF Seen
  <2> QED BY <2>1, <2>2, <2>3
<1>2. AuditType'
  BY <1>1, StoreKept DEF AuditType
<1>3. PhaseInv'
  BY DEF PhaseInv, Flagged
<1>4. WalkedInv'
  BY <1>1 DEF WalkedInv, Pending
<1>5. GarbageInv'
  BY <1>1, StoreKept DEF GarbageInv, Flagged
<1> QED BY <1>2, <1>3, <1>4, <1>5

(* A blob names nothing; a commit or a tree stays pending, to be parsed.    *)
LEMMA ReadAgainKeeps ==
  ASSUME AuditInv, ReadAgain, UNCHANGED <<files, git, tip, history>>
  PROVE  AuditInv'
<1> USE DEF AuditInv, ReadAgain, Start, history
<1>1. Seen' = Seen /\ Below(Seen)' = Below(Seen)
  BY DEF Seen
<1>2. AuditType'
  BY StoreKept DEF AuditType, Idle, reader, aim
<1>3. PhaseInv'
  BY DEF PhaseInv, Flagged, Idle, reader, aim
<1>4. WalkedInv'
  <2>1. Links[target] = << >> => Edges[target] = {}
    BY EdgesTypes DEF AuditType, Range
  <2>2. ~lost => answer = "ok"
    BY DEF PhaseInv
  <2>3. ~lost' => \A g \in reached' \ Pending' : Edges[g] \subseteq Seen'
    BY <1>1, <2>1, <2>2 DEF WalkedInv, Pending
  <2> QED BY <1>1, <2>3 DEF WalkedInv
<1>5. GarbageInv'
  BY <1>1, StoreKept DEF GarbageInv, Flagged
<1> QED BY <1>2, <1>3, <1>4, <1>5

(* What it names is queued: nothing that was not below what is marked.      *)
LEMMA ExpandKeeps ==
  ASSUME AuditInv, Expand, UNCHANGED <<files, git, tip, history>>
  PROVE  AuditInv'
<1> USE DEF AuditInv, Expand, Found, history
<1>1. target \in reached /\ target \in Hash /\ stack \in Seq(Hash) /\ (~lost => answer = "ok")
  BY DEF AuditType, PhaseInv
<1>2. stack' \in Seq(Hash) /\ Seen' = Seen \cup (IF answer = "ok" THEN Edges[target] ELSE {})
  BY <1>1, StackProperties, EdgesTypes DEF Seen
<1>3. Below(Seen') = Below(Seen)
  <2>1. Seen \subseteq Hash /\ target \in Seen /\ Edges[target] \subseteq Hash
    BY <1>1, SeenTypes, EdgesTypes DEF Seen
  <2>2. Edges[target] \subseteq Below(Seen)
    BY <2>1, BelowProperties
  <2> QED BY <1>2, <2>1, <2>2, BelowGrows
<1>4. AuditType'
  BY <1>2, StoreKept DEF AuditType, Idle, reader, aim
<1>5. PhaseInv'
  BY DEF PhaseInv, Flagged, Idle, reader, aim
<1>6. WalkedInv'
  <2>1. ~lost' => \A g \in reached' \ Pending' : Edges[g] \subseteq Seen'
    BY <1>1, <1>2 DEF WalkedInv, Pending
  <2> QED BY <1>3, <2>1 DEF WalkedInv
<1>7. GarbageInv'
  BY <1>3, StoreKept DEF GarbageInv, Flagged
<1> QED BY <1>4, <1>5, <1>6, <1>7

(* The work-list is empty, and the store is listed.                         *)
LEMMA ListKeeps ==
  ASSUME AuditInv, List, UNCHANGED <<files, git, tip, history>>
  PROVE  AuditInv'
<1> USE DEF AuditInv, List, Start, history
<1>1. Seen' = Seen /\ Below(Seen)' = Below(Seen)
  BY DEF Seen
<1>2. AuditType'
  BY StoreKept DEF AuditType
<1>3. PhaseInv'
  BY DEF PhaseInv, Flagged
<1>4. WalkedInv'
  BY <1>1 DEF WalkedInv, Pending
<1>5. GarbageInv'
  BY <1>1, StoreKept DEF GarbageInv, Flagged
<1> QED BY <1>2, <1>3, <1>4, <1>5

(* A listing that succeeds names all the garbage, which it owed.            *)
LEMMA ListedKeeps ==
  ASSUME AuditInv, Listed, UNCHANGED <<files, git, tip, history>>
  PROVE  AuditInv'
<1> USE DEF AuditInv, Listed, history
<1>1. Seen' = Seen /\ Below(Seen)' = Below(Seen)
  BY DEF Seen
<1>2. AuditType'
  BY StoreKept DEF AuditType, Idle, reader, aim
<1>3. PhaseInv'
  BY DEF PhaseInv, Flagged, Idle, reader, aim
<1>4. WalkedInv'
  BY <1>1 DEF WalkedInv, Pending
<1>5. GarbageInv'
  <2>1. answer = "ok" => garbage \subseteq got
    BY DEF GarbageInv, PhaseInv, Owed, Sought
  <2> QED BY <1>1, <2>1, StoreKept DEF GarbageInv, Flagged
<1> QED BY <1>2, <1>3, <1>4, <1>5

(* An object is marked, and so no garbage, or looked at for the report.     *)
LEMMA ExamineKeeps ==
  ASSUME AuditInv, NEW h \in Hash, Examine(h), UNCHANGED <<files, git, tip, history>>
  PROVE  AuditInv'
<1> USE DEF AuditInv, Examine, Start, history
<1>1. Seen' = Seen /\ Below(Seen)' = Below(Seen)
  BY DEF Seen
<1>2. AuditType'
  BY StoreKept DEF AuditType, Idle, reader, aim
<1>3. PhaseInv'
  BY DEF PhaseInv, Flagged, Idle, reader, aim
<1>4. WalkedInv'
  BY <1>1 DEF WalkedInv, Pending
<1>5. GarbageInv'
  <2>1. h \in reached => h \notin garbage
    BY SeenTypes DEF GarbageInv, Seen
  <2> QED BY <1>1, <2>1, StoreKept DEF GarbageInv, Flagged
<1> QED BY <1>2, <1>3, <1>4, <1>5

(* ... and reported.                                                        *)
LEMMA FlagKeeps ==
  ASSUME AuditInv, Flag, UNCHANGED <<files, git, tip, history>>
  PROVE  AuditInv'
<1> USE DEF AuditInv, Flag, history
<1>1. Seen' = Seen /\ Below(Seen)' = Below(Seen)
  BY DEF Seen
<1>2. Flagged' = Flagged \cup {target}
  <2> DEFINE f == [object |-> target, known |-> answer = "ok"]
  <2>1. findings' = findings \cup {f} /\ f.object = target
    OBVIOUS
  <2> HIDE DEF f
  <2> QED BY <2>1 DEF Flagged
<1>3. AuditType'
  BY StoreKept DEF AuditType, Idle, reader, aim
<1>4. PhaseInv'
  BY <1>2 DEF PhaseInv, Idle, reader, aim
<1>5. WalkedInv'
  BY <1>1 DEF WalkedInv, Pending
<1>6. GarbageInv'
  BY <1>1, <1>2, StoreKept DEF GarbageInv
<1> QED BY <1>3, <1>4, <1>5, <1>6

(* Nothing is left to look at.                                              *)
LEMMA ReturnKeeps ==
  ASSUME AuditInv, Return, UNCHANGED <<files, git, tip, history>>
  PROVE  AuditInv'
<1> USE DEF AuditInv, Return, history
<1>1. Seen' = Seen /\ Below(Seen)' = Below(Seen)
  BY DEF Seen
<1>2. AuditType'
  BY StoreKept DEF AuditType, Idle, reader, aim
<1>3. PhaseInv'
  BY DEF PhaseInv, Flagged, Idle, reader, aim
<1>4. WalkedInv'
  BY <1>1 DEF WalkedInv, Pending
<1>5. GarbageInv'
  BY <1>1, StoreKept DEF GarbageInv, Flagged
<1> QED BY <1>2, <1>3, <1>4, <1>5

(* The invariant of the audit.                                              *)
LEMMA AuditInvariant == AuditSpec => []AuditInv
<1>1. AuditInv /\ [AuditNext]_auditVars => AuditInv'
  <2> SUFFICES ASSUME AuditInv, [AuditNext]_auditVars PROVE AuditInv'
    OBVIOUS
  <2>1. CASE UNCHANGED auditVars
    <3> USE DEF auditVars, files, git, reader, aim, walk, history, AuditInv
    <3>1. AuditType' /\ PhaseInv'
      BY <2>1 DEF AuditType, FilesType, CallType, PhaseInv, Flagged
    <3>2. Seen' = Seen /\ Below(Seen)' = Below(Seen) /\ Pending' = Pending
      BY <2>1 DEF Seen, Pending
    <3>3. WalkedInv'
      BY <2>1, <3>2 DEF WalkedInv
    <3>4. GarbageInv'
      BY <2>1, <3>2, StoreKept DEF GarbageInv, Flagged, Idle
    <3> QED BY <3>1, <3>3, <3>4
  <2>2. CASE /\ ReaderStep
             /\ lost' = (lost \/ (phase \in {"object", "parse"} /\ answer' \in {"io", "notfound"}))
             /\ UNCHANGED <<files, git, tip, walk, anchored, garbage>>
    BY <2>2, AuditReads
  <2>3. CASE AuditStep /\ UNCHANGED <<files, git, tip, history>>
    BY <2>3, ListRefsKeeps, ReadRefKeeps, NoMoreRefsKeeps, SkipSeenKeeps, ReadTopKeeps, ReadAgainKeeps, ExpandKeeps,
       ListKeeps, ListedKeeps, ExamineKeeps, FlagKeeps, ReturnKeeps DEF AuditStep
  <2>4. CASE GitWork /\ UNCHANGED <<reader, walk>> /\ Witness
    BY <2>4, AuditBesideGit
  <2> QED BY <2>1, <2>2, <2>3, <2>4 DEF AuditNext, Returned
<1> QED BY <1>1, AuditStarts, PTL DEF AuditSpec

(* In any repository, against any number of git commands: what one and the
   same branch led to all through an audit in which no read of the walk
   failed is not flagged.                                                   *)
THEOREM BranchesHonored == AuditSpec => []AnchoredUnflagged
<1>1. AuditInv => AnchoredUnflagged
  <2> SUFFICES ASSUME AuditInv, phase = "ok", ~lost, NEW b \in Branch PROVE Flagged \cap anchored[b] = {}
    BY DEF AnchoredUnflagged
  <2> USE DEF AuditInv
  <2>1. Seen = reached /\ Pending = {} /\ unread = {}
    BY DEF PhaseInv, Seen, Pending, Range
  <2>2. reached \subseteq Hash /\ \A g \in reached : Edges[g] \subseteq reached
    BY <2>1 DEF AuditType, WalkedInv
  <2>3. Below(Seen) \subseteq reached
    BY <2>1, <2>2, BelowProperties
  <2>4. anchored[b] \subseteq Below(Seen)
    BY <2>1 DEF WalkedInv
  <2> QED BY <2>3, <2>4 DEF PhaseInv
<1> QED BY <1>1, AuditInvariant, PTL

(* ... and what is stored all through it, and led to by no branch, is.      *)
THEOREM GarbageFound == AuditSpec => []GarbageFlagged
<1>1. AuditInv => GarbageFlagged
  BY DEF AuditInv, GarbageInv, GarbageFlagged
<1> QED BY <1>1, AuditInvariant, PTL
=============================================================================
