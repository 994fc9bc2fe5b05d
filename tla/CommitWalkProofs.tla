---------------------------- MODULE CommitWalkProofs ----------------------------
(***************************************************************************)
(* The theorems about the first-parent walk and the audits over it, for     *)
(* any history: any number of commits, unreadable ones and loops included.  *)
(***************************************************************************)
EXTENDS CommitWalk, TLAPS, SequenceTheorems, FunctionTheorems, FiniteSetTheorems

Distinct(s) == \A i, j \in DOMAIN s : s[i] = s[j] => i = j

(* Commits that are all different are no more than the bound.               *)
LEMMA DistinctIsShort ==
  ASSUME NEW s \in Seq(Hash), Distinct(s)
  PROVE  Len(s) <= MaxWalk
<1>1. Len(s) \in Nat /\ s \in [1..Len(s) -> Hash] /\ DOMAIN s = 1..Len(s)
  BY LenProperties
<1>2. s \in Injection(1..Len(s), Hash)
  BY <1>1, Fun_IsInj DEF Distinct
<1>3. Cardinality(1..Len(s)) <= Cardinality(Hash)
  BY <1>2, FS_Injection, MaxWalkAssumption
<1>4. Cardinality(1..Len(s)) = Len(s)
  BY <1>1, FS_Interval
<1>5. Cardinality(Hash) \in Nat
  BY FS_CardinalityType, MaxWalkAssumption
<1> QED BY <1>1, <1>3, <1>4, <1>5, MaxWalkAssumption, CommitWalkAssumption

(* One more commit.                                                         *)
LEMMA Appended ==
  ASSUME NEW s \in Seq(Hash), NEW h \in Hash
  PROVE  /\ Append(s, h) \in Seq(Hash) /\ Len(Append(s, h)) = Len(s) + 1 /\ Len(s) \in Nat
         /\ DOMAIN s = 1..Len(s) /\ DOMAIN Append(s, h) = 1..Len(s) + 1
         /\ Append(s, h)[Len(s) + 1] = h
         /\ \A i \in 1..Len(s) : Append(s, h)[i] = s[i] /\ s[i] \in Hash
         /\ Range(Append(s, h)) = Range(s) \cup {h}
<1> DEFINE t == Append(s, h)
<1>1. /\ t \in Seq(Hash) /\ Len(t) = Len(s) + 1 /\ t[Len(s) + 1] = h
      /\ \A i \in 1..Len(s) : t[i] = s[i] /\ s[i] \in Hash
  BY AppendProperties, ElementOfSeq
<1>2. Len(s) \in Nat /\ DOMAIN s = 1..Len(s) /\ DOMAIN t = 1..Len(s) + 1
  BY <1>1, LenProperties
<1> HIDE DEF t
<1>3. Range(t) = Range(s) \cup {h}
  BY <1>1, <1>2 DEF Range
<1> QED BY <1>1, <1>2, <1>3 DEF t

(* Counting from 1.                                                         *)
LEMMA Counting ==
  ASSUME NEW n \in Nat
  PROVE  IsFiniteSet(1..n) /\ Cardinality(1..n) = n
<1>1. 1 \in Int /\ n \in Int
  OBVIOUS
<1>2. IsFiniteSet(1..n) /\ Cardinality(1..n) = IF 1 > n THEN 0 ELSE n - 1 + 1
  BY <1>1, FS_Interval
<1> QED BY <1>2

(* A place in a sequence.                                                   *)
LEMMA LastOrBefore ==
  ASSUME NEW n \in Nat, NEW i \in 1..n
  PROVE  i < n \/ i = n
OBVIOUS

(* The first parent, if any.                                                *)
LEMMA FirstTypes ==
  ASSUME NEW p \in Seq(Hash)
  PROVE  /\ First(p) \subseteq Hash
         /\ First(p) = {} <=> p = << >>
         /\ \A h : First(p) = {h} => p # << >> /\ p[1] = h
         /\ \A g, h \in First(p) : g = h
BY EmptySeq, LenProperties, ElementOfSeq DEF First

-----------------------------------------------------------------------------
WalkType ==
  /\ graph \in [Hash -> Object] /\ from \in Hash /\ op \in Ops
  /\ pc \in {"walk", "ok", "err"}
  /\ next \subseteq Hash /\ \A g, h \in next : g = h
  /\ walked \in Seq(Hash) /\ Len(walked) <= MaxWalk

(* The parents of a commit.                                                 *)
LEMMA GraphTypes ==
  ASSUME WalkType, NEW h \in Hash
  PROVE  graph[h] \in Object /\ graph[h].parents \in Seq(Hash) /\ graph[h].signed \in BOOLEAN
         /\ graph[h].author \in Nat /\ graph[h].committer \in Nat
BY CommitWalkAssumption DEF WalkType, Object

(* A record is never longer than the bound: MaxWalk counts every commit.     *)
LEMMA RecordTypes ==
  ASSUME WalkType, NEW h \in Hash
  PROVE  Record(h) \in Seq(Hash) /\ Len(Record(h)) <= MaxWalk
BY Appended, CommitWalkAssumption DEF WalkType, Record

(* The same types, the commit still to be read said to be at most one.       *)
LEMMA WalkTypes == Spec => []WalkType
<1>1. Init => WalkType
  BY CommitWalkAssumption, EmptySeq DEF Init, WalkType
<1>2. WalkType /\ [Next]_vars => WalkType'
  <2> SUFFICES ASSUME WalkType, [Next]_vars PROVE WalkType'
    OBVIOUS
  <2>1. CASE UNCHANGED vars
    BY <2>1 DEF vars, WalkType
  <2>2. CASE TakeCommit /\ UNCHANGED <<graph, from, op>>
    <3>1. PICK h \in next : walked' = Record(h) /\ next' = First(graph[h].parents)
      BY <2>2 DEF TakeCommit
    <3>2. h \in Hash /\ graph[h].parents \in Seq(Hash)
      BY GraphTypes DEF WalkType
    <3>3. walked' \in Seq(Hash) /\ Len(walked') <= MaxWalk
      BY <3>1, <3>2, RecordTypes
    <3>4. next' \subseteq Hash /\ \A f, g \in next' : f = g
      BY <3>1, <3>2, FirstTypes
    <3> QED BY <2>2, <3>3, <3>4 DEF TakeCommit, WalkType
  <2>3. CASE Fail /\ UNCHANGED <<graph, from, op>>
    BY <2>3 DEF Fail, TakeError, WalkType
  <2>4. CASE Conclude /\ UNCHANGED <<graph, from, op>>
    BY <2>4 DEF Conclude, WalkType
  <2> QED BY <2>1, <2>2, <2>3, <2>4 DEF Next, Terminated
<1> QED BY <1>1, <1>2, PTL DEF Spec

(* The record of a walk never exceeds MaxWalk, whatever the history.         *)
THEOREM TypeCorrect == Spec => []TypeOK
<1>1. WalkType => TypeOK
  <2> SUFFICES ASSUME WalkType PROVE next \in SUBSET Hash /\ Cardinality(next) <= 1
    BY DEF WalkType, TypeOK
  <2>1. CASE next = {}
    <3>1. Cardinality(next) = 0
      BY <2>1, FS_EmptySet
    <3> QED BY <3>1 DEF WalkType
  <2>2. CASE next # {}
    <3>1. PICK h \in next : next = {h}
      BY <2>2 DEF WalkType
    <3>2. Cardinality(next) = 1
      BY <3>1, FS_Singleton
    <3> QED BY <3>2 DEF WalkType
  <2> QED BY <2>1, <2>2
<1> QED BY <1>1, WalkTypes, PTL

-----------------------------------------------------------------------------
(* The walk goes straight on, each commit a new one, until damage closes the
   chain into a loop, which no answer ends.                                 *)
Straight ==
  /\ Distinct(walked)
  /\ walked # << >> => walked[1] = from
  /\ \A i \in 1..Len(walked) : graph[walked[i]].commit
  /\ \A i \in 1..Len(walked) - 1 : First(graph[walked[i]].parents) = {walked[i + 1]}
  /\ pc = "walk" => next = IF walked = << >> THEN {from} ELSE First(graph[walked[Len(walked)]].parents)
  /\ pc = "ok" => walked # << >> /\ First(graph[walked[Len(walked)]].parents) = {}

Looped ==
  /\ pc = "walk" /\ next # {} /\ next \subseteq Range(walked)
  /\ \A h \in Range(walked) :
       First(graph[h].parents) # {} /\ First(graph[h].parents) \subseteq Range(walked)

ChainInv ==
  /\ pc = "err" \/ Straight \/ Looped
  /\ pc = "ok" => out = Answer(walked)

(* What is recorded of a commit that was not met before, or was.            *)
LEMMA NewRecorded ==
  ASSUME WalkType, NEW h \in Hash, h \notin Range(walked), Distinct(walked)
  PROVE  Record(h) = Append(walked, h) /\ Distinct(Append(walked, h))
<1> DEFINE t == Append(walked, h)
<1>1. /\ t \in Seq(Hash) /\ Len(t) = Len(walked) + 1 /\ Len(walked) \in Nat
      /\ DOMAIN walked = 1..Len(walked) /\ DOMAIN t = 1..Len(walked) + 1 /\ t[Len(walked) + 1] = h
      /\ \A i \in 1..Len(walked) : t[i] = walked[i]
  BY Appended DEF WalkType
<1> HIDE DEF t
<1>2. \A i \in 1..Len(walked) : walked[i] # h
  BY <1>1 DEF Range
<1>3. ASSUME NEW i \in DOMAIN t, NEW j \in DOMAIN t, t[i] = t[j] PROVE i = j
  <2>1. CASE i \in 1..Len(walked) /\ j \in 1..Len(walked)
    BY <1>1, <1>3, <2>1 DEF Distinct
  <2>2. CASE i = Len(walked) + 1 \/ j = Len(walked) + 1
    BY <1>1, <1>2, <1>3, <2>2
  <2> QED BY <1>1, <2>1, <2>2
<1>4. Distinct(t)
  BY <1>3 DEF Distinct
<1>5. Len(t) <= MaxWalk
  BY <1>1, <1>4, DistinctIsShort
<1>6. Len(walked) < MaxWalk
  BY <1>1, <1>5, CommitWalkAssumption
<1> QED BY <1>4, <1>6 DEF Record, t

(* A commit recorded already adds nothing.                                   *)
LEMMA RecordRange ==
  ASSUME WalkType, NEW h \in Range(walked)
  PROVE  Range(Record(h)) = Range(walked)
<1>1. h \in Hash
  BY RangeEquality, ElementOfSeq DEF WalkType
<1>2. walked \in Seq(Hash)
  BY DEF WalkType
<1>3. Range(Append(walked, h)) = Range(walked) \cup {h}
  BY <1>1, <1>2, Appended
<1>4. Record(h) = walked \/ Record(h) = Append(walked, h)
  BY DEF Record
<1> QED BY <1>3, <1>4

(* A commit is taken: one that was not met before goes on the chain; one that
   was has closed it.                                                       *)
LEMMA TakeCommitKeeps ==
  ASSUME WalkType, ChainInv, TakeCommit, UNCHANGED <<graph, from, op>>
  PROVE  ChainInv'
<1>1. PICK h \in next : graph[h].commit /\ walked' = Record(h) /\ next' = First(graph[h].parents)
  BY DEF TakeCommit
<1>2. /\ pc = "walk" /\ pc' = "walk" /\ UNCHANGED <<out, graph, from, op>> /\ next = {h} /\ h \in Hash
      /\ walked \in Seq(Hash) /\ graph[h].parents \in Seq(Hash)
  BY GraphTypes DEF TakeCommit, WalkType
<1>3. Len(walked) \in Nat /\ DOMAIN walked = 1..Len(walked) /\ \A i \in 1..Len(walked) : walked[i] \in Hash
  BY <1>2, LenProperties, ElementOfSeq
<1>4. CASE h \notin Range(walked)
  <2>1. Straight
    BY <1>2, <1>4 DEF ChainInv, Looped
  <2>2. walked' = Append(walked, h) /\ Distinct(walked')
    BY <1>1, <1>2, <1>4, <2>1, NewRecorded DEF Straight
  <2>3. /\ Len(walked') = Len(walked) + 1 /\ walked'[Len(walked) + 1] = h /\ walked' # << >>
        /\ \A i \in 1..Len(walked) : walked'[i] = walked[i]
    BY <1>2, <2>2, Appended
  <2>4. walked'[1] = from
    <3>1. CASE walked = << >>
      BY <1>2, <2>1, <2>3, <3>1 DEF Straight
    <3>2. CASE walked # << >>
      <4>1. 1 \in 1..Len(walked)
        BY <1>2, <1>3, <3>2, EmptySeq
      <4> QED BY <2>1, <2>3, <3>2, <4>1 DEF Straight
    <3> QED BY <3>1, <3>2
  <2>5. \A i \in 1..Len(walked') : graph[walked'[i]].commit
    BY <1>1, <1>3, <2>1, <2>3 DEF Straight
  <2>6. ASSUME NEW i \in 1..Len(walked') - 1 PROVE First(graph[walked'[i]].parents) = {walked'[i + 1]}
    <3>1. i \in 1..Len(walked) /\ walked'[i] = walked[i]
      BY <1>3, <2>3
    <3>2. CASE i < Len(walked)
      <4>1. i \in 1..Len(walked) - 1 /\ i + 1 \in 1..Len(walked)
        BY <1>3, <3>1, <3>2
      <4> QED BY <2>1, <2>3, <3>1, <4>1 DEF Straight
    <3>3. CASE i = Len(walked)
      <4>1. next = First(graph[walked[i]].parents)
        BY <1>2, <1>3, <2>1, <3>1, <3>3 DEF Straight
      <4> QED BY <1>2, <2>3, <3>1, <3>3, <4>1
    <3> QED BY <1>3, <3>1, <3>2, <3>3
  <2>7. Straight'
    BY <1>1, <1>2, <1>3, <2>2, <2>3, <2>4, <2>5, <2>6 DEF Straight
  <2> QED BY <1>2, <2>7 DEF ChainInv
<1>5. CASE h \in Range(walked)
  <2>1. walked' = walked \/ walked' = Append(walked, h)
    BY <1>1 DEF Record
  <2>2. Range(walked') = Range(walked)
    BY <1>1, <1>5, RecordRange
  <2>3. \A g \in Range(walked) : First(graph[g].parents) # {} /\ First(graph[g].parents) \subseteq Range(walked)
    <3>1. CASE Straight
      <4>1. walked # << >>
        BY <1>3, <1>5, EmptySeq DEF Range
      <4>2. ASSUME NEW i \in 1..Len(walked)
            PROVE  First(graph[walked[i]].parents) # {} /\ First(graph[walked[i]].parents) \subseteq Range(walked)
        <5>1. CASE i < Len(walked)
          <6>1. i \in 1..Len(walked) - 1 /\ i + 1 \in DOMAIN walked
            BY <1>3, <5>1
          <6>2. First(graph[walked[i]].parents) = {walked[i + 1]}
            BY <3>1, <6>1 DEF Straight
          <6>3. walked[i + 1] \in Range(walked)
            BY <6>1 DEF Range
          <6> QED BY <6>2, <6>3
        <5>2. CASE i = Len(walked)
          <6>1. First(graph[walked[i]].parents) = {h}
            BY <1>2, <3>1, <4>1, <5>2 DEF Straight
          <6> QED BY <1>5, <6>1
        <5> QED BY <1>3, <5>1, <5>2, LastOrBefore, Zenon
      <4> QED BY <1>3, <4>2 DEF Range
    <3>2. CASE Looped
      BY <3>2 DEF Looped
    <3> QED BY <1>2, <3>1, <3>2 DEF ChainInv
  <2>4. Looped'
    BY <1>1, <1>2, <1>5, <2>2, <2>3 DEF Looped
  <2> QED BY <1>2, <2>4 DEF ChainInv
<1> QED BY <1>4, <1>5

(* What an audit answers is its reading of the whole chain.                 *)
LEMMA ChainInvariant == Spec => [](WalkType /\ ChainInv)
<1>1. Init => ChainInv
  BY DEF Init, ChainInv, Straight, Distinct
<1>2. WalkType /\ ChainInv /\ [Next]_vars => ChainInv'
  <2> SUFFICES ASSUME WalkType, ChainInv, [Next]_vars PROVE ChainInv'
    OBVIOUS
  <2>1. CASE UNCHANGED vars
    BY <2>1 DEF vars, ChainInv, Straight, Looped, Answer, TimeAnomalies, SignatureAnomalies, SignedCount, Timeline, Events
  <2>2. CASE TakeCommit /\ UNCHANGED <<graph, from, op>>
    BY <2>2, TakeCommitKeeps
  <2>3. CASE Fail /\ UNCHANGED <<graph, from, op>>
    BY <2>3 DEF Fail, TakeError, ChainInv
  <2>4. CASE Conclude /\ UNCHANGED <<graph, from, op>>
    <3>1. Straight /\ walked # << >>
      BY <2>4 DEF Conclude, ChainInv, Straight, Looped
    <3>2. Straight'
      BY <2>4, <3>1 DEF Conclude, Straight
    <3>3. out' = Answer(walked)'
      BY <2>4 DEF Conclude, Answer, TimeAnomalies, SignatureAnomalies, SignedCount, Timeline, Events
    <3> QED BY <3>2, <3>3 DEF ChainInv
  <2> QED BY <2>1, <2>2, <2>3, <2>4 DEF Next, Terminated
<1> QED BY <1>1, <1>2, WalkTypes, PTL DEF Spec

(* In every history, an audit that answers has read the first-parent chain
   from the start to a commit without parents, each commit once.            *)
THEOREM ChainIsWhole == Spec => []WholeChain
<1>1. WalkType /\ ChainInv => WholeChain
  <2> SUFFICES ASSUME WalkType, ChainInv, pc = "ok" PROVE WholeChain
    BY DEF WholeChain
  <2>1. Straight /\ walked # << >>
    BY DEF ChainInv, Straight, Looped
  <2>2. Len(walked) \in Nat /\ DOMAIN walked = 1..Len(walked) /\ \A i \in 1..Len(walked) : walked[i] \in Hash
    BY LenProperties, ElementOfSeq DEF WalkType
  <2>3. ASSUME NEW i \in 1..Len(walked)
        PROVE  IF i < Len(walked) THEN walked[i + 1] = graph[walked[i]].parents[1]
               ELSE graph[walked[i]].parents = << >>
    <3>1. graph[walked[i]].parents \in Seq(Hash)
      BY <2>2, GraphTypes
    <3>2. CASE i < Len(walked)
      <4>1. i \in 1..Len(walked) - 1
        BY <2>2, <3>2
      <4>2. First(graph[walked[i]].parents) = {walked[i + 1]}
        BY <2>1, <4>1 DEF Straight
      <4>3. graph[walked[i]].parents[1] = walked[i + 1]
        BY <3>1, <4>2, FirstTypes
      <4> QED BY <3>2, <4>3
    <3>3. CASE i = Len(walked)
      <4>1. First(graph[walked[i]].parents) = {}
        BY <2>1, <3>3 DEF Straight
      <4>2. graph[walked[i]].parents = << >>
        BY <3>1, <4>1, FirstTypes
      <4> QED BY <2>2, <3>3, <4>2
    <3>4. i < Len(walked) \/ i = Len(walked)
      BY <2>2, LastOrBefore, Zenon
    <3> QED BY <3>2, <3>3, <3>4, Zenon
  <2> QED BY <2>1, <2>3 DEF WholeChain, Straight, Distinct
<1> QED BY <1>1, ChainInvariant, PTL

-----------------------------------------------------------------------------
(* The audits' answers.                                                     *)

(* Where no commit is met twice, the unsigned commits and the signed places
   make up the chain.                                                       *)
LEMMA SignedAndUnsigned ==
  ASSUME WalkType, Distinct(walked)
  PROVE  LET unsigned == {h \in Range(walked) : ~graph[h].signed} IN
           /\ Cardinality(unsigned) \in Nat /\ SignedCount(walked) \in Nat /\ Len(walked) \in Nat
           /\ Cardinality(unsigned) + SignedCount(walked) = Len(walked)
<1> DEFINE D == DOMAIN walked
           S == {i \in D : graph[walked[i]].signed}
           U == {h \in Range(walked) : ~graph[h].signed}
           f == [i \in D \ S |-> walked[i]]
<1>1. Len(walked) \in Nat /\ D = 1..Len(walked)
  BY LenProperties DEF WalkType
<1>2. IsFiniteSet(D) /\ Cardinality(D) = Len(walked)
  BY <1>1, Counting
<1>3. IsFiniteSet(S) /\ IsFiniteSet(D \ S) /\ Cardinality(D \ S) = Cardinality(D) - Cardinality(S)
  <2>1. S \subseteq D /\ D \cap S = S
    OBVIOUS
  <2> HIDE DEF S, D
  <2>2. IsFiniteSet(S)
    BY <1>2, <2>1, FS_Subset
  <2>3. IsFiniteSet(D \ S) /\ Cardinality(D \ S) = Cardinality(D) - Cardinality(D \cap S)
    BY <1>2, FS_Difference
  <2> QED BY <2>1, <2>2, <2>3
<1>4. f \in Bijection(D \ S, U)
  <2>1. f \in [D \ S -> U]
    <3>1. ASSUME NEW i \in D \ S PROVE walked[i] \in U
      BY DEF Range
    <3> HIDE DEF U
    <3> QED BY <3>1
  <2>2. \A i, j \in D \ S : f[i] = f[j] => i = j
    BY DEF Distinct
  <2>3. \A u \in U : \E i \in D \ S : f[i] = u
    BY DEF Range
  <2> HIDE DEF f, U
  <2> QED BY <2>1, <2>2, <2>3, Fun_IsBij
<1>5. Cardinality(U) = Cardinality(D \ S)
  <2> HIDE DEF f, U, S, D
  <2>1. ExistsBijection(D \ S, U)
    BY <1>4, Fun_ExistsBij
  <2> QED BY <1>3, <2>1, FS_Bijection
<1>6. Cardinality(S) \in Nat /\ Cardinality(D \ S) \in Nat
  BY <1>3, FS_CardinalityType
<1>7. SignedCount(walked) = Cardinality(S)
  BY DEF SignedCount
<1> QED BY <1>1, <1>2, <1>3, <1>5, <1>6, <1>7

(* In every history, audit_signatures_repo flags the unsigned commits when
   they are fewer than half of the chain, all of them, and else none.       *)
THEOREM MinorityIsFlagged == Spec => []MinorityFlagged
<1>1. WalkType /\ ChainInv => MinorityFlagged
  <2> SUFFICES ASSUME WalkType, ChainInv, pc = "ok", op = "audit_signatures_repo" PROVE MinorityFlagged
    BY DEF MinorityFlagged
  <2> DEFINE unsigned == {h \in Range(walked) : ~graph[h].signed}
  <2>1. Distinct(walked) /\ out = Answer(walked)
    BY DEF ChainInv, Straight, Looped
  <2>2. out.flagged = IF Majority(SignedCount(walked), Len(walked)) THEN unsigned ELSE {}
    BY <2>1 DEF Answer, Nothing, SignatureAnomalies
  <2>3. Majority(SignedCount(walked), Len(walked)) <=> 2 * Cardinality(unsigned) < Len(walked)
    <3> DEFINE s == SignedCount(walked)
               u == Cardinality(unsigned)
               n == Len(walked)
    <3>1. u \in Nat /\ s \in Nat /\ n \in Nat /\ u + s = n
      BY <2>1, SignedAndUnsigned
    <3>2. Majority(s, n) <=> s > 0 /\ s * 2 > n
      BY DEF Majority
    <3> HIDE DEF s, u, n
    <3>3. Majority(s, n) <=> 2 * u < n
      BY <3>1, <3>2
    <3> QED BY <3>3 DEF s, u, n
  <2> QED BY <2>2, <2>3 DEF MinorityFlagged
<1> QED BY <1>1, ChainInvariant, PTL

-----------------------------------------------------------------------------
(* The stable sort of the timeline, for any number of events.               *)
Timed(e, n) == DOMAIN e = 1..n /\ \A k \in 1..n : e[k].time \in Nat /\ e[k].role \in Nat

(* Event j does not come after event k: a total order of the places.        *)
Comes(e, j, k) == Before(e[j], e[k]) \/ (j <= k /\ ~Before(e[k], e[j]))

(* It is one, whatever the times and the roles.                              *)
LEMMA ComesIsTotal ==
  ASSUME NEW n \in Nat, NEW e, Timed(e, n), NEW i \in 1..n, NEW j \in 1..n, NEW k \in 1..n
  PROVE  /\ Comes(e, j, j) /\ (Comes(e, j, k) \/ Comes(e, k, j))
         /\ Comes(e, j, k) /\ Comes(e, k, j) => j = k
         /\ Comes(e, i, j) /\ Comes(e, j, k) => Comes(e, i, k)
BY DEF Timed, Comes, Before

(* Its place counts the events that come before: each place is taken, once. *)
LEMMA Places ==
  ASSUME NEW n \in Nat, NEW e, Timed(e, n)
  PROVE  /\ \A k \in 1..n : Place(e, k) \in 1..n
         /\ \A j, k \in 1..n : j # k => (Place(e, j) < Place(e, k) <=> Comes(e, j, k))
         /\ \A p \in 1..n : \E k \in 1..n : Place(e, k) = p
<1> DEFINE D(k) == {j \in 1..n : Comes(e, j, k)}
<1>1. \A k \in 1..n : Place(e, k) = Cardinality(D(k))
  BY DEF Place, Comes, Timed
<1>2. IsFiniteSet(1..n) /\ Cardinality(1..n) = n
  BY Counting
<1>3. ASSUME NEW k \in 1..n PROVE IsFiniteSet(D(k)) /\ Cardinality(D(k)) \in 1..n
  <2>1. D(k) \in SUBSET (1..n) /\ k \in D(k)
    BY ComesIsTotal
  <2> HIDE DEF D
  <2>2. IsFiniteSet(D(k)) /\ Cardinality(D(k)) <= n
    BY <1>2, <2>1, FS_Subset
  <2>3. Cardinality(D(k)) \in Nat /\ Cardinality(D(k)) # 0
    BY <2>1, <2>2, FS_CardinalityType, FS_EmptySet
  <2> QED BY <2>2, <2>3
<1>4. ASSUME NEW j \in 1..n, NEW k \in 1..n, j # k, Comes(e, j, k) PROVE Place(e, j) < Place(e, k)
  <2>1. D(j) \in SUBSET D(k) /\ k \in D(k) /\ k \notin D(j)
    BY <1>4, ComesIsTotal
  <2> HIDE DEF D
  <2>2. Cardinality(D(j)) <= Cardinality(D(k)) /\ Cardinality(D(j)) # Cardinality(D(k))
    BY <1>3, <2>1, FS_Subset
  <2>3. Cardinality(D(j)) \in Nat /\ Cardinality(D(k)) \in Nat
    BY <1>3
  <2> QED BY <1>1, <2>2, <2>3
<1>5. \A k \in 1..n : Place(e, k) \in 1..n
  BY <1>1, <1>3
<1>6. \A j, k \in 1..n : j # k => (Place(e, j) < Place(e, k) <=> Comes(e, j, k))
  <2> SUFFICES ASSUME NEW j \in 1..n, NEW k \in 1..n, j # k, ~Comes(e, j, k) PROVE ~(Place(e, j) < Place(e, k))
    BY <1>4
  <2>1. Place(e, k) < Place(e, j)
    BY <1>4, ComesIsTotal
  <2> QED BY <1>5, <2>1
<1>7. \A p \in 1..n : \E k \in 1..n : Place(e, k) = p
  <2> DEFINE f == [k \in 1..n |-> Place(e, k)]
  <2>1. f \in [1..n -> 1..n]
    BY <1>5
  <2>2. \A j, k \in 1..n : f[j] = f[k] => j = k
    <3> SUFFICES ASSUME NEW j \in 1..n, NEW k \in 1..n, Place(e, j) = Place(e, k), j # k PROVE FALSE
      OBVIOUS
    <3>1. Place(e, j) < Place(e, k) \/ Place(e, k) < Place(e, j)
      BY <1>4, ComesIsTotal
    <3> QED BY <1>5, <3>1
  <2>3. f \in Surjection(1..n, 1..n)
    <3> HIDE DEF f
    <3>1. f \in Injection(1..n, 1..n)
      BY <2>1, <2>2, Fun_IsInj
    <3> QED BY <1>2, <3>1, FS_Injection
  <2>4. \A p \in 1..n : \E k \in 1..n : f[k] = p
    <3> HIDE DEF f
    <3> QED BY <2>3, Fun_SurjectionProperties
  <2> QED BY <2>4
<1> QED BY <1>5, <1>6, <1>7

(* The sorted list has each event at its place.                             *)
LEMMA Sorted ==
  ASSUME NEW n \in Nat, NEW e, Timed(e, n)
  PROVE  /\ DOMAIN StableSort(e) = 1..n
         /\ \A k \in 1..n : StableSort(e)[Place(e, k)] = e[k]
<1>1. DOMAIN StableSort(e) = 1..n
  BY DEF StableSort, Timed
<1>2. ASSUME NEW k \in 1..n PROVE StableSort(e)[Place(e, k)] = e[k]
  <2> DEFINE p == Place(e, k)
             c == CHOOSE j \in DOMAIN e : Place(e, j) = p
  <2>1. p \in 1..n
    BY Places
  <2>2. c \in 1..n /\ Place(e, c) = p
    BY DEF Timed
  <2>3. c = k
    <3> HIDE DEF c
    <3>1. c # k => Place(e, c) < Place(e, k) \/ Place(e, k) < Place(e, c)
      BY <2>2, Places, ComesIsTotal
    <3> QED BY <2>1, <2>2, <3>1
  <2>4. StableSort(e)[p] = e[c]
    BY <2>1 DEF StableSort, Timed
  <2> QED BY <2>3, <2>4
<1> QED BY <1>1, <1>2

(* The two events of a commit.                                              *)
AuthorEvent(h) == [commit |-> h, role |-> 0, time |-> graph[h].author]
CommitterEvent(h) == [commit |-> h, role |-> 1, time |-> graph[h].committer]

(* Halves of numbers.                                                       *)
LEMMA Halves ==
  ASSUME NEW m \in Nat
  PROVE  /\ \A i \in 1..m : /\ 2 * i - 1 \in 1..2 * m /\ 2 * i \in 1..2 * m
                           /\ (2 * i - 1 + 1) \div 2 = i /\ (2 * i - 1) % 2 = 1
                           /\ (2 * i + 1) \div 2 = i /\ (2 * i) % 2 = 0
         /\ \A k \in 1..2 * m : \E i \in 1..m : k = 2 * i - 1 \/ k = 2 * i
<1>1. ASSUME NEW k \in 1..2 * m PROVE \E i \in 1..m : k = 2 * i - 1 \/ k = 2 * i
  <2>1. (k + 1) \div 2 \in 1..m /\ (k = 2 * ((k + 1) \div 2) - 1 \/ k = 2 * ((k + 1) \div 2))
    OBVIOUS
  <2> QED BY <2>1
<1> QED BY <1>1

(* The events of the walk, two for each commit, in its order.                *)
LEMMA EventsPaired ==
  ASSUME WalkType
  PROVE  LET e == Events(walked)
             m == Len(walked)
         IN  /\ m \in Nat /\ Timed(e, 2 * m)
             /\ \A i \in 1..m : /\ walked[i] \in Hash
                               /\ e[2 * i - 1] = AuthorEvent(walked[i])
                               /\ e[2 * i] = CommitterEvent(walked[i])
<1> DEFINE e == Events(walked)
           m == Len(walked)
<1>1. m \in Nat /\ DOMAIN walked = 1..m /\ \A i \in 1..m : walked[i] \in Hash
  BY LenProperties, ElementOfSeq DEF WalkType
<1>2. DOMAIN e = 1..2 * m
  BY DEF Events
<1>3. ASSUME NEW i \in 1..m
      PROVE  e[2 * i - 1] = AuthorEvent(walked[i]) /\ e[2 * i] = CommitterEvent(walked[i])
  <2>1. /\ 2 * i - 1 \in 1..2 * m /\ 2 * i \in 1..2 * m
        /\ (2 * i - 1 + 1) \div 2 = i /\ (2 * i - 1) % 2 = 1
        /\ (2 * i + 1) \div 2 = i /\ (2 * i) % 2 = 0
    BY <1>1, Halves
  <2>2. \A k \in 1..2 * m :
          /\ k % 2 = 1 => e[k] = AuthorEvent(walked[(k + 1) \div 2])
          /\ k % 2 = 0 => e[k] = CommitterEvent(walked[(k + 1) \div 2])
    BY DEF Events, AuthorEvent, CommitterEvent
  <2> HIDE DEF e, m
  <2> QED BY <2>1, <2>2
<1>4. ASSUME NEW k \in 1..2 * m PROVE e[k].time \in Nat /\ e[k].role \in Nat
  <2>1. PICK i \in 1..m : k = 2 * i - 1 \/ k = 2 * i
    BY <1>1, Halves
  <2>2. e[k] = AuthorEvent(walked[i]) \/ e[k] = CommitterEvent(walked[i])
    BY <1>3, <2>1
  <2>3. graph[walked[i]].author \in Nat /\ graph[walked[i]].committer \in Nat
    BY <1>1, GraphTypes
  <2> QED BY <2>2, <2>3 DEF AuthorEvent, CommitterEvent
<1> QED BY <1>1, <1>2, <1>3, <1>4 DEF Timed

(* What is in the timeline, and in which order.                             *)
LEMMA TimelineOrder ==
  ASSUME WalkType
  PROVE  LET line == Timeline(walked)
             e == Events(walked)
             m == Len(walked)
         IN  /\ m \in Nat /\ DOMAIN line = 1..2 * m
             /\ \A k \in 1..2 * m : Place(e, k) \in 1..2 * m /\ line[Place(e, k)] = e[k]
             /\ \A p \in 1..2 * m : \E k \in 1..2 * m : Place(e, k) = p /\ line[p] = e[k]
             /\ \A j, k \in 1..2 * m : Place(e, j) < Place(e, k) => Comes(e, j, k) /\ j # k
             /\ \A j, k \in 1..2 * m : Comes(e, j, k) /\ j # k => Place(e, j) < Place(e, k)
<1> DEFINE e == Events(walked)
           n == 2 * Len(walked)
<1>1. Len(walked) \in Nat /\ n \in Nat /\ Timed(e, n)
  BY EventsPaired
<1>2. \A k \in 1..n : Place(e, k) \in 1..n /\ Timeline(walked)[Place(e, k)] = e[k]
  <2> HIDE DEF n, e
  <2> QED BY <1>1, Places, Sorted DEF Timeline, e
<1>3. \A p \in 1..n : \E k \in 1..n : Place(e, k) = p
  <2> HIDE DEF n, e
  <2> QED BY <1>1, Places
<1>4. /\ \A j, k \in 1..n : j # k => (Place(e, j) < Place(e, k) <=> Comes(e, j, k))
      /\ DOMAIN Timeline(walked) = 1..n
  <2> HIDE DEF n, e
  <2> QED BY <1>1, Places, Sorted DEF Timeline, e
<1>5. ASSUME NEW j \in 1..n, NEW k \in 1..n, Place(e, j) < Place(e, k) PROVE Comes(e, j, k) /\ j # k
  <2>1. Place(e, j) \in 1..n
    BY <1>2
  <2>2. j # k
    <3> HIDE DEF n, e
    <3> QED BY <1>1, <1>5, <2>1
  <2> QED BY <1>4, <1>5, <2>2
<1> HIDE DEF n, e
<1>6. \A p \in 1..n : \E k \in 1..n : Place(e, k) = p /\ Timeline(walked)[p] = e[k]
  BY <1>2, <1>3
<1>7. \A j, k \in 1..n : Comes(e, j, k) /\ j # k => Place(e, j) < Place(e, k)
  BY <1>4
<1> QED BY <1>1, <1>2, <1>4, <1>5, <1>6, <1>7 DEF n, e

(* Each line of the timeline is the event of a place in the walk.           *)
LEMMA LinesAreEvents ==
  ASSUME WalkType, NEW p \in 1..2 * Len(walked)
  PROVE  \E i \in 1..Len(walked), k \in 1..2 * Len(walked) :
           /\ Place(Events(walked), k) = p /\ Timeline(walked)[p] = Events(walked)[k] /\ walked[i] \in Hash
           /\ \/ k = 2 * i - 1 /\ Timeline(walked)[p] = AuthorEvent(walked[i])
              \/ k = 2 * i /\ Timeline(walked)[p] = CommitterEvent(walked[i])
<1>1. Len(walked) \in Nat
  BY EventsPaired
<1>2. PICK k \in 1..2 * Len(walked) :
        Place(Events(walked), k) = p /\ Timeline(walked)[p] = Events(walked)[k]
  BY TimelineOrder
<1>3. PICK i \in 1..Len(walked) : k = 2 * i - 1 \/ k = 2 * i
  BY <1>1, Halves
<1>4. /\ walked[i] \in Hash /\ Events(walked)[2 * i - 1] = AuthorEvent(walked[i])
      /\ Events(walked)[2 * i] = CommitterEvent(walked[i])
  BY EventsPaired
<1> QED BY <1>2, <1>3, <1>4

(* A line that precedes another has its event come first.                   *)
LEMMA EarlierLines ==
  ASSUME WalkType, NEW p \in 1..2 * Len(walked), NEW q \in 1..2 * Len(walked), p < q
  PROVE  LET a == Timeline(walked)[p]
             b == Timeline(walked)[q]
         IN  /\ a.time < b.time \/ (a.time = b.time /\ a.role <= b.role)
             /\ a.time = b.time /\ a.role = b.role =>
                  \E i, j \in 1..Len(walked) : i < j /\ walked[i] = a.commit /\ walked[j] = b.commit
<1> DEFINE e == Events(walked)
           a == Timeline(walked)[p]
           b == Timeline(walked)[q]
<1>1. PICK i \in 1..Len(walked), k \in 1..2 * Len(walked) :
        /\ Place(e, k) = p /\ a = e[k] /\ walked[i] \in Hash
        /\ \/ k = 2 * i - 1 /\ a = AuthorEvent(walked[i])
           \/ k = 2 * i /\ a = CommitterEvent(walked[i])
  BY LinesAreEvents
<1>2. PICK j \in 1..Len(walked), l \in 1..2 * Len(walked) :
        /\ Place(e, l) = q /\ b = e[l] /\ walked[j] \in Hash
        /\ \/ l = 2 * j - 1 /\ b = AuthorEvent(walked[j])
           \/ l = 2 * j /\ b = CommitterEvent(walked[j])
  BY LinesAreEvents
<1>3. Comes(e, k, l) /\ k # l
  BY <1>1, <1>2, TimelineOrder
<1>4. a.time \in Nat /\ a.role \in {0, 1} /\ a.commit = walked[i] /\ (k = IF a.role = 0 THEN 2 * i - 1 ELSE 2 * i)
  BY <1>1, GraphTypes DEF AuthorEvent, CommitterEvent
<1>5. b.time \in Nat /\ b.role \in {0, 1} /\ b.commit = walked[j] /\ (l = IF b.role = 0 THEN 2 * j - 1 ELSE 2 * j)
  BY <1>2, GraphTypes DEF AuthorEvent, CommitterEvent
<1>6. Before(a, b) \/ (k <= l /\ ~Before(b, a))
  BY <1>1, <1>2, <1>3 DEF Comes
<1> HIDE DEF a, b, e
<1>7. a.time < b.time \/ (a.time = b.time /\ a.role <= b.role)
  BY <1>4, <1>5, <1>6 DEF Before
<1>8. ASSUME a.time = b.time, a.role = b.role PROVE i < j
  <2>1. k <= l
    BY <1>4, <1>5, <1>6, <1>8 DEF Before
  <2>2. i \in Nat /\ j \in Nat
    OBVIOUS
  <2> QED BY <1>3, <1>4, <1>5, <1>8, <2>1, <2>2
<1> QED BY <1>4, <1>5, <1>7, <1>8 DEF a, b

(* The committer's event comes first exactly for a time inversion.          *)
LEMMA InversionsShow ==
  ASSUME WalkType, NEW h \in Range(walked)
  PROVE  Inverted(graph[h]) <=>
           \E p, q \in 1..2 * Len(walked) :
             /\ p < q
             /\ Timeline(walked)[p].commit = h /\ Timeline(walked)[p].role = 1
             /\ Timeline(walked)[q].commit = h /\ Timeline(walked)[q].role = 0
<1> DEFINE e == Events(walked)
           n == 2 * Len(walked)
           line == Timeline(walked)
<1>1. h \in Hash /\ graph[h].author \in Nat /\ graph[h].committer \in Nat
  BY RangeEquality, ElementOfSeq, GraphTypes DEF WalkType
<1>2. Len(walked) \in Nat
  BY EventsPaired
<1>3. ASSUME NEW p \in 1..n, line[p].commit = h
      PROVE  /\ line[p].role = 1 => line[p].time = graph[h].committer
             /\ line[p].role = 0 => line[p].time = graph[h].author
  <2>1. PICK i \in 1..Len(walked) : line[p] = AuthorEvent(walked[i]) \/ line[p] = CommitterEvent(walked[i])
    BY LinesAreEvents
  <2> HIDE DEF line
  <2> QED BY <1>3, <2>1 DEF AuthorEvent, CommitterEvent
<1>4. ASSUME NEW p \in 1..n, NEW q \in 1..n, p < q,
             line[p].commit = h, line[p].role = 1, line[q].commit = h, line[q].role = 0
      PROVE  Inverted(graph[h])
  <2>1. line[p].time < line[q].time \/ (line[p].time = line[q].time /\ line[p].role <= line[q].role)
    BY <1>4, EarlierLines
  <2>2. line[p].time = graph[h].committer /\ line[q].time = graph[h].author
    BY <1>3, <1>4
  <2> HIDE DEF line
  <2> QED BY <1>1, <1>4, <2>1, <2>2 DEF Inverted
<1>5. ASSUME Inverted(graph[h])
      PROVE  \E p, q \in 1..n : /\ p < q
                                /\ line[p].commit = h /\ line[p].role = 1
                                /\ line[q].commit = h /\ line[q].role = 0
  <2>1. PICK i \in 1..Len(walked) : walked[i] = h
    BY RangeEquality DEF WalkType
  <2>2. e[2 * i - 1] = AuthorEvent(h) /\ e[2 * i] = CommitterEvent(h)
    BY <2>1, EventsPaired
  <2>3. 2 * i - 1 \in 1..n /\ 2 * i \in 1..n /\ 2 * i - 1 # 2 * i
    BY <1>2, Halves
  <2>4. Comes(e, 2 * i, 2 * i - 1)
    BY <1>1, <1>5, <2>2 DEF Comes, Before, Inverted, AuthorEvent, CommitterEvent
  <2>5. Place(e, 2 * i) < Place(e, 2 * i - 1)
    BY <2>3, <2>4, TimelineOrder
  <2>6. /\ Place(e, 2 * i) \in 1..n /\ line[Place(e, 2 * i)] = CommitterEvent(h)
        /\ Place(e, 2 * i - 1) \in 1..n /\ line[Place(e, 2 * i - 1)] = AuthorEvent(h)
    BY <2>2, <2>3, TimelineOrder
  <2>7. CommitterEvent(h).commit = h /\ CommitterEvent(h).role = 1 /\ AuthorEvent(h).commit = h /\ AuthorEvent(h).role = 0
    BY DEF AuthorEvent, CommitterEvent
  <2> HIDE DEF line, e, n
  <2> QED BY <2>5, <2>6, <2>7
<1> QED BY <1>4, <1>5

(* Every commit has both of its events in the timeline, and no other has.   *)
LEMMA BothEventsShow ==
  ASSUME WalkType
  PROVE  /\ Len(Timeline(walked)) = 2 * Len(walked)
         /\ DOMAIN Timeline(walked) = 1..2 * Len(walked)
         /\ {<<e.commit, e.role>> : e \in Range(Timeline(walked))} = Range(walked) \X {0, 1}
<1> DEFINE line == Timeline(walked)
           n == 2 * Len(walked)
<1>1. Len(walked) \in Nat /\ n \in Nat /\ DOMAIN line = 1..n
  BY TimelineOrder
<1>2. Len(line) = n
  <2>1. line = [p \in 1..n |-> line[p]]
    BY <1>1 DEF Timeline, StableSort
  <2>2. \A p \in 1..n : line[p] \in {line[q] : q \in 1..n}
    OBVIOUS
  <2> HIDE DEF line, n
  <2> DEFINE S == {line[q] : q \in 1..n}
  <2>3. line \in [1..n -> S]
    BY <2>1, <2>2
  <2>4. line \in Seq(S)
    <3> HIDE DEF S
    <3> QED BY <1>1, <2>3, SeqDef
  <2>5. 1..n = 1..Len(line) /\ Len(line) \in Nat
    BY <1>1, <2>4, LenProperties
  <2>6. Cardinality(1..n) = n /\ Cardinality(1..Len(line)) = Len(line)
    BY <1>1, <2>5, Counting
  <2> QED BY <2>5, <2>6
<1>3. ASSUME NEW x \in {<<e.commit, e.role>> : e \in Range(line)} PROVE x \in Range(walked) \X {0, 1}
  <2>1. PICK p \in 1..n : x = <<line[p].commit, line[p].role>>
    BY <1>1 DEF Range
  <2>2. PICK i \in 1..Len(walked) : line[p] = AuthorEvent(walked[i]) \/ line[p] = CommitterEvent(walked[i])
    BY LinesAreEvents
  <2>3. walked[i] \in Range(walked)
    BY RangeEquality DEF WalkType
  <2>4. line[p].commit = walked[i] /\ line[p].role \in {0, 1}
    BY <2>2 DEF AuthorEvent, CommitterEvent
  <2> HIDE DEF line, n
  <2> QED BY <2>1, <2>3, <2>4
<1>4. ASSUME NEW h \in Range(walked), NEW r \in {0, 1} PROVE \E e \in Range(line) : e.commit = h /\ e.role = r
  <2>1. PICK i \in 1..Len(walked) : walked[i] = h
    BY RangeEquality DEF WalkType
  <2> DEFINE k == IF r = 0 THEN 2 * i - 1 ELSE 2 * i
             p == Place(Events(walked), k)
  <2>2. k \in 1..n
    BY <1>1, Halves
  <2>3. p \in 1..n /\ line[p] = Events(walked)[k]
    BY <2>2, TimelineOrder
  <2>4. Events(walked)[k] = IF r = 0 THEN AuthorEvent(h) ELSE CommitterEvent(h)
    BY <2>1, EventsPaired
  <2>5. line[p].commit = h /\ line[p].role = r
    BY <2>3, <2>4 DEF AuthorEvent, CommitterEvent
  <2>6. line[p] \in Range(line)
    BY <1>1, <2>3 DEF Range
  <2> HIDE DEF p, k, line
  <2> QED BY <2>5, <2>6
<1>5. ASSUME NEW x \in Range(walked) \X {0, 1} PROVE x \in {<<e.commit, e.role>> : e \in Range(line)}
  <2>1. x[1] \in Range(walked) /\ x[2] \in {0, 1} /\ x = <<x[1], x[2]>>
    OBVIOUS
  <2>2. PICK e \in Range(line) : e.commit = x[1] /\ e.role = x[2]
    BY <1>4, <2>1
  <2> HIDE DEF line
  <2> QED BY <2>1, <2>2
<1> QED BY <1>1, <1>2, <1>3, <1>5

(* In every history, attribution_repo's timeline holds both events of every
   commit of the chain once, by time, role and order of the walk, and shows
   the time inversions that audit_repo flags.                               *)
THEOREM TimelineIsFaithful == Spec => []TimelineFaithful
<1>1. WalkType /\ ChainInv => TimelineFaithful
  <2> SUFFICES ASSUME WalkType, ChainInv, pc = "ok", op = "attribution_repo" PROVE TimelineFaithful
    BY DEF TimelineFaithful
  <2> DEFINE line == Timeline(walked)
             n == 2 * Len(walked)
  <2>1. out.timeline = line
    BY DEF ChainInv, Answer, Nothing
  <2>2. /\ Len(line) = n /\ DOMAIN line = 1..n
        /\ {<<e.commit, e.role>> : e \in Range(line)} = Range(walked) \X {0, 1}
    BY BothEventsShow
  <2>3. \A p, q \in 1..n : p < q =>
          /\ line[p].time < line[q].time \/ (line[p].time = line[q].time /\ line[p].role <= line[q].role)
          /\ line[p].time = line[q].time /\ line[p].role = line[q].role =>
               \E i, j \in DOMAIN walked : i < j /\ walked[i] = line[p].commit /\ walked[j] = line[q].commit
    BY EarlierLines, LenProperties DEF WalkType
  <2>4. \A h \in Range(walked) :
          h \in TimeAnomalies(walked) <=>
            \E p, q \in 1..n : /\ p < q
                              /\ line[p].commit = h /\ line[p].role = 1
                              /\ line[q].commit = h /\ line[q].role = 0
    BY InversionsShow DEF TimeAnomalies
  <2> HIDE DEF line, n
  <2> QED BY <2>1, <2>2, <2>3, <2>4 DEF TimelineFaithful, n
<1> QED BY <1>1, ChainInvariant, PTL
=============================================================================
