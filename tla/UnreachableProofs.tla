--------------------------- MODULE UnreachableProofs ---------------------------
(***************************************************************************)
(* For every set of hashes, every store over it and every sequence of ref   *)
(* tips: the audit keeps its types and its work-list invariant, never       *)
(* expands an object twice, and implements its contract.                    *)
(***************************************************************************)
EXTENDS Unreachable, SequenceTheorems, TLAPS

(* The typed facts about the evidence that every other proof starts from.   *)
LEMMA StoreTypes ==
  ASSUME store \in Store
  PROVE  /\ \A h \in Hash : /\ store[h] \in Slot
                            /\ store[h].links \in Seq(Hash)
                            /\ store[h].kind \in Kind
                            /\ Pushed(h) \in Seq(Hash)
                            /\ ReportedKind(h) \in Kind \cup {"unknown"}
         /\ Present(store) \subseteq Hash
<1>1. \A h \in Hash : store[h] \in Slot
  BY SlotsAssumption DEF Store
<1>2. ASSUME NEW h \in Hash
      PROVE  /\ store[h].links \in Seq(Hash)
             /\ store[h].kind \in Kind
  BY <1>1 DEF Slot
<1>3. ASSUME NEW h \in Hash
      PROVE  /\ Pushed(h) \in Seq(Hash)
             /\ ReportedKind(h) \in Kind \cup {"unknown"}
  BY <1>2 DEF Pushed, ReportedKind
<1> QED
  BY <1>1, <1>2, <1>3 DEF Present

(* Popping a non-empty work-list removes its top and nothing else.          *)
LEMMA PopProperties ==
  ASSUME NEW S, NEW s \in Seq(S), s # << >>
  PROVE  /\ s[Len(s)] \in S
         /\ Pop(s) \in Seq(S)
         /\ Len(Pop(s)) = Len(s) - 1
         /\ Range(s) = Range(Pop(s)) \cup {s[Len(s)]}
<1> DEFINE n == Len(s)
           t == SubSeq(s, 1, n - 1)
<1>1. n \in Nat \ {0}
  BY EmptySeq
<1>2. \A i \in 1..n : s[i] \in S
  BY ElementOfSeq
<1>3. /\ t \in Seq(S)
      /\ Len(t) = n - 1
      /\ \A i \in 1..n-1 : t[i] = s[i]
  <2>1. /\ t \in Seq(S)
        /\ Len(t) = IF 1 <= n-1 THEN (n-1)-1+1 ELSE 0
        /\ \A i \in 1 .. (n-1)-1+1 : t[i] = s[1+i-1]
    <3> HIDE DEF n
    <3>1. \A i \in 1 .. n-1 : s[i] \in S
      BY <1>1, <1>2
    <3>2. n - 1 \in Int
      BY <1>1
    <3> QED
      BY <3>1, <3>2, SubSeqProperties
  <2> HIDE DEF t, n
  <2>2. Len(t) = n - 1
    BY <1>1, <2>1
  <2>3. ASSUME NEW i \in 1..n-1 PROVE t[i] = s[i]
    <3>1. i \in 1 .. (n-1)-1+1 /\ 1+i-1 = i
      BY <1>1
    <3> QED
      BY <2>1, <3>1
  <2> QED
    BY <2>1, <2>2, <2>3
<1>4. Range(s) = Range(t) \cup {s[n]}
  <2>1. /\ Range(s) = {s[i] : i \in 1..n}
        /\ Range(t) = {t[i] : i \in 1..n-1}
    BY <1>3, RangeEquality
  <2>2. {t[i] : i \in 1..n-1} = {s[i] : i \in 1..n-1}
    BY <1>3
  <2>3. {s[i] : i \in 1..n} = {s[i] : i \in 1..n-1} \cup {s[n]}
    BY <1>1
  <2> QED
    BY <2>1, <2>2, <2>3
<1> QED
  BY <1>1, <1>2, <1>3, <1>4 DEF Pop

(* The audit never gives a variable a value its Rust type does not allow.   *)
THEOREM TypeCorrect == Spec => []TypeOK
<1>1. Init => TypeOK
  BY EmptySeq DEF Init, TypeOK, Stopped
<1>2. TypeOK /\ [Next]_vars => TypeOK'
  <2> SUFFICES ASSUME TypeOK, [Next]_vars PROVE TypeOK'
    OBVIOUS
  <2>1. CASE ReadRoots
    BY <2>1, EmptySeq, TipsAssumption DEF ReadRoots, NextPhase, TypeOK, Stopped, evidence
  <2>2. CASE SkipSeen
    BY <2>2, PopProperties DEF SkipSeen, TypeOK, Stopped, evidence
  <2>3. CASE Visit
    <3>1. Top \in Hash /\ Pop(stack) \in Seq(Hash)
      BY <2>3, PopProperties DEF Visit, TypeOK, Top
    <3>2. Pop(stack) \o Pushed(Top) \in Seq(Hash)
      BY <3>1, StoreTypes, ConcatProperties DEF TypeOK
    <3> QED
      BY <2>3, <3>1, <3>2 DEF Visit, TypeOK, Stopped, evidence
  <2>4. CASE ListObjects
    BY <2>4, StoreTypes DEF ListObjects, NextPhase, TypeOK, Stopped, evidence
  <2>5. ASSUME NEW h \in Hash, Examine(h) PROVE TypeOK'
    BY <2>5, StoreTypes DEF Examine, TypeOK, Stopped, evidence
  <2>6. CASE Return
    BY <2>6 DEF Return, TypeOK, Stopped, evidence
  <2>7. CASE UNCHANGED vars
    BY <2>7 DEF vars, TypeOK
  <2> QED
    BY <2>1, <2>2, <2>3, <2>4, <2>5, <2>6, <2>7 DEF Next, Terminated
<1> QED
  BY <1>1, <1>2, PTL DEF Spec

-----------------------------------------------------------------------------
(* Closure(edges, roots) is the least set above roots that edges keeps.     *)
LEMMA ClosureProperties ==
  ASSUME NEW edges \in [Hash -> SUBSET Hash], NEW roots \in SUBSET Hash
  PROVE  /\ Closure(edges, roots) \subseteq Hash
         /\ roots \subseteq Closure(edges, roots)
         /\ IsClosed(edges, Closure(edges, roots))
         /\ \A S \in SUBSET Hash :
              roots \subseteq S /\ IsClosed(edges, S) => Closure(edges, roots) \subseteq S
<1> DEFINE C == Closure(edges, roots)
<1>1. C \subseteq Hash
  BY DEF Closure
<1>2. roots \subseteq C
  BY DEF Closure
<1>3. ASSUME NEW g \in C, NEW h \in edges[g] PROVE h \in C
  <2>1. h \in Hash
    BY <1>1
  <2>2. ASSUME NEW S \in SUBSET Hash, roots \subseteq S, IsClosed(edges, S)
        PROVE  h \in S
    <3>1. g \in S
      BY <2>2 DEF Closure
    <3> QED
      BY <2>2, <3>1 DEF IsClosed
  <2> QED
    BY <2>1, <2>2 DEF Closure
<1>4. IsClosed(edges, C)
  BY <1>3 DEF IsClosed
<1>5. ASSUME NEW S \in SUBSET Hash, roots \subseteq S, IsClosed(edges, S)
      PROVE  C \subseteq S
  BY <1>5 DEF Closure
<1> QED
  BY <1>1, <1>2, <1>4, <1>5

(* An empty work-list names nothing.                                        *)
LEMMA EmptyRange == Range(<< >>) = {}
<1>1. << >> \in Seq({}) /\ Len(<< >>) = 0
  BY EmptySeq
<1>2. Range(<< >>) = {<< >>[i] : i \in 1..0}
  BY <1>1, RangeEquality
<1> QED
  BY <1>2

(* What the walk pushes for an object is what the contract's edges name.    *)
LEMMA PushesFollowEdges ==
  ASSUME store \in Store
  PROVE  /\ Contract!WalkEdges \in [Hash -> SUBSET Hash]
         /\ \A h \in Hash : Contract!WalkEdges[h] = Range(Pushed(h))
<1>2. ASSUME NEW h \in Hash
      PROVE  /\ Contract!WalkEdges[h] = Range(Pushed(h))
             /\ Contract!WalkEdges[h] \in SUBSET Hash
  <2>1. Contract!WalkEdges[h] = Range(Pushed(h))
    BY EmptyRange DEF Contract!WalkEdges, Contract!Transparent, Contract!Parsed,
                      Contract!Range, Pushed, Parsed, Range
  <2>2. Range(Pushed(h)) \in SUBSET Hash
    BY StoreTypes, RangeOfSeq
  <2> QED
    BY <2>1, <2>2
<1>3. Contract!WalkEdges = [h \in Hash |-> Contract!WalkEdges[h]]
  BY DEF Contract!WalkEdges
<1> QED
  BY <1>2, <1>3

(* The facts about Lead that the steps of the walk need.                    *)
LEMMA LeadProperties ==
  ASSUME TypeOK
  PROVE  /\ Range(tips) \subseteq Lead
         /\ \A h \in Lead : Contract!WalkEdges[h] \subseteq Lead
         /\ \A S \in SUBSET Hash :
              Range(tips) \subseteq S /\ (\A h \in S : Contract!WalkEdges[h] \subseteq S)
                => Lead \subseteq S
<1>1. Contract!WalkEdges \in [Hash -> SUBSET Hash]
  BY PushesFollowEdges DEF TypeOK
<1>2. Range(tips) \in SUBSET Hash
  BY TipsAssumption, RangeOfSeq DEF TypeOK
<1> HIDE DEF Contract!WalkEdges
<1> QED
  BY <1>1, <1>2, ClosureProperties DEF Lead, IsClosed

(* The work-list invariant holds at every step of every audit.              *)
THEOREM WalkInvariant == Spec => []WalkInv
<1>1. Init => WalkInv
  <2> SUFFICES ASSUME Init PROVE WalkInv
    OBVIOUS
  <2> QED
    BY DEF Init, WalkInv, PhaseInv, Present
<1>2. TypeOK /\ TypeOK' /\ WalkInv /\ [Next]_vars => WalkInv'
  <2> SUFFICES ASSUME TypeOK, TypeOK', WalkInv, [Next]_vars PROVE WalkInv'
    OBVIOUS
  <2> DEFINE Edges == Contract!WalkEdges
  <2>1. ASSUME UNCHANGED evidence
        PROVE  /\ Lead' = Lead
               /\ \A h : Edges'[h] = Edges[h]
               /\ Present(store)' = Present(store)
               /\ \A S : Reports(S)' = Reports(S)
               /\ Range(tips)' = Range(tips)
    BY <2>1 DEF evidence, Lead, Contract!WalkEdges, Contract!Transparent, Closure,
                Present, Reports, Contract!KindLabel, Contract!Readable,
                Contract!Parsed
  <2>2. CASE ReadRoots
    <3>2. reached = {} /\ reached' = {} /\ findings = {} /\ findings' = {}
      BY <2>2 DEF ReadRoots, WalkInv, PhaseInv
    <3>3. CASE bootOk
      <4>1. stack' = tips /\ pc' = "walk" /\ bootOk'
        BY <2>2, <3>3 DEF ReadRoots, NextPhase, evidence
      <4>2. Frontier' = Range(tips)
        BY <3>2, <4>1 DEF Frontier
      <4> QED
        BY <2>1, <2>2, <3>2, <4>1, <4>2, LeadProperties
        DEF ReadRoots, WalkInv, PhaseInv
    <3>4. CASE ~bootOk
      <4>1. stack' = << >> /\ pc' = "err"
        BY <2>2, <3>4 DEF ReadRoots, NextPhase
      <4>2. Frontier' = {}
        BY EmptyRange, <3>2, <4>1 DEF Frontier
      <4> QED
        BY <2>1, <2>2, <3>2, <4>1, <4>2 DEF ReadRoots, WalkInv, PhaseInv
    <3> QED
      BY <3>3, <3>4
  <2>3. CASE SkipSeen
    <3>1. /\ Range(stack) = Range(stack') \cup {Top}
          /\ Top \in reached
          /\ reached' = reached
      BY <2>3, PopProperties DEF SkipSeen, Seen, Top, TypeOK
    <3>2. Frontier' = Frontier
      BY <3>1 DEF Frontier
    <3> QED
      BY <2>1, <2>3, <3>1, <3>2 DEF SkipSeen, WalkInv, PhaseInv, evidence
  <2>4. CASE Visit
    <3>1. /\ Top \in Hash /\ Pop(stack) \in Seq(Hash) /\ Pushed(Top) \in Seq(Hash)
          /\ Range(stack) = Range(Pop(stack)) \cup {Top}
      BY <2>4, PopProperties, StoreTypes DEF Visit, Top, TypeOK
    <3>2. Range(stack') = Range(Pop(stack)) \cup Edges[Top]
      BY <2>4, <3>1, RangeConcatenation, PushesFollowEdges DEF Visit, TypeOK
    <3>3. Frontier' = Frontier \cup Edges[Top]
      BY <2>4, <3>1, <3>2 DEF Visit, Frontier
    <3>4. Top \in Frontier /\ reached' = reached \cup {Top}
      BY <2>4, <3>1 DEF Visit, Frontier
    <3>5. /\ Frontier' \subseteq Lead'
          /\ Range(tips)' \subseteq Frontier'
          /\ \A h \in reached' : Edges'[h] \subseteq Frontier'
      BY <2>1, <2>4, <3>3, <3>4, LeadProperties DEF Visit, WalkInv
    <3>6. PhaseInv'
      BY <2>1, <2>4 DEF Visit, WalkInv, PhaseInv, evidence
    <3> QED
      BY <3>5, <3>6 DEF WalkInv
  <2>5. CASE ListObjects
    <3>1. Frontier' = Frontier /\ reached' = reached /\ Lead' = Lead
      BY <2>1, <2>5 DEF ListObjects, Frontier
    <3>2. PhaseInv'
      <4>1. Reports({}) = {}
        BY DEF Reports
      <4> QED
        BY <2>1, <2>5, <4>1 DEF ListObjects, NextPhase, WalkInv, PhaseInv, evidence
    <3> QED
      BY <2>1, <2>5, <3>1, <3>2 DEF ListObjects, NextPhase, WalkInv
  <2>6. ASSUME NEW h \in Hash, Examine(h) PROVE WalkInv'
    <3> DEFINE Rest == (Present(store) \ todo) \ reached
    <3>1. Frontier' = Frontier /\ reached' = reached /\ pc' = "diff" /\ h \in Present(store)
      BY <2>6 DEF Examine, Frontier, WalkInv, PhaseInv
    <3>2. findings' = Reports((Present(store) \ todo') \ reached)
      <4>1. findings = Reports(Rest) /\ todo' = todo \ {h}
        BY <2>6 DEF Examine, WalkInv, PhaseInv
      <4>2. ReportedKind(h) = Contract!KindLabel(h)
        BY DEF ReportedKind, Readable, Contract!KindLabel, Contract!Readable
      <4>3. CASE h \in reached
        <5>1. (Present(store) \ todo') \ reached = Rest /\ findings' = findings
          BY <2>6, <4>1, <4>3 DEF Examine
        <5> QED
          BY <4>1, <5>1
      <4>4. CASE h \notin reached
        <5>1. /\ (Present(store) \ todo') \ reached = Rest \cup {h}
              /\ findings' = findings \cup {[object |-> h, kind |-> Contract!KindLabel(h)]}
          BY <2>6, <3>1, <4>1, <4>2, <4>4 DEF Examine
        <5> QED
          BY <4>1, <5>1 DEF Reports
      <4> QED
        BY <4>3, <4>4
    <3> QED
      BY <2>1, <2>6, <3>1, <3>2 DEF Examine, WalkInv, PhaseInv, evidence
  <2>7. CASE Return
    BY <2>1, <2>7 DEF Return, WalkInv, PhaseInv, Frontier, evidence
  <2>8. CASE UNCHANGED vars
    BY <2>1, <2>8 DEF vars, evidence, WalkInv, PhaseInv, Frontier
  <2> QED
    BY <2>2, <2>3, <2>4, <2>5, <2>6, <2>7, <2>8 DEF Next, Terminated
<1> QED
  BY <1>1, <1>2, TypeCorrect, PTL DEF Spec

-----------------------------------------------------------------------------
(* No object is expanded twice: a step of the walk marks a new object or
   shortens the work-list, so no store, however cyclic, keeps it going.     *)
THEOREM WalkProgress == Spec => WalkVariant
<1>1. TypeOK /\ [Next]_vars =>
        [pc = "walk" /\ pc' = "walk" =>
           \/ reached \subseteq reached' /\ reached # reached'
           \/ reached' = reached /\ Len(stack') < Len(stack)]_vars
  <2> SUFFICES ASSUME TypeOK, Next, pc = "walk", pc' = "walk"
               PROVE  \/ reached \subseteq reached' /\ reached # reached'
                      \/ reached' = reached /\ Len(stack') < Len(stack)
    OBVIOUS
  <2>1. CASE SkipSeen
    <3>1. stack \in Seq(Hash) /\ stack # << >> /\ stack' = Pop(stack) /\ reached' = reached
      BY <2>1 DEF SkipSeen, TypeOK
    <3>2. Len(stack') = Len(stack) - 1 /\ Len(stack) \in Nat
      BY <3>1, PopProperties, EmptySeq
    <3> QED
      BY <3>1, <3>2
  <2>2. CASE Visit
    BY <2>2 DEF Visit, Seen
  <2> QED
    BY <2>1, <2>2 DEF Next, ReadRoots, ListObjects, NextPhase, Examine, Return, Terminated, Stopped
<1> QED
  BY <1>1, TypeCorrect, PTL DEF Spec, WalkVariant

(* When the audit answers, it has marked exactly what the tips lead to.     *)
LEMMA AnswerIsExact ==
  ASSUME TypeOK, WalkInv, pc \in {"diff", "ok"}, todo = {}
  PROVE  bootOk /\ listOk /\ findings = Contract!Exact
<1>1. /\ stack = << >> /\ bootOk /\ listOk
      /\ findings = Reports(Present(store) \ reached)
  BY DEF WalkInv, PhaseInv
<1>2. Frontier = reached
  BY <1>1, EmptyRange DEF Frontier
<1>3. reached = Lead
  <2>1. reached \subseteq Lead /\ Range(tips) \subseteq reached
    BY <1>2 DEF WalkInv
  <2>2. \A h \in reached : Contract!WalkEdges[h] \subseteq reached
    BY <1>2 DEF WalkInv
  <2> QED
    BY <2>1, <2>2, LeadProperties DEF TypeOK
<1>4. Contract!Unreached = Present(store) \ Lead
  BY DEF Contract!Unreached, Contract!Present, Contract!Closure, Contract!IsClosed,
         Contract!Range, Lead, Closure, IsClosed, Present, Range
<1> QED
  BY <1>1, <1>3, <1>4 DEF Contract!Exact, Reports

(* The answer of the audit of a damaged store: below a readable object that
   is not flagged nothing is flagged, and a tip never is.                   *)
THEOREM DamageIsContained == Spec => []DamageContained
<1>1. TypeOK /\ WalkInv => DamageContained
  <2> SUFFICES ASSUME TypeOK, WalkInv, pc = "ok", NEW f \in findings
               PROVE  /\ f.object \notin Range(tips)
                      /\ \A g \in Present(store) :
                           Contract!Transparent(g) /\ f.object \in TrueEdges(store)[g]
                             => \E e \in findings : e.object = g
    BY DEF DamageContained
  <2>1. /\ Frontier = reached
        /\ findings = Reports(Present(store) \ reached)
    BY EmptyRange DEF WalkInv, PhaseInv, Frontier
  <2>2. f.object \notin reached
    BY <2>1 DEF Reports
  <2>3. f.object \notin Range(tips)
    BY <2>1, <2>2 DEF WalkInv
  <2>4. ASSUME NEW g \in Present(store), Contract!Transparent(g),
               f.object \in TrueEdges(store)[g]
        PROVE  \E e \in findings : e.object = g
    <3>1. g \in Hash
      BY DEF Present
    <3>2. Contract!WalkEdges[g] = TrueEdges(store)[g]
      BY <2>4, <3>1 DEF Contract!WalkEdges, TrueEdges, Contract!Range, Range
    <3>3. g \notin reached
      BY <2>1, <2>2, <2>4, <3>2 DEF WalkInv
    <3>4. [object |-> g, kind |-> Contract!KindLabel(g)] \in findings
      BY <2>1, <3>3 DEF Reports
    <3> QED
      BY <3>4
  <2> QED
    BY <2>3, <2>4
<1> QED
  BY <1>1, TypeCorrect, WalkInvariant, PTL

(* The audit implements its contract: whatever the store, its one verdict is
   the exact set of stored objects the refs do not lead to, or an error.    *)
THEOREM Refinement == Spec => ImplementsContract
<1>1. Init => Contract!Init
  BY DEF Init, Contract!Init, Contract!Store, Store, Contract!Pending, Stopped
<1>2. TypeOK /\ WalkInv /\ WalkInv' /\ [Next]_vars => [Contract!Answer]_(Contract!vars)
  <2> SUFFICES ASSUME TypeOK, WalkInv, WalkInv', [Next]_vars
               PROVE  [Contract!Answer]_(Contract!vars)
    OBVIOUS
  <2> USE DEF Contract!vars, Contract!Answer, Contract!Pending, Stopped
  <2>1. CASE ReadRoots
    BY <2>1 DEF ReadRoots, NextPhase, evidence
  <2>2. CASE SkipSeen
    BY <2>2 DEF SkipSeen, evidence
  <2>3. CASE Visit
    BY <2>3 DEF Visit, evidence
  <2>4. CASE ListObjects
    BY <2>4 DEF ListObjects, NextPhase, evidence
  <2>5. ASSUME NEW h \in Hash, Examine(h) PROVE [Contract!Answer]_(Contract!vars)
    BY <2>5 DEF Examine, evidence
  <2>6. CASE Return
    <3>1. bootOk /\ listOk /\ findings = Contract!Exact
      BY <2>6, AnswerIsExact DEF Return
    <3> QED
      BY <2>6, <3>1 DEF Return, evidence
  <2>7. CASE UNCHANGED vars
    BY <2>7 DEF vars
  <2> QED
    BY <2>1, <2>2, <2>3, <2>4, <2>5, <2>6, <2>7 DEF Next, Terminated
<1> QED
  BY <1>1, <1>2, TypeCorrect, WalkInvariant, PTL
  DEF Spec, ImplementsContract, Contract!Spec
=============================================================================
