---------------------------- MODULE IdxLookupProofs ----------------------------
(***************************************************************************)
(* For every index, sound or damaged: the search keeps its types and shrinks *)
(* its range at every probe; while the fanout counts git's names and leads  *)
(* nowhere else, it answers only with an offset git wrote for the name; for  *)
(* every well-formed index it is exact.                                     *)
(***************************************************************************)
EXTENDS IdxLookup, SequenceTheorems, TLAPS

(* The middle of a non-empty range lies in it.                              *)
LEMMA MidInRange ==
  ASSUME lo \in Nat, hi \in Nat, lo < hi
  PROVE  Mid \in Nat /\ lo <= Mid /\ Mid < hi
BY DEF Mid

(* What an index holds.                                                     *)
LEMMA IndexTypes ==
  ASSUME NEW x \in Index
  PROVE  /\ x.v2 \in BOOLEAN /\ x.whole \in BOOLEAN /\ x.count \in Nat
         /\ x.fanout \in [0..Buckets - 1 -> Nat]
         /\ x.names \in Seq(Name)
         /\ Len(x.names) \in Nat /\ Len(x.words) \in Nat
         /\ \A i \in 1..Len(x.names) : x.names[i] \in Name /\ x.names[i] \in Nat
         /\ \A i \in 1..Len(x.words) : x.words[i] \in Nat
<1>1. /\ x.v2 \in BOOLEAN /\ x.whole \in BOOLEAN /\ x.count \in Nat
      /\ x.fanout \in [0..Buckets - 1 -> Nat]
      /\ x.names \in Seq(Name) /\ x.words \in Seq(0..2 * Msb - 1)
  BY DEF Index
<1>2. \A i \in 1..Len(x.words) : x.words[i] \in 0..2 * Msb - 1
  BY <1>1, ElementOfSeq
<1>3. 0..2 * Msb - 1 \subseteq Nat
  BY IdxLookupAssumption
<1> QED
  BY <1>1, <1>2, <1>3, LenProperties, ElementOfSeq, IdxLookupAssumption

(* Where the tables begin, for the code and in truth, is a natural, and the
   same as soon as the fanout ends in the number of names git wrote.        *)
LEMMA TableTypes ==
  ASSUME NEW x \in Index
  PROVE  /\ Total(x) \in Nat /\ SmallTable(x) \in Nat /\ LargeTable(x) \in Nat
         /\ \A i \in Nat : OffsetWord(x, i) \in Nat
         /\ Total(x) = x.count =>
              /\ \A i \in Nat : OffsetWord(x, i) = SmallTable(x) + i
              /\ OffsetWord(x, x.count) = LargeTable(x)
<1>1. Total(x) \in Nat /\ x.count \in Nat
  BY IndexTypes, IdxLookupAssumption DEF Total
<1>2. Total(x) * NameWords \in Nat /\ x.count * NameWords \in Nat
  BY <1>1, IdxLookupAssumption
<1>3. Total(x) = x.count => Total(x) * NameWords = x.count * NameWords
  OBVIOUS
<1> DEFINE t == Total(x) * NameWords
           c == x.count * NameWords
<1>4. /\ SmallTable(x) = t + Total(x) /\ LargeTable(x) = (t + Total(x)) + Total(x)
      /\ \A i \in Nat : OffsetWord(x, i) = (c + x.count) + i
  BY DEF SmallTable, LargeTable, OffsetWord
<1>5. t \in Nat /\ c \in Nat /\ (Total(x) = x.count => t = c)
  BY <1>2, <1>3
<1> HIDE DEF t, c
<1> QED
  BY <1>1, <1>4, <1>5

(* The 8 bytes of two words are a natural.                                  *)
LEMMA WideTypes ==
  ASSUME NEW x \in Index, NEW at \in Nat, at + 2 <= Len(x.words)
  PROVE  Wide(x, at) \in Nat
<1>1. at + 1 \in 1..Len(x.words) /\ at + 2 \in 1..Len(x.words)
  BY IndexTypes
<1>2. x.words[at + 1] \in Nat /\ x.words[at + 2] \in Nat
  BY <1>1, IndexTypes
<1>3. 2 * Msb \in Nat
  BY IdxLookupAssumption
<1>4. x.words[at + 1] * (2 * Msb) \in Nat
  BY <1>2, <1>3
<1> QED
  BY <1>2, <1>4 DEF Wide

(* The words read from the fanout are in range.                             *)
LEMMA FanoutTypes ==
  ASSUME NEW x \in Index, NEW w \in Name
  PROVE  /\ FirstByte[w] \in 0..Buckets - 1
         /\ Low(x, FirstByte[w]) \in Nat /\ High(x, FirstByte[w]) \in Nat
<1>1. FirstByte[w] \in 0..Buckets - 1
  BY IdxLookupAssumption
<1>2. FirstByte[w] # 0 => FirstByte[w] - 1 \in 0..Buckets - 1
  BY <1>1, IdxLookupAssumption
<1> QED
  BY <1>1, <1>2, IndexTypes DEF Low, High

(* The search never gives a variable a value outside its type.              *)
THEOREM TypeCorrect == Spec => []TypeOK
<1>1. Init => TypeOK
  BY IdxLookupAssumption DEF Init, TypeOK
<1>2. TypeOK /\ [Next]_vars => TypeOK'
  <2> SUFFICES ASSUME TypeOK, [Next]_vars PROVE TypeOK'
    OBVIOUS
  <2> USE DEF TypeOK
  <2>1. CASE Start /\ UNCHANGED <<idx, want>>
    BY <2>1, FanoutTypes DEF Start, Finish
  <2>2. CASE Probe /\ UNCHANGED <<idx, want>>
    BY <2>2, MidInRange DEF Probe, Above, Below
  <2>3. CASE ProbeBeyond /\ UNCHANGED <<idx, want>>
    BY <2>3 DEF ProbeBeyond, Finish
  <2>4. CASE Exhausted /\ UNCHANGED <<idx, want>>
    BY <2>4 DEF Exhausted, Finish
  <2>5. CASE ReadOffset /\ UNCHANGED <<idx, want>>
    <3> DEFINE at   == SmallTable(idx) + hit
               word == idx.words[at + 1]
               wide == LargeTable(idx) + 2 * (word - Msb)
    <3>1. at \in Nat /\ Len(idx.words) \in Nat /\ LargeTable(idx) \in Nat
      <4>1. SmallTable(idx) \in Nat /\ LargeTable(idx) \in Nat /\ Len(idx.words) \in Nat
        BY IndexTypes, TableTypes
      <4> QED
        BY <4>1
    <3>2. at < Len(idx.words) => word \in Nat
      BY <3>1, IndexTypes
    <3>3. /\ UNCHANGED <<lo, hi, hit, idx, want>>
          /\ \/ Finish("oob", 0)
             \/ at < Len(idx.words) /\ Finish("found", word)
             \/ /\ at < Len(idx.words) /\ ~Small(word) /\ ~(wide + 2 > Len(idx.words))
                /\ Finish("found", Wide(idx, wide))
      BY <2>5 DEF ReadOffset
    <3> HIDE DEF at, word
    <3>4. ~Small(word) /\ word \in Nat => wide \in Nat
      BY <3>1, IdxLookupAssumption DEF Small
    <3> HIDE DEF wide
    <3>5. wide \in Nat /\ ~(wide + 2 > Len(idx.words)) => Wide(idx, wide) \in Nat
      <4>1. wide \in Nat /\ ~(wide + 2 > Len(idx.words)) => wide + 2 <= Len(idx.words)
        BY <3>1
      <4> QED
        BY <4>1, WideTypes
    <3>6. pc' = "done" /\ result' \in {"found", "oob"} /\ offset' \in Nat
      BY <3>2, <3>3, <3>4, <3>5 DEF Finish
    <3> QED
      BY <3>3, <3>6
  <2>6. CASE UNCHANGED vars
    BY <2>6 DEF vars
  <2> QED
    BY <2>1, <2>2, <2>3, <2>4, <2>5, <2>6 DEF Next, Terminated
<1> QED
  BY <1>1, <1>2, PTL DEF Spec

(* A probe that goes on shrinks the range: it never stands still, which a
   formula that allows stuttering cannot say.                               *)
LEMMA ProbeShrinks ==
  TypeOK /\ Probe /\ pc' = "search" => hi' - lo' < hi - lo /\ lo' <= hi'
BY MidInRange DEF Probe, Above, Below, TypeOK

(* Every step of a search that goes on shrinks the range, whatever the index
   holds: with ProbeShrinks, hi - lo bounds the probes of any search.       *)
THEOREM SearchShrinks == Spec => Shrinks
<1>1. TypeOK /\ [Next]_vars =>
        [pc = "search" /\ pc' = "search" => hi' - lo' < hi - lo /\ lo' <= hi']_vars
  <2> SUFFICES ASSUME TypeOK, Next, pc = "search", pc' = "search"
               PROVE  hi' - lo' < hi - lo /\ lo' <= hi'
    OBVIOUS
  <2>1. CASE Probe
    BY <2>1, ProbeShrinks
  <2> QED
    BY <2>1 DEF Next, Start, ProbeBeyond, Exhausted, ReadOffset, Finish, Terminated
<1> QED
  BY <1>1, TypeCorrect, PTL DEF Spec, Shrinks

-----------------------------------------------------------------------------
(* In a well-formed index the name sought stays in the range still to
   search, and a hit is a slot that holds it.                               *)
THEOREM SearchInvariant == Spec => []SearchInv
<1>1. Init => SearchInv
  BY DEF Init, SearchInv
<1>2. TypeOK /\ SearchInv /\ [Next]_vars => SearchInv'
  <2> SUFFICES ASSUME TypeOK, SearchInv, [Next]_vars PROVE SearchInv'
    OBVIOUS
  <2>1. CASE Start /\ UNCHANGED <<idx, want>>
    <3> DEFINE b == FirstByte[want]
    <3>1. b \in 0..Buckets - 1 /\ (b # 0 => b - 1 \in 0..Buckets - 1)
      BY FanoutTypes, IdxLookupAssumption DEF TypeOK
    <3>2. /\ UNCHANGED <<idx, want>> /\ pc' # "offset"
          /\ pc' = "search" => lo' = Low(idx, b) /\ hi' = High(idx, b)
      BY <2>1 DEF Start, Finish
    <3>3. pc' = "search" /\ Within(idx) => hi' <= idx.count
      BY <3>1, <3>2 DEF High, Within
    <3>4. ASSUME pc' = "search", WellFormed(idx), NEW i \in 1..idx.count, idx.names[i] = want
          PROVE  lo' < i /\ i <= hi'
      <4>1. \A c \in 0..Buckets - 1 : FirstByte[idx.names[i]] <= c <=> i <= idx.fanout[c]
        BY <3>4 DEF WellFormed, Counted
      <4>2. i <= hi'
        <5>1. FirstByte[idx.names[i]] <= b
          BY <3>1, <3>4
        <5> QED
          BY <3>1, <3>2, <3>4, <4>1, <5>1 DEF High
      <4>3. CASE b = 0
        BY <3>2, <3>4, <4>2, <4>3 DEF Low
      <4>4. CASE b # 0
        <5>1. ~(FirstByte[idx.names[i]] <= b - 1)
          BY <3>1, <3>4
        <5>2. ~(i <= idx.fanout[b - 1])
          BY <3>1, <4>1, <4>4, <5>1
        <5>3. idx.fanout[b - 1] \in Nat
          BY <3>1, <4>4, IndexTypes DEF TypeOK
        <5> QED
          BY <3>2, <3>4, <4>2, <4>4, <5>2, <5>3 DEF Low
      <4> QED
        BY <4>3, <4>4
    <3> QED
      BY <3>2, <3>3, <3>4 DEF SearchInv, WellFormed, Counted, Within, Sorted, Encoded
  <2>2. CASE Probe /\ UNCHANGED <<idx, want>>
    <3> DEFINE m == Mid
               name == idx.names[m + 1]
    <3>1. /\ m \in Nat /\ lo <= m /\ m < hi /\ m + 1 \in 1..Len(idx.names)
          /\ name \in Nat /\ want \in Nat /\ idx.count \in Nat
      BY <2>2, MidInRange, IndexTypes, IdxLookupAssumption DEF Probe, TypeOK
    <3>2. Within(idx) => hi <= idx.count /\ m + 1 \in 1..idx.count
      BY <2>2, <3>1 DEF Probe, SearchInv, TypeOK
    <3>3. ASSUME WellFormed(idx), NEW i \in 1..idx.count
          PROVE  /\ i <= m + 1 => idx.names[i] <= name
                 /\ m + 1 <= i => name <= idx.names[i]
      <4>1. /\ i < m + 1 => idx.names[i] < name
            /\ m + 1 < i => name < idx.names[i]
        BY <3>2, <3>3 DEF WellFormed, Counted, Sorted
      <4>2. i = m + 1 => idx.names[i] = name
        OBVIOUS
      <4>3. i \in 1..Len(idx.names) /\ idx.names[i] \in Nat
        BY <3>3, IndexTypes DEF TypeOK, WellFormed, Counted, Within
      <4> QED
        BY <3>1, <4>1, <4>2, <4>3
    <3>4. WellFormed(idx) => /\ Within(idx)
                             /\ \A i \in 1..idx.count : idx.names[i] = want => lo < i /\ i <= hi
      BY <2>2 DEF SearchInv, Probe, WellFormed, Counted
    <3> DEFINE W == WellFormed(idx)
               In == Within(idx)
    <3>5. W' = W /\ In' = In /\ UNCHANGED <<idx, want>> /\ pc = "search"
      BY <2>2 DEF WellFormed, Counted, Within, Sorted, Encoded, Probe
    <3>6. SearchInv' <=>
            /\ pc' = "search" /\ W =>
                 \A i \in 1..idx.count : idx.names[i] = want => lo' < i /\ i <= hi'
            /\ pc' = "search" /\ In => hi' <= idx.count
            /\ pc' = "offset" => hit' < Len(idx.names) /\ idx.names[hit' + 1] = want
            /\ pc' = "offset" /\ In => hit' < idx.count
      BY <3>5 DEF SearchInv
    <3> HIDE DEF m, W, In
    <3>7. CASE name < want /\ lo' = Above(m) /\ UNCHANGED <<pc, hi, hit>>
      BY <3>1, <3>2, <3>3, <3>4, <3>5, <3>6, <3>7 DEF Above, TypeOK, W, In
    <3>8. CASE name > want /\ hi' = Below(m) /\ UNCHANGED <<pc, lo, hit>>
      BY <3>1, <3>2, <3>3, <3>4, <3>5, <3>6, <3>8 DEF Below, TypeOK, W, In
    <3>9. CASE name = want /\ hit' = m /\ pc' = "offset" /\ UNCHANGED <<lo, hi>>
      BY <3>1, <3>2, <3>5, <3>6, <3>9 DEF TypeOK, In
    <3> QED
      BY <2>2, <3>7, <3>8, <3>9 DEF Probe, m
  <2>3. CASE (ProbeBeyond \/ Exhausted \/ ReadOffset) /\ UNCHANGED <<idx, want>>
    <3>1. pc' = "done"
      BY <2>3 DEF ProbeBeyond, Exhausted, ReadOffset, Finish
    <3> QED
      BY <3>1 DEF SearchInv
  <2>4. CASE UNCHANGED vars
    BY <2>4 DEF vars, SearchInv, WellFormed, Counted, Within, Sorted, Encoded
  <2> QED
    BY <2>1, <2>2, <2>3, <2>4 DEF Next, Terminated
<1> QED
  BY <1>1, <1>2, TypeCorrect, PTL DEF Spec

-----------------------------------------------------------------------------
(* The answer, once there is one: what a hit and an exhausted range mean.   *)
AnswerInv ==
  /\ pc # "done" => result = "pending"
  /\ FoundIsOwn
  /\ pc = "done" /\ WellFormed(idx) =>
       \/ result = "found"
       \/ result = "none" /\ \A i \in 1..idx.count : idx.names[i] # want

(* In a well-formed index the last word of the fanout is the number of names. *)
LEMMA TotalIsCount ==
  ASSUME NEW x \in Index, WellFormed(x)
  PROVE  Total(x) = x.count /\ Within(x)
<1> DEFINE last == Buckets - 1
<1>1. /\ last \in 0..Buckets - 1 /\ x.fanout[last] \in Nat /\ x.count \in Nat
      /\ x.fanout[last] <= x.count /\ Within(x) /\ x.count <= Len(x.names)
  BY IndexTypes, IdxLookupAssumption DEF WellFormed, Counted, Within
<1>2. ASSUME x.count # 0 PROVE x.count <= x.fanout[last]
  <2>1. x.count \in 1..x.count /\ x.count \in 1..Len(x.names)
    BY <1>1, <1>2, IndexTypes
  <2>2. FirstByte[x.names[x.count]] <= last
    <3>1. x.names[x.count] \in Name
      BY <2>1, IndexTypes
    <3>2. FirstByte[x.names[x.count]] \in 0..Buckets - 1
      BY <3>1, FanoutTypes
    <3> QED
      BY <3>2, IdxLookupAssumption
  <2> QED
    BY <1>1, <2>1, <2>2 DEF WellFormed, Counted
<1> QED
  BY <1>1, <1>2 DEF Total

(* The offset that is read for a hit, when the fanout is right about the
   number of names, is the one git put there.                               *)
LEMMA OffsetIsOwn ==
  ASSUME TypeOK, SearchInv, ReadOffset, Within(idx), Total(idx) = idx.count
  PROVE  /\ hit + 1 \in 1..idx.count /\ idx.names[hit + 1] = want
         /\ pc' = "done"
         /\ result' = "found" => HasOffset(idx, hit + 1) /\ offset' = OffsetOf(idx, hit + 1)
         /\ HasOffset(idx, hit + 1) => result' = "found"
<1> DEFINE at   == SmallTable(idx) + hit
           word == idx.words[at + 1]
           wide == LargeTable(idx) + 2 * (word - Msb)
<1>1. /\ at \in Nat /\ Len(idx.words) \in Nat /\ LargeTable(idx) \in Nat
      /\ hit \in Nat /\ idx.count \in Nat
  BY IndexTypes, TableTypes DEF TypeOK
<1>2. hit + 1 \in 1..idx.count /\ idx.names[hit + 1] = want
  BY <1>1 DEF ReadOffset, SearchInv
<1>3. OffsetWord(idx, hit + 1) = at + 1 /\ OffsetWord(idx, idx.count) = LargeTable(idx)
  <2> DEFINE h == hit + 1
             start == SmallTable(idx)
  <2>1. h \in Nat /\ idx \in Index
    BY <1>1 DEF TypeOK
  <2>2. /\ \A i \in Nat : OffsetWord(idx, i) = start + i
        /\ OffsetWord(idx, idx.count) = LargeTable(idx) /\ start \in Nat
    <3> HIDE DEF h
    <3> QED
      BY <2>1, TableTypes
  <2> HIDE DEF h
  <2>3. OffsetWord(idx, h) = start + h
    BY <2>1, <2>2
  <2> HIDE DEF start
  <2>4. start + (hit + 1) = (start + hit) + 1
    BY <1>1, <2>2
  <2> QED
    BY <2>2, <2>3, <2>4 DEF h, start
<1>4. Raw(idx, hit + 1) = word /\ LargeWord(idx, hit + 1) = wide
  BY <1>3 DEF Raw, LargeWord
<1>5. \/ at >= Len(idx.words) /\ Finish("oob", 0)
      \/ at < Len(idx.words) /\ Small(word) /\ Finish("found", word)
      \/ /\ at < Len(idx.words) /\ ~Small(word)
         /\ IF wide + 2 > Len(idx.words) THEN Finish("oob", 0)
            ELSE Finish("found", Wide(idx, wide))
  BY DEF ReadOffset
<1>6. at < Len(idx.words) => word \in Nat
  BY <1>1, IndexTypes DEF TypeOK
<1>7. /\ HasOffset(idx, hit + 1) <=>
           at + 1 <= Len(idx.words) /\ (word >= Msb => wide + 2 <= Len(idx.words))
      /\ OffsetOf(idx, hit + 1) = IF word >= Msb THEN Wide(idx, wide) ELSE word
  BY <1>3, <1>4 DEF HasOffset, OffsetOf
<1> HIDE DEF at, word
<1>8. word \in Nat => (Small(word) <=> ~(word >= Msb)) /\ (word >= Msb => wide \in Nat)
  BY <1>1, IdxLookupAssumption DEF Small
<1> HIDE DEF wide
<1>9. CASE at >= Len(idx.words)
  BY <1>1, <1>2, <1>5, <1>7, <1>9 DEF Finish
<1>10. CASE at < Len(idx.words) /\ Small(word)
  BY <1>1, <1>2, <1>5, <1>6, <1>7, <1>8, <1>10 DEF Finish
<1>11. CASE at < Len(idx.words) /\ ~Small(word)
  BY <1>1, <1>2, <1>5, <1>6, <1>7, <1>8, <1>11 DEF Finish
<1> QED
  BY <1>1, <1>9, <1>10, <1>11

(* The search answers only with an offset of the name it compared, or with
   none.                                                                    *)
LEMMA AnswerInvariant == Spec => []AnswerInv
<1>1. Init => AnswerInv
  BY DEF Init, AnswerInv, FoundIsOwn
<1>2. TypeOK /\ SearchInv /\ AnswerInv /\ [Next]_vars => AnswerInv'
  <2> SUFFICES ASSUME TypeOK, SearchInv, AnswerInv, [Next]_vars PROVE AnswerInv'
    OBVIOUS
  <2> DEFINE W == WellFormed(idx)
             In == Within(idx) /\ Total(idx) = idx.count
             Own(i, o) == idx.names[i] = want /\ HasOffset(idx, i) /\ o = OffsetOf(idx, i)
             Absent == \A i \in 1..idx.count : idx.names[i] # want
  <2>1. ASSUME UNCHANGED <<idx, want>>,
               pc' # "done" => result' = "pending",
               pc' = "done" /\ result' = "found" /\ In => \E i \in 1..idx.count : Own(i, offset'),
               pc' = "done" /\ W => result' = "found" \/ (result' = "none" /\ Absent)
        PROVE  AnswerInv'
    BY <2>1 DEF AnswerInv, FoundIsOwn, WellFormed, Counted, Within, Sorted, Encoded, HasOffset,
                OffsetOf, Raw, LargeWord, OffsetWord, Wide, Total
  <2>2. CASE Start /\ UNCHANGED <<idx, want>>
    <3>1. pc = "start" => result = "pending"
      BY DEF AnswerInv
    <3>2. pc' # "done" => result' = "pending"
      BY <2>2, <3>1 DEF Start, Finish
    <3>3. pc' = "done" => result' # "found" /\ ~W
      BY <2>2 DEF Start, Finish, WellFormed
    <3> QED
      BY <2>1, <2>2, <3>2, <3>3
  <2>3. CASE Probe /\ UNCHANGED <<idx, want>>
    <3>1. pc' # "done" /\ result' = "pending"
      BY <2>3 DEF Probe, AnswerInv
    <3> QED
      BY <2>1, <2>3, <3>1
  <2>4. CASE ProbeBeyond /\ UNCHANGED <<idx, want>>
    <3>1. ~W
      <4>1. Mid < hi /\ Mid \in Nat /\ Mid >= Len(idx.names) /\ pc = "search"
        BY <2>4, MidInRange DEF ProbeBeyond, TypeOK
      <4>2. Len(idx.names) \in Nat /\ idx.count \in Nat /\ hi \in Nat
        BY IndexTypes DEF TypeOK
      <4>3. W => hi <= idx.count /\ idx.count <= Len(idx.names)
        BY <4>1 DEF SearchInv, WellFormed, Counted, Within
      <4> QED
        BY <4>1, <4>2, <4>3
    <3>2. pc' = "done" /\ result' = "oob"
      BY <2>4 DEF ProbeBeyond, Finish
    <3> QED
      BY <2>1, <2>4, <3>1, <3>2
  <2>5. CASE Exhausted /\ UNCHANGED <<idx, want>>
    <3>1. W => Absent
      <4>1. pc = "search" /\ lo >= hi
        BY <2>5 DEF Exhausted
      <4>2. W => \A i \in 1..idx.count : idx.names[i] = want => lo < i /\ i <= hi
        BY <4>1 DEF SearchInv
      <4> QED
        BY <4>1, <4>2, IndexTypes DEF TypeOK
    <3>2. pc' = "done" /\ result' = "none"
      BY <2>5 DEF Exhausted, Finish
    <3> QED
      BY <2>1, <2>5, <3>1, <3>2
  <2>6. CASE ReadOffset /\ UNCHANGED <<idx, want>>
    <3>1. W => In /\ Encoded(idx)
      BY TotalIsCount DEF WellFormed, TypeOK
    <3>2. In => /\ hit + 1 \in 1..idx.count
                /\ result' = "found" => Own(hit + 1, offset')
                /\ HasOffset(idx, hit + 1) => result' = "found"
      BY <2>6, OffsetIsOwn
    <3>3. pc' = "done"
      BY <2>6 DEF ReadOffset, Finish
    <3>4. W => result' = "found"
      BY <3>1, <3>2 DEF Encoded
    <3> HIDE DEF W, In, Own, Absent
    <3>5. result' = "found" /\ In => \E i \in 1..idx.count : Own(i, offset')
      BY <3>2
    <3> QED
      BY <2>1, <2>6, <3>3, <3>4, <3>5
  <2>7. CASE UNCHANGED vars
    <3>1. UNCHANGED <<idx, want, pc, result, offset>>
      BY <2>7 DEF vars
    <3>2. /\ pc # "done" => result = "pending"
          /\ pc = "done" /\ result = "found" /\ In => \E i \in 1..idx.count : Own(i, offset)
          /\ pc = "done" /\ W => result = "found" \/ (result = "none" /\ Absent)
      BY DEF AnswerInv, FoundIsOwn
    <3> HIDE DEF W, In, Own, Absent
    <3> QED
      BY <2>1, <3>1, <3>2
  <2> QED
    BY <2>2, <2>3, <2>4, <2>5, <2>6, <2>7 DEF Next, Terminated
<1> QED
  BY <1>1, <1>2, TypeCorrect, SearchInvariant, PTL DEF Spec

(* Whatever order the names are in, however wrong the rest of the fanout is
   and wherever the file ends: as long as the fanout leads to git's names
   only and ends in their number, an offset answered is the one git wrote for
   the name sought.                                                         *)
THEOREM FoundOnlyOwn == Spec => []FoundIsOwn
<1>1. AnswerInv => FoundIsOwn
  BY DEF AnswerInv
<1> QED
  BY <1>1, AnswerInvariant, PTL

(* What idx_names lists of a well-formed index is every name git put there. *)
LEMMA ListingIsWhole ==
  ASSUME NEW x \in Index, WellFormed(x)
  PROVE  Listing(x).names = {x.names[i] : i \in 1..x.count}
BY TotalIsCount DEF Listing, WellFormed, Within

(* The search of a well-formed index is exact: it finds the names that the
   listing of the same index yields, each at its own offset, and no other.  *)
THEOREM SearchExact == Spec => []LookupExact
<1>1. TypeOK /\ AnswerInv => LookupExact
  <2> SUFFICES ASSUME TypeOK, AnswerInv, pc = "done", WellFormed(idx)
               PROVE  IF want \in Listing(idx).names
                      THEN /\ result = "found"
                           /\ \E i \in 1..idx.count :
                                idx.names[i] = want /\ offset = OffsetOf(idx, i)
                      ELSE result = "none"
    BY DEF LookupExact
  <2>1. want \in Listing(idx).names <=> \E i \in 1..idx.count : idx.names[i] = want
    BY ListingIsWhole DEF TypeOK
  <2>2. result = "found" => \E i \in 1..idx.count :
                              idx.names[i] = want /\ offset = OffsetOf(idx, i)
    BY TotalIsCount DEF AnswerInv, FoundIsOwn, TypeOK
  <2>3. \/ result = "found"
        \/ result = "none" /\ \A i \in 1..idx.count : idx.names[i] # want
    BY DEF AnswerInv
  <2> QED
    BY <2>1, <2>2, <2>3
<1> QED
  BY <1>1, TypeCorrect, AnswerInvariant, PTL
=============================================================================
