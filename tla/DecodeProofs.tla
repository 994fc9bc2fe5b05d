------------------------------ MODULE DecodeProofs ------------------------------
(***************************************************************************)
(* The theorems about the parsers as a whole (TypeCorrect) and about those  *)
(* of Reflog and ObjectParse: what the audit of a reflog finds, proved for  *)
(* every history and every log, and what the parsers of loose objects,      *)
(* trees and commits accept and give, for inputs of any length and content. *)
(* The pack formats have PackProofs.                                        *)
(***************************************************************************)
EXTENDS Decode, TLAPS, SequenceTheorems, FiniteSetTheorems

(* Above is a closure: a commit is in its own history, and the history of
   what is in a history is in it too.                                       *)
LEMMA AboveClosure ==
  ASSUME NEW c \in Commit
  PROVE  /\ c \in Above(c)
         /\ \A d \in Above(c) : d \in Commit /\ Above(d) \subseteq Above(c)
  BY DEF Above

(* classify_rewrite names what is said in its words; a message that quotes
   nothing is named exactly when its operation has such words, and as that
   operation.                                                               *)
LEMMA ClassifyRewriting ==
  ASSUME NEW line \in LogLine
  PROVE  /\ InItsWords(line) => Classify(line) # "none"
         /\ line.quotes = {} =>
              /\ Classify(line) # "none" => line.op \in Rewriting
              /\ line.op \in Rewriting => Classify(line) = line.op
<1> DEFINE amend  == Says(line, "commit (amend)")
           filter == Says(line, "filter-branch")
           rebase == Says(line, "rebase")
           forced == Says(line, "(forced update)")
<1>1. Classify(line) = IF line.op = "reset" THEN "reset" ELSE IF amend THEN "amend"
                       ELSE IF filter THEN "filter-branch" ELSE IF rebase THEN "rebase"
                       ELSE IF forced THEN "forced-update" ELSE "none"
  BY Zenon DEF Classify
<1>2. /\ line.op = "amend" => amend
      /\ line.op = "filter-branch" => filter
      /\ line.op = "rebase" => rebase
      /\ "(forced update)" \in line.quotes => forced
  <2>1. line.op = "amend" => Own(line.op) = {"commit (amend)"}
    BY DEF Own
  <2>2. line.op = "filter-branch" => Own(line.op) = {"filter-branch"}
    BY DEF Own
  <2>3. line.op = "rebase" => Own(line.op) = {"rebase"}
    BY DEF Own
  <2> QED BY <2>1, <2>2, <2>3, Zenon DEF Says
<1>3. line.quotes = {} => /\ amend <=> line.op = "amend"
                          /\ filter <=> line.op = "filter-branch"
                          /\ rebase <=> line.op = "rebase"
                          /\ ~forced
  <2>1. CASE line.op = "amend"
    BY <2>1, Zenon DEF Says, Own
  <2>2. CASE line.op = "filter-branch"
    BY <2>2, Zenon DEF Says, Own
  <2>3. CASE line.op = "rebase"
    BY <2>3, Zenon DEF Says, Own
  <2>4. CASE line.op \notin {"amend", "filter-branch", "rebase"}
    <3>1. Own(line.op) = {}
      BY <2>4, Zenon DEF Own
    <3> QED BY <2>4, <3>1, Zenon DEF Says
  <2> HIDE DEF amend, filter, rebase, forced
  <2> QED BY <2>1, <2>2, <2>3, <2>4
<1> HIDE DEF amend, filter, rebase, forced
<1>4. line.op \in Rewriting <=> line.op \in {"reset", "amend", "filter-branch", "rebase"}
  BY DEF Rewriting
<1>5. InItsWords(line) => line.op \in {"reset", "amend", "filter-branch", "rebase"} \/ forced
  BY <1>2, Zenon DEF InItsWords, Rewriting
<1>6. ASSUME InItsWords(line) PROVE Classify(line) # "none"
  <2>1. CASE forced
    BY <1>1, <2>1
  <2>2. CASE line.op \in {"reset", "amend", "filter-branch", "rebase"}
    <3>1. /\ line.op = "amend" => amend
          /\ line.op = "filter-branch" => filter
          /\ line.op = "rebase" => rebase
      BY <1>2, Zenon
    <3> QED BY <1>1, <2>2, <3>1
  <2> QED BY <1>5, <1>6, <2>1, <2>2, Zenon
<1>7. line.quotes = {} /\ Classify(line) # "none" => line.op \in Rewriting
  BY <1>1, <1>3, <1>4
<1>8. line.quotes = {} /\ line.op \in Rewriting => Classify(line) = line.op
  BY <1>1, <1>3, <1>4
<1> QED BY <1>6, <1>7, <1>8, Zenon

-----------------------------------------------------------------------------
(* The values the branch had by the first n lines, and the histories that
   account for them: of the branch's value then, and of the moves found.    *)
Had(lines, n) == {lines[i].new : i \in 1..n} \cup ({lines[1].old} \ {None})
Left(found) == {found[i].old : i \in DOMAIN found} \ {None}
Accounted(lines, n, found) == UNION {Above(c) : c \in {lines[n].new} \cup Left(found)}

Finding == [old : Commit \cup {None}, new : Commit \cup {None},
            operation : Rewriting \cup {"forced-update", "none"}]

(* A finding tells of a move whose operation has the words of one that
   rewrites history, or of one that quotes some.                            *)
Told(f, line) ==
  /\ line.old = f.old /\ line.new = f.new
  /\ line.op \in Rewriting \/ line.quotes # {}
  /\ line.quotes = {} => f.operation = line.op

(* What NextLine makes of a line.                                           *)
Found(line) == [old |-> line.old, new |-> line.new, operation |-> Classify(line)]
Took(line, found, then) ==
  \/ then = found /\ (~Parsed(line) \/ Classify(line) = "none")
  \/ then = Append(found, Found(line)) /\ Classify(line) # "none"

LogType == input \in Log /\ pos \in 1..(Len(input.lines) + 1) /\ acc \in Seq(Finding)
LogDone == result = "ok" => pos = Len(input.lines) + 1
LogTold == \A i \in DOMAIN acc : \E j \in 1..(pos - 1) : Told(acc[i], input.lines[j])
(* Every move that leaves a commit behind says so.                          *)
Worded(lines) == \A i \in DOMAIN lines : LeavesBehind(lines[i]) => InItsWords(lines[i])
LogCovered ==
  GitLog(input.lines) /\ Worded(input.lines) /\ pos > 1 => Had(input.lines, pos - 1) \subseteq Accounted(input.lines, pos - 1, acc)

LogInv == call = "audit_reflog" => LogType /\ LogDone /\ LogTold /\ LogCovered

(* The other decoders leave the call alone.                                 *)
LEMMA OthersKeepCall ==
  ASSUME EntryStep \/ DeltaStep \/ ParseLoose \/ TreeRecord \/ TreeEnd \/ CommitStep
  PROVE  call # "audit_reflog" /\ call' = call
<1>1. CASE EntryStep
  BY <1>1 DEF EntryStep, FirstByte, SizeByte, OfsByte, Base, Name, Inflate, Advance, Return, Reading
<1>2. CASE DeltaStep
  BY <1>2 DEF DeltaStep, DeltaSize, Copy, Insert, Refuse, Advance, Return, Reading
<1>3. CASE ParseLoose
  BY <1>3 DEF ParseLoose, Return, ReturnAfter, Reading
<1>4. CASE TreeRecord \/ TreeEnd
  BY <1>4 DEF TreeRecord, TreeEnd, Advance, Return, Reading
<1>5. CASE CommitStep
  BY <1>5 DEF CommitStep, HeaderLine, Message, Advance, Return, ReturnAfter, Reading
<1> QED BY <1>1, <1>2, <1>3, <1>4, <1>5

(* A log's lines are lines, and only a file that is there has any.          *)
LEMMA LogTypes ==
  ASSUME NEW l \in Log
  PROVE  l.lines \in Seq(LogLine) /\ (l.file # "there" => Len(l.lines) = 0)
<1>1. l.lines \in Seq(LogLine)
  BY DEF Log
<1>2. ASSUME l.file # "there" PROVE Len(l.lines) = 0
  <2>1. l.lines = << >>
    BY <1>2 DEF Log
  <2> QED BY <2>1
<1> QED BY <1>1, <1>2

(* A finding is one, and the moves that were found stay found.              *)
LEMMA TookTypes ==
  ASSUME NEW line \in LogLine, NEW found \in Seq(Finding), NEW then, Took(line, found, then)
  PROVE  /\ then \in Seq(Finding) /\ Left(found) \subseteq Left(then) /\ Left(then) \subseteq Commit
         /\ \A i \in DOMAIN then : \/ i \in DOMAIN found /\ then[i] = found[i]
                                   \/ then[i] = Found(line) /\ Classify(line) # "none"
         /\ Parsed(line) /\ Classify(line) # "none" => line.old \in Left(then) \cup {None}
<1>1. Found(line) \in Finding
  <2>1. Classify(line) \in Rewriting \cup {"forced-update", "none"}
    BY DEF Classify, Rewriting
  <2>2. line.old \in Commit \cup {None} /\ line.new \in Commit \cup {None}
    BY DEF LogLine
  <2> QED BY <2>1, <2>2 DEF Found, Finding
<1>2. \A i \in DOMAIN found : found[i] \in Finding
  OBVIOUS
<1>3. CASE then = found /\ (~Parsed(line) \/ Classify(line) = "none")
  <2>1. Left(found) \subseteq Commit
    BY <1>2 DEF Left, Finding
  <2> QED BY <1>3, <2>1
<1>4. CASE then = Append(found, Found(line)) /\ Classify(line) # "none"
  <2>1. /\ then \in Seq(Finding) /\ DOMAIN found = 1..Len(found) /\ DOMAIN then = 1..(Len(found) + 1)
        /\ \A i \in DOMAIN found : i \in DOMAIN then /\ then[i] = found[i]
        /\ then[Len(found) + 1] = Found(line) /\ Len(found) + 1 \in DOMAIN then
    BY <1>1, <1>4
  <2>2. \A i \in DOMAIN then : then[i] \in Finding
    BY <2>1
  <2>3. \A i \in DOMAIN then : i \in DOMAIN found \/ i = Len(found) + 1
    BY <2>1
  <2>4. Left(found) \subseteq Left(then)
    BY <2>1 DEF Left
  <2>5. Left(then) \subseteq Commit
    BY <2>2 DEF Left, Finding
  <2>6. line.old \in Left(then) \cup {None}
    BY <2>1 DEF Left, Found
  <2>7. \A i \in DOMAIN then : \/ i \in DOMAIN found /\ then[i] = found[i]
                               \/ then[i] = Found(line) /\ Classify(line) # "none"
    BY <1>4, <2>1, <2>3
  <2> QED BY <2>1, <2>4, <2>5, <2>6, <2>7
<1> QED BY <1>3, <1>4 DEF Took

(* A line of a whole log of git's: the values the branch had so far are
   still accounted for once it is read.                                     *)
LEMMA LineAccounted ==
  ASSUME NEW lines \in Seq(LogLine), NEW n \in 1..Len(lines), GitLog(lines), Worded(lines),
         NEW found \in Seq(Finding), NEW then, Took(lines[n], found, then),
         n > 1 => Had(lines, n - 1) \subseteq Accounted(lines, n - 1, found)
  PROVE  Had(lines, n) \subseteq Accounted(lines, n, then)
<1> DEFINE line == lines[n]
           now  == Accounted(lines, n, then)
<1>1. line \in LogLine /\ \A i \in 1..Len(lines) : lines[i] \in LogLine
  OBVIOUS
<1>2. /\ line.new \in Commit /\ line.old \in Commit \cup {None} /\ Parsed(line)
      /\ InItsWords(line) \/ line.old = None \/ line.old \in Above(line.new)
  <2>1. LeavesBehind(line) => InItsWords(line)
    BY DEF Worded
  <2> QED BY <1>1, <2>1 DEF GitLog, LogLine, Parsed, LeavesBehind
<1>3. Left(found) \subseteq Left(then) /\ Left(then) \subseteq Commit
  BY <1>1, TookTypes
<1>4. line.new \in now /\ UNION {Above(c) : c \in Left(found)} \subseteq now
  BY <1>2, <1>3, AboveClosure DEF Accounted
<1>5. ASSUME line.old # None PROVE Above(line.old) \subseteq now
  <2>1. CASE InItsWords(line)
    <3>1. line.old \in Left(then)
      BY <1>1, <1>2, <1>5, <2>1, TookTypes, ClassifyRewriting
    <3> QED BY <3>1 DEF Accounted
  <2>2. CASE line.old \in Above(line.new)
    BY <1>2, <2>2, AboveClosure DEF Accounted
  <2> QED BY <1>2, <1>5, <2>1, <2>2
<1>6. CASE n = 1
  BY <1>2, <1>4, <1>5, <1>6, AboveClosure DEF Had
<1>7. CASE n > 1
  <2>1. line.old = lines[n - 1].new /\ line.old \in Commit
    BY <1>1, <1>7 DEF GitLog, LogLine
  <2>2. Accounted(lines, n - 1, found) \subseteq now
    <3>1. ASSUME NEW x \in Accounted(lines, n - 1, found) PROVE x \in now
      <4>1. x \in Above(lines[n - 1].new) \/ \E c \in Left(found) : x \in Above(c)
        BY <3>1 DEF Accounted
      <4>2. CASE x \in Above(lines[n - 1].new)
        BY <1>5, <2>1, <4>2, ReflogAssumption
      <4>3. CASE \E c \in Left(found) : x \in Above(c)
        BY <1>4, <4>3
      <4> QED BY <4>1, <4>2, <4>3
    <3> QED BY <3>1
  <2>3. Had(lines, n) = Had(lines, n - 1) \cup {line.new}
    BY <1>7 DEF Had
  <2> QED BY <1>4, <1>7, <2>2, <2>3
<1> QED BY <1>6, <1>7

(* A log is opened, and a line of it read.                                  *)
LEMMA NextLineKeeps ==
  ASSUME call = "audit_reflog", LogType, LogDone, LogTold, LogCovered, NextLine
  PROVE  (LogType /\ LogDone /\ LogTold /\ LogCovered)'
<1> DEFINE line == input.lines[pos]
<1>1. /\ input' = input /\ pos' = pos + 1 /\ result' = result /\ result = "pending"
      /\ pos \in 1..Len(input.lines) /\ Took(line, acc, acc')
  BY DEF NextLine, Drop, Advance, Reading, Took, Found, LogType
<1>2. input.lines \in Seq(LogLine) /\ line \in LogLine /\ acc \in Seq(Finding) /\ input \in Log
  <2>1. input.lines \in Seq(LogLine)
    BY LogTypes DEF LogType
  <2> QED BY <1>1, <2>1 DEF LogType
<1>3. acc' \in Seq(Finding)
  BY <1>1, <1>2, TookTypes
<1>4. LogType'
  BY <1>1, <1>2, <1>3 DEF LogType
<1>5. LogDone'
  BY <1>1 DEF LogDone
<1>6. LogTold'
  <2> SUFFICES ASSUME NEW i \in DOMAIN acc'
               PROVE  \E j \in 1..pos : Told(acc'[i], input.lines[j])
    BY <1>1 DEF LogTold
  <2>1. CASE i \in DOMAIN acc /\ acc'[i] = acc[i]
    BY <1>1, <2>1 DEF LogTold
  <2>2. CASE acc'[i] = Found(line) /\ Classify(line) # "none"
    <3>1. Told(acc'[i], line)
      BY <1>2, <2>2, ClassifyRewriting DEF Told, Found
    <3> QED BY <1>1, <3>1
  <2> QED BY <1>1, <1>2, <2>1, <2>2, TookTypes
<1>7. LogCovered'
  <2>1. GitLog(input.lines) /\ Worded(input.lines) =>
          Had(input.lines, pos) \subseteq Accounted(input.lines, pos, acc')
    BY <1>1, <1>2, LineAccounted DEF LogCovered
  <2> QED BY <1>1, <1>2, <2>1 DEF LogCovered
<1> QED BY <1>4, <1>5, <1>6, <1>7

(* The invariant the theorem rests on.                                      *)
LEMMA LogInvariant == Spec => []LogInv
<1>1. ASSUME Init PROVE LogInv
  <2> SUFFICES ASSUME call = "audit_reflog" PROVE LogType /\ LogDone /\ LogTold /\ LogCovered
    BY DEF LogInv
  <2>1. input \in Log /\ pos = 1 /\ acc = << >> /\ result = "pending"
    BY <1>1, ReflogAssumption DEF Init, Begin
  <2>2. Len(input.lines) \in Nat
    BY <2>1, LogTypes
  <2> QED BY <2>1, <2>2 DEF LogType, LogDone, LogTold, LogCovered
<1>2. ASSUME LogInv, [Next]_vars PROVE LogInv'
  <2>1. CASE OpenLog
    <3>1. UNCHANGED <<call, input, pos, acc>> /\ call = "audit_reflog" /\ input.file # "there"
      BY <2>1 DEF OpenLog, Return, ReturnAfter, Reading
    <3>2. pos = Len(input.lines) + 1
      BY <1>2, <3>1, LogTypes DEF LogInv, LogType
    <3> QED BY <1>2, <3>1, <3>2 DEF LogInv, LogType, LogDone, LogTold, LogCovered
  <2>2. CASE NextLine
    <3>1. call = "audit_reflog"
      BY <2>2 DEF NextLine, Reading
    <3> QED BY <1>2, <2>2, <3>1, NextLineKeeps DEF LogInv
  <2>3. CASE LogEnd
    <3>1. UNCHANGED <<call, input, pos, acc>> /\ call = "audit_reflog" /\ pos > Len(input.lines)
      BY <2>3 DEF LogEnd, Return, ReturnAfter, Reading
    <3>2. pos = Len(input.lines) + 1
      BY <1>2, <3>1, LogTypes DEF LogInv, LogType
    <3> QED BY <1>2, <3>1, <3>2 DEF LogInv, LogType, LogDone, LogTold, LogCovered
  <2>4. CASE EntryStep \/ DeltaStep \/ ParseLoose \/ TreeRecord \/ TreeEnd \/ CommitStep
    BY <2>4, OthersKeepCall DEF LogInv
  <2>5. CASE UNCHANGED vars
    BY <1>2, <2>5 DEF vars, LogInv, LogType, LogDone, LogTold, LogCovered
  <2> QED BY <1>2, <2>1, <2>2, <2>3, <2>4, <2>5 DEF Next, ReflogStep, Terminated
<1> QED BY <1>1, <1>2, PTL DEF Spec

(* For every history and every log: a whole log that git wrote, read to its
   end, leaves no value of the branch unaccounted for, if what leaves commits
   behind says so in the words classify_rewrite looks for.  A move is flagged
   only for such words.                                                     *)
THEOREM ResidueAccounted == Spec => []ResidueFlagged
<1>1. ASSUME LogInv PROVE ResidueFlagged
  <2>1. ASSUME Finished("audit_reflog")
        PROVE  /\ LogType /\ LogDone /\ LogTold /\ LogCovered
               /\ Len(input.lines) \in Nat /\ DOMAIN input.lines = 1..Len(input.lines)
    <3>1. LogType /\ LogDone /\ LogTold /\ LogCovered
      BY <1>1, <2>1 DEF Finished, LogInv
    <3>2. input.lines \in Seq(LogLine)
      BY <3>1, LogTypes DEF LogType
    <3> QED BY <3>1, <3>2
  <2>2. SUFFICES ASSUME Finished("audit_reflog"), input.lines # << >>, GitLog(input.lines), result = "ok"
                 PROVE  /\ Worded(input.lines) =>
                             Had(input.lines, Len(input.lines)) \subseteq Accounted(input.lines, Len(input.lines), acc)
                        /\ \A i \in DOMAIN acc : \E j \in DOMAIN input.lines : Told(acc[i], input.lines[j])
    BY <2>1 DEF ResidueFlagged, Had, Accounted, Left, Told, Worded
  <2>3. pos = Len(input.lines) + 1 /\ Len(input.lines) > 0
    <3>1. input.lines \in Seq(LogLine)
      BY <2>1, <2>2, LogTypes DEF LogType
    <3> QED BY <2>1, <2>2, <3>1 DEF LogDone
  <2> QED BY <2>1, <2>2, <2>3 DEF LogTold, LogCovered
<1> QED BY <1>1, LogInvariant, PTL

-----------------------------------------------------------------------------
(* A set of naturals has a least member.                                    *)
LEMMA LeastExists ==
  ASSUME NEW S \in SUBSET Nat, S # {}
  PROVE  \E p \in S : \A q \in S : p <= q
<1> DEFINE R == {ss \in Nat \X Nat : ss[1] < ss[2]}
<1>1. IsWellFoundedOn(R, Nat)
  BY NatLessThanWellFounded, Zenon DEF OpToRel
<1>2. PICK p \in S : \A q \in S : <<q, p>> \notin R
  <2> HIDE DEF R
  <2> QED BY <1>1, WFMin
<1>3. \A q \in S : p <= q
  <2>1. \A m, n \in Nat : m < n => <<m, n>> \in R
    BY Zenon
  <2> HIDE DEF R
  <2>2. p \in Nat /\ \A q \in S : q \in Nat
    OBVIOUS
  <2>3. \A q \in S : ~(q < p)
    BY <1>2, <2>1, <2>2, Zenon
  <2> QED BY <2>2, <2>3
<1> QED BY <1>3

(* A set with 0 and the successor of each of its members is all of Nat.     *)
LEMMA Induction ==
  ASSUME NEW S \in SUBSET Nat, 0 \in S, \A n \in S : n + 1 \in S
  PROVE  S = Nat
<1> SUFFICES ASSUME Nat \ S # {} PROVE FALSE
  OBVIOUS
<1>1. PICK p \in Nat \ S : \A q \in Nat \ S : p <= q
  BY LeastExists
<1>2. p # 0 /\ p - 1 \in Nat
  BY <1>1
<1>3. p - 1 \in S
  BY <1>1, <1>2
<1> QED BY <1>1, <1>3

-----------------------------------------------------------------------------
(* The value at n is the one of base, or comes from the one at down[n].      *)
Rec(f, n, stop, base, down, step) ==
  f[n] = IF n \in stop THEN base[n] ELSE step[<<n, f[down[n]]>>]

(* A function of the naturals whose value at a number is given, or comes
   from its value at a smaller one: there is one.                           *)
LEMMA NatRecursion ==
  ASSUME NEW S, NEW stop, NEW base, NEW down, NEW step,
         \A n \in Nat : n \in stop => base[n] \in S,
         \A n \in Nat : n \notin stop => down[n] \in Nat /\ down[n] < n,
         \A n \in Nat, v \in S : n \notin stop => step[<<n, v>>] \in S
  PROVE  \E f : f \in [Nat -> S] /\ \A n \in Nat : Rec(f, n, stop, base, down, step)
<1> DEFINE Upto(f, m) == f \in [0..m -> S] /\ \A n \in 0..m : Rec(f, n, stop, base, down, step)
           M == {m \in Nat : \E f : Upto(f, m)}
<1>1. ASSUME NEW m \in Nat, NEW k \in Nat, NEW f, NEW g, Upto(f, m), Upto(g, k)
      PROVE  \A n \in Nat : n <= m /\ n <= k => f[n] = g[n]
  <2> DEFINE D == {n \in Nat : n <= m /\ n <= k /\ f[n] # g[n]}
  <2> SUFFICES ASSUME D # {} PROVE FALSE
    OBVIOUS
  <2>1. PICK n \in D : \A p \in D : n <= p
    <3>1. D \in SUBSET Nat
      OBVIOUS
    <3> HIDE DEF D
    <3> QED BY <3>1, LeastExists
  <2>2. n \in 0..m /\ n \in 0..k /\ n \in Nat
    OBVIOUS
  <2>3. Rec(f, n, stop, base, down, step) /\ Rec(g, n, stop, base, down, step)
    BY <1>1, <2>2
  <2>4. n \notin stop => f[down[n]] = g[down[n]]
    <3> SUFFICES ASSUME n \notin stop PROVE f[down[n]] = g[down[n]]
      OBVIOUS
    <3> DEFINE p == down[n]
    <3>1. p \in Nat /\ p < n
      BY <2>2
    <3> HIDE DEF p
    <3>2. p \notin D /\ p <= m /\ p <= k
      BY <2>1, <2>2, <3>1
    <3>3. f[p] = g[p]
      BY <3>1, <3>2
    <3> QED BY <3>3 DEF p
  <2>5. f[n] = g[n]
    BY <2>3, <2>4, Zenon DEF Rec
  <2> QED BY <2>5
<1>2. ASSUME NEW m \in Nat, NEW f \in [0..m -> S]
      PROVE  (IF m + 1 \in stop THEN base[m + 1] ELSE step[<<m + 1, f[down[m + 1]]>>]) \in S
  <2>1. m + 1 \in Nat
    OBVIOUS
  <2>2. m + 1 \notin stop => f[down[m + 1]] \in S
    <3> SUFFICES ASSUME m + 1 \notin stop PROVE f[down[m + 1]] \in S
      OBVIOUS
    <3>1. down[m + 1] \in 0..m
      BY <2>1
    <3> QED BY <3>1
  <2> QED BY <2>1, <2>2
<1>3. 0 \in M
  <2> DEFINE f == [n \in 0..0 |-> base[0]]
  <2>1. 0 \in stop
    OBVIOUS
  <2>2. base[0] \in S
    BY <2>1
  <2>3. f \in [0..0 -> S] /\ f[0] = base[0]
    BY <2>2
  <2> HIDE DEF f
  <2>4. \A n \in 0..0 : n = 0
    OBVIOUS
  <2>5. Upto(f, 0)
    BY <2>1, <2>3, <2>4, Zenon DEF Rec
  <2> QED BY <2>5
<1>4. ASSUME NEW m \in M PROVE m + 1 \in M
  <2>1. m \in Nat /\ m + 1 \in Nat
    OBVIOUS
  <2>2. PICK f : Upto(f, m)
    OBVIOUS
  <2> DEFINE last == IF m + 1 \in stop THEN base[m + 1] ELSE step[<<m + 1, f[down[m + 1]]>>]
             g == [n \in 0..(m + 1) |-> IF n = m + 1 THEN last ELSE f[n]]
  <2>3. last \in S
    BY <1>2, <2>1, <2>2
  <2>4. \A n \in 0..m : n \in 0..(m + 1) /\ n # m + 1 /\ f[n] \in S
    BY <2>1, <2>2
  <2>5. \A n \in 0..(m + 1) : n = m + 1 \/ n \in 0..m
    BY <2>1
  <2>6. /\ g \in [0..(m + 1) -> S] /\ g[m + 1] = last
        /\ \A n \in 0..m : g[n] = f[n]
    <3> HIDE DEF last
    <3>1. m + 1 \in 0..(m + 1)
      BY <2>1
    <3> QED BY <2>3, <2>4, <2>5, <3>1
  <2> HIDE DEF g
  <2>7. ASSUME NEW n \in 0..(m + 1) PROVE Rec(g, n, stop, base, down, step)
    <3>1. n \notin stop => down[n] \in 0..m
      <4>1. n \in Nat /\ n <= m + 1
        BY <2>1
      <4> QED BY <2>1, <4>1
    <3>2. n \notin stop => g[down[n]] = f[down[n]]
      BY <2>6, <3>1
    <3>3. CASE n = m + 1
      BY <2>6, <3>2, <3>3, Zenon DEF Rec
    <3>4. CASE n \in 0..m
      <4>1. Rec(f, n, stop, base, down, step) /\ g[n] = f[n]
        BY <2>2, <2>6, <3>4
      <4> QED BY <3>2, <4>1, Zenon DEF Rec
    <3> QED BY <2>5, <3>3, <3>4
  <2>8. Upto(g, m + 1)
    BY <2>6, <2>7
  <2> QED BY <2>1, <2>8
<1>5. M = Nat
  <2>1. M \in SUBSET Nat
    OBVIOUS
  <2> HIDE DEF M
  <2> QED BY <1>3, <1>4, <2>1, Induction
<1> DEFINE F(m) == CHOOSE f : Upto(f, m)
           G == [n \in Nat |-> F(n)[n]]
<1>6. ASSUME NEW m \in Nat PROVE Upto(F(m), m)
  <2>1. \E f : Upto(f, m)
    BY <1>5
  <2> QED BY <2>1, Zenon
<1> HIDE DEF F
<1>7. \A n \in Nat : G[n] = F(n)[n] /\ n \in 0..n
  OBVIOUS
<1>8. ASSUME NEW n \in Nat PROVE Rec(G, n, stop, base, down, step) /\ G[n] \in S
  <2>1. Upto(F(n), n) /\ n \in 0..n
    BY <1>6
  <2>2. Rec(F(n), n, stop, base, down, step) /\ F(n)[n] \in S
    BY <2>1
  <2>3. ASSUME n \notin stop PROVE G[down[n]] = F(n)[down[n]]
    <3> DEFINE p == down[n]
    <3>1. p \in Nat /\ p < n
      BY <2>3
    <3> HIDE DEF p
    <3>2. Upto(F(p), p) /\ p <= p /\ p <= n
      BY <1>6, <3>1
    <3>3. F(p)[p] = F(n)[p]
      <4>1. \A q \in Nat : q <= p /\ q <= n => F(p)[q] = F(n)[q]
        <5>1. Upto(F(p), p) /\ Upto(F(n), n)
          BY <2>1, <3>2
        <5> HIDE DEF Upto
        <5>2. \A f, g : Upto(f, p) /\ Upto(g, n) => \A q \in Nat : q <= p /\ q <= n => f[q] = g[q]
          BY <1>1, <3>1
        <5> QED BY <5>1, <5>2, Zenon
      <4> QED BY <3>1, <3>2, <4>1
    <3> QED BY <1>7, <3>1, <3>3 DEF p
  <2>4. G[n] = F(n)[n]
    BY <1>7
  <2> HIDE DEF G
  <2> QED BY <2>2, <2>3, <2>4, Zenon DEF Rec
<1>9. G \in [Nat -> S]
  BY <1>7, <1>8
<1> HIDE DEF G
<1> QED BY <1>8, <1>9

-----------------------------------------------------------------------------
(* The first of a kind of byte, if there is any.                            *)
LEMMA FirstAtIs ==
  ASSUME NEW S, NEW s \in Seq(S), NEW from \in Nat \ {0}, NEW b,
         NEW f, f = FirstAt(s, from, b)
  PROVE  \/ f = 0 /\ \A i \in from..Len(s) : s[i] # b
         \/ /\ f \in from..Len(s) /\ s[f] = b
            /\ \A i \in from..(f - 1) : s[i] # b
<1> DEFINE hits == {i \in from..Len(s) : s[i] = b}
<1>1. hits \in SUBSET Nat /\ Len(s) \in Nat
  OBVIOUS
<1>2. CASE hits = {}
  BY <1>2 DEF FirstAt
<1>3. CASE hits # {}
  <2>1. \E i \in hits : \A j \in hits : i <= j
    <3> HIDE DEF hits
    <3> QED BY <1>1, <1>3, LeastExists
  <2>2. f = CHOOSE i \in hits : \A j \in hits : i <= j
    BY <1>3 DEF FirstAt
  <2>3. f \in hits /\ \A j \in hits : f <= j
    BY <2>1, <2>2
  <2>4. \A i \in from..(f - 1) : s[i] # b
    BY <1>1, <2>3
  <2> QED BY <2>3, <2>4
<1> QED BY <1>2, <1>3

(* A part of a sequence.                                                    *)
LEMMA PartIs ==
  ASSUME NEW S, NEW s \in Seq(S), NEW m \in Nat \ {0}, NEW n \in Int, n <= Len(s)
  PROVE  LET p == SubSeq(s, m, n)
             l == IF m <= n THEN n - m + 1 ELSE 0
         IN  /\ p \in Seq(S) /\ Len(p) = l /\ l \in Nat
             /\ \A i \in 1..l : p[i] = s[m + i - 1]
BY SubSeqProperties

-----------------------------------------------------------------------------
(* A part of one.                                                           *)
LEMMA OneIs ==
  ASSUME NEW S, NEW s \in Seq(S), NEW i \in 1..Len(s)
  PROVE  SubSeq(s, i, i) = <<s[i]>>
<1>1. PICK n \in Nat \ {0} : n = i /\ n <= Len(s)
  OBVIOUS
<1>2. s[n] \in S /\ n \in Int
  BY <1>1
<1>3. n <= n /\ n - n + 1 = 1 /\ n + 1 - 1 = n
  BY <1>1
<1> DEFINE p == SubSeq(s, n, n)
<1>4. LET l == IF n <= n THEN n - n + 1 ELSE 0
      IN  /\ p \in Seq(S) /\ Len(p) = l /\ l \in Nat
          /\ \A j \in 1..l : p[j] = s[n + j - 1]
  BY <1>1, <1>2, PartIs
<1> HIDE DEF p
<1>5. p \in Seq(S) /\ Len(p) = 1
  BY ONLY <1>3, <1>4
<1>6. p[1] = s[n]
  BY ONLY <1>3, <1>4
<1>7. <<s[n]>> \in Seq(S) /\ Len(<<s[n]>>) = 1 /\ <<s[n]>>[1] = s[n]
  BY <1>2
<1>8. \A j \in 1..Len(p) : p[j] = <<s[n]>>[j]
  BY ONLY <1>5, <1>6, <1>7
<1>9. p = <<s[n]>>
  BY <1>5, <1>7, <1>8, SeqEqual
<1> QED BY <1>1, <1>9 DEF p

(* What a digit is worth, and the digit that is worth so much.              *)
LEMMA WorthIs ==
  /\ DOMAIN Worth = {"0", "1", "2"} /\ Worth["0"] = 0
  /\ \A d \in DOMAIN Worth : Worth[d] \in 0..2 /\ (Worth[d] = 0 => d = "0")
  /\ \A d, e \in DOMAIN Worth : Worth[d] = Worth[e] => d = e
  /\ \A n \in 0..2 : \E d \in DOMAIN Worth : Worth[d] = n
<1>1. DOMAIN Worth = {"0", "1", "2"} /\ Worth["0"] = 0 /\ Worth["1"] = 1 /\ Worth["2"] = 2
  BY DEF Worth
<1> QED BY <1>1

Unit(n) == CHOOSE d \in DOMAIN Worth : Worth[d] = n % Scale

(* The last digit of a number, and what is before it.                       *)
LEMMA LastDigit ==
  ASSUME NEW n \in Nat
  PROVE  /\ Unit(n) \in DOMAIN Worth /\ Worth[Unit(n)] = n % Scale
         /\ n \div Scale \in Nat /\ n = ((n \div Scale) * Scale) + (n % Scale) /\ n % Scale \in 0..2
         /\ n < Scale => n % Scale = n
         /\ n >= Scale => n \div Scale < n /\ n \div Scale > 0
         /\ \A m \in Nat, d \in 0..2 : n = m * Scale + d => m = n \div Scale /\ d = n % Scale
<1> DEFINE q == n \div Scale
           r == n % Scale
<1>1. q \in Nat /\ r \in 0..2 /\ n = q * 3 + r /\ Scale = 3
  <2>1. n \div 3 \in Nat /\ n % 3 \in 0..2 /\ n = ((n \div 3) * 3) + (n % 3)
    OBVIOUS
  <2> QED BY <2>1 DEF Scale
<1> HIDE DEF q, r
<1>2. n < 3 => r = n
  BY <1>1
<1>3. n >= 3 => q < n /\ q > 0
  BY <1>1
<1>4. \A m \in Nat, d \in 0..2 : n = m * 3 + d => m = q /\ d = r
  BY <1>1
<1>5. Unit(n) \in DOMAIN Worth /\ Worth[Unit(n)] = r
  <2>1. \E d \in DOMAIN Worth : Worth[d] = r
    BY <1>1, WorthIs
  <2> QED BY <2>1, Zenon DEF Unit, r
<1> QED BY <1>1, <1>2, <1>3, <1>4, <1>5 DEF q, r

(* Numeral is what its definition says, for every number.                   *)
LEMMA NumeralIs ==
  \A n \in Nat :
    /\ Numeral[n] \in Seq(DOMAIN Worth)
    /\ Numeral[n] = IF n < Scale THEN <<Unit(n)>> ELSE Numeral[n \div Scale] \o <<Unit(n)>>
<1> DEFINE S == Seq(DOMAIN Worth)
           stop == 0..2
           base == [n \in Nat |-> <<Unit(n)>>]
           down == [n \in Nat |-> n \div Scale]
           step == [p \in Nat \X S |-> p[2] \o <<Unit(p[1])>>]
           Is(f) == f = [n \in Nat |-> IF n < Scale THEN <<Unit(n)>> ELSE f[n \div Scale] \o <<Unit(n)>>]
<1>1. \A n \in Nat : /\ n \in stop <=> n < Scale
                     /\ <<Unit(n)>> \in S /\ n \div Scale \in Nat
                     /\ n \notin stop => n \div Scale < n
  <2> SUFFICES ASSUME NEW n \in Nat
               PROVE  /\ n \in stop <=> n < Scale
                      /\ <<Unit(n)>> \in S /\ n \div Scale \in Nat
                      /\ n \notin stop => n \div Scale < n
    OBVIOUS
  <2>1. Unit(n) \in DOMAIN Worth /\ n \div Scale \in Nat /\ (n >= Scale => n \div Scale < n)
    BY LastDigit
  <2>2. <<Unit(n)>> \in S
    BY <2>1
  <2>3. n \in 0..2 <=> n < Scale
    BY DEF Scale
  <2>4. n < Scale \/ n >= Scale
    BY DEF Scale
  <2> QED BY <2>1, <2>2, <2>3, <2>4
<1>2. \A n \in Nat : base[n] = <<Unit(n)>> /\ base[n] \in S /\ down[n] = n \div Scale
  BY <1>1, Zenon
<1>3. ASSUME NEW n \in Nat, NEW s \in S
      PROVE  step[<<n, s>>] = s \o <<Unit(n)>> /\ step[<<n, s>>] \in S
  <2>1. Unit(n) \in DOMAIN Worth
    BY LastDigit
  <2>2. s \o <<Unit(n)>> \in S
    BY <2>1
  <2>3. <<n, s>> \in Nat \X S /\ <<n, s>>[1] = n /\ <<n, s>>[2] = s
    OBVIOUS
  <2> QED BY <2>2, <2>3, Zenon
<1> HIDE DEF stop, base, down, step, S
<1>4. PICK f : f \in [Nat -> S] /\ \A n \in Nat : Rec(f, n, stop, base, down, step)
  <2>1. \A n \in Nat : n \in stop => base[n] \in S
    BY <1>2
  <2>2. \A n \in Nat : n \notin stop => down[n] \in Nat /\ down[n] < n
    BY <1>1, <1>2
  <2>3. \A n \in Nat, v \in S : step[<<n, v>>] \in S
    BY <1>3, Zenon
  <2> QED BY <2>1, <2>2, <2>3, NatRecursion
<1>5. ASSUME NEW n \in Nat
      PROVE  f[n] = IF n < Scale THEN <<Unit(n)>> ELSE f[n \div Scale] \o <<Unit(n)>>
  <2>1. n \div Scale \in Nat /\ f[n \div Scale] \in S
    BY <1>1, <1>4
  <2>2. Rec(f, n, stop, base, down, step) /\ (n \in stop <=> n < Scale)
    BY <1>1, <1>4
  <2>3. base[n] = <<Unit(n)>> /\ down[n] = n \div Scale
    BY <1>2
  <2>4. step[<<n, f[n \div Scale]>>] = f[n \div Scale] \o <<Unit(n)>>
    BY <1>3, <2>1
  <2> QED BY <2>2, <2>3, <2>4, Zenon DEF Rec
<1>6. Is(f)
  <2>1. f = [n \in Nat |-> f[n]]
    BY <1>4
  <2> QED BY <1>5, <2>1
<1>7. Numeral = CHOOSE g : Is(g)
  BY Zenon DEF Numeral, Unit
<1>8. Is(Numeral)
  BY <1>6, <1>7, Zenon
<1>9. \A n \in Nat : Numeral[n] = IF n < Scale THEN <<Unit(n)>> ELSE Numeral[n \div Scale] \o <<Unit(n)>>
  BY <1>8, Zenon
<1>10. ASSUME NEW n \in Nat PROVE Numeral[n] \in S
  <2> DEFINE D == {m \in Nat : Numeral[m] \notin S}
  <2>1. ASSUME NEW m \in D, \A k \in D : m <= k PROVE FALSE
    <3>1. m \in Nat /\ Numeral[m] \notin S /\ <<Unit(m)>> \in S
      BY <1>1
    <3>2. CASE m < Scale
      <4>1. Numeral[m] = <<Unit(m)>>
        BY <1>9, <3>1, <3>2
      <4> QED BY <3>1, <4>1
    <3>3. CASE ~(m < Scale)
      <4> DEFINE k == m \div Scale
      <4>1. k \in Nat /\ k < m
        BY <1>1, <3>1, <3>3
      <4>2. Numeral[m] = Numeral[k] \o <<Unit(m)>>
        BY <1>9, <3>1, <3>3
      <4> HIDE DEF k
      <4>3. Numeral[k] \in S
        BY <2>1, <4>1
      <4>4. Numeral[k] \o <<Unit(m)>> \in S
        BY <3>1, <4>3 DEF S
      <4> QED BY <3>1, <4>2, <4>4
    <3> QED BY <3>2, <3>3
  <2>2. D \in SUBSET Nat
    OBVIOUS
  <2>3. D = {}
    <3> HIDE DEF D
    <3> QED BY <2>1, <2>2, LeastExists
  <2> QED BY <2>3
<1> QED BY <1>9, <1>10 DEF S

(* The value of the first k digits: f as Value computes it.                 *)
Values(s, f) ==
  /\ f \in [0..Len(s) -> Nat] /\ f[0] = 0
  /\ \A k \in 1..Len(s) : f[k] = f[k - 1] * 3 + Worth[s[k]]

(* There is such a function, and Value is its last value.                   *)
LEMMA ValueIs ==
  ASSUME NEW s \in Seq(DOMAIN Worth)
  PROVE  \E f : Values(s, f) /\ Value(s) = f[Len(s)]
<1> PICK l \in Nat : l = Len(s)
  OBVIOUS
<1> DEFINE d == [k \in Nat |-> IF k \in 1..l THEN Worth[s[k]] ELSE 0]
           stop == {0}
           base == [n \in Nat |-> 0]
           down == [n \in Nat |-> n - 1]
           step == [p \in Nat \X Nat |-> p[2] * 3 + d[p[1]]]
           Is(f) == f = [k \in 0..Len(s) |-> IF k = 0 THEN 0 ELSE f[k - 1] * Scale + Worth[s[k]]]
<1>1. \A k \in Nat : d[k] \in Nat /\ (k \in 1..l => d[k] = Worth[s[k]])
  <2>1. \A k \in 1..l : s[k] \in DOMAIN Worth
    OBVIOUS
  <2>2. \A k \in 1..l : Worth[s[k]] \in Nat
    BY <2>1, WorthIs
  <2> QED BY <2>2
<1> HIDE DEF d
<1>2. \A n \in Nat, v \in Nat : step[<<n, v>>] = v * 3 + d[n] /\ step[<<n, v>>] \in Nat
  BY <1>1
<1>3. \A n \in Nat : base[n] = 0 /\ (n \notin stop => down[n] = n - 1 /\ n - 1 \in Nat /\ n - 1 < n)
  OBVIOUS
<1>4. \A n \in Nat : n \in stop <=> n = 0
  OBVIOUS
<1> HIDE DEF stop, base, down, step
<1>5. PICK g : g \in [Nat -> Nat] /\ \A n \in Nat : Rec(g, n, stop, base, down, step)
  <2> DEFINE S == Nat
  <2>1. \A n \in Nat : n \in stop => base[n] \in S
    BY <1>3
  <2>2. \A n \in Nat : n \notin stop => down[n] \in Nat /\ down[n] < n
    BY <1>3
  <2>3. \A n \in Nat, v \in S : step[<<n, v>>] \in S
    BY <1>2, Zenon DEF S
  <2> HIDE DEF S
  <2>4. \E g : g \in [Nat -> S] /\ \A n \in Nat : Rec(g, n, stop, base, down, step)
    BY <2>1, <2>2, <2>3, NatRecursion
  <2> QED BY <2>4 DEF S
<1> DEFINE f == [k \in 0..l |-> g[k]]
<1>6. g[0] = 0
  BY <1>3, <1>4, <1>5 DEF Rec
<1>7. ASSUME NEW k \in 1..l PROVE g[k] = g[k - 1] * 3 + Worth[s[k]]
  <2>1. k \in Nat /\ k # 0 /\ k - 1 \in Nat
    OBVIOUS
  <2>2. Rec(g, k, stop, base, down, step) /\ k \notin stop /\ down[k] = k - 1 /\ g[k - 1] \in Nat
    BY <1>3, <1>4, <1>5, <2>1
  <2>3. g[k] = step[<<k, g[k - 1]>>]
    BY <2>2 DEF Rec
  <2> QED BY <1>1, <1>2, <2>1, <2>2, <2>3
<1>8. f \in [0..l -> Nat] /\ f[0] = 0 /\ f[l] = g[l]
  BY <1>5, <1>6
<1>9. \A k \in 1..l : f[k] = f[k - 1] * 3 + Worth[s[k]]
  BY <1>7
<1>10. Is(f)
  <2>1. \A k \in 0..l : f[k] = IF k = 0 THEN 0 ELSE f[k - 1] * Scale + Worth[s[k]]
    <3>1. \A k \in 0..l : k # 0 => k \in 1..l
      OBVIOUS
    <3> HIDE DEF f
    <3> QED BY <1>8, <1>9, <3>1 DEF Scale
  <2>2. f = [k \in 0..l |-> f[k]]
    OBVIOUS
  <2> HIDE DEF f
  <2>3. f = [k \in 0..l |-> IF k = 0 THEN 0 ELSE f[k - 1] * Scale + Worth[s[k]]]
    BY <2>1, <2>2
  <2> QED BY <2>3
<1> DEFINE c == CHOOSE h : Is(h)
<1>11. Value(s) = c[Len(s)]
  BY Zenon DEF Value
<1>12. Is(c)
  <2> HIDE DEF f, Is
  <2> QED BY <1>10, Zenon
<1> HIDE DEF c
<1>13. \A k \in 0..l : c[k] = IF k = 0 THEN 0 ELSE c[k - 1] * 3 + Worth[s[k]]
  BY <1>12 DEF Scale
<1>14. c[0] = 0 /\ \A k \in 1..l : c[k] = c[k - 1] * 3 + Worth[s[k]]
  BY <1>13
<1>15. \A k \in Nat : k <= l => c[k] \in Nat
  <2> DEFINE P == {k \in Nat : k <= l => c[k] \in Nat}
  <2>1. 0 \in P
    BY <1>14
  <2>2. ASSUME NEW k \in P PROVE k + 1 \in P
    <3> SUFFICES ASSUME k + 1 <= l PROVE c[k + 1] \in Nat
      OBVIOUS
    <3>1. k \in Nat /\ c[k] \in Nat /\ k + 1 \in 1..l /\ (k + 1) - 1 = k
      OBVIOUS
    <3>2. Worth[s[k + 1]] \in Nat
      BY <1>1, <3>1
    <3>3. c[k + 1] = c[k] * 3 + Worth[s[k + 1]]
      BY <1>14, <3>1
    <3> QED BY <3>1, <3>2, <3>3
  <2>3. P \in SUBSET Nat
    OBVIOUS
  <2>4. P = Nat
    <3> HIDE DEF P
    <3> QED BY <2>1, <2>2, <2>3, Induction
  <2> QED BY <2>4
<1>16. c = [k \in 0..l |-> c[k]]
  <2>1. c = [k \in 0..l |-> IF k = 0 THEN 0 ELSE c[k - 1] * Scale + Worth[s[k]]]
    BY <1>12
  <2> QED BY <2>1
<1>17. c \in [0..l -> Nat]
  BY <1>15, <1>16
<1>18. Values(s, c)
  BY <1>14, <1>17 DEF Values
<1> QED BY <1>11, <1>18

Grown(a, x) == a \o <<x>>

(* The same, one longer, was the same.                                      *)
LEMMA SameLast ==
  ASSUME NEW S, NEW a \in Seq(S), NEW b \in Seq(S), NEW x \in S, NEW y \in S, Grown(a, x) = Grown(b, y)
  PROVE  a = b /\ x = y
<1> DEFINE u == a \o <<x>>
           v == b \o <<y>>
<1>1. /\ u \in Seq(S) /\ Len(u) = Len(a) + 1 /\ u[Len(a) + 1] = x
      /\ \A i \in 1..Len(a) : u[i] = a[i]
  OBVIOUS
<1>2. /\ v \in Seq(S) /\ Len(v) = Len(b) + 1 /\ v[Len(b) + 1] = y
      /\ \A i \in 1..Len(b) : v[i] = b[i]
  OBVIOUS
<1>3. u = v /\ Len(a) \in Nat /\ Len(b) \in Nat
  BY DEF Grown
<1> HIDE DEF u, v
<1>4. Len(a) = Len(b) /\ x = y
  BY <1>1, <1>2, <1>3
<1>5. \A i \in 1..Len(a) : a[i] = b[i]
  BY <1>1, <1>2, <1>3, <1>4
<1> QED BY <1>4, <1>5, SeqEqual

(* A part, one longer.                                                      *)
LEMMA PartLonger ==
  ASSUME NEW S, NEW s \in Seq(S), NEW m \in Nat, NEW k \in Nat, m <= k, k + 1 <= Len(s)
  PROVE  SubSeq(s, m + 1, k + 1) = SubSeq(s, m + 1, k) \o <<s[k + 1]>>
<1>1. /\ m + 1 \in 1..(Len(s) + 1) /\ k \in ((m + 1) - 1)..Len(s) /\ k + 1 \in k..Len(s)
      /\ k + 1 \in 1..Len(s)
  OBVIOUS
<1>2. SubSeq(s, m + 1, k) \o SubSeq(s, k + 1, k + 1) = SubSeq(s, m + 1, k + 1)
  BY <1>1, ConcatAdjacentSubSeq
<1>3. SubSeq(s, k + 1, k + 1) = <<s[k + 1]>>
  BY <1>1, OneIs
<1> QED BY <1>2, <1>3

(* The first k digits are zeros and then a number as it is written.         *)
Zeros(s, z) == \A i \in 1..z : s[i] = "0"
Spelt(s, k, n) == \E z \in 0..k : Zeros(s, z) /\ SubSeq(s, z + 1, k) = Numeral[n]

(* Zeros are worth nothing.                                                 *)
LEMMA ZerosAre ==
  ASSUME NEW s \in Seq(DOMAIN Worth), NEW f, Values(s, f), NEW z \in 0..Len(s), Zeros(s, z)
  PROVE  f[z] = 0
<1> DEFINE P == {k \in Nat : k <= z => f[k] = 0}
<1>1. 0 \in P
  BY DEF Values
<1>2. ASSUME NEW k \in P PROVE k + 1 \in P
  <2> SUFFICES ASSUME k + 1 <= z PROVE f[k + 1] = 0
    OBVIOUS
  <2>1. k + 1 \in 1..Len(s) /\ (k + 1) - 1 = k /\ k + 1 \in 1..z /\ f[k] = 0
    OBVIOUS
  <2>2. s[k + 1] = "0" /\ Worth["0"] = 0
    BY <2>1, WorthIs DEF Zeros
  <2>3. f[k + 1] = f[k] * 3 + Worth[s[k + 1]]
    BY <2>1 DEF Values
  <2> QED BY <2>1, <2>2, <2>3
<1>3. P \in SUBSET Nat
  OBVIOUS
<1>4. P = Nat
  <2> HIDE DEF P
  <2> QED BY <1>1, <1>2, <1>3, Induction
<1> QED BY <1>4

(* The value of one digit more is the number that is spelt then.            *)
LEMMA SpeltMore ==
  ASSUME NEW s \in Seq(DOMAIN Worth), NEW f, Values(s, f), NEW k \in Nat, k + 1 <= Len(s),
         k = 0 \/ \A m \in Nat : Spelt(s, k, m) <=> f[k] = m,
         NEW n \in Nat
  PROVE  Spelt(s, k + 1, n) <=> f[k + 1] = n
<1> DEFINE d == s[k + 1]
<1>1. /\ d \in DOMAIN Worth /\ Worth[d] \in 0..2 /\ f[k] \in Nat /\ f[0] = 0
      /\ f[k + 1] = f[k] * 3 + Worth[d]
  <2>1. k + 1 \in 1..Len(s) /\ k \in 0..Len(s) /\ (k + 1) - 1 = k
    OBVIOUS
  <2>2. d \in DOMAIN Worth
    BY <2>1
  <2> QED BY <2>1, <2>2, WorthIs DEF Values
<1>2. /\ Unit(n) \in DOMAIN Worth /\ Worth[Unit(n)] = n % Scale
      /\ n \div Scale \in Nat /\ n = ((n \div Scale) * 3) + (n % Scale) /\ n % Scale \in 0..2
      /\ n < 3 => n % Scale = n
      /\ n >= 3 => n \div Scale > 0
      /\ \A m \in Nat, e \in 0..2 : n = m * 3 + e => m = n \div Scale /\ e = n % Scale
  BY LastDigit DEF Scale
<1>3. /\ \A m \in Nat : Numeral[m] \in Seq(DOMAIN Worth) /\ Numeral[m] # << >>
      /\ n < 3 => Numeral[n] = << >> \o <<Unit(n)>>
      /\ n >= 3 => Numeral[n] = Numeral[n \div Scale] \o <<Unit(n)>>
  <2>1. ASSUME NEW m \in Nat PROVE Numeral[m] \in Seq(DOMAIN Worth) /\ Numeral[m] # << >>
    <3>1. Unit(m) \in DOMAIN Worth /\ m \div Scale \in Nat
      BY LastDigit
    <3>2. Numeral[m] \in Seq(DOMAIN Worth) /\ Numeral[m \div Scale] \in Seq(DOMAIN Worth)
      BY <3>1, NumeralIs
    <3>3. Numeral[m] = <<Unit(m)>> \/ Numeral[m] = Numeral[m \div Scale] \o <<Unit(m)>>
      BY NumeralIs
    <3> HIDE DEF Numeral
    <3>4. \A q \in Seq(DOMAIN Worth) : q \o <<Unit(m)>> # << >>
      <4> SUFFICES ASSUME NEW q \in Seq(DOMAIN Worth) PROVE q \o <<Unit(m)>> # << >>
        OBVIOUS
      <4>1. Len(q \o <<Unit(m)>>) = Len(q) + 1 /\ Len(q) \in Nat
        BY <3>1
      <4> QED BY <4>1
    <3>5. <<Unit(m)>> # << >>
      OBVIOUS
    <3> QED BY <3>2, <3>3, <3>4, <3>5
  <2>2. n < 3 => Numeral[n] = << >> \o <<Unit(n)>>
    <3>1. n < 3 => Numeral[n] = <<Unit(n)>>
      BY NumeralIs DEF Scale
    <3>2. << >> \o <<Unit(n)>> = <<Unit(n)>>
      BY <1>2
    <3> QED BY <3>1, <3>2
  <2>3. n >= 3 => Numeral[n] = Numeral[n \div Scale] \o <<Unit(n)>>
    <3>1. n >= 3 => ~(n < Scale)
      BY DEF Scale
    <3> QED BY <3>1, NumeralIs
  <2> QED BY <2>1, <2>2, <2>3
<1>4. ASSUME NEW z \in 0..k
      PROVE  /\ SubSeq(s, z + 1, k + 1) = SubSeq(s, z + 1, k) \o <<d>>
             /\ SubSeq(s, z + 1, k) \in Seq(DOMAIN Worth) /\ Len(SubSeq(s, z + 1, k)) = k - z
  <2>1. z \in Nat /\ z <= k /\ z + 1 \in Nat \ {0} /\ k \in Int /\ k <= Len(s)
    OBVIOUS
  <2>2. (IF z + 1 <= k THEN k - (z + 1) + 1 ELSE 0) = k - z
    BY <2>1
  <2>3. SubSeq(s, z + 1, k) \in Seq(DOMAIN Worth)
        /\ Len(SubSeq(s, z + 1, k)) = (IF z + 1 <= k THEN k - (z + 1) + 1 ELSE 0)
    BY <2>1, PartIs
  <2> QED BY <2>1, <2>2, <2>3, PartLonger
<1> HIDE DEF d
<1>5. ASSUME Spelt(s, k + 1, n) PROVE f[k + 1] = n
  <2>1. PICK z \in 0..(k + 1) : Zeros(s, z) /\ SubSeq(s, z + 1, k + 1) = Numeral[n]
    BY <1>5 DEF Spelt
  <2>2. z \in 0..k
    <3>1. ASSUME z = k + 1 PROVE FALSE
      <4>1. SubSeq(s, z + 1, k + 1) = << >>
        <5>1. k + 1 < z + 1
          BY <3>1
        <5> QED BY <5>1, SubSeqEmpty
      <4>2. Numeral[n] # << >>
        BY <1>3
      <4> QED BY <2>1, <4>1, <4>2
    <3> QED BY <3>1
  <2>3. SubSeq(s, z + 1, k) \o <<d>> = Numeral[n]
    BY <1>4, <2>1, <2>2
  <2>4. CASE n < 3
    <3>1. SubSeq(s, z + 1, k) = << >> /\ d = Unit(n)
      <4> DEFINE a == SubSeq(s, z + 1, k)
                 b == << >>
                 x == Unit(n)
      <4>1. a \in Seq(DOMAIN Worth) /\ b \in Seq(DOMAIN Worth) /\ x \in DOMAIN Worth /\ a \o <<d>> = b \o <<x>>
        <5>1. a \in Seq(DOMAIN Worth) /\ b \in Seq(DOMAIN Worth) /\ x \in DOMAIN Worth
          BY <1>2, <1>4, <2>2
        <5>2. Numeral[n] = << >> \o <<Unit(n)>>
          BY <1>3, <2>4
        <5> QED BY <2>3, <5>1, <5>2, Zenon
      <4> HIDE DEF a, b, x
      <4>2. a = b /\ d = x
        <5> DEFINE W == DOMAIN Worth
        <5>1. a \in Seq(W) /\ b \in Seq(W) /\ d \in W /\ x \in W /\ Grown(a, d) = Grown(b, x)
          BY <1>1, <4>1 DEF Grown
        <5> HIDE DEF W
        <5> QED BY ONLY <5>1, SameLast
      <4> QED BY <4>2 DEF a, b, x
    <3>2. Len(SubSeq(s, z + 1, k)) = k - z /\ Len(SubSeq(s, z + 1, k)) = 0
      BY <1>4, <2>2, <3>1
    <3>3. z = k
      BY <2>2, <3>2
    <3>4. f[k] = 0
      <4>1. k \in 0..Len(s) /\ Zeros(s, k)
        BY <2>1, <3>3
      <4> QED BY <4>1, ZerosAre
    <3> QED BY <1>1, <1>2, <2>4, <3>1, <3>4
  <2>5. CASE n >= 3
    <3> DEFINE m == n \div Scale
    <3>1. m \in Nat /\ Numeral[m] \in Seq(DOMAIN Worth) /\ Numeral[n] = Numeral[m] \o <<Unit(n)>>
      BY <1>2, <1>3, <2>5
    <3>2. SubSeq(s, z + 1, k) = Numeral[m] /\ d = Unit(n)
      <4> DEFINE a == SubSeq(s, z + 1, k)
                 b == Numeral[m]
                 x == Unit(n)
      <4>1. a \in Seq(DOMAIN Worth) /\ b \in Seq(DOMAIN Worth) /\ x \in DOMAIN Worth /\ a \o <<d>> = b \o <<x>>
        BY <1>2, <1>4, <2>2, <2>3, <3>1
      <4> HIDE DEF a, b, x
      <4>2. a = b /\ d = x
        <5> DEFINE W == DOMAIN Worth
        <5>1. a \in Seq(W) /\ b \in Seq(W) /\ d \in W /\ x \in W /\ Grown(a, d) = Grown(b, x)
          BY <1>1, <4>1 DEF Grown
        <5> HIDE DEF W
        <5> QED BY ONLY <5>1, SameLast
      <4> QED BY <4>2 DEF a, b, x
    <3>3. k # 0
      <4>1. SubSeq(s, z + 1, k) # << >>
        BY <1>3, <3>1, <3>2
      <4>2. k = 0 => Len(SubSeq(s, z + 1, k)) = 0
        BY <1>4, <2>2
      <4> QED BY <1>4, <2>2, <4>1, <4>2
    <3>4. Spelt(s, k, m)
      BY <2>1, <2>2, <3>2 DEF Spelt
    <3>5. f[k] = m
      BY <3>1, <3>3, <3>4
    <3> QED BY <1>1, <1>2, <3>2, <3>5
  <2> QED BY <2>4, <2>5
<1>6. ASSUME f[k + 1] = n PROVE Spelt(s, k + 1, n)
  <2>1. n \div Scale = f[k] /\ n % Scale = Worth[d] /\ d = Unit(n)
    <3>1. n = f[k] * 3 + Worth[d]
      BY <1>1, <1>6
    <3>2. n \div Scale = f[k] /\ n % Scale = Worth[d]
      BY <1>1, <1>2, <3>1
    <3> QED BY <1>1, <1>2, <3>2, WorthIs
  <2>2. CASE f[k] = 0
    <3>1. Zeros(s, k)
      <4>1. CASE k = 0
        BY <4>1 DEF Zeros
      <4>2. CASE k # 0
        <5>1. Spelt(s, k, 0)
          BY <2>2, <4>2
        <5>2. PICK z \in 0..k : Zeros(s, z) /\ SubSeq(s, z + 1, k) = Numeral[0]
          BY <5>1 DEF Spelt
        <5>3. Numeral[0] = <<"0">>
          <6>1. Numeral[0] = <<Unit(0)>> /\ Unit(0) \in DOMAIN Worth /\ Worth[Unit(0)] = 0
            <7>1. 0 \in Nat /\ 0 < Scale
              BY DEF Scale
            <7> QED BY <7>1, NumeralIs, LastDigit
          <6> QED BY <6>1, WorthIs
        <5>4. k - z = 1
          <6>1. Len(SubSeq(s, z + 1, k)) = k - z /\ Len(<<"0">>) = 1
            BY <1>4
          <6> QED BY <5>2, <5>3, <6>1
        <5>5. SubSeq(s, k, k) = <<"0">> /\ k \in 1..Len(s)
          <6>1. z + 1 = k
            BY <5>4
          <6> QED BY <5>2, <5>3, <6>1
        <5>6. s[k] = "0"
          <6>1. SubSeq(s, k, k) = <<s[k]>>
            BY <5>5, OneIs
          <6> QED BY <5>5, <6>1
        <5>7. \A i \in 1..k : i = k \/ i \in 1..z
          BY <5>4
        <5> QED BY <5>2, <5>6, <5>7 DEF Zeros
      <4> QED BY <4>1, <4>2
    <3>2. SubSeq(s, k + 1, k + 1) = <<s[k + 1]>>
      <4>1. k + 1 \in 1..Len(s)
        OBVIOUS
      <4> QED BY <4>1, OneIs
    <3>3. n < 3
      BY <1>1, <1>6, <2>2
    <3>4. Numeral[n] = <<Unit(n)>>
      BY <3>3, NumeralIs DEF Scale
    <3>5. SubSeq(s, k + 1, k + 1) = Numeral[n] /\ k \in 0..(k + 1)
      BY <2>1, <3>2, <3>4 DEF d
    <3> QED BY <3>1, <3>5 DEF Spelt
  <2>3. CASE f[k] # 0
    <3>1. k # 0 /\ n >= 3
      BY <1>1, <1>6, <2>3
    <3>2. Spelt(s, k, f[k])
      BY <1>1, <3>1
    <3>3. PICK z \in 0..k : Zeros(s, z) /\ SubSeq(s, z + 1, k) = Numeral[f[k]]
      BY <3>2 DEF Spelt
    <3>4. SubSeq(s, z + 1, k + 1) = Numeral[n]
      BY <1>3, <1>4, <2>1, <3>1, <3>3
    <3>5. z \in 0..(k + 1)
      OBVIOUS
    <3> QED BY <3>3, <3>4, <3>5 DEF Spelt
  <2> QED BY <2>2, <2>3
<1> QED BY <1>5, <1>6

(* Digits, however many, are worth the number they spell.                   *)
LEMMA SpeltIs ==
  ASSUME NEW s \in Seq(DOMAIN Worth), s # << >>, NEW n \in Nat
  PROVE  Value(s) \in Nat /\ (Spelt(s, Len(s), n) <=> Value(s) = n)
<1>1. PICK f : Values(s, f) /\ Value(s) = f[Len(s)]
  BY ValueIs
<1> DEFINE P == {k \in Nat : k + 1 <= Len(s) => \A m \in Nat : Spelt(s, k + 1, m) <=> f[k + 1] = m}
<1>2. 0 \in P
  <2> SUFFICES ASSUME 0 + 1 <= Len(s), NEW m \in Nat PROVE Spelt(s, 0 + 1, m) <=> f[0 + 1] = m
    OBVIOUS
  <2> DEFINE k == 0
  <2>1. k = 0 /\ k \in Nat /\ k + 1 <= Len(s)
    OBVIOUS
  <2> HIDE DEF k
  <2>2. Spelt(s, k + 1, m) <=> f[k + 1] = m
    BY <1>1, <2>1, SpeltMore
  <2> QED BY <2>1, <2>2
<1>3. ASSUME NEW k \in P PROVE k + 1 \in P
  <2> SUFFICES ASSUME k + 1 + 1 <= Len(s), NEW m \in Nat PROVE Spelt(s, k + 1 + 1, m) <=> f[k + 1 + 1] = m
    OBVIOUS
  <2> DEFINE h == k + 1
  <2>1. h \in Nat /\ h + 1 <= Len(s) /\ \A j \in Nat : Spelt(s, h, j) <=> f[h] = j
    BY <1>3
  <2> HIDE DEF h
  <2>2. Spelt(s, h + 1, m) <=> f[h + 1] = m
    BY <1>1, <2>1, SpeltMore
  <2> QED BY <2>2 DEF h
<1>4. P \in SUBSET Nat
  OBVIOUS
<1>5. P = Nat
  <2> HIDE DEF P
  <2> QED BY <1>2, <1>3, <1>4, Induction
<1>6. PICK k \in Nat : k + 1 = Len(s)
  <2>1. Len(s) \in Nat /\ Len(s) # 0
    OBVIOUS
  <2>2. Len(s) - 1 \in Nat /\ (Len(s) - 1) + 1 = Len(s)
    BY <2>1
  <2> QED BY <2>2
<1>7. f[Len(s)] \in Nat
  <2>1. Len(s) \in 0..Len(s)
    OBVIOUS
  <2> QED BY <1>1, <2>1 DEF Values
<1>8. Spelt(s, Len(s), n) <=> f[Len(s)] = n
  <2>1. k \in P /\ k + 1 <= Len(s)
    <3> HIDE DEF P
    <3> QED BY <1>5, <1>6
  <2>2. Spelt(s, k + 1, n) <=> f[k + 1] = n
    BY <2>1
  <2> QED BY <1>6, <2>2
<1> QED BY <1>1, <1>7, <1>8

(* What is read as a number is one that is spelt there and fits, if there is
   one; and it is spelt in digits, with a plus sign before them or not.     *)
LEMMA NumberIs ==
  ASSUME NEW S, NEW s \in Seq(S), NEW word \in Nat
  PROVE  /\ \A n \in Nat : Number(s, word) = <<n>> <=> n < word /\ Spells(s, n)
         /\ Number(s, word) # << >> => Number(s, word)[1] \in 0..(word - 1) /\ Number(s, word) = <<Number(s, word)[1]>>
         /\ \A n \in Nat : Spells(s, n) => s # << >> /\ \A i \in 1..Len(s) : s[i] \in {"plus"} \cup DOMAIN Worth
<1> DEFINE t == Figures(s)
<1>1. /\ t \in Seq(S)
      /\ s = t \/ /\ s # << >> /\ s[1] = "plus" /\ Len(s) = Len(t) + 1
                  /\ \A i \in 2..Len(s) : s[i] = t[i - 1] /\ i - 1 \in 1..Len(t)
  <2>1. CASE s # << >> /\ s[1] = "plus"
    <3>1. t = Tail(s)
      BY <2>1 DEF Figures
    <3>2. t \in Seq(S) /\ Len(t) = Len(s) - 1 /\ Len(s) \in Nat \ {0}
          /\ \A i \in 1..(Len(s) - 1) : t[i] = s[i + 1]
      BY <2>1, <3>1, HeadTailProperties
    <3> HIDE DEF t
    <3>3. ASSUME NEW i \in 2..Len(s) PROVE s[i] = t[i - 1] /\ i - 1 \in 1..Len(t)
      <4>1. i - 1 \in 1..(Len(s) - 1) /\ (i - 1) + 1 = i
        BY <3>2
      <4> QED BY <3>2, <4>1
    <3>4. Len(s) = Len(t) + 1
      BY <3>2
    <3> QED BY <2>1, <3>2, <3>3, <3>4
  <2>2. CASE ~(s # << >> /\ s[1] = "plus")
    BY <2>2 DEF Figures
  <2> QED BY <2>1, <2>2
<1>2. \A n \in Nat : Spells(s, n) <=> Spelt(t, Len(t), n)
  BY Zenon DEF Spells, Spelt, Zeros
<1>3. Number(s, word) = IF t = << >> \/ (\E i \in DOMAIN t : t[i] \notin DOMAIN Worth) \/ Value(t) >= word
                        THEN << >> ELSE <<Value(t)>>
  BY Zenon DEF Number
<1> HIDE DEF t
<1>4. ASSUME NEW n \in Nat, Spells(s, n)
      PROVE  t # << >> /\ \A i \in DOMAIN t : t[i] \in DOMAIN Worth
  <2>1. PICK z \in 0..Len(t) : Zeros(t, z) /\ SubSeq(t, z + 1, Len(t)) = Numeral[n]
    BY <1>2, <1>4 DEF Spelt
  <2>2. Numeral[n] \in Seq(DOMAIN Worth) /\ Numeral[n] # << >>
    <3>1. Numeral[n] \in Seq(DOMAIN Worth) /\ Unit(n) \in DOMAIN Worth /\ n \div Scale \in Nat
      BY NumeralIs, LastDigit
    <3>2. CASE Numeral[n] = <<Unit(n)>>
      BY <3>1, <3>2
    <3>3. CASE Numeral[n] = Numeral[n \div Scale] \o <<Unit(n)>>
      <4>1. Numeral[n \div Scale] \in Seq(DOMAIN Worth)
        BY <3>1, NumeralIs
      <4> DEFINE q == Numeral[n \div Scale]
      <4> HIDE DEF q
      <4>2. Len(q \o <<Unit(n)>>) = Len(q) + 1 /\ Len(q) \in Nat
        BY <3>1, <4>1 DEF q
      <4>3. q \o <<Unit(n)>> # << >>
        BY <4>2
      <4> QED BY <3>1, <3>3, <4>3 DEF q
    <3> QED BY <3>2, <3>3, NumeralIs
  <2> PICK l \in Nat : l = Len(t)
    BY <1>1
  <2>3. /\ Len(Numeral[n]) = (IF z + 1 <= l THEN l - (z + 1) + 1 ELSE 0)
        /\ \A j \in 1..Len(Numeral[n]) : Numeral[n][j] = t[z + 1 + j - 1]
    <3>1. z + 1 \in Nat \ {0} /\ l \in Int /\ l <= Len(t) /\ SubSeq(t, z + 1, l) = Numeral[n]
      BY <2>1
    <3> QED BY <1>1, <3>1, PartIs
  <2>4. z < l
    <3>1. Len(Numeral[n]) # 0
      BY <2>2
    <3> QED BY <2>3, <3>1
  <2>5. ASSUME NEW i \in 1..l PROVE t[i] \in DOMAIN Worth
    <3>1. CASE i <= z
      <4>1. t[i] = "0"
        BY <2>1, <3>1 DEF Zeros
      <4> QED BY <4>1, WorthIs
    <3>2. CASE i > z
      <4>1. i - z \in 1..Len(Numeral[n]) /\ z + 1 + (i - z) - 1 = i
        BY <2>3, <2>4, <3>2
      <4>2. Numeral[n][i - z] = t[z + 1 + (i - z) - 1]
        BY <2>3, <4>1
      <4>3. Numeral[n][i - z] \in DOMAIN Worth
        BY <2>2, <4>1
      <4> QED BY <4>1, <4>2, <4>3
    <3> QED BY <3>1, <3>2
  <2>6. DOMAIN t = 1..l /\ t # << >>
    BY <1>1, <2>4
  <2> QED BY <2>5, <2>6
<1>5. ASSUME t # << >>, \A i \in DOMAIN t : t[i] \in DOMAIN Worth
      PROVE  Value(t) \in Nat /\ \A n \in Nat : Spells(s, n) <=> Value(t) = n
  <2>1. t \in Seq(DOMAIN Worth)
    <3>1. Len(t) \in Nat /\ t = [i \in 1..Len(t) |-> t[i]] /\ \A i \in 1..Len(t) : t[i] \in DOMAIN Worth
      BY <1>1, <1>5
    <3> HIDE DEF Worth
    <3> QED BY <3>1
  <2> QED BY <1>2, <1>5, <2>1, SpeltIs
<1>6. ASSUME NEW n \in Nat PROVE Number(s, word) = <<n>> <=> n < word /\ Spells(s, n)
  <2>1. CASE t = << >> \/ \E i \in DOMAIN t : t[i] \notin DOMAIN Worth
    <3>1. Number(s, word) = << >> /\ ~Spells(s, n)
      BY <1>3, <1>4, <2>1
    <3> QED BY <3>1
  <2>2. CASE ~(t = << >> \/ \E i \in DOMAIN t : t[i] \notin DOMAIN Worth)
    <3>1. Value(t) \in Nat /\ (Spells(s, n) <=> Value(t) = n)
      BY <1>5, <2>2
    <3>2. Number(s, word) = IF Value(t) >= word THEN << >> ELSE <<Value(t)>>
      BY <1>3, <2>2
    <3> DEFINE v == Value(t)
    <3> HIDE DEF v
    <3>3. <<v>> = <<n>> <=> v = n
      OBVIOUS
    <3>4. << >> # <<n>>
      OBVIOUS
    <3>5. v >= word <=> ~(v < word)
      BY <3>1 DEF v
    <3> QED BY <3>1, <3>2, <3>3, <3>4, <3>5 DEF v
  <2> QED BY <2>1, <2>2
<1>7. Number(s, word) # << >> => Number(s, word)[1] \in 0..(word - 1) /\ Number(s, word) = <<Number(s, word)[1]>>
  <2> SUFFICES ASSUME Number(s, word) # << >>
               PROVE  Number(s, word)[1] \in 0..(word - 1) /\ Number(s, word) = <<Number(s, word)[1]>>
    OBVIOUS
  <2>1. /\ t # << >> /\ (\A i \in DOMAIN t : t[i] \in DOMAIN Worth) /\ ~(Value(t) >= word)
        /\ Number(s, word) = <<Value(t)>>
    BY <1>3
  <2>2. Value(t) \in Nat
    BY <1>5, <2>1
  <2> QED BY <2>1, <2>2
<1>8. ASSUME NEW n \in Nat, Spells(s, n)
      PROVE  s # << >> /\ \A i \in 1..Len(s) : s[i] \in {"plus"} \cup DOMAIN Worth
  <2>1. t # << >> /\ \A i \in DOMAIN t : t[i] \in DOMAIN Worth
    BY <1>4, <1>8
  <2>2. \A i \in 1..Len(t) : t[i] \in DOMAIN Worth
    BY <1>1, <2>1
  <2>3. CASE s = t
    BY <2>1, <2>2, <2>3
  <2>4. CASE ~(s = t)
    <3>1. \A i \in 1..Len(s) : i = 1 \/ i \in 2..Len(s)
      OBVIOUS
    <3> QED BY <1>1, <2>2, <2>4, <3>1
  <2> QED BY <2>3, <2>4
<1> QED BY <1>6, <1>7, <1>8

(* What decompress_and_parse makes of what it has inflated.                 *)
LooseHead(data) == SubSeq(data, 1, HeaderEnd(data) - 1)
LooseSpace(data) == FirstAt(LooseHead(data), 1, "space")
LooseSize(data) == SubSeq(LooseHead(data), LooseSpace(data) + 1, Len(LooseHead(data)))
LooseBody(data) == SubSeq(data, HeaderEnd(data) + 1, Len(data))
WellFormed(data) ==
  /\ HeaderEnd(data) # 0 /\ FirstAt(LooseHead(data), 1, "raw") = 0 /\ LooseSpace(data) # 0
  /\ SubSeq(LooseHead(data), 1, LooseSpace(data) - 1) = <<"kind">>
  /\ Number(LooseSize(data), SizeWord) = <<Len(LooseBody(data))>>

(* What comes before an object's data, up to a NUL, as Objects has it.      *)
Framed(data, nul) ==
  /\ data[1] = "kind" /\ data[2] = "space" /\ data[nul] = "nul"
  /\ Spells(SubSeq(data, 3, nul - 1), Len(data) - nul)

(* A file whose header can be read is framed at its first NUL, and one that
   is framed at some NUL has a header that can be read, and it ends there.   *)
LEMMA WellFormedIs ==
  ASSUME NEW data \in Seq(LooseByte), Len(data) < SizeWord
  PROVE  /\ WellFormed(data) => HeaderEnd(data) \in 3..Len(data) /\ Framed(data, HeaderEnd(data))
         /\ \A end \in 3..Len(data) : Framed(data, end) => WellFormed(data) /\ end = HeaderEnd(data)
<1> DEFINE nul == HeaderEnd(data)
           head == LooseHead(data)
           space == LooseSpace(data)
           size == LooseSize(data)
<1> PICK l \in Nat : l = Len(data)
  OBVIOUS
<1>1. \/ nul = 0 /\ \A i \in 1..l : data[i] # "nul"
      \/ /\ nul \in 1..l /\ data[nul] = "nul"
         /\ \A i \in 1..(nul - 1) : data[i] # "nul"
  BY FirstAtIs DEF HeaderEnd
<1>2. ASSUME nul # 0
      PROVE  /\ head \in Seq(LooseByte) /\ Len(head) = nul - 1
             /\ \A i \in 1..Len(head) : head[i] = data[i]
             /\ \/ space = 0 /\ \A i \in 1..Len(head) : head[i] # "space"
                \/ /\ space \in 1..Len(head) /\ head[space] = "space"
                   /\ \A i \in 1..(space - 1) : head[i] # "space"
  <2>1. head \in Seq(LooseByte) /\ Len(head) = nul - 1 /\ \A i \in 1..Len(head) : head[i] = data[i]
    <3> HIDE DEF nul
    <3>1. nul - 1 \in Nat /\ nul - 1 <= Len(data) /\ head = SubSeq(data, 1, nul - 1)
      BY <1>1, <1>2 DEF LooseHead, nul
    <3> QED BY <3>1, PartIs
  <2> HIDE DEF nul, head
  <2>2. space = FirstAt(head, 1, "space")
    BY DEF LooseSpace, head
  <2> QED BY <2>1, <2>2, FirstAtIs
<1>3. ASSUME nul # 0, space # 0
      PROVE  /\ Len(SubSeq(head, 1, space - 1)) = space - 1
             /\ \A i \in 1..(space - 1) : SubSeq(head, 1, space - 1)[i] = head[i]
             /\ Len(LooseBody(data)) = l - nul
  <2>1. Len(LooseBody(data)) = l - nul
    <3> HIDE DEF nul
    <3>1. LooseBody(data) = SubSeq(data, nul + 1, Len(data)) /\ nul \in 1..l
      BY <1>1, <1>3 DEF LooseBody, nul
    <3> QED BY <3>1, PartIs
  <2> HIDE DEF head, space, nul
  <2>2. head \in Seq(LooseByte) /\ space \in 1..Len(head)
    BY <1>2, <1>3
  <2> QED BY <2>1, <2>2, PartIs
<1>4. ASSUME nul # 0, nul >= 3, space = 2
      PROVE  size = SubSeq(data, 3, nul - 1) /\ size \in Seq(LooseByte)
  <2> DEFINE s == SubSeq(data, 3, nul - 1)
  <2>1. /\ head \in Seq(LooseByte) /\ Len(head) = nul - 1 /\ \A i \in 1..(nul - 1) : head[i] = data[i]
        /\ nul \in 1..l
    BY <1>1, <1>2, <1>4
  <2>2. size = SubSeq(head, 3, nul - 1)
    BY <1>4, <2>1 DEF LooseSize
  <2> HIDE DEF nul, head, size, space
  <2>3. nul - 1 \in Int /\ nul - 1 <= Len(head) /\ nul - 1 <= Len(data) /\ 3 \in Nat \ {0}
    BY <2>1
  <2> PICK k \in Nat : k = nul - 3
    BY <1>4, <2>1
  <2>4. k = IF 3 <= nul - 1 THEN (nul - 1) - 3 + 1 ELSE 0
    BY <1>4, <2>1
  <2>5. size \in Seq(LooseByte) /\ Len(size) = k /\ \A i \in 1..k : size[i] = head[3 + i - 1]
    BY <2>1, <2>2, <2>3, <2>4, PartIs
  <2>6. s \in Seq(LooseByte) /\ Len(s) = k /\ \A i \in 1..k : s[i] = data[3 + i - 1]
    <3>1. s = SubSeq(data, 3, nul - 1)
      OBVIOUS
    <3> HIDE DEF s
    <3> QED BY <2>3, <2>4, <3>1, PartIs
  <2>7. \A i \in 1..k : 3 + i - 1 \in 1..(nul - 1)
    BY <2>1
  <2> HIDE DEF s
  <2>8. \A i \in 1..k : size[i] = s[i]
    BY <2>1, <2>5, <2>6, <2>7
  <2>9. size = s
    BY <2>5, <2>6, <2>8, SeqEqual
  <2> QED BY <2>5, <2>9 DEF s
<1> HIDE DEF nul, head, space, size
<1>5. SizeWord \in Nat
  BY ObjectParseAssumption
<1>6. ASSUME WellFormed(data) PROVE nul \in 3..l /\ Framed(data, nul)
  <2>1. /\ nul # 0 /\ space # 0 /\ SubSeq(head, 1, space - 1) = <<"kind">>
        /\ Number(size, SizeWord) = <<Len(LooseBody(data))>>
    BY <1>6 DEF WellFormed, nul, head, space, size
  <2>2. space = 2 /\ head[1] = "kind"
    <3> DEFINE kind == SubSeq(head, 1, space - 1)
    <3>1. Len(kind) = 1 /\ kind[1] = "kind"
      <4>1. kind = <<"kind">>
        BY <2>1
      <4> HIDE DEF kind
      <4> QED BY <4>1
    <3>2. space \in 1..Len(head) /\ Len(head) \in Nat
      BY <1>2, <2>1
    <3>3. space = 2
      BY <1>3, <2>1, <3>1, <3>2
    <3> QED BY <1>3, <2>1, <3>1, <3>3
  <2>3. nul \in 3..l /\ data[1] = "kind" /\ data[2] = "space" /\ data[nul] = "nul"
    <3>1. nul \in 1..l /\ data[nul] = "nul" /\ Len(head) = nul - 1 /\ space \in 1..Len(head) /\ head[space] = "space"
      BY <1>1, <1>2, <2>1
    <3>2. nul >= 3
      BY <2>2, <3>1
    <3>3. head[1] = data[1] /\ head[2] = data[2]
      BY <1>2, <2>1, <3>1, <3>2
    <3> QED BY <2>2, <3>1, <3>2, <3>3
  <2>4. Spells(SubSeq(data, 3, nul - 1), l - nul)
    <3>1. size = SubSeq(data, 3, nul - 1) /\ size \in Seq(LooseByte)
      BY <1>4, <2>1, <2>2, <2>3
    <3>2. Len(LooseBody(data)) = l - nul /\ l - nul \in Nat
      BY <1>3, <2>1, <2>3
    <3>3. Spells(size, l - nul)
      BY <1>5, <2>1, <3>1, <3>2, NumberIs
    <3> QED BY <3>1, <3>3
  <2> QED BY <2>3, <2>4 DEF Framed
<1>7. ASSUME NEW end \in 3..l, Framed(data, end) PROVE WellFormed(data) /\ end = nul
  <2> DEFINE s == SubSeq(data, 3, end - 1)
  <2>1. data[1] = "kind" /\ data[2] = "space" /\ data[end] = "nul" /\ Spells(s, l - end)
    BY <1>7 DEF Framed
  <2> PICK k \in Nat : k = end - 3
    OBVIOUS
  <2>2. s \in Seq(LooseByte) /\ Len(s) = k /\ \A i \in 1..k : s[i] = data[3 + i - 1]
    <3>1. s = SubSeq(data, 3, end - 1) /\ end - 1 \in Int /\ end - 1 <= Len(data)
          /\ k = IF 3 <= end - 1 THEN (end - 1) - 3 + 1 ELSE 0
      OBVIOUS
    <3> HIDE DEF s
    <3> QED BY <3>1, PartIs
  <2> HIDE DEF s
  <2>3. l - end \in Nat /\ k # 0 /\ \A i \in 1..k : s[i] \in {"plus"} \cup DOMAIN Worth
    <3>1. l - end \in Nat
      OBVIOUS
    <3>2. s # << >> /\ \A i \in 1..Len(s) : s[i] \in {"plus"} \cup DOMAIN Worth
      BY <1>5, <2>1, <2>2, <3>1, NumberIs
    <3> QED BY <2>2, <3>1, <3>2
  <2>4. \A i \in 3..(end - 1) : data[i] # "nul" /\ data[i] # "raw" /\ data[i] # "space"
    <3> SUFFICES ASSUME NEW i \in 3..(end - 1)
                 PROVE  data[i] # "nul" /\ data[i] # "raw" /\ data[i] # "space"
      OBVIOUS
    <3>1. i - 2 \in 1..k /\ 3 + (i - 2) - 1 = i
      OBVIOUS
    <3>2. s[i - 2] = data[i] /\ s[i - 2] \in {"plus"} \cup DOMAIN Worth
      BY <2>2, <2>3, <3>1
    <3>3. DOMAIN Worth = {"0", "1", "2"}
      BY WorthIs
    <3> QED BY <3>2, <3>3
  <2>5. \A i \in 1..(end - 1) : i = 1 \/ i = 2 \/ i \in 3..(end - 1)
    OBVIOUS
  <2>6. \A i \in 1..(end - 1) : data[i] # "nul" /\ data[i] # "raw"
    BY <2>1, <2>4, <2>5
  <2>7. nul = end
    <3>1. nul # 0
      BY <1>1, <2>1
    <3>2. ~(nul < end)
      BY <1>1, <2>6, <3>1
    <3>3. ~(end < nul)
      BY <1>1, <2>1, <3>1
    <3> QED BY <1>1, <3>1, <3>2, <3>3
  <2>8. nul # 0 /\ nul >= 3 /\ nul \in 3..l
    BY <2>7
  <2>9. Len(head) = nul - 1 /\ head \in Seq(LooseByte) /\ \A i \in 1..(nul - 1) : head[i] = data[i]
    BY <1>2, <2>8
  <2>10. head[1] = "kind" /\ head[2] = "space"
    BY <2>1, <2>8, <2>9
  <2>11. space = 2
    <3>1. space # 0
      BY <1>2, <2>8, <2>9, <2>10
    <3>2. space \in 1..Len(head) /\ head[space] = "space" /\ \A i \in 1..(space - 1) : head[i] # "space"
      BY <1>2, <2>8, <3>1
    <3>3. space # 1
      BY <2>10, <3>2
    <3>4. ~(2 < space)
      BY <2>10, <3>2
    <3> QED BY <2>9, <3>2, <3>3, <3>4
  <2>12. FirstAt(head, 1, "raw") = 0
    <3>1. \A i \in 1..Len(head) : head[i] # "raw"
      BY <2>6, <2>7, <2>9
    <3> QED BY <2>9, <3>1, FirstAtIs
  <2>13. SubSeq(head, 1, space - 1) = <<"kind">>
    <3>1. SubSeq(head, 1, 1) = <<head[1]>>
      <4>1. 1 \in 1..Len(head)
        BY <2>8, <2>9
      <4> QED BY <2>9, <4>1, OneIs
    <3> QED BY <2>10, <2>11, <3>1
  <2>14. Number(size, SizeWord) = <<Len(LooseBody(data))>>
    <3>1. size = s
      BY <1>4, <2>7, <2>8, <2>11 DEF s
    <3>2. Len(LooseBody(data)) = l - end
      BY <1>3, <2>7, <2>8, <2>11
    <3>3. l - end < SizeWord
      BY <1>5
    <3>4. Number(s, SizeWord) = <<l - end>>
      BY <1>5, <2>1, <2>2, <2>3, <3>3, NumberIs
    <3> QED BY <3>1, <3>2, <3>4
  <2> QED BY <2>7, <2>8, <2>11, <2>12, <2>13, <2>14 DEF WellFormed, nul, head, space, size
<1> QED BY <1>6, <1>7 DEF nul

(* What can be read as an object is the one whose header can be read.       *)
LEMMA ObjectsAre ==
  ASSUME NEW data \in Seq(LooseByte), Len(data) < SizeWord
  PROVE  Objects(data) = IF WellFormed(data) THEN {LooseBody(data)} ELSE {}
<1> DEFINE N == {n \in 3..Len(data) : Framed(data, n)}
<1>1. Objects(data) = {SubSeq(data, n + 1, Len(data)) : n \in N}
  <2>1. N = {n \in 3..Len(data) : /\ data[1] = "kind" /\ data[2] = "space" /\ data[n] = "nul"
                                  /\ Spells(SubSeq(data, 3, n - 1), Len(data) - n)}
    BY Zenon DEF Framed
  <2> HIDE DEF N
  <2> QED BY <2>1, Zenon DEF Objects
<1>2. N = IF WellFormed(data) THEN {HeaderEnd(data)} ELSE {}
  BY WellFormedIs
<1> HIDE DEF N
<1> QED BY <1>1, <1>2 DEF LooseBody

(* A call that reads a loose file keeps it, and one that has answered has
   answered right.                                                          *)
LooseInv == (call = "loose" => input \in Loose) /\ LooseExact

(* The other decoders do not read loose files.                              *)
LEMMA OthersLeaveLoose ==
  ASSUME EntryStep \/ DeltaStep \/ TreeRecord \/ TreeEnd \/ CommitStep \/ ReflogStep
  PROVE  call # "loose" /\ call' = call
<1>1. CASE EntryStep
  BY <1>1 DEF EntryStep, FirstByte, SizeByte, OfsByte, Base, Name, Inflate, Advance, Return, Reading
<1>2. CASE DeltaStep
  BY <1>2 DEF DeltaStep, DeltaSize, Copy, Insert, Refuse, Advance, Return, Reading
<1>3. CASE TreeRecord \/ TreeEnd
  BY <1>3 DEF TreeRecord, TreeEnd, Advance, Return, Reading
<1>4. CASE CommitStep
  BY <1>4 DEF CommitStep, HeaderLine, Message, Advance, Return, ReturnAfter, Reading
<1>5. CASE ReflogStep
  BY <1>5 DEF ReflogStep, OpenLog, NextLine, LogEnd, Drop, Advance, Return, Reading
<1> QED BY <1>1, <1>2, <1>3, <1>4, <1>5

(* What is read of a file, up to the limit.                                 *)
Seen(f) == SubSeq(f.content, 1, Min({MaxLoose, Len(f.content)}))

(* What is read of a file is bytes, no more than the limit.                 *)
LEMMA SeenIs ==
  ASSUME NEW f \in Loose
  PROVE  Seen(f) \in Seq(LooseByte) /\ Len(Seen(f)) < SizeWord
<1> DEFINE n == Min({MaxLoose, Len(f.content)})
<1>1. f.content \in Seq(LooseByte) /\ Len(f.content) \in Nat /\ MaxLoose \in Nat
      /\ SizeWord \in Nat /\ MaxLoose < SizeWord
  BY ObjectParseAssumption
<1>2. n \in Nat /\ n <= Len(f.content) /\ n <= MaxLoose
  <2>1. \E m \in {MaxLoose, Len(f.content)} : \A y \in {MaxLoose, Len(f.content)} : m <= y
    BY <1>1
  <2>2. n \in {MaxLoose, Len(f.content)} /\ \A y \in {MaxLoose, Len(f.content)} : n <= y
    BY <2>1 DEF Min
  <2> QED BY <1>1, <2>2
<1> HIDE DEF n
<1> DEFINE p == SubSeq(f.content, 1, n)
<1>3. p \in Seq(LooseByte) /\ Len(p) = (IF 1 <= n THEN n - 1 + 1 ELSE 0)
  BY <1>1, <1>2, PartIs
<1> HIDE DEF p
<1>4. Len(p) = n
  BY <1>2, <1>3
<1>5. p \in Seq(LooseByte) /\ Len(p) < SizeWord
  BY <1>1, <1>2, <1>3, <1>4
<1> QED BY <1>5 DEF Seen, n, p

(* decompress_and_parse answers right: for whatever the file inflates to.   *)
LEMMA ParseLooseKeeps ==
  ASSUME LooseInv, ParseLoose
  PROVE  LooseInv'
<1> DEFINE data == SubSeq(input.content, 1, Min({MaxLoose, Len(input.content)}))
<1>1. /\ call = "loose" /\ input \in Loose /\ call' = call /\ input' = input
      /\ input.content \in Seq(LooseByte)
  <2>1. call = "loose" /\ input \in Loose /\ call' = call /\ input' = input
    BY DEF LooseInv, ParseLoose, Reading, Return, ReturnAfter
  <2> QED BY <2>1, ObjectParseAssumption
<1>2. data \in Seq(LooseByte) /\ Len(data) < SizeWord
  BY <1>1, SeenIs DEF Seen
<1> HIDE DEF data
<1>3. \/ ~(input.zlib /\ WellFormed(data)) /\ result' = "invalid"
      \/ /\ input.zlib /\ WellFormed(data) /\ result' = "ok"
         /\ acc' = [data |-> LooseBody(data), verified |-> data = input.named]
  BY DEF ParseLoose, Return, ReturnAfter, WellFormed, LooseHead, LooseSpace, LooseSize, LooseBody, data
<1>4. Objects(data) = IF WellFormed(data) THEN {LooseBody(data)} ELSE {}
  BY <1>2, ObjectsAre
<1>5. LooseExact'
  <2> DEFINE right == /\ (result' = "ok") <=> input.zlib /\ Objects(data) # {}
                      /\ result' = "ok" => /\ Objects(data) = {acc'.data}
                                           /\ acc'.verified <=> data = input.named
  <2>1. right
    <3>1. CASE ~(input.zlib /\ WellFormed(data)) /\ result' = "invalid"
      <4>1. ~input.zlib \/ Objects(data) = {}
        BY <1>4, <3>1
      <4> QED BY <3>1, <4>1
    <3>2. CASE /\ input.zlib /\ WellFormed(data) /\ result' = "ok"
               /\ acc' = [data |-> LooseBody(data), verified |-> data = input.named]
      <4>1. acc'.data = LooseBody(data) /\ (acc'.verified <=> data = input.named)
        BY <3>2
      <4>2. Objects(data) = {LooseBody(data)} /\ Objects(data) # {}
        BY <1>4, <3>2
      <4> QED BY <3>2, <4>1, <4>2
    <3> QED BY <1>3, <3>1, <3>2
  <2>2. data = SubSeq(input'.content, 1, Min({MaxLoose, Len(input'.content)})) /\ input' = input
    BY <1>1 DEF data
  <2> QED BY <2>1, <2>2, Zenon DEF LooseExact, Finished
<1> QED BY <1>1, <1>5 DEF LooseInv

(* Any step.                                                                *)
LEMMA LooseKept ==
  ASSUME LooseInv, [Next]_vars
  PROVE  LooseInv'
<1>1. CASE ParseLoose
  BY <1>1, ParseLooseKeeps
<1>2. CASE EntryStep \/ DeltaStep \/ TreeRecord \/ TreeEnd \/ CommitStep \/ ReflogStep
  BY <1>2, OthersLeaveLoose DEF LooseInv, LooseExact, Finished
<1>3. CASE UNCHANGED vars
  BY <1>3 DEF LooseInv, LooseExact, Finished, vars
<1> QED BY <1>1, <1>2, <1>3 DEF Next, Terminated

(* decompress_and_parse accepts exactly what can be read as an object, up to
   its limit, however its size is written, and gives its bytes; verified is
   what has the hash it was read by.                                        *)
THEOREM LooseIsExact == Spec => []LooseExact
<1>1. Init => LooseInv
  BY DEF Init, Begin, LooseInv, LooseExact, Finished
<1>2. LooseInv /\ [Next]_vars => LooseInv'
  BY LooseKept
<1>3. LooseInv => LooseExact
  BY DEF LooseInv
<1> QED BY <1>1, <1>2, <1>3, PTL DEF Spec


-----------------------------------------------------------------------------
(* A function as FlattenSeq makes it, of the first n of some sequences: what
   each is with those before it.                                            *)
Flat(s, n, f) == f = [i \in 1..n |-> IF i = 1 THEN s[i] ELSE f[i - 1] \o s[i]]

(* There is such a function, however many the sequences.                    *)
LEMMA FlatExists ==
  ASSUME NEW s, NEW n \in Nat
  PROVE  \E f : Flat(s, n, f)
<1> DEFINE S == {m \in Nat : \E f : Flat(s, m, f)}
<1>1. 0 \in S
  <2>1. Flat(s, 0, [i \in 1..0 |-> s[i]])
    BY DEF Flat
  <2> QED BY <2>1
<1>2. ASSUME NEW m \in S PROVE m + 1 \in S
  <2>1. m \in Nat /\ m + 1 \in Nat
    OBVIOUS
  <2>2. PICK f : Flat(s, m, f)
    OBVIOUS
  <2> DEFINE last == IF m = 0 THEN s[1] ELSE f[m] \o s[m + 1]
             g == [i \in 1..(m + 1) |-> IF i = m + 1 THEN last ELSE f[i]]
  <2>3. f = [i \in 1..m |-> IF i = 1 THEN s[i] ELSE f[i - 1] \o s[i]]
    BY <2>2 DEF Flat
  <2>4. ASSUME NEW i \in 1..(m + 1)
        PROVE  g[i] = IF i = 1 THEN s[i] ELSE g[i - 1] \o s[i]
    <3>1. CASE i = m + 1
      BY <2>1, <3>1
    <3>2. CASE i # m + 1
      <4>1. i \in 1..m /\ g[i] = f[i] /\ (i # 1 => i - 1 \in 1..(m + 1) /\ g[i - 1] = f[i - 1])
        BY <2>1, <3>2
      <4> HIDE DEF g
      <4> QED BY <2>3, <4>1
    <3> QED BY <3>1, <3>2
  <2>5. g = [i \in 1..(m + 1) |-> g[i]]
    OBVIOUS
  <2> HIDE DEF g
  <2>6. Flat(s, m + 1, g)
    BY <2>4, <2>5 DEF Flat
  <2> QED BY <2>1, <2>6
<1>3. S = Nat
  <2>1. S \in SUBSET Nat
    OBVIOUS
  <2> HIDE DEF S
  <2> QED BY <1>1, <1>2, <2>1, Induction
<1> QED BY <1>3


(* Flattening one sequence more puts it at the end.                         *)
LEMMA FlattenAppend ==
  ASSUME NEW X, NEW s \in Seq(Seq(X)), NEW x \in Seq(X)
  PROVE  /\ FlattenSeq(<< >>) = << >>
         /\ FlattenSeq(Append(s, x)) = FlattenSeq(s) \o x
<1> DEFINE t == Append(s, x)
           n == Len(s)
           f == CHOOSE f : Flat(s, n, f)
           g == CHOOSE g : Flat(t, n + 1, g)
<1>1. /\ n \in Nat /\ Len(t) = n + 1 /\ t[n + 1] = x
      /\ \A i \in 1..n : s[i] = t[i]
  OBVIOUS
<1>2. Flat(s, n, f) /\ Flat(t, n + 1, g)
  <2>1. (\E h : Flat(s, n, h)) /\ (\E h : Flat(t, n + 1, h))
    <3>1. n \in Nat /\ n + 1 \in Nat
      BY <1>1
    <3> HIDE DEF n, t
    <3> QED BY <3>1, FlatExists
  <2> QED BY <2>1, Zenon
<1>3. /\ FlattenSeq(<< >>) = << >>
      /\ n = 0 => FlattenSeq(s) = s
      /\ n # 0 => FlattenSeq(s) = f[n]
      /\ FlattenSeq(t) = g[n + 1]
  <2>1. FlattenSeq(<< >>) = << >>
    BY DEF FlattenSeq
  <2>2. n = 0 => FlattenSeq(s) = s
    BY DEF FlattenSeq
  <2>3. n # 0 => FlattenSeq(s) = f[n]
    BY Zenon DEF FlattenSeq, Flat
  <2>4. n + 1 # 0
    BY <1>1
  <2>5. FlattenSeq(t) = g[n + 1]
    <3> HIDE DEF n, t
    <3> QED BY <1>1, <2>4, Zenon DEF FlattenSeq, Flat
  <2> QED BY <2>1, <2>2, <2>3, <2>5
<1> HIDE DEF f, g, t, n
<1>4. g[n + 1] = IF n = 0 THEN x ELSE g[n] \o x
  <2>1. g = [i \in 1..(n + 1) |-> IF i = 1 THEN t[i] ELSE g[i - 1] \o t[i]]
    BY <1>2 DEF Flat
  <2>2. n + 1 \in 1..(n + 1) /\ (n + 1 = 1 <=> n = 0) /\ (n + 1) - 1 = n
    BY <1>1
  <2>3. g[n + 1] = IF n + 1 = 1 THEN t[n + 1] ELSE g[(n + 1) - 1] \o t[n + 1]
    BY <2>1, <2>2, Zenon
  <2> QED BY <1>1, <2>2, <2>3, Zenon
<1>5. n # 0 => f[n] = g[n]
  <2> DEFINE S == {i \in Nat : i + 1 \in 1..n => f[i + 1] = g[i + 1]}
  <2>1. /\ \A i \in 1..n : f[i] = IF i = 1 THEN s[i] ELSE f[i - 1] \o s[i]
        /\ \A i \in 1..(n + 1) : g[i] = IF i = 1 THEN t[i] ELSE g[i - 1] \o t[i]
    <3>1. f = [i \in 1..n |-> IF i = 1 THEN s[i] ELSE f[i - 1] \o s[i]]
          /\ g = [i \in 1..(n + 1) |-> IF i = 1 THEN t[i] ELSE g[i - 1] \o t[i]]
      BY <1>2 DEF Flat
    <3> QED BY <3>1, Zenon
  <2>2. \A i \in 1..n : i \in 1..(n + 1)
    BY <1>1
  <2>3. 0 \in S
    BY <1>1, <2>1, <2>2
  <2>4. ASSUME NEW i \in S PROVE i + 1 \in S
    <3>1. i \in Nat /\ i + 1 \in Nat /\ i + 1 + 1 = i + 2 /\ i + 2 # 1 /\ (i + 2) - 1 = i + 1
      OBVIOUS
    <3>2. ASSUME i + 2 \in 1..n PROVE f[i + 2] = g[i + 2]
      <4>1. i + 1 \in 1..n /\ i + 2 \in 1..(n + 1)
        BY <1>1, <3>1, <3>2
      <4>2. f[i + 1] = g[i + 1] /\ s[i + 2] = t[i + 2]
        BY <1>1, <3>2, <4>1
      <4> QED BY <2>1, <3>1, <3>2, <4>1, <4>2
    <3> QED BY <3>1, <3>2
  <2>5. S = Nat
    <3>1. S \in SUBSET Nat
      OBVIOUS
    <3> HIDE DEF S
    <3> QED BY <2>3, <2>4, <3>1, Induction
  <2>6. ASSUME n # 0 PROVE f[n] = g[n]
    <3>1. n - 1 \in Nat /\ (n - 1) + 1 = n /\ n \in 1..n
      BY <1>1, <2>6
    <3>2. n - 1 \in S
      <4> HIDE DEF S
      <4> QED BY <2>5, <3>1
    <3> QED BY <3>1, <3>2
  <2> QED BY <2>6
<1>6. n = 0 => s = << >> /\ s \o x = x
  BY DEF n
<1> QED BY <1>3, <1>4, <1>5, <1>6 DEF t

(* A function up to m, and one with a value more.                            *)
UpTo(g, m) == [i \in 1..m |-> g[i]]
Longer(g, f, m, x) == DOMAIN f = 1..m /\ g[m + 1] = x /\ \A i \in 1..m : g[i] = f[i]

(* A function on 1..m with one value more is the sequence with that at its
   end.                                                                     *)
LEMMA OneLonger ==
  ASSUME NEW S, NEW m \in Nat, NEW f \in Seq(S), NEW x \in S, NEW g, Longer(g, f, m, x)
  PROVE  UpTo(g, m + 1) = Append(f, x)
<1> DEFINE h == Append(f, x)
<1>0. DOMAIN f = 1..m /\ g[m + 1] = x /\ \A i \in 1..m : g[i] = f[i]
  BY DEF Longer
<1>1. Len(f) = m
  <2>1. Len(f) \in Nat /\ DOMAIN f = 1..Len(f)
    OBVIOUS
  <2> QED BY <1>0, <2>1
<1>2. /\ h \in Seq(S) /\ Len(h) = Len(f) + 1
      /\ h[Len(f) + 1] = x /\ \A i \in 1..Len(f) : h[i] = f[i]
  BY AppendProperties
<1> HIDE DEF h
<1>3. h \in Seq(S) /\ Len(h) = m + 1 /\ h[m + 1] = x /\ \A i \in 1..m : h[i] = f[i]
  BY <1>1, <1>2, Zenon
<1>4. h = [i \in 1..Len(h) |-> h[i]]
  BY <1>3
<1>5. h = [i \in 1..(m + 1) |-> h[i]]
  BY <1>3, <1>4, Zenon
<1>6. \A i \in 1..(m + 1) : g[i] = h[i]
  <2>1. \A i \in 1..(m + 1) : i = m + 1 \/ i \in 1..m
    OBVIOUS
  <2> QED BY <1>0, <1>3, <2>1, Zenon
<1>7. [i \in 1..(m + 1) |-> g[i]] = [i \in 1..(m + 1) |-> h[i]]
  BY <1>6, Zenon
<1> QED BY <1>5, <1>7, Zenon DEF h, UpTo

-----------------------------------------------------------------------------
(* An entry of a tree and the entries after it, as a sequence.              *)
Before(e, s) == <<e>> \o s

TreeEntry == [mode : 0..(ModeWord - 1), name : Seq(TreeByte), hash : Seq(TreeByte)]

(* The ways to cut what is left of a tree from each place on, as TreeExact
   has them.                                                                *)
CutsOf(data) ==
  LET cuts[from \in 1..(Len(data) + 1)] ==
        IF from > Len(data) THEN {<< >>}
        ELSE UNION {{<<r[1]>> \o s : s \in cuts[r[2] + 1]} : r \in Readings(data, from)}
  IN  cuts

(* TreeExact, in these terms.                                               *)
LEMMA TreeExactIs ==
  TreeExact <=> (Finished("tree") => CutsOf(input)[1] = IF result = "ok" THEN {acc} ELSE {})
BY Zenon DEF TreeExact, CutsOf

(* An entry before others, and after others.                                *)
LEMMA BeforeIs ==
  ASSUME NEW S, NEW e \in S, NEW s \in Seq(S), NEW t \in Seq(S)
  PROVE  Before(e, s) \in Seq(S) /\ t \o Before(e, s) = Append(t, e) \o s
<1>1. <<e>> \in Seq(S) /\ Len(<<e>>) = 1 /\ <<e>>[1] = e
  OBVIOUS
<1>2. <<e>> \o s \in Seq(S) /\ t \o <<e>> = Append(t, e)
  BY <1>1
<1>3. t \o (<<e>> \o s) = (t \o <<e>>) \o s
  BY <1>1, ConcatAssociative
<1> QED BY <1>2, <1>3 DEF Before

(* A reading is an entry and a place that is not before it.                 *)
LEMMA ReadingsIn ==
  ASSUME NEW data \in Seq(TreeByte), NEW from \in 1..Len(data), NEW r \in Readings(data, from)
  PROVE  r[1] \in TreeEntry /\ r[2] \in from..Len(data)
<1>1. PICK q \in (from..Len(data)) \X (from..Len(data)) \X (0..(ModeWord - 1)) :
        /\ r = <<EntryAt(data, q[1], q[2], q[3]), q[2] + HashBytes>>
        /\ q[1] < q[2] /\ q[2] + HashBytes <= Len(data)
  BY Zenon DEF Readings
<1> DEFINE sp == q[1]
           nul == q[2]
           n == q[3]
<1>2. /\ sp \in Nat \ {0} /\ nul \in Nat \ {0} /\ n \in 0..(ModeWord - 1) /\ nul >= from /\ nul <= Len(data)
      /\ nul + HashBytes <= Len(data) /\ HashBytes \in Nat \ {0}
      /\ r[1] = EntryAt(data, sp, nul, n) /\ r[2] = nul + HashBytes
  BY <1>1, ObjectParseAssumption
<1> HIDE DEF sp, nul, n
<1>3. SubSeq(data, sp + 1, nul - 1) \in Seq(TreeByte)
  BY <1>2, PartIs
<1>4. SubSeq(data, nul + 1, nul + HashBytes) \in Seq(TreeByte)
  BY <1>2, PartIs
<1>5. r[1] \in TreeEntry
  BY <1>2, <1>3, <1>4 DEF EntryAt, TreeEntry
<1>6. nul + HashBytes \in from..Len(data)
  BY <1>2
<1> QED BY <1>2, <1>5, <1>6

(* What is left can be cut in no entries if nothing is left, or else with a
   reading and a cut of what is left after it.                              *)
LEMMA CutsAre ==
  ASSUME NEW data \in Seq(TreeByte)
  PROVE  /\ CutsOf(data)[Len(data) + 1] = {<< >>}
         /\ \A from \in 1..Len(data) :
              CutsOf(data)[from] = UNION {{Before(r[1], s) : s \in CutsOf(data)[r[2] + 1]} : r \in Readings(data, from)}
         /\ \A from \in 1..(Len(data) + 1) : CutsOf(data)[from] \in SUBSET Seq(TreeEntry)
<1> PICK l \in Nat : l = Len(data)
  OBVIOUS
<1> DEFINE D == 1..(l + 1)
           E == Seq(TreeEntry)
           R(i) == Readings(data, i)
           Next1(f, i) == UNION {{Before(r[1], s) : s \in f[r[2] + 1]} : r \in R(i)}
           Cut(f) == [i \in D |-> IF i > l THEN {<< >>} ELSE Next1(f, i)]
           Closed(T) == /\ <<l + 1, << >>>> \in T
                        /\ \A i \in 1..l : \A r \in R(i) : \A s \in E :
                             <<r[2] + 1, s>> \in T => <<i, Before(r[1], s)>> \in T
           W == [i \in D |-> {s \in E : \A T \in SUBSET (D \X E) : Closed(T) => <<i, s>> \in T}]
<1>1. \A i \in 1..l : \A r \in R(i) : r[1] \in TreeEntry /\ r[2] \in 1..l /\ r[2] >= i /\ r[2] + 1 \in D
  BY ReadingsIn
<1>2. \A e \in TreeEntry, s \in E : Before(e, s) \in E
  BY BeforeIs
<1>3. << >> \in E /\ l + 1 \in D /\ (\A i \in 1..l : i \in D) /\ (\A i \in D : i > l => i = l + 1)
      /\ (\A i \in D : ~(i > l) => i \in 1..l) /\ ~(\E i \in 1..l : i > l) /\ l + 1 > l
  OBVIOUS
<1> HIDE DEF R, D, E
<1>4. ASSUME NEW i \in D, NEW s \in Cut(W)[i] PROVE s \in W[i]
  <2>1. CASE i > l
    <3>1. i = l + 1 /\ s = << >>
      BY <1>3, <2>1
    <3>2. \A T \in SUBSET (D \X E) : Closed(T) => <<l + 1, << >>>> \in T
      OBVIOUS
    <3> HIDE DEF Closed
    <3> QED BY <1>3, <3>1, <3>2
  <2>2. CASE ~(i > l)
    <3>1. i \in 1..l /\ Cut(W)[i] = Next1(W, i)
      BY <1>3, <2>2
    <3>2. PICK r \in R(i) : s \in {Before(r[1], t) : t \in W[r[2] + 1]}
      <4> HIDE DEF W, Cut
      <4> QED BY <3>1
    <3>3. PICK t \in W[r[2] + 1] : s = Before(r[1], t)
      BY <3>2
    <3>4. r[1] \in TreeEntry /\ r[2] + 1 \in D
      BY <1>1, <3>1
    <3>5. t \in E /\ \A T \in SUBSET (D \X E) : Closed(T) => <<r[2] + 1, t>> \in T
      <4> HIDE DEF Closed
      <4> QED BY <3>3, <3>4
    <3>6. s \in E
      BY <1>2, <3>3, <3>4, <3>5
    <3>7. ASSUME NEW T \in SUBSET (D \X E), Closed(T) PROVE <<i, s>> \in T
      <4>1. <<r[2] + 1, t>> \in T
        BY <3>5, <3>7
      <4> QED BY <3>1, <3>3, <3>5, <3>7, <4>1
    <3> HIDE DEF Closed
    <3> QED BY <3>6, <3>7
  <2> QED BY <2>1, <2>2
<1>5. ASSUME NEW i \in D, NEW s \in W[i] PROVE s \in Cut(W)[i]
  <2> DEFINE C == Cut(W)
             T == {u \in D \X E : u[2] \in C[u[1]]}
  <2>1. \A j \in D, t \in E : <<j, t>> \in T <=> t \in C[j]
    <3> HIDE DEF C
    <3> QED OBVIOUS
  <2>2. C[l + 1] = {<< >>} /\ \A j \in 1..l : C[j] = Next1(W, j)
    <3> HIDE DEF W
    <3> QED BY <1>3
  <2>3. \A j \in D, t \in E : t \in C[j] => t \in W[j]
    <3> HIDE DEF W, Cut
    <3> QED BY <1>4
  <2>4. <<l + 1, << >>>> \in T
    <3> HIDE DEF T, C
    <3> QED BY <1>3, <2>1, <2>2
  <2>5. ASSUME NEW j \in 1..l, NEW r \in R(j), NEW t \in E, <<r[2] + 1, t>> \in T
        PROVE  <<j, Before(r[1], t)>> \in T
    <3>1. r[1] \in TreeEntry /\ r[2] + 1 \in D /\ j \in D
      BY <1>1, <1>3
    <3> HIDE DEF T, C, W
    <3>2. t \in W[r[2] + 1] /\ Before(r[1], t) \in E
      BY <1>2, <2>1, <2>3, <2>5, <3>1
    <3>3. Before(r[1], t) \in Next1(W, j)
      BY <3>2
    <3> QED BY <2>1, <2>2, <3>1, <3>2, <3>3
  <2>6. T \in SUBSET (D \X E)
    OBVIOUS
  <2>7. s \in E /\ \A S \in SUBSET (D \X E) : Closed(S) => <<i, s>> \in S
    <3> HIDE DEF Closed
    <3> QED OBVIOUS
  <2> HIDE DEF T, C
  <2>8. <<i, s>> \in T
    BY <2>4, <2>5, <2>6, <2>7
  <2> QED BY <2>1, <2>7, <2>8 DEF C
<1>6. W = Cut(W)
  <2> DEFINE V == W
             C == Cut(W)
  <2>1. \A i \in D : \A s : s \in V[i] <=> s \in C[i]
    <3> HIDE DEF W, Cut
    <3> QED BY <1>4, <1>5
  <2>2. V = [i \in D |-> V[i]]
    OBVIOUS
  <2>3. C = [i \in D |-> C[i]]
    OBVIOUS
  <2> HIDE DEF V, C
  <2>4. \A i \in D : V[i] = C[i]
    BY <2>1
  <2>5. V = C
    BY <2>2, <2>3, <2>4, Zenon
  <2> QED BY <2>5 DEF V, C
<1>7. CutsOf(data) = CHOOSE f : f = Cut(f)
  BY Zenon DEF CutsOf, Before, D, R
<1>8. CutsOf(data) = Cut(CutsOf(data))
  <2> HIDE DEF W, Cut
  <2> QED BY <1>6, <1>7
<1> DEFINE F == CutsOf(data)
<1>9. F[l + 1] = {<< >>} /\ \A i \in 1..l : F[i] = Next1(F, i)
  <2>1. \A i \in D : F[i] = IF i > l THEN {<< >>} ELSE Next1(F, i)
    <3> HIDE DEF F
    <3> QED BY <1>8, Zenon DEF F
  <2> HIDE DEF F
  <2> QED BY <1>3, <2>1
<1> HIDE DEF F
<1>10. \A i \in D : F[i] \in SUBSET E
  <2> DEFINE P == {m \in Nat : \A i \in D : l + 1 <= i + m => F[i] \in SUBSET E}
  <2>1. 0 \in P
    <3>1. \A i \in D : l + 1 <= i + 0 => i = l + 1
      BY DEF D
    <3> QED BY <1>3, <1>9, <3>1
  <2>2. ASSUME NEW m \in P PROVE m + 1 \in P
    <3> SUFFICES ASSUME NEW i \in D, l + 1 <= i + (m + 1) PROVE F[i] \in SUBSET E
      OBVIOUS
    <3>1. \A j \in D : l + 1 <= j + m => F[j] \in SUBSET E
      OBVIOUS
    <3>2. CASE i = l + 1
      BY <1>3, <1>9, <3>2
    <3>3. CASE i # l + 1
      <4>1. i \in 1..l
        BY <3>3 DEF D
      <4>2. ASSUME NEW r \in R(i), NEW s \in F[r[2] + 1] PROVE Before(r[1], s) \in E
        <5>1. r[1] \in TreeEntry /\ r[2] + 1 \in D /\ l + 1 <= (r[2] + 1) + m
          BY <1>1, <4>1
        <5>2. s \in E
          BY <3>1, <5>1
        <5> QED BY <1>2, <5>1, <5>2
      <4>3. ASSUME NEW x \in F[i] PROVE x \in E
        <5>1. PICK r \in R(i) : x \in {Before(r[1], s) : s \in F[r[2] + 1]}
          BY <1>9, <4>1
        <5>2. PICK s \in F[r[2] + 1] : x = Before(r[1], s)
          BY <5>1
        <5> QED BY <4>2, <5>2
      <4> QED BY <4>3
    <3> QED BY <3>2, <3>3
  <2>3. P \in SUBSET Nat
    OBVIOUS
  <2>4. P = Nat
    <3> HIDE DEF P
    <3> QED BY <2>1, <2>2, <2>3, Induction
  <2>5. ASSUME NEW i \in D PROVE F[i] \in SUBSET E
    <3>1. l \in P
      <4> HIDE DEF P
      <4> QED BY <2>4
    <3>2. l + 1 <= i + l
      BY DEF D
    <3> QED BY <3>1, <3>2
  <2> QED BY <2>5
<1> QED BY <1>9, <1>10 DEF F, R, D, E

(* What TreeRecord makes of the record that starts at a place.              *)
TreeNul(data, from) == FirstAt(data, from, "nul")
TreeHead(data, from) == SubSeq(data, from, TreeNul(data, from) - 1)
TreeSpace(data, from) == FirstAt(TreeHead(data, from), 1, "space")
TreeMode(data, from) == Number(SubSeq(TreeHead(data, from), 1, TreeSpace(data, from) - 1), ModeWord)
Readable(data, from) ==
  /\ TreeNul(data, from) # 0 /\ FirstAt(TreeHead(data, from), 1, "raw") = 0
  /\ TreeSpace(data, from) # 0 /\ TreeMode(data, from) # << >>
  /\ HashEnd(TreeNul(data, from)) <= Len(data)
EntryRead(data, from) ==
  [mode |-> TreeMode(data, from)[1],
   name |-> SubSeq(TreeHead(data, from), TreeSpace(data, from) + 1, Len(TreeHead(data, from))),
   hash |-> SubSeq(data, TreeNul(data, from) + 1, HashEnd(TreeNul(data, from)))]

(* Its header, with its place in the tree.                                  *)
LEMMA TreeHeadIs ==
  ASSUME NEW data \in Seq(TreeByte), NEW from \in 1..Len(data)
  PROVE  \/ TreeNul(data, from) = 0 /\ \A i \in from..Len(data) : data[i] # "nul"
         \/ /\ TreeNul(data, from) \in from..Len(data) /\ data[TreeNul(data, from)] = "nul"
            /\ \A i \in from..(TreeNul(data, from) - 1) : data[i] # "nul"
            /\ TreeHead(data, from) \in Seq(TreeByte)
            /\ Len(TreeHead(data, from)) = TreeNul(data, from) - from
            /\ \A i \in 1..(TreeNul(data, from) - from) : TreeHead(data, from)[i] = data[from + i - 1]
<1> DEFINE nul == TreeNul(data, from)
           head == TreeHead(data, from)
<1>1. nul = FirstAt(data, from, "nul") /\ head = SubSeq(data, from, nul - 1)
  BY DEF TreeNul, TreeHead
<1> HIDE DEF nul, head
<1>2. \/ nul = 0 /\ \A i \in from..Len(data) : data[i] # "nul"
      \/ /\ nul \in from..Len(data) /\ data[nul] = "nul"
         /\ \A i \in from..(nul - 1) : data[i] # "nul"
  BY <1>1, FirstAtIs
<1>3. ASSUME nul \in from..Len(data)
      PROVE  /\ head \in Seq(TreeByte) /\ Len(head) = nul - from
             /\ \A i \in 1..(nul - from) : head[i] = data[from + i - 1]
  <2>1. from \in Nat \ {0} /\ nul - 1 \in Int /\ nul - 1 <= Len(data)
    BY <1>3
  <2>2. (IF from <= nul - 1 THEN (nul - 1) - from + 1 ELSE 0) = nul - from
    BY <1>3
  <2> QED BY <1>1, <2>1, <2>2, PartIs
<1> QED BY <1>2, <1>3 DEF nul, head


(* What Readings asks of a place of a space, of a NUL and of a mode.        *)
IsReading(data, from, sp, nul, mode) ==
  /\ sp \in from..Len(data) /\ nul \in from..Len(data) /\ mode \in 0..(ModeWord - 1)
  /\ data[sp] = "space" /\ data[nul] = "nul"
  /\ sp < nul /\ nul + HashBytes <= Len(data)
  /\ \A i \in from..(nul - 1) : data[i] \notin {"nul", "raw"}
  /\ Spells(SubSeq(data, from, sp - 1), mode)

(* There is a reading exactly when TreeRecord reads a record, and it is that
   one: it has no choice but the first NUL, the first space and the number
   before it.                                                               *)
LEMMA RecordRead ==
  ASSUME NEW data \in Seq(TreeByte), NEW from \in 1..Len(data)
  PROVE  Readings(data, from) =
           IF Readable(data, from) THEN {<<EntryRead(data, from), HashEnd(TreeNul(data, from))>>} ELSE {}
<1> DEFINE nul == TreeNul(data, from)
           head == TreeHead(data, from)
           space == TreeSpace(data, from)
           text == SubSeq(head, 1, space - 1)
           mode == TreeMode(data, from)
<1>1. /\ HashBytes \in Nat \ {0} /\ HashEnd(nul) = nul + HashBytes /\ from \in Nat \ {0} /\ Len(data) \in Nat
      /\ ModeWord \in Nat
  BY ObjectParseAssumption DEF HashEnd
<1>2. \/ nul = 0 /\ \A i \in from..Len(data) : data[i] # "nul"
      \/ /\ nul \in from..Len(data) /\ data[nul] = "nul"
         /\ \A i \in from..(nul - 1) : data[i] # "nul"
         /\ head \in Seq(TreeByte)
         /\ Len(head) = nul - from
         /\ \A i \in 1..(nul - from) : head[i] = data[from + i - 1]
  BY TreeHeadIs
<1>3. ASSUME nul # 0
      PROVE  /\ \/ space = 0 /\ \A i \in 1..Len(head) : head[i] # "space"
                \/ /\ space \in 1..Len(head) /\ head[space] = "space"
                   /\ \A i \in 1..(space - 1) : head[i] # "space"
             /\ FirstAt(head, 1, "raw") = 0 <=> \A i \in 1..Len(head) : head[i] # "raw"
  <2>1. head \in Seq(TreeByte) /\ space = FirstAt(head, 1, "space")
    BY <1>2, <1>3 DEF TreeSpace
  <2> HIDE DEF head, space
  <2>2. \/ space = 0 /\ \A i \in 1..Len(head) : head[i] # "space"
        \/ /\ space \in 1..Len(head) /\ head[space] = "space"
           /\ \A i \in 1..(space - 1) : head[i] # "space"
    BY <2>1, FirstAtIs
  <2>3. FirstAt(head, 1, "raw") = 0 <=> \A i \in 1..Len(head) : head[i] # "raw"
    <3> DEFINE raw == FirstAt(head, 1, "raw")
    <3>1. \/ raw = 0 /\ \A i \in 1..Len(head) : head[i] # "raw"
          \/ raw \in 1..Len(head) /\ head[raw] = "raw"
      BY <2>1, FirstAtIs
    <3> QED BY <3>1
  <2> QED BY <2>2, <2>3
<1>4. ASSUME nul # 0, NEW i \in 1..Len(head)
      PROVE  /\ SubSeq(head, 1, i - 1) = SubSeq(data, from, from + i - 2)
             /\ SubSeq(head, i + 1, Len(head)) = SubSeq(data, from + i, nul - 1)
             /\ from + i - 1 \in from..(nul - 1)
             /\ SubSeq(head, 1, i - 1) \in Seq(TreeByte) /\ Len(SubSeq(head, 1, i - 1)) = i - 1
             /\ \A j \in 1..(i - 1) : SubSeq(head, 1, i - 1)[j] = head[j]
  <2> DEFINE s == SubSeq(head, 1, i - 1)
             t == SubSeq(data, from, from + i - 2)
             u == SubSeq(head, i + 1, Len(head))
             v == SubSeq(data, from + i, nul - 1)
  <2>1. /\ head \in Seq(TreeByte) /\ i - 1 \in Int /\ i - 1 <= Len(head)
        /\ from + i - 2 \in Int /\ from + i - 2 <= Len(data) /\ from + i - 1 \in from..(nul - 1)
        /\ nul - 1 \in Int /\ nul - 1 <= Len(data) /\ Len(head) \in Nat /\ from + i \in Nat \ {0}
        /\ i + 1 \in Nat \ {0} /\ Len(head) = nul - from /\ i \in Nat \ {0} /\ nul \in Nat
    BY <1>1, <1>2, <1>4
  <2>2. s \in Seq(TreeByte) /\ Len(s) = i - 1 /\ \A j \in 1..(i - 1) : s[j] = head[j]
    <3>1. s = SubSeq(head, 1, i - 1)
      OBVIOUS
    <3> HIDE DEF s, head
    <3> QED BY <2>1, <3>1, PartIs
  <2>3. t \in Seq(TreeByte) /\ Len(t) = i - 1 /\ \A j \in 1..(i - 1) : t[j] = data[from + j - 1]
    <3>1. t = SubSeq(data, from, from + i - 2) /\ i \in Nat \ {0}
      BY <1>2, <1>4
    <3> HIDE DEF t, head
    <3> QED BY <1>1, <2>1, <3>1, PartIs
  <2>4. \A j \in 1..(i - 1) : head[j] = data[from + j - 1]
    BY <1>2, <1>4
  <2> PICK k \in Nat : k = Len(head) - i
    <3> HIDE DEF head
    <3>1. Len(head) - i \in Nat
      BY <1>4, <2>1
    <3> QED BY <3>1
  <2>5. u \in Seq(TreeByte) /\ Len(u) = k /\ \A j \in 1..k : u[j] = head[(i + 1) + j - 1]
    <3>1. u = SubSeq(head, i + 1, Len(head))
      OBVIOUS
    <3> HIDE DEF u, head, nul
    <3> PICK l \in Nat : l = Len(head)
      BY <2>1
    <3>2. k = l - i /\ u = SubSeq(head, i + 1, l) /\ i \in Nat /\ i + 1 \in Nat \ {0} /\ l \in Int
      BY <2>1, <3>1
    <3>3. k = IF i + 1 <= l THEN l - (i + 1) + 1 ELSE 0
      BY <3>2
    <3>4. head \in Seq(TreeByte) /\ l <= Len(head)
      BY <2>1
    <3> QED BY <3>2, <3>3, <3>4, PartIs
  <2>6. v \in Seq(TreeByte) /\ Len(v) = k /\ \A j \in 1..k : v[j] = data[(from + i) + j - 1]
    <3>1. v = SubSeq(data, from + i, nul - 1)
      OBVIOUS
    <3> HIDE DEF v, head, nul
    <3>2. k = IF from + i <= nul - 1 THEN (nul - 1) - (from + i) + 1 ELSE 0
      <4> PICK l \in Nat : l = Len(head)
        BY <2>1
      <4>1. k = l - i /\ l = nul - from /\ nul - 1 \in Int /\ from \in Nat /\ i \in Nat
        BY <1>1, <2>1
      <4>2. nul = l + from
        BY <2>1, <4>1
      <4> QED BY <4>1, <4>2
    <3> QED BY <2>1, <3>1, <3>2, PartIs
  <2> HIDE DEF s, t, u, v, nul, head
  <2>7. \A j \in 1..k : (i + 1) + j - 1 \in 1..(nul - from) /\ from + ((i + 1) + j - 1) - 1 = (from + i) + j - 1
    BY <1>1, <2>1
  <2>8. \A j \in 1..k : u[j] = v[j]
    <3>1. \A h \in 1..(nul - from) : head[h] = data[from + h - 1]
      BY <1>2, <1>4
    <3> SUFFICES ASSUME NEW j \in 1..k PROVE u[j] = v[j]
      OBVIOUS
    <3> DEFINE h == (i + 1) + j - 1
    <3>2. h \in 1..(nul - from) /\ from + h - 1 = (from + i) + j - 1
      BY <2>7
    <3>3. u[j] = head[h] /\ v[j] = data[(from + i) + j - 1]
      BY <2>5, <2>6
    <3> HIDE DEF h
    <3> QED BY <3>1, <3>2, <3>3
  <2>9. s = t
    BY <2>2, <2>3, <2>4, SeqEqual
  <2>10. u = v
    BY <2>5, <2>6, <2>8, SeqEqual
  <2> QED BY <2>1, <2>2, <2>9, <2>10 DEF s, t, u, v
<1>5. mode = Number(text, ModeWord)
  BY DEF TreeMode
<1> HIDE DEF nul, head, space, mode
<1>6. Readable(data, from) <=>
        /\ nul # 0 /\ FirstAt(head, 1, "raw") = 0
        /\ space # 0 /\ mode # << >> /\ nul + HashBytes <= Len(data)
  BY <1>1 DEF Readable, nul, head, space, mode
<1> DEFINE sp == from + space - 1
           n == mode[1]
<1>7. ASSUME Readable(data, from)
      PROVE  IsReading(data, from, sp, nul, n) /\ EntryAt(data, sp, nul, n) = EntryRead(data, from)
  <2>1. nul \in from..Len(data) /\ data[nul] = "nul" /\ nul + HashBytes <= Len(data)
    BY <1>1, <1>2, <1>6, <1>7
  <2>2. /\ space \in 1..Len(head) /\ head[space] = "space"
        /\ from + space - 1 \in from..(nul - 1) /\ data[from + space - 1] = "space"
    BY <1>2, <1>3, <1>4, <1>6, <1>7
  <2>3. /\ text = SubSeq(data, from, sp - 1) /\ text \in Seq(TreeByte)
        /\ SubSeq(head, space + 1, Len(head)) = SubSeq(data, sp + 1, nul - 1)
    <3>1. space \in Int /\ sp - 1 = from + space - 2 /\ sp + 1 = from + space
      BY <1>1, <2>2
    <3>2. /\ text = SubSeq(data, from, from + space - 2) /\ text \in Seq(TreeByte)
          /\ SubSeq(head, space + 1, Len(head)) = SubSeq(data, from + space, nul - 1)
      BY <1>4, <1>6, <1>7, <2>2
    <3> HIDE DEF text, sp
    <3> QED BY <3>1, <3>2
  <2>4. n \in 0..(ModeWord - 1) /\ Spells(SubSeq(data, from, sp - 1), n)
    <3>1. mode # << >>
      BY <1>6, <1>7
    <3> HIDE DEF text, sp
    <3>2. mode[1] \in 0..(ModeWord - 1) /\ mode = <<mode[1]>>
      <4>1. /\ Number(text, ModeWord) # << >>
            /\ Number(text, ModeWord) # << >> =>
                 /\ Number(text, ModeWord)[1] \in 0..(ModeWord - 1)
                 /\ Number(text, ModeWord) = <<Number(text, ModeWord)[1]>>
        BY <1>1, <1>5, <2>3, <3>1, NumberIs, Zenon
      <4> QED BY <1>5, <4>1, Zenon
    <3>3. n \in Nat /\ Number(text, ModeWord) = <<n>>
      BY <1>1, <1>5, <3>2
    <3>4. Spells(text, n)
      BY <1>1, <2>3, <3>3, NumberIs
    <3> QED BY <2>3, <3>2, <3>4
  <2>5. \A i \in from..(nul - 1) : data[i] \notin {"nul", "raw"}
    <3>1. ASSUME NEW i \in from..(nul - 1) PROVE data[i] # "raw"
      <4>1. i - from + 1 \in 1..Len(head) /\ from + (i - from + 1) - 1 = i /\ i - from + 1 \in 1..(nul - from)
        BY <1>1, <1>2, <1>6, <1>7
      <4>2. head[i - from + 1] = data[from + (i - from + 1) - 1]
        BY <1>2, <1>6, <1>7, <4>1
      <4> QED BY <1>3, <1>6, <1>7, <4>1, <4>2
    <3> QED BY <1>2, <1>6, <1>7, <3>1
  <2>6. sp \in from..Len(data) /\ sp < nul /\ data[sp] = "space"
    BY <1>1, <2>1, <2>2
  <2>7. IsReading(data, from, sp, nul, n)
    BY <2>1, <2>4, <2>5, <2>6 DEF IsReading
  <2>8. EntryAt(data, sp, nul, n) = EntryRead(data, from)
    <3>1. EntryRead(data, from) = [mode |-> n, name |-> SubSeq(head, space + 1, Len(head)),
                                   hash |-> SubSeq(data, nul + 1, nul + HashBytes)]
      BY <1>1, Zenon DEF EntryRead, nul, head, space, mode
    <3>2. EntryAt(data, sp, nul, n) = [mode |-> n, name |-> SubSeq(data, sp + 1, nul - 1),
                                       hash |-> SubSeq(data, nul + 1, nul + HashBytes)]
      BY DEF EntryAt
    <3> QED BY <2>3, <3>1, <3>2, Zenon
  <2> QED BY <2>7, <2>8
<1>8. ASSUME NEW p, NEW z, NEW m, IsReading(data, from, p, z, m)
      PROVE  Readable(data, from) /\ z = nul /\ p = sp /\ m = n
  <2>1. /\ z \in from..Len(data) /\ data[z] = "nul" /\ \A i \in from..(z - 1) : data[i] \notin {"nul", "raw"}
        /\ p \in from..(z - 1) /\ data[p] = "space" /\ m \in 0..(ModeWord - 1)
        /\ z + HashBytes <= Len(data) /\ Spells(SubSeq(data, from, p - 1), m)
    BY <1>8 DEF IsReading
  <2>2. nul = z /\ nul # 0
    BY <1>1, <1>2, <2>1
  <2> DEFINE i == p - from + 1
             s == SubSeq(head, 1, i - 1)
  <2>3. i \in 1..Len(head) /\ head[i] = data[p] /\ from + i - 2 = p - 1 /\ i \in Nat
    BY <1>1, <1>2, <2>1, <2>2
  <2>4. Spells(s, m) /\ s \in Seq(TreeByte) /\ Len(s) = i - 1 /\ \A j \in 1..(i - 1) : s[j] = head[j]
    <3>1. /\ s = SubSeq(data, from, from + i - 2) /\ s \in Seq(TreeByte) /\ Len(s) = i - 1
          /\ \A j \in 1..(i - 1) : s[j] = head[j]
      <4> HIDE DEF i
      <4> QED BY <1>4, <2>2, <2>3
    <3> QED BY <2>1, <2>3, <3>1
  <2>5. m \in Nat /\ \A j \in 1..(i - 1) : head[j] # "space"
    <3>1. m \in Nat
      BY <1>1, <2>1
    <3> HIDE DEF s, i
    <3>2. \A j \in 1..Len(s) : s[j] \in {"plus"} \cup DOMAIN Worth
      BY <1>1, <2>4, <3>1, NumberIs
    <3>3. DOMAIN Worth = {"0", "1", "2"}
      BY WorthIs
    <3>4. \A j \in 1..(i - 1) : s[j] # "space"
      BY <2>4, <3>2, <3>3
    <3> QED BY <2>4, <3>1, <3>4
  <2>6. space = i
    <3>1. i \in Nat /\ i \in 1..Len(head) /\ head[i] = "space" /\ Len(head) \in Nat
      BY <1>2, <2>1, <2>2, <2>3
    <3> HIDE DEF i
    <3>2. /\ space \in 1..Len(head) /\ head[space] = "space"
          /\ \A k \in 1..(space - 1) : head[k] # "space"
      BY <1>3, <2>2, <3>1
    <3>3. ~(i < space)
      BY <3>1, <3>2
    <3>4. ~(space < i)
      BY <2>5, <3>1, <3>2
    <3> QED BY <3>1, <3>2, <3>3, <3>4
  <2>7. mode = <<m>>
    <3>1. m < ModeWord
      BY <1>1, <2>1
    <3> HIDE DEF s, i
    <3>2. Number(s, ModeWord) = <<m>>
      BY <1>1, <2>4, <2>5, <3>1, NumberIs
    <3>3. s = text
      BY <2>6 DEF s
    <3> QED BY <1>5, <3>2, <3>3
  <2>8. FirstAt(head, 1, "raw") = 0
    <3>1. ASSUME NEW j \in 1..Len(head) PROVE head[j] # "raw"
      <4>1. j \in 1..(nul - from) /\ from + j - 1 \in from..(z - 1)
        BY <1>1, <1>2, <2>2
      <4>2. head[j] = data[from + j - 1]
        BY <1>2, <2>2, <4>1
      <4> QED BY <2>1, <4>1, <4>2
    <3> QED BY <1>3, <2>2, <3>1
  <2>9. space # 0 /\ nul + HashBytes <= Len(data) /\ p = sp
    <3>1. i # 0 /\ p = from + i - 1
      BY <1>1, <2>1, <2>3
    <3> HIDE DEF i
    <3> QED BY <2>1, <2>2, <2>6, <3>1
  <2>10. mode # << >> /\ m = n
    BY <2>7
  <2>11. Readable(data, from)
    BY <1>6, <2>2, <2>8, <2>9, <2>10
  <2> QED BY <2>2, <2>9, <2>10, <2>11
<1> HIDE DEF sp, n, text
<1>9. \A x : x \in Readings(data, from) <=>
        \E p, z, m : IsReading(data, from, p, z, m) /\ x = <<EntryAt(data, p, z, m), z + HashBytes>>
  <2> DEFINE Q == {r \in {i \in from..Len(data) : data[i] = "space"} \X {i \in from..Len(data) : data[i] = "nul"}
                         \X (0..(ModeWord - 1)) :
                     /\ r[1] < r[2] /\ r[2] + HashBytes <= Len(data)
                     /\ \A i \in from..(r[2] - 1) : data[i] \notin {"nul", "raw"}
                     /\ Spells(SubSeq(data, from, r[1] - 1), r[3])}
  <2>1. Readings(data, from) = {<<EntryAt(data, r[1], r[2], r[3]), r[2] + HashBytes>> : r \in Q}
    BY Zenon DEF Readings
  <2>2. ASSUME NEW r \in Q
        PROVE  IsReading(data, from, r[1], r[2], r[3])
    BY DEF IsReading
  <2>3. ASSUME NEW p, NEW z, NEW m, IsReading(data, from, p, z, m)
        PROVE  <<p, z, m>> \in Q
    <3>1. /\ p \in {i \in from..Len(data) : data[i] = "space"} /\ z \in {i \in from..Len(data) : data[i] = "nul"}
          /\ m \in 0..(ModeWord - 1)
          /\ p < z /\ z + HashBytes <= Len(data)
          /\ \A i \in from..(z - 1) : data[i] \notin {"nul", "raw"}
          /\ Spells(SubSeq(data, from, p - 1), m)
      BY <2>3 DEF IsReading
    <3> QED BY <3>1
  <2> HIDE DEF Q
  <2>4. ASSUME NEW p, NEW z, NEW m, IsReading(data, from, p, z, m)
        PROVE  <<EntryAt(data, p, z, m), z + HashBytes>> \in Readings(data, from)
    <3> DEFINE r == <<p, z, m>>
    <3>1. r \in Q /\ r[1] = p /\ r[2] = z /\ r[3] = m
      BY <2>3, <2>4
    <3> HIDE DEF r
    <3> QED BY <2>1, <3>1
  <2>5. ASSUME NEW x \in Readings(data, from)
        PROVE  \E p, z, m : IsReading(data, from, p, z, m) /\ x = <<EntryAt(data, p, z, m), z + HashBytes>>
    <3>1. PICK r \in Q : x = <<EntryAt(data, r[1], r[2], r[3]), r[2] + HashBytes>>
      BY <2>1
    <3> QED BY <2>2, <3>1
  <2> QED BY <2>4, <2>5
<1> DEFINE only == <<EntryRead(data, from), nul + HashBytes>>
<1>10. ASSUME Readable(data, from) PROVE \A x : x \in Readings(data, from) <=> x = only
  <2>1. only \in Readings(data, from)
    BY <1>7, <1>9, <1>10
  <2>2. ASSUME NEW x \in Readings(data, from) PROVE x = only
    <3>1. PICK p, z, m : IsReading(data, from, p, z, m) /\ x = <<EntryAt(data, p, z, m), z + HashBytes>>
      BY <1>9
    <3>2. z = nul /\ p = sp /\ m = n
      BY <1>8, <3>1
    <3> QED BY <1>7, <1>10, <3>1, <3>2
  <2> HIDE DEF only
  <2> QED BY <2>1, <2>2
<1>11. ASSUME ~Readable(data, from) PROVE \A x : x \notin Readings(data, from)
  BY <1>8, <1>9, <1>11
<1> HIDE DEF only
<1>12. Readings(data, from) = IF Readable(data, from) THEN {only} ELSE {}
  BY <1>10, <1>11
<1> QED BY <1>1, <1>12 DEF only, nul

(* What has been read of a tree: it can be cut as what has been read and a
   cut of the rest, and in no other way.                                    *)
TreeType == input \in Seq(TreeByte) /\ pos \in 1..(Len(input) + 1) /\ acc \in Seq(TreeEntry)
TreeTaken == CutsOf(input)[1] = {acc \o s : s \in CutsOf(input)[pos]}
TreeAnswer ==
  /\ result = "ok" => pos = Len(input) + 1
  /\ result # "ok" /\ result # "pending" => CutsOf(input)[pos] = {}
TreeInv == call = "tree" => TreeType /\ TreeTaken /\ TreeAnswer

(* The other decoders do not parse trees.                                   *)
LEMMA OthersLeaveTree ==
  ASSUME EntryStep \/ DeltaStep \/ ParseLoose \/ CommitStep \/ ReflogStep
  PROVE  call # "tree" /\ call' = call
<1>1. CASE EntryStep
  BY <1>1 DEF EntryStep, FirstByte, SizeByte, OfsByte, Base, Name, Inflate, Advance, Return, Reading
<1>2. CASE DeltaStep
  BY <1>2 DEF DeltaStep, DeltaSize, Copy, Insert, Refuse, Advance, Return, Reading
<1>3. CASE ParseLoose
  BY <1>3 DEF ParseLoose, Return, ReturnAfter, Reading
<1>4. CASE CommitStep
  BY <1>4 DEF CommitStep, HeaderLine, Message, Advance, Return, ReturnAfter, Reading
<1>5. CASE ReflogStep
  BY <1>5 DEF ReflogStep, OpenLog, NextLine, LogEnd, Drop, Advance, Return, Reading
<1> QED BY <1>1, <1>2, <1>3, <1>4, <1>5

(* At first, nothing.                                                       *)
LEMMA TreeStarts ==
  ASSUME Init
  PROVE  TreeInv
<1> SUFFICES ASSUME call = "tree" PROVE TreeType /\ TreeTaken /\ TreeAnswer
  BY DEF TreeInv
<1>1. input \in Trees /\ pos = 1 /\ acc = << >> /\ result = "pending"
  BY DEF Init, Begin
<1>2. input \in Seq(TreeByte)
  BY <1>1, ObjectParseAssumption
<1>3. TreeType
  BY <1>1, <1>2 DEF TreeType
<1> DEFINE C == CutsOf(input)[1]
<1>4. C \in SUBSET Seq(TreeEntry)
  BY <1>2, CutsAre
<1> HIDE DEF C
<1>5. \A s \in C : << >> \o s = s
  BY <1>4
<1>6. C = {<< >> \o s : s \in C}
  BY <1>5
<1> QED BY <1>1, <1>3, <1>6 DEF TreeTaken, TreeAnswer, C

(* One record more, or none that can be read.                               *)
LEMMA TreeRecordKeeps ==
  ASSUME call = "tree", TreeInv, TreeRecord
  PROVE  TreeInv'
<1> DEFINE nul == TreeNul(input, pos)
           end == HashEnd(nul)
           e == EntryRead(input, pos)
<1>1. /\ TreeType /\ TreeTaken
      /\ input' = input /\ call' = call /\ result = "pending" /\ pos <= Len(input)
  BY DEF TreeInv, TreeRecord, Reading, Return, Advance
<1>2. input \in Seq(TreeByte) /\ pos \in 1..Len(input) /\ acc \in Seq(TreeEntry)
  BY <1>1 DEF TreeType
<1>3. \/ ~Readable(input, pos) /\ result' = "invalid" /\ pos' = pos /\ acc' = acc
      \/ /\ Readable(input, pos) /\ result' = result
         /\ pos' = pos + (end + 1 - pos) /\ acc' = Append(acc, e)
  <2>1. Len(input) \in Nat /\ (nul # 0 => end \in Int)
    BY <1>2, TreeHeadIs, ObjectParseAssumption DEF HashEnd
  <2>2. nul # 0 => (end > Len(input) <=> ~(end <= Len(input)))
    BY <2>1
  <2> QED BY <2>2, Zenon DEF TreeRecord, Return, Advance, Readable, TreeNul, TreeHead, TreeSpace, TreeMode, EntryRead
<1>4. Readings(input, pos) = IF Readable(input, pos) THEN {<<e, end>>} ELSE {}
  BY <1>2, RecordRead
<1> DEFINE C == CutsOf(input)
<1>5. C[pos] = UNION {{Before(r[1], s) : s \in C[r[2] + 1]} : r \in Readings(input, pos)}
  BY <1>2, CutsAre
<1> HIDE DEF C, e, end
<1>6. CASE ~Readable(input, pos)
  <2>1. C[pos] = {} /\ result' = "invalid" /\ pos' = pos /\ acc' = acc
    BY <1>3, <1>4, <1>5, <1>6
  <2> QED BY <1>1, <2>1 DEF TreeInv, TreeType, TreeTaken, TreeAnswer, C
<1>7. CASE Readable(input, pos)
  <2>1. e \in TreeEntry /\ end \in pos..Len(input)
    <3> DEFINE r == <<e, end>>
    <3>1. r \in Readings(input, pos) /\ r[1] = e /\ r[2] = end
      BY <1>4, <1>7
    <3> HIDE DEF r
    <3> QED BY <1>2, <3>1, ReadingsIn
  <2>2. pos' = end + 1 /\ acc' = Append(acc, e) /\ result' = result
    BY <1>2, <1>3, <1>7, <2>1
  <2>3. C[pos] = {Before(e, s) : s \in C[end + 1]}
    BY <1>4, <1>5, <1>7
  <2>4. C[end + 1] \in SUBSET Seq(TreeEntry)
    <3>1. end + 1 \in 1..(Len(input) + 1)
      BY <1>2, <2>1
    <3> QED BY <1>2, <3>1, CutsAre DEF C
  <2>5. TreeType'
    <3>1. Append(acc, e) \in Seq(TreeEntry)
      BY <1>2, <2>1
    <3>2. end + 1 \in 1..(Len(input) + 1)
      BY <1>2, <2>1
    <3> QED BY <1>1, <1>2, <2>2, <3>1, <3>2 DEF TreeType
  <2>6. \A s \in C[end + 1] : acc \o Before(e, s) = Append(acc, e) \o s
    BY <1>2, <2>1, <2>4, BeforeIs
  <2>7. C[1] = {acc \o u : u \in C[pos]}
    BY <1>1 DEF TreeTaken, C
  <2>8. {acc \o u : u \in C[pos]} = {Append(acc, e) \o s : s \in C[end + 1]}
    <3> DEFINE L == {acc \o u : u \in C[pos]}
               M == {Append(acc, e) \o s : s \in C[end + 1]}
    <3>1. ASSUME NEW x \in L PROVE x \in M
      <4>1. PICK u \in C[pos] : x = acc \o u
        OBVIOUS
      <4>2. PICK s \in C[end + 1] : u = Before(e, s)
        BY <2>3
      <4>3. x = Append(acc, e) \o s
        BY <2>6, <4>1, <4>2
      <4> QED BY <4>3
    <3>2. ASSUME NEW x \in M PROVE x \in L
      <4>1. PICK s \in C[end + 1] : x = Append(acc, e) \o s
        OBVIOUS
      <4>2. Before(e, s) \in C[pos] /\ x = acc \o Before(e, s)
        BY <2>3, <2>6, <4>1
      <4> QED BY <4>2
    <3> HIDE DEF L, M
    <3>3. L = M
      BY <3>1, <3>2
    <3> QED BY <3>3 DEF L, M
  <2>9. TreeTaken'
    <3>1. C[1] = {Append(acc, e) \o s : s \in C[end + 1]}
      BY <2>7, <2>8
    <3>2. C[1] = {acc' \o s : s \in C[pos']}
      BY <2>2, <3>1
    <3> QED BY <1>1, <3>2 DEF TreeTaken, C
  <2> QED BY <1>1, <2>2, <2>5, <2>9 DEF TreeInv, TreeAnswer
<1> QED BY <1>6, <1>7

(* Any step.                                                                *)
LEMMA TreeKept ==
  ASSUME TreeInv, [Next]_vars
  PROVE  TreeInv'
<1>1. CASE TreeRecord
  <2>1. call = "tree"
    BY <1>1 DEF TreeRecord, Reading
  <2> QED BY <1>1, <2>1, TreeRecordKeeps
<1>2. CASE TreeEnd
  <2>1. /\ TreeType /\ TreeTaken /\ call = "tree"
        /\ UNCHANGED <<call, input, pos, acc>> /\ result' = "ok" /\ pos > Len(input)
    BY <1>2 DEF TreeInv, TreeEnd, Reading, Return
  <2>2. pos = Len(input) + 1
    BY <2>1 DEF TreeType
  <2> QED BY <2>1, <2>2 DEF TreeInv, TreeType, TreeTaken, TreeAnswer
<1>3. CASE EntryStep \/ DeltaStep \/ ParseLoose \/ CommitStep \/ ReflogStep
  BY <1>3, OthersLeaveTree DEF TreeInv
<1>4. CASE UNCHANGED vars
  BY <1>4 DEF TreeInv, TreeType, TreeTaken, TreeAnswer, vars
<1> QED BY <1>1, <1>2, <1>3, <1>4 DEF Next, Terminated

(* TreeObject::parse accepts exactly the trees that can be cut into entries,
   and gives the only entries there can be.                                 *)
THEOREM TreeIsExact == Spec => []TreeExact
<1>1. Init => TreeInv
  BY TreeStarts
<1>2. TreeInv /\ [Next]_vars => TreeInv'
  BY TreeKept
<1>3. TreeInv => TreeExact
  <2> SUFFICES ASSUME TreeInv, Finished("tree")
               PROVE  CutsOf(input)[1] = IF result = "ok" THEN {acc} ELSE {}
    BY TreeExactIs
  <2>1. TreeType /\ TreeTaken /\ TreeAnswer /\ result # "pending" /\ input \in Seq(TreeByte)
        /\ acc \in Seq(TreeEntry)
    BY DEF TreeInv, Finished, TreeType
  <2> DEFINE C == CutsOf(input)
  <2>2. C[1] = {acc \o s : s \in C[pos]}
    BY <2>1 DEF TreeTaken
  <2>3. C[Len(input) + 1] = {<< >>}
    BY <2>1, CutsAre
  <2>4. acc \o << >> = acc
    BY <2>1
  <2>5. (result = "ok" => pos = Len(input) + 1) /\ (result # "ok" => C[pos] = {})
    BY <2>1 DEF TreeAnswer
  <2> HIDE DEF C
  <2>6. CASE result = "ok"
    <3>1. C[pos] = {<< >>}
      BY <2>3, <2>5, <2>6
    <3>2. C[1] = {acc}
      BY <2>2, <2>4, <3>1
    <3> QED BY <2>6, <3>2 DEF C
  <2>7. CASE result # "ok"
    <3>1. C[1] = {}
      BY <2>2, <2>5, <2>7
    <3> QED BY <2>7, <3>1 DEF C
  <2> QED BY <2>6, <2>7
<1> QED BY <1>1, <1>2, <1>3, PTL DEF Spec


-----------------------------------------------------------------------------
(* Division, and what multiplication keeps.                                 *)
LEMMA DivMod ==
  ASSUME NEW a \in Nat, NEW d \in Nat \ {0}
  PROVE  a \div d \in Nat /\ a % d \in 0..(d - 1) /\ a = (a \div d) * d + (a % d)
OBVIOUS
(* Products of integers by one that is positive.                            *)
LEMMA Products ==
  ASSUME NEW a \in Int, NEW b \in Int, NEW c \in Int, NEW s \in Nat \ {0}
  PROVE  /\ a * s \in Int /\ (a * s < b * s <=> a < b)
         /\ (a + 1) * s = a * s + s /\ (a - b) * s = a * s - b * s /\ (a * c) * s = c * (a * s)
OBVIOUS

(* Bits put in their place, at a scale that divides the word, leave room
   for a number below the scale: nothing is carried, whatever is cut off.   *)
LEMMA PlacedAbove ==
  ASSUME NEW w \in Nat \ {0}, NEW s \in Nat \ {0}, w % s = 0, NEW b \in Nat, NEW x \in 0..(s - 1)
  PROVE  /\ x + ((b * s) % w) \in 0..(w - 1)
         /\ \A g \in Nat : b < g => x + ((b * s) % w) < s * g
<1> DEFINE q == w \div s
           k == (b * s) \div w
           p == (b * s) % w
           m == b - (q * k)
<1>1. q \in Nat /\ w = q * s
  BY DivMod
<1>2. b * s \in Nat
  BY Products
<1>3. k \in Nat /\ p \in 0..(w - 1) /\ b * s = k * w + p
  <2> DEFINE a == b * s
  <2>1. a \in Nat
    BY <1>2
  <2> HIDE DEF a
  <2>2. a \div w \in Nat /\ a % w \in 0..(w - 1) /\ a = (a \div w) * w + (a % w)
    BY <2>1, DivMod
  <2> QED BY <2>2 DEF a
<1> HIDE DEF q, k, p
<1>4. q * k \in Int /\ m \in Int
  BY <1>1, <1>3
<1>5. p = m * s
  <2>1. (q * k) * s = k * w
    BY <1>1, <1>3, Products
  <2>2. m * s = b * s - (q * k) * s
    BY <1>4, Products
  <2>3. k * w \in Int /\ p \in Int
    BY <1>3
  <2>4. \A u, v \in Int : u = v + p => u - v = p
    BY <2>3
  <2>5. b * s - k * w = p
    BY <1>2, <1>3, <2>3, <2>4
  <2> QED BY <2>1, <2>2, <2>5
<1> HIDE DEF m
<1>6. m < q
  BY <1>1, <1>3, <1>4, <1>5, Products
<1>7. p + s <= w
  <2>1. (m + 1) * s = p + s
    BY <1>4, <1>5, Products
  <2>2. ~(q * s < (m + 1) * s)
    BY <1>1, <1>4, <1>6, Products
  <2> QED BY <1>1, <1>3, <2>1, <2>2
<1>8. x + p \in 0..(w - 1)
  BY <1>3, <1>7
<1>9. ASSUME NEW g \in Nat, b < g PROVE x + p < s * g
  <2>1. p <= b * s
    <3>1. k * w >= 0 /\ k * w \in Int
      BY <1>3
    <3> QED BY <1>2, <1>3, <3>1
  <2>2. (b + 1) * s = b * s + s /\ ~(g * s < (b + 1) * s) /\ g * s \in Int /\ g * s = s * g
    BY <1>9, Products
  <2> QED BY <1>2, <1>3, <2>1, <2>2
<1> QED BY <1>8, <1>9 DEF p

(* A number being read: its bits so far lie below its scale, and the scale
   divides the word until the word is full.                                 *)
Below(size, scale) == scale < Word => Word % scale = 0 /\ size < scale

(* What the assumptions say of the widths.                                  *)
LEMMA PackConstants ==
  /\ First \in Nat \ {0, 1} /\ Group \in Nat \ {0, 1} /\ Word \in Nat \ {0, 1}
  /\ NameBytes \in Nat /\ First < Word /\ Group < Word /\ Word % First = 0 /\ Word % Group = 0
  /\ \A d \in 1..Word : Word % d = 0 /\ d * Group < Word => Word % (d * Group) = 0
<1>1. /\ First \in Nat \ {0, 1} /\ Group \in Nat \ {0, 1} /\ Word \in Nat \ {0, 1}
      /\ NameBytes \in Nat /\ First < Word /\ Group < Word /\ Word % First = 0
      /\ \A d \in 1..Word : Word % d = 0 /\ d * Group < Word => Word % (d * Group) = 0
  BY PackBytesAssumption
<1>2. 1 \in 1..Word /\ Word % 1 = 0 /\ 1 * Group = Group
  BY <1>1
<1>3. Word % (1 * Group) = 0
  BY <1>1, <1>2
<1> QED BY <1>1, <1>2, <1>3

(* One group more.                                                          *)
LEMMA BelowKept ==
  ASSUME NEW size \in 0..(Word - 1), NEW scale \in Nat \ {0}, scale < Word, Below(size, scale),
         NEW b \in 0..(Group - 1)
  PROVE  /\ size + Placed(b, scale) \in 0..(Word - 1)
         /\ scale * Group \in Nat \ {0} /\ Below(size + Placed(b, scale), scale * Group)
<1>1. /\ Group \in Nat \ {0, 1} /\ Word \in Nat \ {0, 1} /\ Word % scale = 0 /\ size \in 0..(scale - 1)
      /\ b \in Nat /\ b < Group /\ scale \in 1..Word
  BY PackConstants DEF Below
<1>2. /\ size + ((b * scale) % Word) \in 0..(Word - 1)
      /\ size + ((b * scale) % Word) < scale * Group
  BY <1>1, PlacedAbove
<1>3. scale * Group \in Nat \ {0}
  BY <1>1
<1>4. scale * Group < Word => Word % (scale * Group) = 0
  BY <1>1, PackConstants
<1> QED BY <1>2, <1>3, <1>4, Zenon DEF Placed, Below

(* The distance to a base, one byte more.                                   *)
LEMMA FartherFits ==
  ASSUME NEW dist \in 0..(Word - 1), NEW b \in 0..(Group - 1)
  PROVE  Farther(dist, b) \in 0..(Word - 1)
<1>1. /\ Group \in Nat \ {0} /\ Word \in Nat \ {0} /\ Word % Group = 0 /\ dist + 1 \in Nat
  BY PackConstants
<1>2. b + (((dist + 1) * Group) % Word) \in 0..(Word - 1)
  BY <1>1, PlacedAbove
<1>3. ((dist + 1) * Group) % Word \in Int /\ b \in Int
  <2>1. (dist + 1) * Group \in Int
    BY <1>1
  <2> QED BY <1>1, <2>1
<1>4. (((dist + 1) * Group) % Word) + b = b + (((dist + 1) * Group) % Word)
  <2> DEFINE p == ((dist + 1) * Group) % Word
  <2> HIDE DEF p
  <2> QED BY <1>3 DEF p
<1> QED BY <1>2, <1>4 DEF Farther, Placed


(* An entry and a delta being read.                                         *)
EntryParts == [part : {"first", "size", "ofs", "farther", "base", "name", "body"}, type : Nat,
               size : 0..(Word - 1), scale : Nat \ {0}, dist : 0..(Word - 1)]
EntryType ==
  /\ input \in Entries /\ pos \in 1..(Len(input.bytes) + 1) /\ acc \in EntryParts
  /\ Below(acc.size, acc.scale)
  /\ IF acc.part = "first" THEN pos = 1 /\ acc.scale = First ELSE pos > 1

DeltaParts == [size : 0..(Word - 1), scale : Nat, target : BOOLEAN, out : Seq(Nat)]
DeltaType ==
  /\ input \in Deltas /\ pos \in 1..(Len(input.sizes) + Len(input.ops) + 1) /\ acc \in DeltaParts
  /\ IF acc.scale = 0 THEN pos > Len(input.sizes) ELSE Below(acc.size, acc.scale)
  /\ acc.target => \E i \in 1..(pos - 1) : i <= Len(input.sizes) /\ ~input.sizes[i].more

(* What the assumptions say of an entry and of a byte of it.                *)
LEMMA EntryBytes ==
  ASSUME NEW e \in Entries
  PROVE  /\ e.bytes \in Seq(Byte) /\ \A i \in 1..Len(e.bytes) : e.bytes[i].bits \in Nat
         /\ \A i \in 2..Len(e.bytes) : e.bytes[i].bits \in 0..(Group - 1)
<1>1. e.bytes \in Seq(Byte) /\ Group \in Nat /\ \A i \in 2..Len(e.bytes) : e.bytes[i].bits < Group
  BY PackBytesAssumption DEF Entry
<1>2. \A i \in 1..Len(e.bytes) : e.bytes[i].bits \in Nat
  <2>1. \A b \in Byte : b.bits \in Nat
    BY DEF Byte
  <2>2. \A i \in 1..Len(e.bytes) : e.bytes[i] \in Byte
    BY <1>1
  <2> QED BY <2>1, <2>2
<1>3. \A i \in 2..Len(e.bytes) : i \in 1..Len(e.bytes)
  BY <1>1
<1> QED BY <1>1, <1>2, <1>3

(* A byte of an entry, its base, its name or its body.                      *)
LEMMA EntryStepTypes ==
  ASSUME call = "read_entry", EntryType, EntryStep
  PROVE  EntryType' /\ call' = call /\ result' \in Results
<1> DEFINE n == Len(input.bytes)
<1>1. /\ input \in Entries /\ pos \in 1..(n + 1) /\ acc \in EntryParts /\ n \in Nat
      /\ Below(acc.size, acc.scale)
      /\ acc.part = "first" => pos = 1 /\ acc.scale = First
      /\ acc.part # "first" => pos > 1
      /\ \A i \in 1..n : input.bytes[i].bits \in Nat
      /\ \A i \in 2..n : input.bytes[i].bits \in 0..(Group - 1)
  BY EntryBytes DEF EntryType
<1>2. result = "pending"
  BY DEF EntryStep, Reading
<1> HIDE DEF n
<1>3. ASSUME NEW r \in Results, Return(r) PROVE EntryType' /\ call' = call /\ result' \in Results
  BY <1>3 DEF Return, EntryType
<1>4. ASSUME NEW m \in Nat, NEW a \in EntryParts, Advance(m, a), pos + m \in 2..(n + 1),
             Below(a.size, a.scale), a.part # "first"
      PROVE  EntryType' /\ call' = call /\ result' \in Results
  <2>1. pos' \in 1..(n + 1) /\ pos' > 1 /\ acc' = a /\ call' = call /\ input' = input /\ result' = result
    BY <1>4 DEF Advance
  <2> QED BY <1>1, <1>2, <1>4, <2>1 DEF EntryType, Results, n
<1>5. ASSUME ~Beyond PROVE pos \in 1..n /\ (acc.part # "first" => pos \in 2..n) /\ pos + 1 \in 2..(n + 1)
  BY <1>1, <1>5 DEF Beyond, n
<1>6. CASE FirstByte
  <2> DEFINE t == (At.bits \div First) % 8
             a == [acc EXCEPT !.type = t, !.size = At.bits % First,
                              !.part = IF At.more THEN "size" ELSE AfterHeader(t)]
  <2>1. acc.part = "first" /\ ~Beyond /\ Advance(1, a)
    BY <1>6 DEF FirstByte
  <2>2. At.bits \in Nat /\ pos + 1 \in 2..(n + 1)
    BY <1>1, <1>5, <2>1 DEF At
  <2>3. At.bits % First \in 0..(First - 1) /\ t \in Nat
    <3> DEFINE b == At.bits
    <3> HIDE DEF b
    <3>1. b \in Nat /\ First \in Nat \ {0}
      BY <2>2, PackConstants DEF b
    <3>2. b % First \in 0..(First - 1) /\ (b \div First) % 8 \in Nat
      BY <3>1
    <3> QED BY <3>2 DEF b
  <2>4. At.bits % First \in 0..(Word - 1) /\ At.bits % First < First
    BY <2>3, PackConstants
  <2> HIDE DEF t
  <2>5. a \in EntryParts /\ a.size = At.bits % First /\ a.scale = First /\ a.part # "first"
    BY <1>1, <2>1, <2>3, <2>4 DEF EntryParts, AfterHeader
  <2>6. Below(a.size, a.scale)
    BY <2>4, <2>5, PackConstants DEF Below
  <2> HIDE DEF a
  <2> QED BY <1>4, <2>1, <2>2, <2>5, <2>6
<1>7. CASE SizeByte
  <2> DEFINE a == [acc EXCEPT !.size = @ + Placed(At.bits, acc.scale), !.scale = @ * Group,
                              !.part = IF At.more THEN "size" ELSE AfterHeader(acc.type)]
  <2>1. acc.part = "size" /\ ~Beyond
    BY <1>7 DEF SizeByte
  <2>2. CASE ~ShiftFits(acc.scale)
    <3>1. Return("oob")
      BY <1>7, <2>2 DEF SizeByte
    <3> QED BY <1>3, <3>1 DEF Results
  <2>3. CASE ShiftFits(acc.scale)
    <3>1. Advance(1, a)
      BY <1>7, <2>3 DEF SizeByte
    <3>2. At.bits \in 0..(Group - 1) /\ pos + 1 \in 2..(n + 1)
      BY <1>1, <1>5, <2>1 DEF At
    <3> DEFINE size == acc.size + Placed(At.bits, acc.scale)
               scale == acc.scale * Group
    <3>3. size \in 0..(Word - 1) /\ scale \in Nat \ {0} /\ Below(size, scale)
      <4>1. acc.size \in 0..(Word - 1) /\ acc.scale \in Nat \ {0} /\ acc.scale < Word
        BY <1>1, <2>3 DEF EntryParts, ShiftFits
      <4> QED BY <1>1, <3>2, <4>1, BelowKept
    <3> HIDE DEF size, scale
    <3>4. a \in EntryParts /\ a.size = size /\ a.scale = scale /\ a.part # "first"
      BY <1>1, <3>3 DEF EntryParts, AfterHeader, size, scale
    <3> HIDE DEF a
    <3> QED BY <1>4, <3>1, <3>2, <3>3, <3>4
  <2> QED BY <2>2, <2>3
<1>8. CASE OfsByte
  <2> DEFINE dist == IF acc.part = "ofs" THEN At.bits ELSE Farther(acc.dist, At.bits)
             a == [acc EXCEPT !.dist = dist, !.part = IF At.more THEN "farther" ELSE "base"]
  <2>1. acc.part \in {"ofs", "farther"} /\ ~Beyond /\ (Return("oob") \/ Advance(1, a))
    BY <1>8 DEF OfsByte
  <2>2. At.bits \in 0..(Group - 1) /\ pos + 1 \in 2..(n + 1)
    BY <1>1, <1>5, <2>1 DEF At
  <2>3. dist \in 0..(Word - 1)
    <3>1. acc.dist \in 0..(Word - 1)
      BY <1>1 DEF EntryParts
    <3>2. Farther(acc.dist, At.bits) \in 0..(Word - 1)
      BY <2>2, <3>1, FartherFits
    <3>3. At.bits \in 0..(Word - 1)
      BY <2>2, PackConstants
    <3> QED BY <3>2, <3>3
  <2> HIDE DEF dist
  <2>4. a \in EntryParts /\ a.size = acc.size /\ a.scale = acc.scale /\ a.part # "first"
    BY <1>1, <2>3 DEF EntryParts
  <2> HIDE DEF a
  <2> QED BY <1>1, <1>3, <1>4, <2>1, <2>2, <2>4 DEF Results
<1>9. CASE Base
  <2> DEFINE a == [acc EXCEPT !.part = "body"]
  <2>1. acc.part = "base" /\ (Return("oob") \/ Advance(0, a))
    BY <1>9 DEF Base
  <2>2. a \in EntryParts /\ a.size = acc.size /\ a.scale = acc.scale /\ a.part # "first"
    BY <1>1, <2>1 DEF EntryParts
  <2>3. pos + 0 \in 2..(n + 1)
    BY <1>1, <2>1
  <2> HIDE DEF a
  <2> QED BY <1>1, <1>3, <1>4, <2>1, <2>2, <2>3 DEF Results
<1>10. CASE Name
  <2> DEFINE a == [acc EXCEPT !.part = "body"]
  <2>1. acc.part = "name" /\ (Return("oob") \/ (NameFits /\ Advance(NameBytes, a)))
    BY <1>10 DEF Name
  <2>2. a \in EntryParts /\ a.size = acc.size /\ a.scale = acc.scale /\ a.part # "first"
    BY <1>1, <2>1 DEF EntryParts
  <2>3. NameBytes \in Nat /\ (NameFits => pos + NameBytes \in 2..(n + 1))
    BY <1>1, <2>1, PackConstants DEF NameFits, n
  <2> HIDE DEF a
  <2> QED BY <1>1, <1>3, <1>4, <2>1, <2>2, <2>3 DEF Results
<1>11. CASE Inflate
  <2>1. \E r \in Results : Return(r)
    BY <1>11 DEF Inflate, Results
  <2> QED BY <1>3, <2>1
<1>12. CASE Return("oob")
  BY <1>3, <1>12 DEF Results
<1> QED BY <1>6, <1>7, <1>8, <1>9, <1>10, <1>11, <1>12 DEF EntryStep


(* What the assumptions say of a delta.                                     *)
LEMMA DeltaBytes ==
  ASSUME NEW d \in Deltas
  PROVE  /\ d.base \in Seq(Nat) /\ d.sizes \in Seq(Byte) /\ d.ops \in Seq(Range(d.ops))
         /\ \A i \in 1..Len(d.sizes) : d.sizes[i].bits \in 0..(Group - 1)
         /\ \A i, j \in 1..(Len(d.sizes) - 1) : ~d.sizes[i].more /\ ~d.sizes[j].more => i = j
         /\ \A i \in 1..Len(d.ops) :
              /\ d.ops[i].op = "insert" => d.ops[i].lit \in Seq(Nat)
              /\ d.ops[i].op = "copy" => Little(d.ops[i].off) \in Nat /\ CopySize(d.ops[i].size) \in Nat
<1>1. /\ d.base \in Seq(Nat) /\ d.sizes \in Seq(Byte) /\ d.ops \in Seq(Range(d.ops)) /\ Group \in Nat
      /\ \A i \in DOMAIN d.sizes : d.sizes[i].bits < Group
      /\ \A i, j \in 1..(Len(d.sizes) - 1) : ~d.sizes[i].more /\ ~d.sizes[j].more => i = j
      /\ \A o \in Range(d.ops) :
           \/ o \in Inserts \/ o \in Reserved
           \/ o.op = "copy" /\ \A f \in {o.off, o.size} : f \in [DOMAIN f -> Nat]
  BY PackBytesAssumption
<1>2. \A i \in 1..Len(d.sizes) : d.sizes[i].bits \in 0..(Group - 1)
  <2>1. \A b \in Byte : b.bits \in Nat
    BY DEF Byte
  <2>2. \A i \in 1..Len(d.sizes) : d.sizes[i] \in Byte /\ i \in DOMAIN d.sizes
    BY <1>1
  <2> QED BY <1>1, <2>1, <2>2
<1>3. ASSUME NEW f, f \in [DOMAIN f -> Nat] PROVE Little(f) \in Nat /\ CopySize(f) \in Nat
  <2>1. \A i : Digit(f, i) \in Nat
    BY <1>3 DEF Digit
  <2>2. Radix \in Nat /\ Big \in Nat
    BY PackBytesAssumption
  <2>3. \A m, k \in Nat : m + Radix * k \in Nat
    BY <2>2
  <2>4. Little(f) \in Nat
    BY <2>1, <2>3, Zenon DEF Little
  <2> QED BY <2>2, <2>4, Zenon DEF CopySize
<1>4. ASSUME NEW i \in 1..Len(d.ops)
      PROVE  /\ d.ops[i].op = "insert" => d.ops[i].lit \in Seq(Nat)
             /\ d.ops[i].op = "copy" => Little(d.ops[i].off) \in Nat /\ CopySize(d.ops[i].size) \in Nat
  <2> DEFINE o == d.ops[i]
  <2>1. o \in Range(d.ops)
    BY <1>1
  <2> HIDE DEF o
  <2>2. \/ o \in Inserts \/ o \in Reserved
        \/ o.op = "copy" /\ \A f \in {o.off, o.size} : f \in [DOMAIN f -> Nat]
    BY <1>1, <2>1
  <2>3. o \in Inserts => o.op = "insert" /\ o.lit \in Seq(Nat)
    BY DEF Inserts
  <2>4. o \in Reserved => o.op \in {"zero", "cut"}
    BY DEF Reserved
  <2>5. o.op = "copy" => Little(o.off) \in Nat /\ CopySize(o.size) \in Nat
    BY <1>3, <2>2, <2>3, <2>4
  <2>6. o.op = "insert" => o.lit \in Seq(Nat)
    BY <2>2, <2>3, <2>4
  <2> QED BY <2>5, <2>6 DEF o
<1> QED BY <1>1, <1>2, <1>4

(* A byte of a size, or an instruction.                                     *)
LEMMA DeltaStepTypes ==
  ASSUME call = "apply_delta", DeltaType, DeltaStep
  PROVE  DeltaType' /\ call' = call /\ result' \in Results
<1> DEFINE n == Len(input.sizes)
           l == Len(input.ops)
<1>0. /\ input \in Deltas /\ pos \in 1..(n + l + 1) /\ acc \in DeltaParts
      /\ acc.scale = 0 => pos > n
      /\ acc.scale # 0 => Below(acc.size, acc.scale)
      /\ acc.target => \E i \in 1..(pos - 1) : i <= n /\ ~input.sizes[i].more
  BY DEF DeltaType
<1>1. /\ n \in Nat /\ l \in Nat /\ input.base \in Seq(Nat)
      /\ \A i \in 1..n : input.sizes[i].bits \in 0..(Group - 1)
      /\ \A i, j \in 1..(n - 1) : ~input.sizes[i].more /\ ~input.sizes[j].more => i = j
      /\ \A i \in 1..l :
           /\ input.ops[i].op = "insert" => input.ops[i].lit \in Seq(Nat)
           /\ input.ops[i].op = "copy" => Little(input.ops[i].off) \in Nat /\ CopySize(input.ops[i].size) \in Nat
  <2>1. input.sizes \in Seq(Byte) /\ input.ops \in Seq(Range(input.ops))
    BY <1>0, DeltaBytes
  <2>2. n \in Nat /\ l \in Nat
    BY <2>1
  <2> QED BY <1>0, <2>2, DeltaBytes, Zenon
<1>2. result = "pending"
  BY DEF DeltaStep, Reading
<1> HIDE DEF n, l
<1>3. ASSUME NEW r \in Results, Return(r) PROVE DeltaType' /\ call' = call /\ result' \in Results
  BY <1>3 DEF Return, DeltaType
<1>4. ASSUME NEW a \in DeltaParts, Advance(1, a), pos <= n + l,
             IF a.scale = 0 THEN pos >= n ELSE Below(a.size, a.scale),
             a.target => acc.target \/ (pos <= n /\ ~input.sizes[pos].more)
      PROVE  DeltaType' /\ call' = call /\ result' \in Results
  <2>1. /\ pos' \in 1..(n + l + 1) /\ pos' = pos + 1 /\ acc' = a /\ call' = call /\ input' = input
        /\ result' = result /\ (pos >= n => pos' > n)
    BY <1>0, <1>1, <1>4 DEF Advance
  <2>2. a.target => \E i \in 1..(pos' - 1) : i <= n /\ ~input.sizes[i].more
    <3>1. CASE acc.target
      <4>1. PICK i \in 1..(pos - 1) : i <= n /\ ~input.sizes[i].more
        BY <1>0, <3>1
      <4>2. i \in 1..(pos' - 1)
        BY <1>0, <1>1, <2>1
      <4> QED BY <4>1, <4>2
    <3>2. CASE pos <= n /\ ~input.sizes[pos].more
      <4>1. pos \in 1..(pos' - 1)
        BY <1>0, <1>1, <2>1
      <4> QED BY <3>2, <4>1
    <3> QED BY <1>4, <3>1, <3>2
  <2> QED BY <1>0, <1>2, <1>4, <2>1, <2>2 DEF DeltaType, Results, n, l
<1>5. CASE DeltaSize
  <2> DEFINE b == input.sizes[pos]
             sum == acc.size + Placed(b.bits, acc.scale)
             a == IF b.more THEN [acc EXCEPT !.size = sum, !.scale = @ * Group]
                  ELSE IF acc.target THEN [acc EXCEPT !.size = sum, !.scale = 0]
                  ELSE [acc EXCEPT !.size = 0, !.scale = 1, !.target = TRUE]
  <2>1. pos \in 1..n /\ pos <= n + l /\ b.bits \in 0..(Group - 1)
    <3>1. pos <= n
      BY <1>5 DEF DeltaSize, n
    <3>2. pos \in 1..n /\ pos <= n + l
      BY <1>0, <1>1, <3>1
    <3> QED BY <1>1, <3>2
  <2>2. acc.size \in 0..(Word - 1) /\ acc.scale \in Nat \ {0} /\ Below(acc.size, acc.scale)
    <3>1. acc.size \in 0..(Word - 1) /\ acc.scale \in Nat
      BY <1>0 DEF DeltaParts
    <3>2. acc.scale # 0
      BY <1>0, <1>1, <2>1
    <3> QED BY <1>0, <3>1, <3>2
  <2>3. CASE ~ShiftFits(acc.scale)
    <3>1. Return("oob")
      BY <1>5, <2>3 DEF DeltaSize
    <3> QED BY <1>3, <3>1 DEF Results
  <2>4. CASE ShiftFits(acc.scale)
    <3>1. Advance(1, a)
      BY <1>5, <2>4 DEF DeltaSize
    <3> DEFINE scale == acc.scale * Group
    <3>2. sum \in 0..(Word - 1) /\ scale \in Nat \ {0} /\ Below(sum, scale)
      BY <2>1, <2>2, <2>4, BelowKept DEF ShiftFits
    <3> HIDE DEF sum, scale
    <3>3. CASE b.more
      <4>1. a = [acc EXCEPT !.size = sum, !.scale = scale]
        BY <3>3 DEF scale
      <4>2. a \in DeltaParts /\ a.size = sum /\ a.scale = scale /\ a.target = acc.target
        BY <1>0, <3>2, <4>1 DEF DeltaParts
      <4> HIDE DEF a
      <4> QED BY <1>4, <2>1, <3>1, <3>2, <4>2
    <3>4. CASE ~b.more /\ acc.target
      <4>1. a = [acc EXCEPT !.size = sum, !.scale = 0]
        BY <3>4
      <4>2. a \in DeltaParts /\ a.scale = 0 /\ a.target = acc.target
        <5> HIDE DEF a
        <5> QED BY <1>0, <3>2, <4>1 DEF DeltaParts
      <4>3. pos >= n
        <5>1. PICK i \in 1..(pos - 1) : i <= n /\ ~input.sizes[i].more
          BY <1>0, <3>4
        <5>2. ~(pos \in 1..(n - 1))
          <6>1. SUFFICES ASSUME pos \in 1..(n - 1) PROVE FALSE
            OBVIOUS
          <6>2. i \in 1..(n - 1) /\ i # pos
            BY <1>1, <5>1, <6>1
          <6> QED BY <1>1, <3>4, <5>1, <6>1, <6>2
        <5> QED BY <1>1, <2>1, <5>2
      <4> HIDE DEF a
      <4> QED BY <1>4, <2>1, <3>1, <4>2, <4>3
    <3>5. CASE ~b.more /\ ~acc.target
      <4>1. a = [acc EXCEPT !.size = 0, !.scale = 1, !.target = TRUE]
        BY <3>5
      <4>2. 0 \in 0..(Word - 1) /\ Below(0, 1)
        BY PackConstants DEF Below
      <4>3. a \in DeltaParts /\ a.size = 0 /\ a.scale = 1
        <5> HIDE DEF a
        <5>1. a = [size |-> 0, scale |-> 1, target |-> TRUE, out |-> acc.out]
          BY <1>0, <4>1 DEF DeltaParts
        <5>2. acc.out \in Seq(Nat) /\ 1 \in Nat /\ TRUE \in BOOLEAN
          BY <1>0 DEF DeltaParts
        <5> QED BY <4>2, <5>1, <5>2, Zenon DEF DeltaParts
      <4> HIDE DEF a
      <4> QED BY <1>4, <2>1, <3>1, <3>5, <4>2, <4>3
    <3> QED BY <3>3, <3>4, <3>5
  <2> QED BY <2>3, <2>4
<1>6. CASE SizesRead /\ ~NoMoreOps /\ (Copy \/ Insert \/ Refuse)
  <2>1. acc.scale = 0 /\ pos \in (n + 1)..(n + l) /\ pos - n \in 1..l /\ acc.out \in Seq(Nat)
    <3>1. acc.scale = 0 /\ pos > n
      BY <1>0, <1>6 DEF SizesRead
    <3>2. pos <= n + l
      <4>1. ~(pos > n + l)
        BY <1>6, Zenon DEF NoMoreOps, n, l
      <4> QED BY <1>0, <1>1, <4>1
    <3> QED BY <1>0, <1>1, <3>1, <3>2 DEF DeltaParts
  <2>2. Op = input.ops[pos - n]
    BY DEF Op, n
  <2>3. ASSUME NEW out \in Seq(Nat), Advance(1, [acc EXCEPT !.out = out])
        PROVE  DeltaType' /\ call' = call /\ result' \in Results
    <3> DEFINE a == [acc EXCEPT !.out = out]
    <3>1. a \in DeltaParts /\ a.scale = 0 /\ a.target = acc.target
      BY <1>0, <2>1 DEF DeltaParts
    <3>2. Advance(1, a) /\ pos <= n + l /\ pos >= n
      BY <1>1, <2>1, <2>3
    <3> HIDE DEF a
    <3> QED BY <1>4, <3>1, <3>2
  <2>4. CASE Copy
    <3> DEFINE from == Little(Op.off)
               end == from + CopySize(Op.size)
               s == SubSeq(input.base, from + 1, end)
    <3>1. from \in Nat /\ end \in Nat
      BY <1>1, <2>1, <2>2, <2>4 DEF Copy
    <3>2. CASE end > Len(input.base)
      <4>1. Return("oob")
        BY <2>4, <3>2 DEF Copy
      <4> QED BY <1>3, <4>1 DEF Results
    <3>3. CASE ~(end > Len(input.base))
      <4>1. Advance(1, [acc EXCEPT !.out = acc.out \o s])
        BY <2>4, <3>3 DEF Copy
      <4>2. s \in Seq(Nat)
        <5> HIDE DEF from, end
        <5>1. \A i \in (from + 1)..end : input.base[i] \in Nat
          BY <1>1, <3>1, <3>3
        <5> QED BY <3>1, <5>1, SubSeqProperties
      <4> HIDE DEF s
      <4>3. acc.out \o s \in Seq(Nat)
        BY <2>1, <4>2
      <4> QED BY <2>3, <4>1, <4>3, Zenon
    <3> QED BY <3>2, <3>3
  <2>5. CASE Insert
    <3>1. Op.lit \in Seq(Nat) /\ Advance(1, [acc EXCEPT !.out = acc.out \o Op.lit])
      BY <1>1, <2>1, <2>2, <2>5 DEF Insert
    <3> DEFINE s == Op.lit
    <3>2. s \in Seq(Nat)
      BY <3>1
    <3> HIDE DEF s
    <3>3. acc.out \o s \in Seq(Nat)
      BY <2>1, <3>2
    <3>4. Advance(1, [acc EXCEPT !.out = acc.out \o s])
      BY <3>1 DEF s
    <3> QED BY <2>3, <3>3, <3>4, Zenon
  <2>6. CASE Refuse
    <3>1. \E r \in Results : Return(r)
      BY <2>6 DEF Refuse, Results
    <3> QED BY <1>3, <3>1
  <2> QED BY <1>6, <2>4, <2>5, <2>6
<1>7. CASE \E r \in Results : Return(r)
  BY <1>3, <1>7
<1> QED BY <1>5, <1>6, <1>7 DEF DeltaStep, Results


(* A commit and a log being read: the position stays inside.                *)
LinesType ==
  /\ call = "commit" => /\ input \in Commits /\ pos \in 1..(Len(input.lines) + 2)
                        /\ result = "pending" => pos \in 1..(Len(input.lines) + 1)
  /\ call = "audit_reflog" => input \in Logs /\ pos \in 1..(Len(input.lines) + 1)

DecodeInv ==
  /\ result \in Results /\ pos \in Nat \ {0}
  /\ call = "read_entry" => EntryType
  /\ call = "apply_delta" => DeltaType
  /\ LooseInv /\ TreeInv /\ LinesType

(* The lines of what is parsed by lines.                                    *)
LEMMA LinesAre ==
  /\ \A c \in Commits : Len(c.lines) \in Nat
  /\ \A l \in Logs : Len(l.lines) \in Nat
<1>1. \A c \in Commits : c.lines \in Seq(Line)
  BY ObjectParseAssumption
<1>2. \A l \in Logs : l.lines \in Seq(LogLine)
  BY ReflogAssumption DEF Log
<1> QED BY <1>1, <1>2

(* A line of a commit, its message, or a line of a log.                     *)
LEMMA LineStepTypes ==
  ASSUME LinesType, result \in Results, CommitStep \/ ReflogStep
  PROVE  LinesType' /\ call' = call /\ call \in {"commit", "audit_reflog"} /\ result' \in Results /\ pos' \in Nat \ {0}
<1>1. CASE CommitStep
  <2>1. /\ call = "commit" /\ result = "pending" /\ input \in Commits
        /\ Len(input.lines) \in Nat /\ pos \in 1..(Len(input.lines) + 1)
    BY <1>1, LinesAre DEF CommitStep, Reading, LinesType
  <2>2. CASE HeaderLine
    <3>1. pos <= Len(input.lines)
      BY <2>2 DEF HeaderLine, HeaderEnds
    <3>2. (\E a : Advance(1, a)) \/ Return("invalid")
      BY <2>2 DEF HeaderLine
    <3> QED BY <2>1, <3>1, <3>2 DEF Advance, Return, LinesType, Results
  <2>3. CASE Message
    <3>1. (\E a : ReturnAfter(1, a)) \/ Return("invalid")
      BY <2>3 DEF Message
    <3> QED BY <2>1, <3>1 DEF ReturnAfter, Return, LinesType, Results
  <2>4. CASE Return("invalid")
    BY <2>1, <2>4 DEF Return, LinesType, Results
  <2> QED BY <1>1, <2>2, <2>3, <2>4 DEF CommitStep
<1>2. CASE ReflogStep
  <2>1. /\ call = "audit_reflog" /\ result = "pending" /\ input \in Logs
        /\ Len(input.lines) \in Nat /\ pos \in 1..(Len(input.lines) + 1)
    BY <1>2, LinesAre DEF ReflogStep, OpenLog, NextLine, LogEnd, Reading, LinesType
  <2>2. CASE NextLine
    <3>1. pos <= Len(input.lines)
      BY <2>2 DEF NextLine
    <3>2. \E a : Advance(1, a)
      BY <2>2 DEF NextLine, Drop
    <3> QED BY <2>1, <3>1, <3>2 DEF Advance, LinesType, Results
  <2>3. CASE OpenLog \/ LogEnd
    <3>1. Return("io") \/ Return("ok")
      BY <2>3 DEF OpenLog, LogEnd
    <3> QED BY <2>1, <3>1 DEF Return, LinesType, Results
  <2> QED BY <1>2, <2>2, <2>3 DEF ReflogStep
<1> QED BY <1>1, <1>2

(* Any step.                                                                *)
LEMMA DecodeKept ==
  ASSUME DecodeInv, [Next]_vars
  PROVE  DecodeInv'
<1>1. TreeInv' /\ LooseInv'
  BY LooseKept, TreeKept DEF DecodeInv
<1>2. CASE EntryStep
  <2>1. call = "read_entry" /\ EntryType /\ call' = call
    BY <1>2, EntryStepTypes DEF EntryStep, Reading, DecodeInv
  <2>2. EntryType' /\ result' \in Results
    BY <1>2, <2>1, EntryStepTypes
  <2>3. pos' \in Nat \ {0}
    BY <2>2 DEF EntryType
  <2> QED BY <1>1, <2>1, <2>2, <2>3 DEF DecodeInv, LinesType
<1>3. CASE DeltaStep
  <2>1. call = "apply_delta" /\ DeltaType /\ call' = call
    BY <1>3, DeltaStepTypes DEF DeltaStep, Reading, DecodeInv
  <2>2. DeltaType' /\ result' \in Results
    BY <1>3, <2>1, DeltaStepTypes
  <2>3. pos' \in Nat \ {0}
    BY <2>2 DEF DeltaType
  <2> QED BY <1>1, <2>1, <2>2, <2>3 DEF DecodeInv, LinesType
<1>4. CASE ParseLoose
  <2>1. call = "loose" /\ call' = call /\ result' \in Results
    BY <1>4 DEF ParseLoose, Reading, Return, ReturnAfter, Results
  <2>2. pos' = pos \/ pos' = pos + Len(Seen(input))
    BY <1>4 DEF ParseLoose, Return, ReturnAfter, Seen
  <2>3. Len(Seen(input)) \in Nat
    <3>1. Seen(input) \in Seq(LooseByte)
      BY <2>1, SeenIs DEF DecodeInv, LooseInv
    <3> QED BY <3>1
  <2>4. pos' \in Nat \ {0}
    BY <2>2, <2>3 DEF DecodeInv
  <2> QED BY <1>1, <2>1, <2>4 DEF DecodeInv, LinesType
<1>5. CASE TreeRecord \/ TreeEnd
  <2>1. call = "tree" /\ call' = call /\ result' \in Results
    BY <1>5 DEF TreeRecord, TreeEnd, Reading, Return, Advance, Results
  <2>2. pos' \in Nat \ {0}
    BY <1>1, <2>1 DEF TreeInv, TreeType
  <2> QED BY <1>1, <2>1, <2>2 DEF DecodeInv, LinesType
<1>6. CASE CommitStep \/ ReflogStep
  <2>1. /\ LinesType' /\ call' = call /\ call \in {"commit", "audit_reflog"}
        /\ result' \in Results /\ pos' \in Nat \ {0}
    BY <1>6, LineStepTypes DEF DecodeInv
  <2> QED BY <1>1, <2>1 DEF DecodeInv
<1>7. CASE UNCHANGED vars
  <2>1. UNCHANGED <<call, input, pos, acc, result>>
    BY <1>7 DEF vars
  <2> QED BY <1>1, <2>1 DEF DecodeInv, EntryType, DeltaType, LinesType
<1> QED BY <1>2, <1>3, <1>4, <1>5, <1>6, <1>7 DEF Next, Terminated

(* A reader starts where its invariant holds.                               *)
LEMMA EntryStarts ==
  ASSUME Init, call = "read_entry"
  PROVE  EntryType
<1>1. input \in Entries /\ acc = EntryAcc /\ pos = 1
  BY DEF Init, Begin
<1>2. input.bytes \in Seq(Byte)
  BY <1>1, EntryBytes
<1>3. Below(0, First) /\ First \in Nat \ {0} /\ 0 \in 0..(Word - 1) /\ 0 \in Nat
  BY PackConstants DEF Below
<1>4. acc \in EntryParts /\ acc.size = 0 /\ acc.scale = First /\ acc.part = "first"
  BY <1>1, <1>3 DEF EntryAcc, EntryParts
<1> QED BY <1>1, <1>2, <1>3, <1>4 DEF EntryType

(* And so does a delta.                                                     *)
LEMMA DeltaStarts ==
  ASSUME Init, call = "apply_delta"
  PROVE  DeltaType
<1>1. input \in Deltas /\ acc = DeltaAcc /\ pos = 1
  BY DEF Init, Begin
<1>2. input.sizes \in Seq(Byte) /\ input.ops \in Seq(Range(input.ops))
  BY <1>1, DeltaBytes
<1>3. Below(0, 1) /\ 0 \in 0..(Word - 1) /\ 1 \in Nat
  BY PackConstants DEF Below
<1>4. acc \in DeltaParts /\ acc.size = 0 /\ acc.scale = 1 /\ acc.target = FALSE
  BY <1>1, <1>3 DEF DeltaAcc, DeltaParts
<1>5. pos \in 1..(Len(input.sizes) + Len(input.ops) + 1)
  <2>1. Len(input.sizes) \in Nat /\ Len(input.ops) \in Nat
    BY <1>2
  <2> DEFINE n == Len(input.sizes)
             l == Len(input.ops)
  <2>2. n \in Nat /\ l \in Nat
    BY <2>1
  <2> HIDE DEF n, l
  <2>3. pos \in 1..(n + l + 1)
    BY <1>1, <2>2
  <2> QED BY <2>3 DEF n, l
<1>6. 1 # 0
  OBVIOUS
<1> QED BY <1>1, <1>3, <1>4, <1>5, <1>6, Zenon DEF DeltaType

(* Every decoder keeps its position inside its input, and no number it reads
   leaves the word: a size and a distance are cut off, never carried over.  *)
THEOREM TypeCorrect == Spec => []TypeOK
<1>1. Init => DecodeInv
  <2> SUFFICES ASSUME Init PROVE DecodeInv
    OBVIOUS
  <2>1. pos = 1 /\ result = "pending"
    BY DEF Init, Begin
  <2>2. LooseInv
    BY DEF Init, Begin, LooseInv, LooseExact, Finished
  <2>3. TreeInv
    BY TreeStarts
  <2>4. call = "read_entry" => EntryType
    BY EntryStarts
  <2>5. call = "apply_delta" => DeltaType
    BY DeltaStarts
  <2>6. LinesType
    BY <2>1, LinesAre DEF Init, Begin, LinesType
  <2> QED BY <2>1, <2>2, <2>3, <2>4, <2>5, <2>6 DEF DecodeInv, Results
<1>2. DecodeInv /\ [Next]_vars => DecodeInv'
  BY DecodeKept
<1>3. DecodeInv => TypeOK
  <2> SUFFICES ASSUME DecodeInv PROVE TypeOK
    OBVIOUS
  <2>1. ASSUME call = "read_entry"
        PROVE  pos <= Len(input.bytes) + 1 /\ acc.size \in 0..(Word - 1) /\ acc.dist \in 0..(Word - 1)
    <3>1. EntryType /\ Len(input.bytes) \in Nat
      <4>1. EntryType /\ input.bytes \in Seq(Byte)
        BY <2>1, EntryBytes DEF DecodeInv, EntryType
      <4> QED BY <4>1
    <3>2. pos <= Len(input.bytes) + 1
      BY <3>1 DEF EntryType
    <3> QED BY <3>1, <3>2 DEF EntryType, EntryParts
  <2>2. ASSUME call = "apply_delta"
        PROVE  /\ pos <= Len(input.sizes) + Len(input.ops) + 1
               /\ acc.size \in 0..(Word - 1) /\ acc.out \in Seq(Nat)
    <3>1. DeltaType /\ Len(input.sizes) \in Nat /\ Len(input.ops) \in Nat
      <4>1. DeltaType /\ input.sizes \in Seq(Byte) /\ input.ops \in Seq(Range(input.ops))
        BY <2>2, DeltaBytes DEF DecodeInv, DeltaType
      <4> QED BY <4>1
    <3>2. pos <= Len(input.sizes) + Len(input.ops) + 1
      <4> DEFINE n == Len(input.sizes)
                 l == Len(input.ops)
      <4>1. n \in Nat /\ l \in Nat /\ pos \in 1..(n + l + 1)
        BY <3>1 DEF DeltaType
      <4> HIDE DEF n, l
      <4>2. pos <= n + l + 1
        BY <4>1
      <4> QED BY <4>2 DEF n, l
    <3> QED BY <3>1, <3>2 DEF DeltaType, DeltaParts
  <2>3. call = "tree" => pos <= Len(input) + 1
    BY DEF DecodeInv, TreeInv, TreeType
  <2>4. /\ call = "commit" => pos <= Len(input.lines) + 2
        /\ call = "audit_reflog" => pos <= Len(input.lines) + 1
    BY DEF DecodeInv, LinesType
  <2> QED BY <2>1, <2>2, <2>3, <2>4 DEF DecodeInv, TypeOK
<1> QED BY <1>1, <1>2, <1>3, PTL DEF Spec

-----------------------------------------------------------------------------
(* A bracket that is there once is the last.                                *)
LEMMA LastInIs ==
  ASSUME NEW s, NEW x, NEW i \in DOMAIN s, DOMAIN s \in SUBSET Nat, \A k \in DOMAIN s : s[k] = x <=> k = i
  PROVE  LastIn(s, x) = i
<1> DEFINE hits == {k \in DOMAIN s : s[k] = x}
<1>1. hits = {i}
  OBVIOUS
<1>2. LastIn(s, x) = IF hits = {} THEN 0 ELSE CHOOSE k \in hits : \A j \in hits : j <= k
  BY DEF LastIn
<1> HIDE DEF hits
<1>3. i <= i
  OBVIOUS
<1> QED BY <1>1, <1>2, <1>3

(* A signature git writes is read, and written out again is the same words. *)
LEMMA StampRead ==
  ASSUME NEW val \in Seq(Token), GitStamp(val)
  PROVE  Signature(val) # << >> /\ Stamp(Signature(val)[1]) = val
<1>1. PICK i \in DOMAIN val, j \in DOMAIN val :
        /\ i < j /\ Len(val) = j + 2
        /\ \A k \in DOMAIN val : (val[k] = "<" <=> k = i) /\ (val[k] = ">" <=> k = j)
        /\ val[j + 1] \in Times /\ val[j + 2] \in Zones
  BY DEF GitStamp
<1>2. i \in Nat \ {0} /\ j \in Nat \ {0} /\ DOMAIN val = 1..(j + 2) /\ DOMAIN val \in SUBSET Nat
  <2>1. DOMAIN val = 1..Len(val) /\ Len(val) \in Nat
    OBVIOUS
  <2> QED BY <1>1, <2>1
<1>3. LastIn(val, "<") = i /\ LastIn(val, ">") = j
  <2>1. \A k \in DOMAIN val : val[k] = "<" <=> k = i
    BY <1>1
  <2>2. \A k \in DOMAIN val : val[k] = ">" <=> k = j
    BY <1>1
  <2>3. LastIn(val, "<") = i
    BY <1>2, <2>1, LastInIs
  <2> QED BY <1>2, <2>2, <2>3, LastInIs
<1>4. val[i] = "<" /\ val[j] = ">"
  BY <1>1
<1> DEFINE name == SubSeq(val, 1, i - 1)
           email == SubSeq(val, i + 1, j - 1)
           r == [name |-> name, email |-> email, time |-> val[j + 1],
                 zone |-> IF j + 2 <= Len(val) /\ val[j + 2] \in Zones THEN val[j + 2] ELSE "+0000"]
<1>5. Signature(val) = <<r>>
  <2>1. ~(i = 0 \/ i >= j \/ j = Len(val) \/ val[j + 1] \notin Times)
    BY <1>1, <1>2
  <2> HIDE DEF name, email, r
  <2>2. Signature(val) =
          IF i = 0 \/ i >= j \/ j = Len(val) \/ val[j + 1] \notin Times THEN << >>
          ELSE <<[name |-> name, email |-> email, time |-> val[j + 1],
                  zone |-> IF j + 2 <= Len(val) /\ val[j + 2] \in Zones THEN val[j + 2] ELSE "+0000"]>>
    BY <1>3, Zenon DEF Signature, name, email
  <2> QED BY <2>1, <2>2, Zenon DEF r
<1>6. r.zone = val[j + 2] /\ r.time = val[j + 1] /\ r.name = name /\ r.email = email
  <2>1. j + 2 <= Len(val)
    BY <1>1, <1>2
  <2> HIDE DEF name, email
  <2> QED BY <1>1, <2>1
<1>7. Stamp(r) = name \o <<"<">> \o email \o <<">", val[j + 1], val[j + 2]>>
  <2> HIDE DEF r
  <2> QED BY <1>6, Zenon DEF Stamp
<1> HIDE DEF r
<1>8. /\ 1 \in 1..(Len(val) + 1) /\ i - 1 \in 0..Len(val) /\ i \in (i - 1)..Len(val)
      /\ i \in 1..Len(val) /\ j - 1 \in i..Len(val) /\ j + 2 \in (j - 1)..Len(val)
  BY <1>1, <1>2
<1>9. name \o <<"<">> = SubSeq(val, 1, i)
  <2>1. SubSeq(val, i, i) = <<"<">>
    BY <1>4, <1>8, OneIs
  <2>2. 1 - 1 = 0 /\ (i - 1) + 1 = i
    BY <1>2
  <2>3. SubSeq(val, 1, i - 1) \o SubSeq(val, (i - 1) + 1, i) = SubSeq(val, 1, i)
    BY <1>8, <2>2, ConcatAdjacentSubSeq
  <2> QED BY <2>1, <2>2, <2>3
<1>10. SubSeq(val, 1, i) \o email = SubSeq(val, 1, j - 1)
  <2>1. i \in (1 - 1)..Len(val)
    BY <1>8
  <2> QED BY <1>8, <2>1, ConcatAdjacentSubSeq
<1>11. <<">", val[j + 1], val[j + 2]>> = SubSeq(val, j, j + 2)
  <2> DEFINE q == SubSeq(val, j, j + 2)
             t == <<">", val[j + 1], val[j + 2]>>
  <2>1. j \in Int /\ j + 2 \in Int /\ \A k \in j..(j + 2) : val[k] \in Token
    <3>1. \A k \in j..(j + 2) : k \in DOMAIN val
      BY <1>2
    <3>2. \A k \in DOMAIN val : val[k] \in Token
      OBVIOUS
    <3> QED BY <1>2, <3>1, <3>2
  <2>2. /\ q \in Seq(Token) /\ Len(q) = (IF j <= j + 2 THEN ((j + 2) - j) + 1 ELSE 0)
        /\ \A k \in 1..(((j + 2) - j) + 1) : q[k] = val[(j + k) - 1]
    BY <2>1, SubSeqProperties
  <2>3. ((j + 2) - j) + 1 = 3 /\ j <= j + 2 /\ (j + 1) - 1 = j /\ (j + 2) - 1 = j + 1 /\ (j + 3) - 1 = j + 2
    BY <1>2
  <2> HIDE DEF q
  <2>4. Len(q) = 3 /\ q[1] = val[j] /\ q[2] = val[j + 1] /\ q[3] = val[j + 2]
    <3>1. 1 \in 1..3 /\ 2 \in 1..3 /\ 3 \in 1..3
      OBVIOUS
    <3>2. Len(q) = 3 /\ \A k \in 1..3 : q[k] = val[(j + k) - 1]
      BY <2>2, <2>3
    <3> QED BY <2>3, <3>1, <3>2
  <2>5. val[j + 1] \in Token /\ val[j + 2] \in Token /\ ">" \in Token
    BY <1>2, <2>1 DEF Token
  <2>6. t \in Seq(Token) /\ Len(t) = 3 /\ t[1] = ">" /\ t[2] = val[j + 1] /\ t[3] = val[j + 2]
    BY <2>5
  <2> HIDE DEF t
  <2>7. \A k \in 1..3 : t[k] = q[k]
    BY <1>4, <2>4, <2>6
  <2>8. t = q
    BY <2>2, <2>4, <2>6, <2>7, SeqEqual
  <2> QED BY <2>8 DEF t, q
<1>12. SubSeq(val, 1, j - 1) \o SubSeq(val, j, j + 2) = SubSeq(val, 1, j + 2)
  <2>1. j - 1 \in (1 - 1)..Len(val) /\ (j - 1) + 1 = j
    BY <1>2, <1>8
  <2>2. SubSeq(val, 1, j - 1) \o SubSeq(val, (j - 1) + 1, j + 2) = SubSeq(val, 1, j + 2)
    BY <1>8, <2>1, ConcatAdjacentSubSeq
  <2> QED BY <2>1, <2>2
<1>13. SubSeq(val, 1, j + 2) = val
  BY <1>1, SubSeqFull
<1> HIDE DEF name, email
<1>14. Stamp(r) = val
  BY <1>7, <1>9, <1>10, <1>11, <1>12, <1>13, Zenon
<1>15. <<r>> # << >> /\ <<r>>[1] = r
  OBVIOUS
<1> QED BY <1>5, <1>14, <1>15


-----------------------------------------------------------------------------
(* What has been read of a commit, the first m of its lines.                *)
LinesOf(lines, m, key) == {i \in 1..m : lines[i].key = key}
IsLast(lines, m, key, i) == i \in LinesOf(lines, m, key) /\ \A j \in LinesOf(lines, m, key) : j <= i

TreeRight(lines, m, v) ==
  IF LinesOf(lines, m, "tree") = {} THEN v = << >>
  ELSE \E i \in Nat : IsLast(lines, m, "tree", i) /\ v = lines[i].val
StampRight(lines, m, key, v) ==
  IF LinesOf(lines, m, key) = {} THEN v = << >>
  ELSE \E i \in Nat : IsLast(lines, m, key, i) /\ v = Signature(lines[i].val)
ParentsIn(lines, m) == [i \in 1..m |-> IF i \in LinesOf(lines, m, "parent") THEN lines[i].val ELSE << >>]
ParentsRight(lines, m, v) ==
  ParentsIn(lines, m) \in Seq(Seq(Token)) /\ v = FlattenSeq(ParentsIn(lines, m))

CommitRead(lines, a, m) ==
  /\ m \in 0..Len(lines)
  /\ \A i \in 1..m : lines[i].key # "blank" /\ ~Refused(lines[i])
  /\ TreeRight(lines, m, a.tree) /\ ParentsRight(lines, m, a.parents)
  /\ StampRight(lines, m, "author", a.author) /\ StampRight(lines, m, "committer", a.committer)
  /\ a.signed = (LinesOf(lines, m, "gpgsig") # {})

Signatures == {Signature(v) : v \in Seq(Token)} \cup {<< >>}
CommitParts == [tree : Seq(Token), parents : Seq(Token), author : Signatures, committer : Signatures,
                signed : BOOLEAN, message : Seq(Line)]

(* One line more: of its own key it is the last, of the others the last is
   the same.                                                                *)
LEMMA LinesMore ==
  ASSUME NEW lines, NEW m \in Nat, NEW key
  PROVE  /\ lines[m + 1].key = key => IsLast(lines, m + 1, key, m + 1) /\ LinesOf(lines, m + 1, key) # {}
         /\ lines[m + 1].key # key => LinesOf(lines, m + 1, key) = LinesOf(lines, m, key)
<1>1. \A i \in 1..(m + 1) : i <= m + 1 /\ (i \in 1..m \/ i = m + 1)
  OBVIOUS
<1>2. m + 1 \in 1..(m + 1) /\ 1..m \subseteq 1..(m + 1) /\ m + 1 \notin 1..m
  OBVIOUS
<1>3. lines[m + 1].key = key => IsLast(lines, m + 1, key, m + 1) /\ LinesOf(lines, m + 1, key) # {}
  BY <1>1, <1>2 DEF IsLast, LinesOf
<1>4. lines[m + 1].key # key => LinesOf(lines, m + 1, key) = LinesOf(lines, m, key)
  BY <1>1, <1>2 DEF LinesOf
<1> QED BY <1>3, <1>4

(* So the tree after one line more is that line's, or the same.             *)
LEMMA TreeMore ==
  ASSUME NEW lines, NEW m \in Nat, NEW v, NEW w, TreeRight(lines, m, v),
         w = IF lines[m + 1].key = "tree" THEN lines[m + 1].val ELSE v
  PROVE  TreeRight(lines, m + 1, w)
<1>1. CASE lines[m + 1].key = "tree"
  <2>1. m + 1 \in Nat /\ w = lines[m + 1].val
    BY <1>1
  <2> QED BY <1>1, <2>1, LinesMore, Zenon DEF TreeRight
<1>2. CASE lines[m + 1].key # "tree"
  <2>1. LinesOf(lines, m + 1, "tree") = LinesOf(lines, m, "tree") /\ w = v
    BY <1>2, LinesMore
  <2> QED BY <2>1, Zenon DEF TreeRight, IsLast
<1> QED BY <1>1, <1>2

(* The same for the author and the committer.                               *)
LEMMA StampMore ==
  ASSUME NEW lines, NEW m \in Nat, NEW key, NEW v, NEW w, StampRight(lines, m, key, v),
         w = IF lines[m + 1].key = key THEN Signature(lines[m + 1].val) ELSE v
  PROVE  StampRight(lines, m + 1, key, w)
<1>1. CASE lines[m + 1].key = key
  <2>1. m + 1 \in Nat /\ w = Signature(lines[m + 1].val)
    BY <1>1
  <2> QED BY <1>1, <2>1, LinesMore, Zenon DEF StampRight
<1>2. CASE lines[m + 1].key # key
  <2>1. LinesOf(lines, m + 1, key) = LinesOf(lines, m, key) /\ w = v
    BY <1>2, LinesMore
  <2> QED BY <2>1, Zenon DEF StampRight, IsLast
<1> QED BY <1>1, <1>2

(* Every line that names a parent adds to the parents, in order.            *)
LEMMA ParentsMore ==
  ASSUME NEW lines, NEW m \in Nat, NEW v \in Seq(Token), NEW w, ParentsRight(lines, m, v),
         lines[m + 1].val \in Seq(Token),
         w = IF lines[m + 1].key = "parent" THEN v \o lines[m + 1].val ELSE v
  PROVE  ParentsRight(lines, m + 1, w)
<1> DEFINE x == IF lines[m + 1].key = "parent" THEN lines[m + 1].val ELSE << >>
           f == ParentsIn(lines, m)
           g == ParentsIn(lines, m + 1)
<1>1. x \in Seq(Token) /\ w = v \o x
  <2>1. << >> \in Seq(Token) /\ v \o << >> = v
    OBVIOUS
  <2> QED BY <2>1
<1>2. /\ g = [i \in 1..(m + 1) |-> IF i \in LinesOf(lines, m + 1, "parent") THEN lines[i].val ELSE << >>]
      /\ f = [i \in 1..m |-> IF i \in LinesOf(lines, m, "parent") THEN lines[i].val ELSE << >>]
      /\ f \in Seq(Seq(Token)) /\ v = FlattenSeq(f)
  BY DEF ParentsIn, ParentsRight
<1>3. m + 1 \in LinesOf(lines, m + 1, "parent") <=> lines[m + 1].key = "parent"
  BY DEF LinesOf
<1>4. \A i \in 1..m : i \in 1..(m + 1) /\ (i \in LinesOf(lines, m + 1, "parent") <=> i \in LinesOf(lines, m, "parent"))
  BY DEF LinesOf
<1>5. m + 1 \in 1..(m + 1)
  OBVIOUS
<1>6. Longer(g, f, m, x)
  <2> HIDE DEF f, g
  <2> QED BY <1>2, <1>3, <1>4, <1>5 DEF Longer
<1>7. g = UpTo(g, m + 1)
  BY <1>2 DEF UpTo
<1> HIDE DEF f, g, x
<1>8. g = Append(f, x)
  <2>1. UpTo(g, m + 1) = Append(f, x)
    BY <1>1, <1>2, <1>6, OneLonger
  <2> QED BY <1>7, <2>1, Zenon
<1>9. Append(f, x) \in Seq(Seq(Token))
  BY <1>1, <1>2
<1>10. FlattenSeq(Append(f, x)) = FlattenSeq(f) \o x
  BY <1>1, <1>2, FlattenAppend
<1> QED BY <1>1, <1>2, <1>8, <1>9, <1>10, Zenon DEF ParentsRight, g


-----------------------------------------------------------------------------
(* What a line changes, field by field.                                     *)
LEMMA TakenIs ==
  ASSUME acc \in CommitParts, NEW l
  PROVE  /\ Taken(l).tree = IF l.key = "tree" THEN l.val ELSE acc.tree
         /\ Taken(l).parents = IF l.key = "parent" THEN acc.parents \o l.val ELSE acc.parents
         /\ Taken(l).author = IF l.key = "author" THEN Signature(l.val) ELSE acc.author
         /\ Taken(l).committer = IF l.key = "committer" THEN Signature(l.val) ELSE acc.committer
         /\ Taken(l).signed = IF l.key = "gpgsig" THEN TRUE ELSE acc.signed
         /\ Taken(l) = [tree |-> Taken(l).tree, parents |-> Taken(l).parents, author |-> Taken(l).author,
                        committer |-> Taken(l).committer, signed |-> Taken(l).signed, message |-> acc.message]
<1> DEFINE tree == l.val
           parents == acc.parents \o l.val
           sig == Signature(l.val)
           c == Taken(l)
<1>1. c = CASE l.key = "tree"      -> [acc EXCEPT !.tree = tree]
            [] l.key = "parent"    -> [acc EXCEPT !.parents = parents]
            [] l.key = "author"    -> [acc EXCEPT !.author = sig]
            [] l.key = "committer" -> [acc EXCEPT !.committer = sig]
            [] l.key = "gpgsig"    -> [acc EXCEPT !.signed = TRUE]
            [] OTHER               -> acc
  BY DEF Taken
<1> HIDE DEF tree, parents, sig, c
<1>2. CASE l.key = "tree"
  <2>1. c = [acc EXCEPT !.tree = tree]
    BY <1>1, <1>2
  <2> QED BY <1>2, <2>1 DEF CommitParts, c, tree
<1>3. CASE l.key = "parent"
  <2>1. c = [acc EXCEPT !.parents = parents]
    BY <1>1, <1>3
  <2> QED BY <1>3, <2>1 DEF CommitParts, c, parents
<1>4. CASE l.key = "author"
  <2>1. c = [acc EXCEPT !.author = sig]
    BY <1>1, <1>4
  <2> QED BY <1>4, <2>1 DEF CommitParts, c, sig
<1>5. CASE l.key = "committer"
  <2>1. c = [acc EXCEPT !.committer = sig]
    BY <1>1, <1>5
  <2> QED BY <1>5, <2>1 DEF CommitParts, c, sig
<1>6. CASE l.key = "gpgsig"
  <2>1. c = [acc EXCEPT !.signed = TRUE]
    BY <1>1, <1>6
  <2> QED BY <1>6, <2>1 DEF CommitParts, c
<1>7. CASE l.key \notin {"tree", "parent", "author", "committer", "gpgsig"}
  <2>1. c = acc
    BY <1>1, <1>7
  <2> QED BY <1>7, <2>1 DEF CommitParts, c
<1> QED BY <1>2, <1>3, <1>4, <1>5, <1>6, <1>7

(* A line of the header that is not refused.                                *)
LEMMA LineReads ==
  ASSUME acc \in CommitParts, NEW lines \in Seq(Line), NEW m \in Nat, m < Len(lines), CommitRead(lines, acc, m),
         lines[m + 1].key # "blank", ~Refused(lines[m + 1])
  PROVE  Taken(lines[m + 1]) \in CommitParts /\ CommitRead(lines, Taken(lines[m + 1]), m + 1)
<1> DEFINE l == lines[m + 1]
           c == Taken(l)
<1>1. l.val \in Seq(Token)
  <2>1. m + 1 \in 1..Len(lines)
    OBVIOUS
  <2>2. l \in Line
    BY <2>1
  <2> QED BY <2>2 DEF Line
<1>2. /\ c.tree = IF l.key = "tree" THEN l.val ELSE acc.tree
      /\ c.parents = IF l.key = "parent" THEN acc.parents \o l.val ELSE acc.parents
      /\ c.author = IF l.key = "author" THEN Signature(l.val) ELSE acc.author
      /\ c.committer = IF l.key = "committer" THEN Signature(l.val) ELSE acc.committer
      /\ c.signed = IF l.key = "gpgsig" THEN TRUE ELSE acc.signed
      /\ c = [tree |-> c.tree, parents |-> c.parents, author |-> c.author,
              committer |-> c.committer, signed |-> c.signed, message |-> acc.message]
  BY TakenIs
<1>3. /\ acc.tree \in Seq(Token) /\ acc.parents \in Seq(Token) /\ acc.author \in Signatures
      /\ acc.committer \in Signatures /\ acc.signed \in BOOLEAN /\ acc.message \in Seq(Line)
  BY DEF CommitParts
<1> HIDE DEF l, c
<1>4. c.tree \in Seq(Token)
  BY <1>1, <1>2, <1>3
<1>5. c.parents \in Seq(Token)
  BY <1>1, <1>2, <1>3
<1>6. c.author \in Signatures /\ c.committer \in Signatures
  <2>1. Signature(l.val) \in Signatures
    BY <1>1 DEF Signatures
  <2> QED BY <1>2, <1>3, <2>1
<1>7. c.signed \in BOOLEAN
  BY <1>2, <1>3
<1>8. c \in CommitParts
  <2> DEFINE a == c.tree
             b == c.parents
             d == c.author
             e == c.committer
             f == c.signed
             g == acc.message
  <2>1. c = [tree |-> a, parents |-> b, author |-> d, committer |-> e, signed |-> f, message |-> g]
    BY <1>2, Zenon
  <2>2. a \in Seq(Token) /\ b \in Seq(Token) /\ d \in Signatures /\ e \in Signatures /\ f \in BOOLEAN /\ g \in Seq(Line)
    BY <1>3, <1>4, <1>5, <1>6, <1>7, Zenon
  <2> HIDE DEF a, b, d, e, f, g
  <2>3. [tree |-> a, parents |-> b, author |-> d, committer |-> e, signed |-> f, message |-> g] \in CommitParts
    BY <2>2 DEF CommitParts
  <2> QED BY <2>1, <2>3, Zenon
<1>9. TreeRight(lines, m + 1, c.tree)
  BY <1>2, TreeMore DEF CommitRead, l
<1>10. StampRight(lines, m + 1, "author", c.author) /\ StampRight(lines, m + 1, "committer", c.committer)
  <2>1. StampRight(lines, m, "author", acc.author) /\ StampRight(lines, m, "committer", acc.committer)
    BY DEF CommitRead
  <2> QED BY <1>2, <2>1, StampMore DEF l
<1>11. ParentsRight(lines, m + 1, c.parents)
  <2>1. ParentsRight(lines, m, acc.parents)
    BY DEF CommitRead
  <2> QED BY <1>1, <1>2, <1>3, <2>1, ParentsMore DEF l
<1>12. c.signed = (LinesOf(lines, m + 1, "gpgsig") # {})
  <2>1. acc.signed = (LinesOf(lines, m, "gpgsig") # {})
    BY DEF CommitRead
  <2>2. CASE l.key = "gpgsig"
    BY <1>2, <2>2, LinesMore DEF l
  <2>3. CASE l.key # "gpgsig"
    <3>1. LinesOf(lines, m + 1, "gpgsig") = LinesOf(lines, m, "gpgsig")
      BY <2>3, LinesMore DEF l
    <3> QED BY <1>2, <2>1, <2>3, <3>1
  <2> QED BY <2>2, <2>3
<1>13. m + 1 \in 0..Len(lines)
  OBVIOUS
<1>14. \A i \in 1..(m + 1) : lines[i].key # "blank" /\ ~Refused(lines[i])
  <2>1. \A i \in 1..(m + 1) : i \in 1..m \/ i = m + 1
    OBVIOUS
  <2>2. \A i \in 1..m : lines[i].key # "blank" /\ ~Refused(lines[i])
    BY DEF CommitRead
  <2> QED BY <2>1, <2>2, Zenon
<1>15. CommitRead(lines, c, m + 1)
  BY <1>9, <1>10, <1>11, <1>12, <1>13, <1>14, Zenon DEF CommitRead
<1> QED BY <1>8, <1>15 DEF l, c

-----------------------------------------------------------------------------
(* Why the reading of a commit stops: the header is whole and the rest is the
   message, or something is missing or refused.                             *)
Ended1(lines, m) == m < Len(lines) => lines[m + 1].key = "blank"
Lacking == << >> \in {acc.tree, acc.author, acc.committer}

CommitStop ==
  \/ /\ result = "ok" /\ input.utf8 /\ ~Lacking
     /\ \E m \in Nat : /\ CommitRead(input.lines, acc, m) /\ Ended1(input.lines, m)
                       /\ acc.message = SubSeq(input.lines, m + 2, Len(input.lines))
  \/ result = "invalid" /\ ~input.utf8
  \/ /\ result = "invalid"
     /\ \E m \in Nat : /\ CommitRead(input.lines, acc, m)
                       /\ \/ Ended1(input.lines, m) /\ Lacking
                          \/ /\ m < Len(input.lines)
                             /\ input.lines[m + 1].key # "blank" /\ Refused(input.lines[m + 1])

CommitInv ==
  call = "commit" =>
    /\ input \in Commits /\ pos \in Nat \ {0} /\ acc \in CommitParts
    /\ result = "pending" => CommitRead(input.lines, acc, pos - 1)
    /\ result # "pending" => CommitStop

(* A line, the end of the header, or text that is not UTF-8.                *)
LEMMA CommitStepKeeps ==
  ASSUME CommitInv, call = "commit", CommitStep
  PROVE  CommitInv'
<1> DEFINE lines == input.lines
           m == pos - 1
<1>1. /\ result = "pending" /\ input \in Commits /\ pos \in Nat \ {0} /\ acc \in CommitParts
      /\ CommitRead(lines, acc, m)
  BY DEF CommitInv, CommitStep, Reading
<1>2. lines \in Seq(Line) /\ m \in Nat /\ m + 1 = pos
  BY <1>1, ObjectParseAssumption
<1>3. PICK k \in Nat : k = Len(lines)
  BY <1>2
<1>4. ASSUME Return("invalid"), CommitStop' PROVE CommitInv'
  BY <1>1, <1>4 DEF Return, CommitInv
<1>5. ASSUME Return("invalid"), \/ ~input.utf8
                                \/ Ended1(lines, m) /\ Lacking
                                \/ m < Len(lines) /\ lines[m + 1].key # "blank" /\ Refused(lines[m + 1])
      PROVE  CommitInv'
  <2>1. input' = input /\ acc' = acc /\ result' = "invalid"
    BY <1>5 DEF Return
  <2> HIDE DEF lines, m
  <2>2. CommitStop'
    <3>1. CASE ~input.utf8
      BY <2>1, <3>1 DEF CommitStop
    <3>2. CASE Ended1(lines, m) /\ Lacking
      BY <1>1, <1>2, <2>1, <3>2 DEF CommitStop, Lacking, lines
    <3>3. CASE m < Len(lines) /\ lines[m + 1].key # "blank" /\ Refused(lines[m + 1])
      BY <1>1, <1>2, <2>1, <3>3 DEF CommitStop, lines
    <3> QED BY <1>5, <3>1, <3>2, <3>3
  <2> QED BY <1>4, <1>5, <2>2
<1>6. CASE HeaderLine
  <2>1. pos <= k /\ lines[pos].key # "blank"
    BY <1>3, <1>6 DEF HeaderLine, HeaderEnds
  <2>2. m < Len(lines) /\ m < k
    BY <1>2, <1>3, <2>1
  <2>3. CASE Refused(lines[pos])
    <3>1. Return("invalid")
      BY <1>6, <2>3 DEF HeaderLine
    <3>2. lines[m + 1].key # "blank" /\ Refused(lines[m + 1])
      BY <1>2, <2>1, <2>3
    <3> QED BY <1>5, <2>2, <3>1, <3>2
  <2>4. CASE ~Refused(lines[pos])
    <3> DEFINE c == Taken(lines[pos])
    <3>1. Advance(1, c)
      BY <1>6, <2>4 DEF HeaderLine
    <3>2. /\ pos' = pos + 1 /\ acc' = c /\ input' = input /\ result' = "pending" /\ call' = call
      BY <1>1, <3>1 DEF Advance
    <3>3. lines[m + 1].key # "blank" /\ ~Refused(lines[m + 1]) /\ c = Taken(lines[m + 1])
      BY <1>2, <2>1, <2>4
    <3> HIDE DEF lines, m, c
    <3>4. c \in CommitParts /\ CommitRead(lines, c, m + 1)
      BY <1>1, <1>2, <2>2, <3>3, LineReads
    <3>5. pos' - 1 = m + 1 /\ pos' \in Nat \ {0}
      BY <1>1, <1>2, <3>2
    <3> QED BY <1>1, <3>2, <3>4, <3>5 DEF CommitInv, lines
  <2> QED BY <2>3, <2>4
<1>7. CASE Message
  <2>1. Ended1(lines, m)
    <3>1. pos <= Len(lines) => lines[pos].key = "blank"
      BY <1>7 DEF Message, HeaderEnds
    <3>2. m < Len(lines) => pos <= Len(lines)
      <4> HIDE DEF lines, m
      <4>1. m < k => pos <= k
        BY <1>1, <1>2
      <4> QED BY <1>3, <4>1
    <3> QED BY <1>2, <3>1, <3>2 DEF Ended1
  <2>2. CASE Lacking
    <3>1. Return("invalid")
      BY <1>7, <2>2 DEF Message, Lacking
    <3> QED BY <1>5, <2>1, <2>2, <3>1
  <2>3. CASE ~Lacking
    <3> DEFINE rest == SubSeq(lines, pos + 1, Len(lines))
               c == [acc EXCEPT !.message = rest]
    <3>1. ReturnAfter(1, c) /\ input.utf8
      BY <1>7, <2>3 DEF Message, Lacking
    <3>2. pos + 1 = m + 2
      BY <1>1
    <3>3. rest \in Seq(Line)
      <4> HIDE DEF lines, m
      <4>1. \A i \in (pos + 1)..k : lines[i] \in Line
        BY <1>1, <1>2, <1>3
      <4>2. pos + 1 \in Int /\ k \in Int
        BY <1>1, <1>3
      <4>3. SubSeq(lines, pos + 1, k) \in Seq(Line)
        BY <4>1, <4>2, SubSeqProperties
      <4> QED BY <1>3, <4>3
    <3>4. rest = SubSeq(lines, m + 2, Len(lines))
      <4> HIDE DEF lines, m
      <4> QED BY <3>2
    <3> HIDE DEF rest
    <3>5. /\ c.tree = acc.tree /\ c.parents = acc.parents /\ c.author = acc.author
          /\ c.committer = acc.committer /\ c.signed = acc.signed /\ c.message = rest
      BY <1>1 DEF CommitParts
    <3>6. c \in CommitParts
      BY <1>1, <3>3 DEF CommitParts
    <3> HIDE DEF c
    <3>7. /\ pos' = pos + 1 /\ acc' = c /\ input' = input /\ result' = "ok" /\ call' = call
      BY <3>1 DEF ReturnAfter
    <3>8. ~Lacking'
      BY <2>3, <3>5, <3>7 DEF Lacking
    <3> HIDE DEF m, lines
    <3>9. CommitRead(lines, c, m)
      BY <1>1, <3>5, Zenon DEF CommitRead
    <3>10. CommitStop'
      BY <1>2, <2>1, <3>1, <3>4, <3>5, <3>7, <3>8, <3>9 DEF CommitStop, lines
    <3>11. pos' \in Nat \ {0}
      BY <1>1, <3>7
    <3> QED BY <1>1, <3>6, <3>7, <3>10, <3>11 DEF CommitInv
  <2> QED BY <2>2, <2>3
<1>8. CASE ~input.utf8 /\ Return("invalid")
  BY <1>5, <1>8
<1> QED BY <1>6, <1>7, <1>8 DEF CommitStep

-----------------------------------------------------------------------------
(* Where the header of a commit ends: at the first blank line.              *)
NoBlank(lines, n) == \A i \in 1..n : lines[i].key # "blank"
EndOf(lines) == CHOOSE n \in 0..Len(lines) :
                  /\ \A i \in 1..n : lines[i].key # "blank"
                  /\ n < Len(lines) => lines[n + 1].key = "blank"
LastLine(lines, n, key) == CHOOSE i \in LinesOf(lines, n, key) : \A j \in LinesOf(lines, n, key) : j <= i

(* It ends once, and lines without a blank one are all before it.           *)
LEMMA EndIs ==
  ASSUME NEW lines \in Seq(Line)
  PROVE  /\ EndOf(lines) \in 0..Len(lines) /\ NoBlank(lines, EndOf(lines)) /\ Ended1(lines, EndOf(lines))
         /\ \A n \in 0..Len(lines) :
              NoBlank(lines, n) => n <= EndOf(lines) /\ (Ended1(lines, n) => n = EndOf(lines))
<1>1. PICK k \in Nat : k = Len(lines)
  OBVIOUS
<1> DEFINE S == {n \in 0..k : n < k => lines[n + 1].key = "blank"}
           e == EndOf(lines)
<1>2. S \in SUBSET Nat /\ k \in S
  OBVIOUS
<1>3. PICK p \in S : \A q \in S : p <= q
  <2>1. S # {}
    BY <1>2
  <2> HIDE DEF S
  <2> QED BY <1>2, <2>1, LeastExists
<1>4. \A i \in 1..p : lines[i].key # "blank"
  <2> SUFFICES ASSUME NEW i \in 1..p, lines[i].key = "blank" PROVE FALSE
    OBVIOUS
  <2>1. i - 1 \in 0..k /\ (i - 1) + 1 = i /\ i - 1 < p
    BY <1>3
  <2>2. lines[(i - 1) + 1].key = "blank"
    BY <2>1
  <2>3. i - 1 \in S
    BY <2>1, <2>2
  <2>4. p <= i - 1 /\ p \in Nat /\ i \in Nat
    <3> HIDE DEF S
    <3> QED BY <1>2, <1>3, <2>3
  <2> QED BY <2>4
<1>5. p \in 0..k /\ (p < k => lines[p + 1].key = "blank")
  BY <1>3
<1>6. /\ e \in 0..k /\ \A i \in 1..e : lines[i].key # "blank"
      /\ e < k => lines[e + 1].key = "blank"
  <2>1. e = CHOOSE n \in 0..k : /\ \A i \in 1..n : lines[i].key # "blank"
                                /\ n < k => lines[n + 1].key = "blank"
    BY <1>1, Zenon DEF EndOf
  <2> HIDE DEF e
  <2> QED BY <1>4, <1>5, <2>1, Zenon
<1> HIDE DEF e, S
<1>7. ASSUME NEW n \in 0..k, NoBlank(lines, n)
      PROVE  n <= e /\ ((n < k => lines[n + 1].key = "blank") => n = e)
  <2>1. n <= e
    <3> SUFFICES ASSUME ~(n <= e) PROVE FALSE
      OBVIOUS
    <3>1. e < k /\ e + 1 \in 1..n
      BY <1>1, <1>6
    <3> QED BY <1>6, <1>7, <3>1 DEF NoBlank
  <2>2. ASSUME n < k => lines[n + 1].key = "blank", n # e PROVE FALSE
    <3>1. n < k /\ n + 1 \in 1..e
      BY <1>1, <1>6, <2>1, <2>2
    <3> QED BY <1>6, <2>2, <3>1
  <2> QED BY <2>1, <2>2
<1> QED BY <1>1, <1>6, <1>7, Zenon DEF NoBlank, Ended1, e

(* The last line of a key is one.                                           *)
LEMMA LastLineIs ==
  ASSUME NEW lines, NEW m \in Nat, NEW key, NEW i \in Nat, IsLast(lines, m, key, i)
  PROVE  LastLine(lines, m, key) = i
<1> DEFINE S == LinesOf(lines, m, key)
<1>1. S \in SUBSET Nat
  BY DEF LinesOf
<1> HIDE DEF S
<1>2. i \in S /\ \A j \in S : j <= i
  BY Zenon DEF IsLast, S
<1>3. LastLine(lines, m, key) = CHOOSE j \in S : \A h \in S : h <= j
  BY Zenon DEF LastLine, S
<1>4. \A j \in S : (\A h \in S : h <= j) => j = i
  BY <1>1, <1>2
<1> QED BY <1>2, <1>3, <1>4, Zenon

(* The tree of a header none of whose lines is refused.                     *)
LEMMA TreeIs ==
  ASSUME NEW lines, NEW m \in Nat, NEW v, TreeRight(lines, m, v), LinesOf(lines, m, "tree") # {},
         \A i \in LinesOf(lines, m, "tree") : lines[i].val # << >>
  PROVE  v = lines[LastLine(lines, m, "tree")].val /\ v # << >>
<1>1. PICK i \in Nat : IsLast(lines, m, "tree", i) /\ v = lines[i].val
  BY Zenon DEF TreeRight
<1>2. LastLine(lines, m, "tree") = i
  BY <1>1, LastLineIs
<1>3. i \in LinesOf(lines, m, "tree")
  BY <1>1, Zenon DEF IsLast
<1> QED BY <1>1, <1>2, <1>3, Zenon

(* A signature of a header all of whose signatures git wrote.               *)
LEMMA StampIs ==
  ASSUME NEW lines, NEW m \in Nat, NEW key, NEW v, StampRight(lines, m, key, v), LinesOf(lines, m, key) # {},
         \A i \in LinesOf(lines, m, key) : lines[i].val \in Seq(Token) /\ GitStamp(lines[i].val)
  PROVE  Stamp(v[1]) = lines[LastLine(lines, m, key)].val /\ v # << >>
<1>1. PICK i \in Nat : IsLast(lines, m, key, i) /\ v = Signature(lines[i].val)
  BY Zenon DEF StampRight
<1>2. LastLine(lines, m, key) = i
  BY <1>1, LastLineIs
<1>3. i \in LinesOf(lines, m, key)
  BY <1>1, Zenon DEF IsLast
<1>4. Signature(lines[i].val) # << >> /\ Stamp(Signature(lines[i].val)[1]) = lines[i].val
  BY <1>3, StampRead
<1> QED BY <1>1, <1>2, <1>4, Zenon

(* A commit that is given is the one its header says.                       *)
LEMMA CommitInvExact ==
  ASSUME CommitInv
  PROVE  CommitExact
<1> DEFINE lines == input.lines
           end == CHOOSE n \in 0..Len(lines) :
                    /\ \A i \in 1..n : lines[i].key # "blank"
                    /\ n < Len(lines) => lines[n + 1].key = "blank"
           of(key) == {i \in 1..end : lines[i].key = key}
           last(key) == lines[CHOOSE i \in of(key) : \A j \in of(key) : j <= i].val
           whole  == input.utf8 /\ \A key \in {"tree", "author", "committer"} : of(key) # {}
           hashes == \A i \in of("tree") \cup of("parent") : lines[i].val # << >>
           stamps == \A i \in of("author") \cup of("committer") : GitStamp(lines[i].val)
           parents == [i \in 1..end |-> IF i \in of("parent") THEN lines[i].val ELSE << >>]
<1>0. SUFFICES ASSUME Finished("commit")
               PROVE  /\ whole /\ hashes /\ stamps =>
                           /\ result = "ok" /\ acc.tree = last("tree")
                           /\ acc.parents = FlattenSeq(parents)
                           /\ Stamp(acc.author[1]) = last("author") /\ Stamp(acc.committer[1]) = last("committer")
                           /\ acc.signed = (of("gpgsig") # {})
                           /\ acc.message = SubSeq(lines, end + 2, Len(lines))
                      /\ ~whole \/ ~hashes => result = "invalid"
  BY Zenon DEF CommitExact
<1>1. input \in Commits /\ acc \in CommitParts /\ CommitStop
  BY <1>0 DEF CommitInv, Finished
<1>2. lines \in Seq(Line) /\ Len(lines) \in Nat
  BY <1>1, ObjectParseAssumption
<1>3. end = EndOf(lines)
  BY Zenon DEF EndOf
<1> HIDE DEF end, lines
<1>4. \A key : of(key) = LinesOf(lines, end, key) /\ last(key) = lines[LastLine(lines, end, key)].val
  BY Zenon DEF LinesOf, LastLine
<1>5. parents = ParentsIn(lines, end)
  BY <1>4, Zenon DEF ParentsIn
<1>6. /\ end \in 0..Len(lines) /\ NoBlank(lines, end) /\ Ended1(lines, end) /\ end \in Nat
      /\ \A n \in 0..Len(lines) : NoBlank(lines, n) => n <= end /\ (Ended1(lines, n) => n = end)
  <2>1. /\ end \in 0..Len(lines) /\ NoBlank(lines, end) /\ Ended1(lines, end)
        /\ \A n \in 0..Len(lines) : NoBlank(lines, n) => n <= end /\ (Ended1(lines, n) => n = end)
    BY <1>2, <1>3, EndIs
  <2> QED BY <1>2, <2>1
<1>7. \A key : \A i \in of(key) : i \in 1..end /\ lines[i].key = key /\ lines[i].val \in Seq(Token)
  <2> SUFFICES ASSUME NEW key, NEW i \in of(key) PROVE i \in 1..end /\ lines[i].key = key /\ lines[i].val \in Seq(Token)
    OBVIOUS
  <2>1. i \in 1..end /\ lines[i].key = key
    OBVIOUS
  <2>2. i \in 1..Len(lines)
    BY <1>2, <1>6, <2>1
  <2>3. lines[i] \in Line
    BY <1>2, <2>2
  <2> QED BY <2>1, <2>3 DEF Line
<1>8. \A m \in Nat : CommitRead(lines, acc, m) => m \in 0..Len(lines) /\ NoBlank(lines, m)
  BY DEF CommitRead, NoBlank
<1>9. \A m \in Nat : CommitRead(lines, acc, m) /\ Ended1(lines, m) => m = end
  BY <1>6, <1>8, Zenon
<1> HIDE DEF of, last, parents
(* What the end of the header says once all of it was read. *)
<1>10. ASSUME CommitRead(lines, acc, end)
       PROVE  hashes /\ (acc.tree # << >> => of("tree") # {})
              /\ (acc.author # << >> => of("author") # {}) /\ (acc.committer # << >> => of("committer") # {})
  <2>1. \A i \in 1..end : ~Refused(lines[i])
    BY <1>10, Zenon DEF CommitRead
  <2>2. ASSUME NEW i \in of("tree") \cup of("parent") PROVE lines[i].val # << >>
    <3>1. lines[i].key \in {"tree", "parent"} /\ i \in 1..end
      BY <1>7
    <3> QED BY <2>1, <3>1 DEF Refused
  <2>3. TreeRight(lines, end, acc.tree) /\ StampRight(lines, end, "author", acc.author)
        /\ StampRight(lines, end, "committer", acc.committer)
    BY <1>10, Zenon DEF CommitRead
  <2>4. (of("tree") = {} => acc.tree = << >>) /\ (of("author") = {} => acc.author = << >>)
        /\ (of("committer") = {} => acc.committer = << >>)
    BY <1>4, <2>3, Zenon DEF TreeRight, StampRight
  <2> QED BY <2>2, <2>4, Zenon
<1>11. ASSUME ~whole \/ ~hashes PROVE result = "invalid"
  <2> SUFFICES ASSUME result = "ok" PROVE FALSE
    BY <1>1 DEF CommitStop
  <2>1. /\ input.utf8 /\ ~Lacking
        /\ \E m \in Nat : /\ CommitRead(lines, acc, m) /\ Ended1(lines, m)
                          /\ acc.message = SubSeq(lines, m + 2, Len(lines))
    BY <1>1 DEF CommitStop, lines
  <2>2. CommitRead(lines, acc, end)
    BY <1>9, <2>1, Zenon
  <2>3. acc.tree # << >> /\ acc.author # << >> /\ acc.committer # << >>
    BY <2>1, Zenon DEF Lacking
  <2>4. \A key \in {"tree", "author", "committer"} : of(key) # {}
    BY <1>10, <2>2, <2>3
  <2>5. whole /\ hashes
    BY <1>10, <2>1, <2>2, <2>4, Zenon
  <2> QED BY <1>11, <2>5, Zenon
<1>12. ASSUME whole, hashes, stamps
       PROVE  /\ result = "ok" /\ acc.tree = last("tree")
              /\ acc.parents = FlattenSeq(parents)
              /\ Stamp(acc.author[1]) = last("author") /\ Stamp(acc.committer[1]) = last("committer")
              /\ acc.signed = (of("gpgsig") # {})
              /\ acc.message = SubSeq(lines, end + 2, Len(lines))
  <2>1. of("tree") # {} /\ of("author") # {} /\ of("committer") # {} /\ input.utf8
    BY <1>12
  <2> HIDE DEF whole
  <2>2. ASSUME CommitRead(lines, acc, end)
        PROVE  /\ acc.tree = last("tree") /\ acc.tree # << >>
               /\ acc.parents = FlattenSeq(parents)
               /\ Stamp(acc.author[1]) = last("author") /\ acc.author # << >>
               /\ Stamp(acc.committer[1]) = last("committer") /\ acc.committer # << >>
               /\ acc.signed = (of("gpgsig") # {})
    <3>1. /\ TreeRight(lines, end, acc.tree) /\ ParentsRight(lines, end, acc.parents)
          /\ StampRight(lines, end, "author", acc.author) /\ StampRight(lines, end, "committer", acc.committer)
          /\ acc.signed = (LinesOf(lines, end, "gpgsig") # {})
      BY <2>2, Zenon DEF CommitRead
    <3>2. acc.tree = last("tree") /\ acc.tree # << >>
      <4>1. \A i \in LinesOf(lines, end, "tree") : lines[i].val # << >>
        BY <1>4, <1>12, Zenon
      <4>2. LinesOf(lines, end, "tree") # {}
        BY <1>4, <2>1, Zenon
      <4>3. acc.tree = lines[LastLine(lines, end, "tree")].val /\ acc.tree # << >>
        BY <1>6, <3>1, <4>1, <4>2, TreeIs
      <4> QED BY <1>4, <4>3, Zenon
    <3>3. ASSUME NEW key \in {"author", "committer"}, NEW v, StampRight(lines, end, key, v)
          PROVE  Stamp(v[1]) = last(key) /\ v # << >>
      <4>1. \A i \in of(key) : lines[i].val \in Seq(Token) /\ GitStamp(lines[i].val)
        BY <1>7, <1>12, <3>3
      <4>2. of(key) # {} /\ of(key) = LinesOf(lines, end, key)
        BY <1>4, <2>1, <3>3
      <4>3. Stamp(v[1]) = lines[LastLine(lines, end, key)].val /\ v # << >>
        BY <1>6, <3>3, <4>1, <4>2, StampIs
      <4> QED BY <1>4, <4>3, Zenon
    <3>4. acc.parents = FlattenSeq(parents)
      BY <1>5, <3>1, Zenon DEF ParentsRight
    <3>5. acc.signed = (of("gpgsig") # {})
      BY <1>4, <3>1, Zenon
    <3> QED BY <3>1, <3>2, <3>3, <3>4, <3>5
  <2>3. result # "invalid"
    <3> SUFFICES ASSUME result = "invalid" PROVE FALSE
      OBVIOUS
    <3>1. PICK m \in Nat : /\ CommitRead(lines, acc, m)
                           /\ \/ Ended1(lines, m) /\ Lacking
                              \/ m < Len(lines) /\ lines[m + 1].key # "blank" /\ Refused(lines[m + 1])
      BY <1>1, <2>1 DEF CommitStop, lines
    <3>2. CASE Ended1(lines, m) /\ Lacking
      <4>1. CommitRead(lines, acc, end)
        BY <1>9, <3>1, <3>2, Zenon
      <4> QED BY <2>2, <3>2, <4>1, Zenon DEF Lacking
    <3>3. CASE m < Len(lines) /\ lines[m + 1].key # "blank" /\ Refused(lines[m + 1])
      <4>1. m + 1 \in 1..end
        <5>1. m <= end /\ m # end
          <6>1. m \in 0..Len(lines) /\ NoBlank(lines, m)
            BY <1>8, <3>1, Zenon
          <6>2. m <= end
            BY <1>6, <6>1, Zenon
          <6>3. m # end
            BY <1>6, <3>3, Zenon DEF Ended1
          <6> QED BY <6>2, <6>3
        <5>2. m \in Nat /\ end \in Nat
          BY <1>6
        <5> QED BY <5>1, <5>2
      <4>2. lines[m + 1].key \in {"tree", "parent"} /\ lines[m + 1].val = << >> => FALSE
        BY <4>1, <1>12 DEF of
      <4>3. lines[m + 1].key \in {"author", "committer"} /\ Signature(lines[m + 1].val) = << >> => FALSE
        <5> SUFFICES ASSUME NEW key \in {"author", "committer"}, lines[m + 1].key = key,
                            Signature(lines[m + 1].val) = << >>
                     PROVE  FALSE
          OBVIOUS
        <5>1. m + 1 \in of(key)
          BY <4>1 DEF of
        <5>2. GitStamp(lines[m + 1].val) /\ lines[m + 1].val \in Seq(Token)
          BY <1>7, <1>12, <5>1
        <5> QED BY <5>2, StampRead
      <4> QED BY <3>3, <4>2, <4>3 DEF Refused
    <3> QED BY <3>1, <3>2, <3>3
  <2>4. PICK m \in Nat : /\ result = "ok" /\ ~Lacking
                         /\ CommitRead(lines, acc, m) /\ Ended1(lines, m)
                         /\ acc.message = SubSeq(lines, m + 2, Len(lines))
    BY <1>1, <2>1, <2>3 DEF CommitStop, lines
  <2>5. m = end
    BY <1>9, <2>4, Zenon
  <2> QED BY <2>2, <2>4, <2>5, Zenon
<1> HIDE DEF whole, hashes, stamps
<1> QED BY <1>11, <1>12, Zenon

(* The other calls leave it alone, and so does an answer given.             *)
LEMMA CommitKept ==
  ASSUME CommitInv, [Next]_vars
  PROVE  CommitInv'
<1>1. CASE CommitStep
  BY <1>1, CommitStepKeeps DEF CommitStep, Reading
<1>2. CASE EntryStep \/ DeltaStep \/ ParseLoose \/ TreeRecord \/ TreeEnd \/ ReflogStep
  <2>1. call' = call
    BY <1>2, OthersLeaveLoose, OthersLeaveTree
  <2>2. call # "commit"
    BY <1>2 DEF EntryStep, DeltaStep, ParseLoose, TreeRecord, TreeEnd, ReflogStep, OpenLog, NextLine,
                LogEnd, Reading
  <2> QED BY <2>1, <2>2 DEF CommitInv
<1>3. CASE Terminated \/ UNCHANGED vars
  <2>1. UNCHANGED <<call, input, pos, acc, result>>
    BY <1>3 DEF Terminated, vars
  <2> QED BY <2>1 DEF CommitInv, CommitStop, Lacking
<1> QED BY <1>1, <1>2, <1>3 DEF Next

(* The fields of a commit that is read are those of its header, the last of
   each, and the message is all that follows; a header that lacks a field or
   a hash is refused, whatever the message holds (CommitObject::parse).     *)
THEOREM CommitIsExact == Spec => []CommitExact
<1>1. Init => CommitInv
  <2> SUFFICES ASSUME Init, call = "commit" PROVE CommitInv
    BY DEF CommitInv
  <2>1. input \in Commits /\ acc = CommitAcc /\ pos = 1 /\ result = "pending"
    BY DEF Init, Begin
  <2>2. acc.tree = << >> /\ acc.parents = << >> /\ acc.author = << >> /\ acc.committer = << >> /\ acc.signed = FALSE
    BY <2>1 DEF CommitAcc
  <2>3. acc \in CommitParts
    <3>1. << >> \in Seq(Token) /\ << >> \in Seq(Line) /\ << >> \in Signatures
      BY DEF Signatures
    <3> QED BY <2>1, <3>1 DEF CommitAcc, CommitParts
  <2>4. \A key : LinesOf(input.lines, 0, key) = {}
    BY DEF LinesOf
  <2>5. ParentsRight(input.lines, 0, << >>)
    <3>1. ParentsIn(input.lines, 0) = << >>
      BY DEF ParentsIn
    <3>2. << >> \in Seq(Seq(Token)) /\ << >> \in Seq(Token)
      OBVIOUS
    <3>3. FlattenSeq(<< >>) = << >>
      BY <3>2, FlattenAppend
    <3> QED BY <3>1, <3>2, <3>3, Zenon DEF ParentsRight
  <2>6. TreeRight(input.lines, 0, << >>) /\ \A key : StampRight(input.lines, 0, key, << >>)
    BY <2>4, Zenon DEF TreeRight, StampRight
  <2>7. 0 \in 0..Len(input.lines)
    <3>1. input.lines \in Seq(Line)
      BY <2>1, ObjectParseAssumption
    <3>2. Len(input.lines) \in Nat
      BY <3>1
    <3> QED BY <3>2
  <2>8. CommitRead(input.lines, acc, 0)
    <3>1. \A i \in 1..0 : FALSE
      OBVIOUS
    <3>2. acc.signed = (LinesOf(input.lines, 0, "gpgsig") # {})
      BY <2>2, <2>4
    <3> QED BY <2>2, <2>5, <2>6, <2>7, <3>1, <3>2, Zenon DEF CommitRead
  <2>9. pos - 1 = 0 /\ pos \in Nat \ {0}
    BY <2>1
  <2> QED BY <2>1, <2>3, <2>8, <2>9, Zenon DEF CommitInv
<1>2. CommitInv /\ [Next]_vars => CommitInv'
  BY CommitKept
<1>3. CommitInv => CommitExact
  BY CommitInvExact
<1> QED BY <1>1, <1>2, <1>3, PTL DEF Spec
=============================================================================
