-------------------------------- MODULE IdxLookup --------------------------------
(***************************************************************************)
(* The search of a version-2 pack index (core/src/pack.rs: idx_lookup), one *)
(* probe of the binary search at a time, and the listing of its names       *)
(* (idx_names).  Names are naturals, compared as the 20 bytes are.  Where a *)
(* table begins is reckoned from the fanout, so that an index may be cut    *)
(* short, be out of order, or have its offsets looked for in the wrong place.*)
(***************************************************************************)
EXTENDS Integers, Sequences

CONSTANTS
  Buckets,    \* fanout entries (256)
  Name,       \* object names
  FirstByte,  \* [Name -> 0..Buckets - 1]
  Msb,        \* 0x80000000: from here on an offset is a slot of the large table
  NameWords,  \* the 4-byte words of a name (5)
  Indexes     \* the indexes searched

(* v2: the magic and the version are right.  whole: the file reaches the end
   of the fanout.  names and words: the rest of the file, up to its end, read
   as names and as 4-byte words.  count: how many names git put there, which
   the code takes the last word of the fanout for.                          *)
Index ==
  [v2 : BOOLEAN, whole : BOOLEAN, fanout : [0..Buckets - 1 -> Nat],
   names : Seq(Name), words : Seq(0..2 * Msb - 1), count : Nat]

ASSUME IdxLookupAssumption ==
  /\ Buckets \in Nat \ {0} /\ Msb \in Nat \ {0} /\ NameWords \in Nat \ {0}
  /\ Name \subseteq Nat /\ FirstByte \in [Name -> 0..Buckets - 1]
  /\ Indexes \subseteq Index

VARIABLES
  idx, want,  \* the index and the name sought
  pc,         \* "start", "search", "offset", "done"
  lo, hi,     \* the half-open range of slots, from 0, still to search
  hit,        \* the slot whose name is the one sought
  result,     \* "found", "none", "oob" (OutOfBounds) or "unsupported"
  offset      \* the pack offset found

vars == <<idx, want, pc, lo, hi, hit, result, offset>>

(* The definitions named "...Fault" are seeded faults: each stands for a
   plausible mistake in the definition that follows it, and is used only to
   show that a property would notice it.                                    *)

(* The slots of the names that share want's first byte.                     *)
LowFault(x, b) == x.fanout[b]                       \* its own count, not the previous
Low(x, b) == IF b = 0 THEN 0 ELSE x.fanout[b - 1]
High(x, b) == x.fanout[b]

Total(x) == x.fanout[Buckets - 1]

(* The word at which the offsets begin: behind the names and their CRCs, a
   word each; and behind the offsets, the large ones, of two words each.    *)
SmallTableFault(x) == Total(x) * NameWords          \* the CRCs are forgotten
SmallTable(x) == Total(x) * NameWords + Total(x)
LargeTable(x) == SmallTable(x) + Total(x)

(* What idx_names appends: nothing, and an error, when the index is of
   another version or its name table is cut short.                          *)
Listing(x) ==
  IF x.v2 /\ x.whole /\ Total(x) <= Len(x.names)
  THEN [ok |-> TRUE, names |-> {x.names[i] : i \in 1..Total(x)}]
  ELSE [ok |-> FALSE, names |-> {}]

Mid == lo + (hi - lo) \div 2

(* The range left when the name at slot m is less than the one sought.      *)
AboveFault(m) == m                                  \* mid is kept: it may stand still
Above(m) == m + 1

(* ... and when it is greater; both ranges are half-open.                   *)
BelowFault(m) == m - 1                              \* as if hi were included
Below(m) == m

Init ==
  /\ idx \in Indexes /\ want \in Name
  /\ pc = "start" /\ lo = 0 /\ hi = 0 /\ hit = 0
  /\ result = "pending" /\ offset = 0

Finish(r, o) == pc' = "done" /\ result' = r /\ offset' = o

Start ==
  /\ pc = "start"
  /\ IF idx.v2 /\ idx.whole
     THEN /\ lo' = Low(idx, FirstByte[want]) /\ hi' = High(idx, FirstByte[want])
          /\ pc' = "search" /\ UNCHANGED <<result, offset>>
     ELSE Finish(IF idx.v2 THEN "oob" ELSE "unsupported", 0) /\ UNCHANGED <<lo, hi>>
  /\ UNCHANGED hit

Probe ==
  /\ pc = "search" /\ lo < hi /\ Mid < Len(idx.names)
  /\ LET name == idx.names[Mid + 1]
     IN  \/ name < want /\ lo' = Above(Mid) /\ UNCHANGED <<pc, hi, hit>>
         \/ name > want /\ hi' = Below(Mid) /\ UNCHANGED <<pc, lo, hit>>
         \/ name = want /\ hit' = Mid /\ pc' = "offset" /\ UNCHANGED <<lo, hi>>
  /\ UNCHANGED <<result, offset>>

(* A slot beyond the end of the file.                                       *)
ProbeBeyond ==
  /\ pc = "search" /\ lo < hi /\ Mid >= Len(idx.names)
  /\ Finish("oob", 0) /\ UNCHANGED <<lo, hi, hit>>

Exhausted ==
  /\ pc = "search" /\ lo >= hi
  /\ Finish("none", 0) /\ UNCHANGED <<lo, hi, hit>>

(* The offset of slot s: a word, or a slot of the 8-byte table.             *)
SmallFault(word) == word <= Msb                     \* off by one
Small(word) == word < Msb

(* The 8 bytes of two words; the file may end before either read.           *)
Wide(x, at) == x.words[at + 1] * (2 * Msb) + x.words[at + 2]

ReadOffset ==
  /\ pc = "offset"
  /\ LET at   == SmallTable(idx) + hit
         word == idx.words[at + 1]
         wide == LargeTable(idx) + 2 * (word - Msb)
     IN  \/ at >= Len(idx.words) /\ Finish("oob", 0)
         \/ at < Len(idx.words) /\ Small(word) /\ Finish("found", word)
         \/ /\ at < Len(idx.words) /\ ~Small(word)
            /\ IF wide + 2 > Len(idx.words) THEN Finish("oob", 0)
               ELSE Finish("found", Wide(idx, wide))
  /\ UNCHANGED <<lo, hi, hit>>

Terminated == pc = "done" /\ UNCHANGED vars

Next ==
  \/ /\ Start \/ Probe \/ ProbeBeyond \/ Exhausted \/ ReadOffset
     /\ UNCHANGED <<idx, want>>
  \/ Terminated

Spec == Init /\ [][Next]_vars

(* One thread runs the search to its end.                                   *)
FairSpec == Spec /\ WF_vars(Next)

-----------------------------------------------------------------------------
(* An index as git writes it: names in order, the fanout counts them, and
   every offset is in the word or, from Msb on, in the large table.         *)
Sorted(x) == \A i, j \in 1..x.count : i < j => x.names[i] < x.names[j]

(* No word of the fanout leads beyond the names that git put there.         *)
Within(x) == x.count <= Len(x.names) /\ \A b \in 0..Buckets - 1 : x.fanout[b] <= x.count

Counted(x) ==
  /\ Within(x)
  /\ \A b \in 0..Buckets - 1, i \in 1..x.count :
       FirstByte[x.names[i]] <= b <=> i <= x.fanout[b]

(* Where git put the offset of the i-th name, and the word it put there.    *)
OffsetWord(x, i) == x.count * NameWords + x.count + i
Raw(x, i) == x.words[OffsetWord(x, i)]
LargeWord(x, i) == OffsetWord(x, x.count) + 2 * (Raw(x, i) - Msb)

HasOffset(x, i) ==
  /\ OffsetWord(x, i) <= Len(x.words)
  /\ Raw(x, i) >= Msb => LargeWord(x, i) + 2 <= Len(x.words)

Encoded(x) == \A i \in 1..x.count : HasOffset(x, i)

WellFormed(x) == x.v2 /\ x.whole /\ Counted(x) /\ Sorted(x) /\ Encoded(x)

OffsetOf(x, i) == IF Raw(x, i) >= Msb THEN Wide(x, LargeWord(x, i)) ELSE Raw(x, i)

TypeOK ==
  /\ idx \in Index /\ want \in Name
  /\ pc \in {"start", "search", "offset", "done"}
  /\ lo \in Nat /\ hi \in Nat /\ hit \in Nat /\ offset \in Nat
  /\ result \in {"pending", "found", "none", "oob", "unsupported"}

(* Why the search is right: in a well-formed index the name sought, if it is
   there at all, is in the range still to search, and a hit is a hit, among
   git's names as long as the fanout leads nowhere else.                    *)
SearchInv ==
  /\ pc = "search" /\ WellFormed(idx) =>
       \A i \in 1..idx.count : idx.names[i] = want => lo < i /\ i <= hi
  /\ pc = "search" /\ Within(idx) => hi <= idx.count
  /\ pc = "offset" => hit < Len(idx.names) /\ idx.names[hit + 1] = want
  /\ pc = "offset" /\ Within(idx) => hit < idx.count

(* In a well-formed index every listed name is found, at its own offset, and
   no other is.                                                             *)
LookupExact ==
  pc = "done" /\ WellFormed(idx) =>
    IF want \in Listing(idx).names
    THEN /\ result = "found"
         /\ \E i \in 1..idx.count : idx.names[i] = want /\ offset = OffsetOf(idx, i)
    ELSE result = "none"

(* An index out of order, with a wrong fanout or cut short may hide an object,
   but an offset it answers with is the one git wrote for a name equal to the
   one sought.  The fanout must lead to git's names only and its last word be
   their number: with another number the offsets are read elsewhere, and the
   answer may be another object's.                                          *)
FoundIsOwn ==
  pc = "done" /\ result = "found" /\ Within(idx) /\ Total(idx) = idx.count =>
    \E i \in 1..idx.count :
      idx.names[i] = want /\ HasOffset(idx, i) /\ offset = OffsetOf(idx, i)

(* Every probe that does not end the search shrinks the range, and never
   past empty, however wrong the fanout is.                                 *)
Shrinks == [][pc = "search" /\ pc' = "search" => hi' - lo' < hi - lo /\ lo' <= hi']_vars

(* The search of any index ends, one whose fanout or order is wrong too: no
   probe leaves the range where it was.                                     *)
Ends == <>(pc = "done")
=============================================================================
