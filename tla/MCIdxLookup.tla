------------------------------ MODULE MCIdxLookup ------------------------------
(* Small indexes for IdxLookup: sound ones over every set of names, and ones
   whose fanout, order or length is wrong.  A name is one word here, so that
   whatever follows the fanout can be read as names and as offsets.         *)
EXTENDS IdxLookup, SequencesExt, FiniteSetsExt

CONSTANT MaxNames

MCName == 0..2 * Msb - 1
MCFirstByte == [n \in MCName |-> n \div Msb]

Bytes(v, l, f, file, n) ==
  [v2 |-> v, whole |-> l, fanout |-> f, names |-> file, words |-> file, count |-> n]

Fanout(S) == [b \in 0..Buckets - 1 |-> Cardinality({n \in S : FirstByte[n] <= b})]

(* What git writes: names, CRCs (here the words 1), words on both sides of
   Msb, and a large table of two offsets.                                   *)
Sound ==
  UNION {{Bytes(TRUE, TRUE, Fanout(S),
                SetToSortSeq(S, <) \o [i \in 1..Cardinality(S) |-> 1] \o w \o <<1, 5, 1, 6>>,
                Cardinality(S)) : w \in [1..Cardinality(S) -> {0, Msb - 1, Msb, Msb + 1}]}
         : S \in UNION {kSubset(k, Name) : k \in 0..MaxNames}}

(* Any fanout, over any file of a name and over files of two in any order;
   the files are cut short anywhere.                                        *)
Words(S, lengths) == UNION {[1..k -> S] : k \in lengths}

Damaged ==
  {Bytes(TRUE, TRUE, f, file, n) :
     f \in [0..Buckets - 1 -> 0..2], n \in 1..2,
     file \in Words({1, 3, 4, 5}, 0..4)
             \cup {ns \o <<1, 1>> \o w : ns \in Words({1, 3, 4, 5}, {2}), w \in Words({1, 4}, 0..4)}}
  \cup {Bytes(v, l, Fanout({1}), <<1, 1, 3>>, 1) : v \in BOOLEAN, l \in BOOLEAN}

MCIndexes == Sound \cup Damaged
=============================================================================
