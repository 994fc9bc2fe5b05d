------------------------------- MODULE PackBytes -------------------------------
(***************************************************************************)
(* The bytes of a pack (core/src/pack.rs): parse_object_header,             *)
(* parse_ofs_delta and inflate as read_object_at calls them, and            *)
(* apply_delta with read_delta_size.  Words wrap and shifts lose bits as    *)
(* usize does, at a smaller width; which base a delta then reads is in      *)
(* DeltaChain.                                                              *)
(***************************************************************************)
EXTENDS Decoder, SequencesExt

CONSTANTS
  First,      \* 16: what the first byte of an entry holds of the size
  Group,      \* 128: what every other byte of a number holds
  Word,       \* 2^64: usize wraps here
  NameBytes,  \* 20: a hash
  Radix,      \* 256: a byte of a copy instruction
  Big,        \* 0x10000: the copy size that no bytes stand for
  MaxObject,  \* MAX_OBJECT_SIZE
  Entries,    \* the pack entries read: [off, bytes, body], see Entry
  Deltas      \* the deltas applied: [base, sizes, ops], see Delta

(* A byte of a number: whether another follows, and its bits; those of the
   first byte of an entry are the type above the low size bits.             *)
Byte == [more : BOOLEAN, bits : Nat]

(* An entry at offset off of its pack: its bytes up to the zlib stream, which
   inflates to so many bytes or not at all; the pack may end anywhere.      *)
Entry == [off : Nat, bytes : Seq(Byte), zlib : BOOLEAN, body : Nat]

(* A delta: the bytes of its two sizes, then its instructions.  A copy has
   the bytes of offset and size that are present, by place; "cut" is an
   instruction that the delta ends in.                                      *)
Copies == [op : {"copy"}, off : UNION {[S -> Nat] : S \in SUBSET (0..3)},
           size : UNION {[S -> Nat] : S \in SUBSET (0..2)}]
Inserts == [op : {"insert"}, lit : Seq(Nat)]
Reserved == [op : {"zero", "cut"}]
Delta == [base : Seq(Nat), sizes : Seq(Byte), ops : Seq(Copies \cup Inserts \cup Reserved)]

ASSUME PackBytesAssumption ==
  /\ {First, Group, Word, Radix, Big} \subseteq Nat \ {0, 1}
  /\ {NameBytes, MaxObject} \subseteq Nat
  /\ First < Word /\ Group < Word /\ Big = Radix * Radix
  (* They are powers of two: so are what is built from them, up to Word.    *)
  /\ Word % First = 0
  /\ \A d \in 1..Word : Word % d = 0 /\ d * Group < Word => Word % (d * Group) = 0
  /\ \A e \in Entries : e \in Entry /\ \A i \in 2..Len(e.bytes) : e.bytes[i].bits < Group
  /\ \A d \in Deltas :
       /\ d.base \in Seq(Nat) /\ d.sizes \in Seq(Byte) /\ d.ops \in Seq(Range(d.ops))
       /\ \A i \in DOMAIN d.sizes : d.sizes[i].bits < Group
       /\ \A i, j \in 1..(Len(d.sizes) - 1) : ~d.sizes[i].more /\ ~d.sizes[j].more => i = j
       /\ \A o \in Range(d.ops) :
            \/ o \in Inserts \/ o \in Reserved
            \/ o.op = "copy" /\ \A f \in {o.off, o.size} : f \in [DOMAIN f -> Nat]

-----------------------------------------------------------------------------
(* The definitions named "...Fault" are seeded faults: each stands for a
   plausible mistake in the definition that follows it, and is used only to
   show that a property would notice it.                                    *)

(* A group of bits put in its place: an error when the shift is the width of
   the word or more, else the bits above the word are lost.                 *)
Placed(bits, scale) == (bits * scale) % Word
ShiftFits(scale) == scale < Word

-----------------------------------------------------------------------------
(* read_object_at: the header, the base, the zlib stream.                   *)

EntryAcc == [part |-> "first", type |-> 0, size |-> 0, scale |-> First, dist |-> 0]

At == input.bytes[pos]
Beyond == pos > Len(input.bytes)

(* Where the bytes after a number lead.                                     *)
AfterHeader(type) == IF type = 6 THEN "ofs" ELSE IF type = 7 THEN "name" ELSE "body"

FirstByte ==
  /\ acc.part = "first" /\ ~Beyond
  /\ LET type == (At.bits \div First) % 8
     IN  Advance(1, [acc EXCEPT !.type = type, !.size = At.bits % First,
                                !.part = IF At.more THEN "size" ELSE AfterHeader(type)])

SizeByte ==
  /\ acc.part = "size" /\ ~Beyond
  /\ IF ~ShiftFits(acc.scale) THEN Return("oob")
     ELSE Advance(1, [acc EXCEPT !.size = @ + Placed(At.bits, acc.scale), !.scale = @ * Group,
                                 !.part = IF At.more THEN "size" ELSE AfterHeader(acc.type)])

(* parse_ofs_delta: every byte but the first adds one before the shift.     *)
FartherFault(dist, bits) == Placed(dist, Group) + bits     \* no one added
Farther(dist, bits) == Placed(dist + 1, Group) + bits

OfsByte ==
  /\ acc.part \in {"ofs", "farther"} /\ ~Beyond
  /\ IF acc.part = "farther" /\ acc.dist + 1 = Word THEN Return("oob")
     ELSE Advance(1, [acc EXCEPT !.dist = IF acc.part = "ofs" THEN At.bits
                                          ELSE Farther(acc.dist, At.bits),
                                 !.part = IF At.more THEN "farther" ELSE "base"])

(* off.checked_sub(back); the base itself is read before the delta.         *)
Base ==
  /\ acc.part = "base"
  /\ IF acc.dist > input.off THEN Return("oob") ELSE Advance(0, [acc EXCEPT !.part = "body"])

(* base_hash                                                                *)
NameFitsFault == pos + NameBytes <= Len(input.bytes) + 2     \* one byte short
NameFits == pos + NameBytes <= Len(input.bytes) + 1

Name ==
  /\ acc.part = "name"
  /\ IF NameFits THEN Advance(NameBytes, [acc EXCEPT !.part = "body"]) ELSE Return("oob")

(* The match on the type refuses 0 and 5; inflate takes one byte more than it
   may return.                                                              *)
Inflate ==
  /\ acc.part = "body"
  /\ Return(IF acc.type \in {0, 5} \/ ~input.zlib THEN "invalid"
            ELSE IF input.body > MaxObject THEN "bomb" ELSE "ok")

EntryStep ==
  /\ Reading("read_entry")
  /\ \/ acc.part \in {"first", "size", "ofs", "farther"} /\ Beyond /\ Return("oob")
     \/ FirstByte \/ SizeByte \/ OfsByte \/ Base \/ Name \/ Inflate

-----------------------------------------------------------------------------
(* apply_delta.                                                             *)

DeltaAcc == [size |-> 0, scale |-> 1, target |-> FALSE, out |-> << >>]

(* read_delta_size, twice: the source size, which nothing uses, and then the
   target size.                                                             *)
DeltaSize ==
  /\ pos <= Len(input.sizes)
  /\ LET b == input.sizes[pos]
         sum == acc.size + Placed(b.bits, acc.scale)
     IN  IF ~ShiftFits(acc.scale) THEN Return("oob")
         ELSE Advance(1, IF b.more THEN [acc EXCEPT !.size = sum, !.scale = @ * Group]
                         ELSE IF acc.target THEN [acc EXCEPT !.size = sum, !.scale = 0]
                         ELSE [acc EXCEPT !.size = 0, !.scale = 1, !.target = TRUE])

(* scale is 0 once both sizes are read.                                     *)
SizesRead == acc.scale = 0
Op == input.ops[pos - Len(input.sizes)]
NoMoreOps == pos > Len(input.sizes) + Len(input.ops)

(* Little-endian, absent bytes zero.                                        *)
Digit(f, i) == IF i \in DOMAIN f THEN f[i] ELSE 0
Little(f) == Digit(f, 0) + Radix * (Digit(f, 1) + Radix * (Digit(f, 2) + Radix * Digit(f, 3)))

CopySizeFault(f) == Little(f)                       \* zero is zero
CopySize(f) == IF Little(f) = 0 THEN Big ELSE Little(f)

Copy ==
  /\ Op.op = "copy"
  /\ LET from == Little(Op.off)
         end  == from + CopySize(Op.size)
     IN  IF end > Len(input.base) THEN Return("oob")
         ELSE Advance(1, [acc EXCEPT !.out = @ \o SubSeq(input.base, from + 1, end)])

Insert == Op.op = "insert" /\ Advance(1, [acc EXCEPT !.out = @ \o Op.lit])

Refuse == Op.op \in {"zero", "cut"} /\ Return(IF Op.op = "zero" THEN "invalid" ELSE "oob")

DeltaStep ==
  /\ Reading("apply_delta")
  /\ \/ DeltaSize
     \/ pos > Len(input.sizes) /\ ~SizesRead /\ Return("oob")
     \/ SizesRead /\ ~NoMoreOps /\ (Copy \/ Insert \/ Refuse)
     \/ SizesRead /\ NoMoreOps /\ Return(IF Len(acc.out) = acc.size THEN "ok" ELSE "invalid")

-----------------------------------------------------------------------------
(* What git writes (its pack-objects.c and diff-delta.c).                   *)

More(bits) == [more |-> TRUE, bits |-> bits]
End(bits) == [more |-> FALSE, bits |-> bits]

(* A size, low bits first.                                                  *)
SizeBytes[n \in Nat] ==
  IF n < Group THEN <<End(n)>> ELSE <<More(n % Group)>> \o SizeBytes[n \div Group]

Header(type, size) ==
  IF size < First THEN <<End(type * First + size)>>
  ELSE <<More(type * First + (size % First))>> \o SizeBytes[size \div First]

(* A distance, high bits first; each continued byte stands for one more.    *)
OfsLead[n \in Nat] ==
  IF n = 0 THEN << >> ELSE OfsLead[(n - 1) \div Group] \o <<More((n - 1) % Group)>>
OfsBytes(dist) == OfsLead[dist \div Group] \o <<End(dist % Group)>>

(* Every header and every distance git writes.                              *)
Headers == {[type |-> t, size |-> s, bytes |-> Header(t, s)] : t \in {1, 2, 3, 4, 6, 7}, s \in 0..(Word - 1)}
Distances == {[dist |-> d, bytes |-> OfsBytes(d)] : d \in 0..(Word - 1)}

(* The four low bytes of a number, and a copy of at most Big bytes with those
   that are not zero.                                                       *)
LowBytes(n) ==
  LET a == n \div Radix
      b == a \div Radix
      c == b \div Radix
  IN  [i \in 0..3 |-> CASE i = 0 -> n % Radix [] i = 1 -> a % Radix [] i = 2 -> b % Radix [] OTHER -> c % Radix]
Present(n, places) == [i \in {j \in places : LowBytes(n)[j] # 0} |-> LowBytes(n)[i]]
CopyOp(p) == [op |-> "copy", off |-> Present(p.from, 0..3), size |-> Present(p.len, 0..1)]

(* What a copy can be made of: its offset has four bytes.                   *)
Slices(base) ==
  {p \in [from : 0..Len(base), len : 1..Big] :
     p.from < Radix * Radix * Radix * Radix /\ p.from + p.len <= Len(base)}

-----------------------------------------------------------------------------
(* Every entry git writes, whatever its size and distance, is read with its
   own type, size and distance, up to the first byte of its body; one that
   ends early is refused, a base before the pack and a body over the limit
   too.  Fails if the two ways git writes numbers are mixed up, at their
   boundaries, or if a part is skipped.                                     *)
EntryExact ==
  Finished("read_entry") =>
    LET answer == IF ~input.zlib THEN "invalid" ELSE IF input.body > MaxObject THEN "bomb" ELSE "ok"
    IN  \A h \in Headers :
          /\ IsStrictPrefix(input.bytes, h.bytes) => result = "oob"
          /\ IsPrefix(h.bytes, input.bytes) =>
               LET rest == SubSeq(input.bytes, Len(h.bytes) + 1, Len(input.bytes))
                   taken == pos - 1 - Len(h.bytes)
               IN  /\ acc.type = h.type /\ acc.size = h.size
                   /\ h.type < 6 => result = answer /\ taken = 0
                   /\ h.type = 7 => IF Len(rest) < NameBytes THEN result = "oob"
                                    ELSE result = answer /\ taken = NameBytes
                   /\ h.type = 6 => \A d \in Distances :
                        /\ IsStrictPrefix(rest, d.bytes) => result = "oob"
                        /\ IsPrefix(d.bytes, rest) =>
                             /\ acc.dist = d.dist /\ taken = Len(d.bytes)
                             /\ result = IF d.dist > input.off THEN "oob" ELSE answer

(* A delta git writes gives back what it was made from: the slices and the
   literals in order, the slices of Big bytes too, and only if they are as
   many as the header says; a delta with an instruction that is cut or
   reserved gives nothing.                                                  *)
DeltaExact ==
  Finished("apply_delta") =>
    LET slices == Slices(input.base)
        written(o) == o.op = "insert" \/ \E p \in slices : CopyOp(p) = o
        piece(o) == IF o.op = "insert" THEN o.lit
                    ELSE LET p == CHOOSE p \in slices : CopyOp(p) = o
                         IN  SubSeq(input.base, p.from + 1, p.from + p.len)
        whole == FlattenSeq([i \in DOMAIN input.ops |-> piece(input.ops[i])])
    IN  /\ (\A i \in DOMAIN input.ops : written(input.ops[i])) =>
             \A s, t \in 0..(Word - 1) :
               input.sizes = SizeBytes[s] \o SizeBytes[t] =>
                 IF t = Len(whole) THEN result = "ok" /\ acc.out = whole
                 ELSE result = "invalid"
        /\ (\E i \in DOMAIN input.ops : input.ops[i].op \in {"zero", "cut"}) => result # "ok"
=============================================================================
