------------------------------ MODULE ObjectParse ------------------------------
(***************************************************************************)
(* decompress_and_parse (core/src/loose.rs), TreeObject::parse              *)
(* (core/src/tree.rs) and CommitObject::parse with parse_signature          *)
(* (core/src/commit.rs), one record or one line to a step.  The bytes of a  *)
(* loose file and of a tree are reduced to the kinds their framing tells    *)
(* apart, a commit to its lines.                                            *)
(***************************************************************************)
EXTENDS Decoder, SequencesExt

CONSTANTS
  HashBytes,  \* 20
  MaxLoose,   \* MAX_DECOMPRESSED_SIZE
  SizeWord,   \* 2^64: a size is less
  ModeWord,   \* 2^32: a mode is less
  Loose,      \* the loose files read: [content, named, zlib], see LooseByte
  Trees,      \* the trees parsed: sequences of TreeByte
  Commits     \* the commits parsed: [utf8, lines], see Line

(* The digits of a number: three stand for the ten of a size and for the
   eight of a mode.                                                         *)
Scale == 3
Worth == [d \in {"0", "1", "2"} |-> CASE d = "0" -> 0 [] d = "1" -> 1 [] d = "2" -> 2]

(* What a loose file inflates to: the word for a kind of object, a space,
   digits, a plus sign, a byte that is not UTF-8, NUL.  named is what the hash
   it is read for was computed from; no two contents have the same hash.    *)
LooseByte == {"kind", "space", "plus", "raw", "nul"} \cup DOMAIN Worth

(* A space, digits, a plus sign, any other character, a byte that is not
   UTF-8, NUL.  A hash is any bytes.                                        *)
TreeByte == {"space", "plus", "char", "raw", "nul"} \cup DOMAIN Worth

(* A line of a commit: what it starts with and the words after that.  For
   "tree" and "parent", no word stands for no hash; for "author" and
   "committer" they are the words, brackets, time and zone of a signature.
   "gpgsig" is the start of a signature; "more", a continuation line, and
   "other" are anything else; "blank" is empty.                             *)
Times == {"1", "2"}
Zones == {"+0100", "-0100"}
Token == {"h1", "h2", "w", "v", "<", ">"} \cup Times \cup Zones
Line == [key : {"tree", "parent", "author", "committer", "gpgsig", "more", "other", "blank"},
         val : Seq(Token)]

ASSUME ObjectParseAssumption ==
  /\ HashBytes \in Nat \ {0} /\ MaxLoose \in Nat
  /\ SizeWord \in Nat /\ ModeWord \in Nat /\ MaxLoose < SizeWord
  /\ \A f \in Loose : {f.content, f.named} \subseteq Seq(LooseByte) /\ f.zlib \in BOOLEAN
  /\ Trees \subseteq Seq(TreeByte)
  /\ \A c \in Commits : c.utf8 \in BOOLEAN /\ c.lines \in Seq(Line)

-----------------------------------------------------------------------------
(* The definitions named "...Fault" are seeded faults: each stands for a
   plausible mistake in the definition that follows it, and is used only to
   show that a property would notice it.                                    *)

(* The first of a kind of byte at or after a place, 0 when there is none.   *)
FirstAt(data, from, byte) ==
  LET hits == {i \in from..Len(data) : data[i] = byte}
  IN  IF hits = {} THEN 0 ELSE CHOOSE i \in hits : \A j \in hits : i <= j

(* str::parse and from_str_radix: digits, with a plus sign before them or
   not; << >> when they refuse them, as they do a number that is too large.  *)
Figures(s) == IF s # << >> /\ s[1] = "plus" THEN Tail(s) ELSE s
Value(s) ==
  LET value[k \in 0..Len(s)] == IF k = 0 THEN 0 ELSE value[k - 1] * Scale + Worth[s[k]]
  IN  value[Len(s)]
Number(s, word) ==
  LET digits == Figures(s)
  IN  IF \/ digits = << >>
         \/ \E i \in DOMAIN digits : digits[i] \notin DOMAIN Worth
         \/ Value(digits) >= word
      THEN << >> ELSE <<Value(digits)>>

(* decompress_and_parse: take() cuts what is longer than the limit off.     *)
HeaderEndFault(data) ==                             \* the last NUL
  LET nuls == {i \in DOMAIN data : data[i] = "nul"}
  IN  IF nuls = {} THEN 0 ELSE CHOOSE i \in nuls : \A j \in nuls : j <= i
HeaderEnd(data) == FirstAt(data, 1, "nul")

ParseLoose ==
  /\ Reading("loose")
  /\ \E data \in {SubSeq(input.content, 1, Min({MaxLoose, Len(input.content)}))} :
       LET nul    == HeaderEnd(data)
           header == SubSeq(data, 1, nul - 1)
           space  == FirstAt(header, 1, "space")
           size   == SubSeq(header, space + 1, Len(header))
           body   == SubSeq(data, nul + 1, Len(data))
       IN  IF \/ ~input.zlib \/ nul = 0 \/ FirstAt(header, 1, "raw") # 0
              \/ space = 0 \/ SubSeq(header, 1, space - 1) # <<"kind">>
              \/ Number(size, SizeWord) # <<Len(body)>>
           THEN Return("invalid")
           ELSE ReturnAfter(Len(data), [data |-> body, verified |-> data = input.named])

-----------------------------------------------------------------------------
(* The record at pos: its header ends at the first NUL and its mode at the
   first space; the hash has a fixed length and may hold anything.          *)
HashEndFault(nul) == nul + HashBytes - 1                  \* one byte short
HashEnd(nul) == nul + HashBytes

TreeRecord ==
  /\ Reading("tree") /\ pos <= Len(input)
  /\ LET nul    == FirstAt(input, pos, "nul")
         header == SubSeq(input, pos, nul - 1)
         space  == FirstAt(header, 1, "space")
         mode   == Number(SubSeq(header, 1, space - 1), ModeWord)
         end    == HashEnd(nul)
     IN  IF nul = 0 \/ FirstAt(header, 1, "raw") # 0 \/ space = 0 \/ mode = << >> \/ end > Len(input)
         THEN Return("invalid")
         ELSE Advance(end + 1 - pos,
                Append(acc, [mode |-> mode[1], name |-> SubSeq(header, space + 1, Len(header)),
                             hash |-> SubSeq(input, nul + 1, end)]))

TreeEnd == Reading("tree") /\ pos > Len(input) /\ Return("ok")

-----------------------------------------------------------------------------
(* parse_signature: the last brackets hold the e-mail, a number must follow. *)
LastIn(s, x) ==
  LET hits == {i \in DOMAIN s : s[i] = x}
  IN  IF hits = {} THEN 0 ELSE CHOOSE i \in hits : \A j \in hits : j <= i

(* << >> when it is refused; the zone is zero unless four digits follow.    *)
Signature(s) ==
  LET end == LastIn(s, ">")
      start == LastIn(s, "<")
  IN  IF start = 0 \/ start >= end \/ end = Len(s) \/ s[end + 1] \notin Times THEN << >>
      ELSE <<[name |-> SubSeq(s, 1, start - 1), email |-> SubSeq(s, start + 1, end - 1),
              time |-> s[end + 1],
              zone |-> IF end + 2 <= Len(s) /\ s[end + 2] \in Zones THEN s[end + 2] ELSE "+0000"]>>

CommitAcc == [tree |-> << >>, parents |-> << >>, author |-> << >>, committer |-> << >>,
              signed |-> FALSE, message |-> << >>]

(* A line whose hash or signature is refused ends the parse.                *)
Refused(l) ==
  \/ l.key \in {"tree", "parent"} /\ l.val = << >>
  \/ l.key \in {"author", "committer"} /\ Signature(l.val) = << >>

Taken(l) ==
  CASE l.key = "tree"      -> [acc EXCEPT !.tree = l.val]
    [] l.key = "parent"    -> [acc EXCEPT !.parents = @ \o l.val]
    [] l.key = "author"    -> [acc EXCEPT !.author = Signature(l.val)]
    [] l.key = "committer" -> [acc EXCEPT !.committer = Signature(l.val)]
    [] l.key = "gpgsig"    -> [acc EXCEPT !.signed = TRUE]
    [] OTHER               -> acc

(* The first blank line, or the end: the rest is the message.               *)
HeaderEndsFault == pos > Len(input.lines)           \* blank lines are skipped
HeaderEnds == pos <= Len(input.lines) => input.lines[pos].key = "blank"

HeaderLine ==
  /\ input.utf8 /\ ~HeaderEnds
  /\ LET l == input.lines[pos]
     IN  IF Refused(l) THEN Return("invalid") ELSE Advance(1, Taken(l))

Message ==
  /\ input.utf8 /\ HeaderEnds
  /\ IF << >> \in {acc.tree, acc.author, acc.committer} THEN Return("invalid")
     ELSE ReturnAfter(1, [acc EXCEPT !.message = SubSeq(input.lines, pos + 1, Len(input.lines))])

CommitStep ==
  /\ Reading("commit")
  /\ HeaderLine \/ Message \/ (~input.utf8 /\ Return("invalid"))

-----------------------------------------------------------------------------
(* How a number is written, and what is read as one: a plus sign and zeros
   may stand before it.                                                     *)
Numeral[n \in Nat] ==
  LET last == <<CHOOSE d \in DOMAIN Worth : Worth[d] = n % Scale>>
  IN  IF n < Scale THEN last ELSE Numeral[n \div Scale] \o last
Spells(s, n) ==
  \E zeros \in 0..Len(Figures(s)) :
    /\ \A i \in 1..zeros : Figures(s)[i] = "0"
    /\ SubSeq(Figures(s), zeros + 1, Len(Figures(s))) = Numeral[n]

(* What a loose file can be read as, up to the limit: "kind", a space, the
   size of what follows a NUL, and that.                                    *)
Objects(seen) ==
  {SubSeq(seen, nul + 1, Len(seen)) : nul \in
     {n \in 3..Len(seen) : /\ seen[1] = "kind" /\ seen[2] = "space" /\ seen[n] = "nul"
                           /\ Spells(SubSeq(seen, 3, n - 1), Len(seen) - n)}}

(* A loose file is accepted exactly when what is read of it is an object, and
   only as that one, NULs included, however its size is written.  It is
   verified exactly when what is read is, byte for byte, what was asked for:
   an object that the limit makes of a longer one may be accepted, but it is
   verified only when it was asked for.                                     *)
LooseExact ==
  Finished("loose") =>
    LET seen == SubSeq(input.content, 1, Min({MaxLoose, Len(input.content)}))
    IN  /\ (result = "ok") <=> input.zlib /\ Objects(seen) # {}
        /\ result = "ok" => Objects(seen) = {acc.data} /\ (acc.verified <=> seen = input.named)

(* The entries a tree may have next, each with the place where it ends: a
   mode, a space, a name, NUL and a hash.                                   *)
EntryAt(data, sp, nul, mode) ==
  [mode |-> mode, name |-> SubSeq(data, sp + 1, nul - 1), hash |-> SubSeq(data, nul + 1, nul + HashBytes)]
Readings(data, from) ==
  LET places(byte) == {i \in from..Len(data) : data[i] = byte}
  IN  {<<EntryAt(data, r[1], r[2], r[3]), r[2] + HashBytes>> : r \in
         {r \in places("space") \X places("nul") \X (0..(ModeWord - 1)) :
            /\ r[1] < r[2] /\ r[2] + HashBytes <= Len(data)
            /\ \A i \in from..(r[2] - 1) : data[i] \notin {"nul", "raw"}
            /\ Spells(SubSeq(data, from, r[1] - 1), r[3])}}

(* A tree is accepted exactly when there is a way to cut it into entries, and
   there is no more than one, the one given: a NUL inside a hash or a space
   inside a name moves no boundary, no tail is left unread, and each mode is
   the number that stands there, or the tree is refused.                    *)
TreeExact ==
  Finished("tree") =>
    LET cuts[from \in 1..(Len(input) + 1)] ==
          IF from > Len(input) THEN {<< >>}
          ELSE UNION {{<<r[1]>> \o s : s \in cuts[r[2] + 1]} : r \in Readings(input, from)}
    IN  cuts[1] = IF result = "ok" THEN {acc} ELSE {}

(* A signature line as git writes it: a name, an e-mail, no bracket in either,
   a time and a zone.                                                       *)
Stamp(s) == s.name \o <<"<">> \o s.email \o <<">", s.time, s.zone>>
GitStamp(val) ==
  \E i, j \in DOMAIN val :
    /\ i < j /\ Len(val) = j + 2
    /\ \A k \in DOMAIN val : (val[k] = "<" <=> k = i) /\ (val[k] = ">" <=> k = j)
    /\ val[j + 1] \in Times /\ val[j + 2] \in Zones

(* The fields of a commit are those of its header and of nothing else: lines
   of the message, or continuation lines, that look like a header change none;
   the message is all that follows the first blank line.  A header that lacks
   a field, or a hash, is refused.                                          *)
CommitExact ==
  Finished("commit") =>
    LET lines  == input.lines
        end    == CHOOSE n \in 0..Len(lines) :
                    /\ \A i \in 1..n : lines[i].key # "blank"
                    /\ n < Len(lines) => lines[n + 1].key = "blank"
        of(key) == {i \in 1..end : lines[i].key = key}
        last(key) == lines[CHOOSE i \in of(key) : \A j \in of(key) : j <= i].val
        whole  == input.utf8 /\ \A key \in {"tree", "author", "committer"} : of(key) # {}
        hashes == \A i \in of("tree") \cup of("parent") : lines[i].val # << >>
        stamps == \A i \in of("author") \cup of("committer") : GitStamp(lines[i].val)
    IN  /\ whole /\ hashes /\ stamps =>
             /\ result = "ok" /\ acc.tree = last("tree")
             /\ acc.parents = FlattenSeq([i \in 1..end |-> IF i \in of("parent") THEN lines[i].val ELSE << >>])
             /\ Stamp(acc.author[1]) = last("author") /\ Stamp(acc.committer[1]) = last("committer")
             /\ acc.signed = (of("gpgsig") # {})
             /\ acc.message = SubSeq(lines, end + 2, Len(lines))
        /\ ~whole \/ ~hashes => result = "invalid"
=============================================================================
