-------------------------------- MODULE MCDecode --------------------------------
(* Small inputs for Decode: words of five bits, numbers in groups of two bits,
   hashes of two bytes, copies of at most four, loose files of eight, sizes
   below 27 and modes below 9.                                              *)
EXTENDS Decode

Upto(S, n) == UNION {[1..k -> S] : k \in 0..n}

Cuts(s) == {SubSeq(s, 1, k) : k \in 0..Len(s)}

(* Entries: any three bytes after any first one; every header git writes, cut
   anywhere, with a name or a byte after it; a number as long as a word.    *)
Bytes == [more : BOOLEAN, bits : 0..(Group - 1)]
AnyHead ==
  {<<b>> \o s : b \in [more : BOOLEAN, bits : {t * First + 1 : t \in {0, 1, 5, 6, 7}}], s \in Upto(Bytes, 3)}
GitHead == {h.bytes \o <<End(0), End(0)>> : h \in Headers}
  \cup {h.bytes \o d.bytes \o <<End(0)>> : h \in {h \in Headers : h.type = 6 /\ h.size \in {1, 9}}, d \in Distances}
Longest == Header(6, 0) \o OfsLead[Word] \o <<End(0)>>

MCEntries ==
  [off : {2}, bytes : AnyHead \cup {Longest}, zlib : {TRUE}, body : {1}]
  \cup [off : {20}, bytes : UNION {Cuts(b) : b \in GitHead}, zlib : {TRUE}, body : {1}]
  \cup [off : {0}, bytes : {Header(t, 3) \o OfsBytes(0) : t \in 1..7}, zlib : BOOLEAN, body : 0..3]

MCBase == <<1, 2, 3, 4, 5>>
Digits(places) == UNION {[S -> {0, 1}] : S \in SUBSET places}
AnyCopy == [op : {"copy"}, off : Digits(0..2), size : Digits(0..2)]
Literals == [op : {"insert"}, lit : {<<6>>, <<7, 8>>}]
GitCopies == {CopyOp(p) : p \in Slices(MCBase)}
Rest == [op : {"zero", "cut"}]
Two == {<<a, b>> : a \in GitCopies \cup Literals, b \in GitCopies \cup Literals \cup Rest}
Sizes(n) == {SizeBytes[s] \o SizeBytes[t] : s \in {0, 5}, t \in n}

MCDeltas ==
  [base : {MCBase}, sizes : {SizeBytes[5] \o SizeBytes[t] : t \in 0..8}, ops : {<< >>} \cup Two]
  \cup [base : {MCBase, <<1, 2>>}, sizes : Sizes({1, 4}), ops : {<<o>> : o \in AnyCopy \cup Literals \cup Rest}]
  \cup [base : {<< >>}, sizes : UNION {Cuts(s) : s \in Sizes(0..(Word - 1))} \cup Upto({More(3)}, 4), ops : {<< >>}]

(* Trees: any few bytes; two records with any hash, cut anywhere, their modes
   written with a plus sign, with zeros, at the limit and above it.         *)
Hashes == Upto({"nul", "1", "space"}, 2) \ Upto({"nul", "1", "space"}, 1)
Heading == {<<"1", "space", "nul">>, <<"plus", "0", "2", "space", "char", "nul">>,
            <<"2", "0", "space", "char", "space", "nul">>}
Modes == Upto({"plus", "0", "1", "2"}, 4)
Records == {h \o x : h \in Heading, x \in Hashes}

MCTrees ==
  Upto({"1", "plus", "space", "raw", "nul"}, 5)
  \cup UNION {Cuts(a \o b) : a \in Records, b \in Records}
  \cup {m \o <<"space", "char", "nul", "1", "raw">> : m \in Modes}

(* Loose files: any few bytes, and objects with their size written as git
   writes it and otherwise, whole, cut or with more than is read after it;
   each for its own name and for another.                                   *)
LooseBytes(body) == <<"kind", "space">> \o Numeral[Len(body)] \o <<"nul">> \o body
Few == Upto({"nul", "1"}, 3)
Written == {LooseBytes(b) : b \in Upto(LooseByte, 2) \cup Few}
Sized == {<<"kind", "space">> \o m \o <<"nul">> \o b : m \in Upto({"plus", "0", "1", "2"}, 3), b \in Few}
LooseFiles == {s \o t : s \in Upto(LooseByte, 3), t \in {<< >>, <<"nul">>}} \cup Sized
  \cup UNION {Cuts(w) : w \in Written} \cup {w \o <<x, "1">> : w \in Written, x \in {"nul", "1"}}
MCLoose ==
  [content : LooseFiles, named : {LooseBytes(b) : b \in {<<"1", "nul">>, <<"nul">>}}, zlib : {TRUE}]
  \cup [content : Written, named : {LooseBytes(b) : b \in {<< >>, <<"raw">>, <<"1", "1", "1">>}}, zlib : BOOLEAN]

(* Commits: the lines git writes, with one of them twice, missing, damaged or
   out of order, and a message of lines that look like these.               *)
L(k, v) == [key |-> k, val |-> v]
Ada == <<"w", "<", "v", ">", "1", "-0100">>
Bob == <<"w", "v", "<", ">", "2", "+0100">>
Some == {L("tree", <<"h1">>), L("tree", <<"h2">>), L("tree", << >>), L("parent", <<"h1">>),
         L("parent", <<"h2">>), L("parent", << >>), L("author", Ada), L("author", Bob),
         L("committer", Bob), L("gpgsig", << >>), L("more", <<"h2">>), L("other", << >>), L("blank", << >>)}
Odd == {<< >>, <<"w">>, <<"w", "<", "v", ">">>, <<"w", ">", "v", "<", "1">>, <<"<", ">", "w">>, <<"<", ">", "1">>,
        <<"w", "<", "v", ">", "<", "w", ">", "1", "w">>}
Plain == <<L("tree", <<"h1">>), L("parent", <<"h2">>), L("author", Ada), L("committer", Bob)>>

MCCommits ==
  [utf8 : {TRUE}, lines : {InsertAt(Plain, i, a) \o s : i \in 1..5, a \in Some, s \in Upto(Some, 1)}]
  \cup [utf8 : {TRUE}, lines : {Plain \o <<L("blank", << >>)>> \o s : s \in Upto(Some, 3)}]
  \cup [utf8 : {TRUE}, lines : Upto(Some, 2) \cup {RemoveAt(Plain, i) \o <<a, b>> : i \in 1..4, a \in Some, b \in Some}]
  \cup [utf8 : BOOLEAN, lines : {ReplaceAt(Plain, i, L(Plain[i].key, s)) : i \in 3..4, s \in Odd} \cup {Plain}]

(* Logs: a fork and a merge; three moves of any kind, the last of them quoting
   keywords or not; lines that lack a part.                               *)
MCParents == [c \in 1..4 |-> CASE c = 1 -> {} [] c = 4 -> {2, 3} [] OTHER -> {1}]
Moves(old, quotes) ==
  {[lacks |-> {}, old |-> old, new |-> n, op |-> o, quotes |-> q] :
    n \in DOMAIN MCParents, o \in Operation, q \in quotes}
Quoting == {{}, {"(forced update)"}, {"commit (amend)", "rebase"}}
Second(a) == {<<a, b>> : b \in Moves(a.new, {{}})}
Third(s) == {s \o <<c>> : c \in Moves(s[2].new, Quoting)}
Opening ==
  {m \in Moves(0, {{}}) : m.op = "commit" /\ m.new > 2}
  \cup {m \in Moves(4, {{}}) : m.op = "reset" /\ m.new = 2}
MCGitLogs == UNION {UNION {Third(s) : s \in Second(a)} : a \in Opening}
MCDamaged ==
  {<<a, b>> : a \in [lacks : {{}} \cup {{p} : p \in Part}, old : {0}, new : {2}, op : {"commit"}, quotes : {{}}],
              b \in [lacks : {{}, {"tab", "name"}, {"zone"}}, old : {2}, new : {1}, op : {"reset"}, quotes : {{}}]}

MCLogs ==
  [file : {"there"}, lines : MCGitLogs \cup MCDamaged] \cup [file : {"absent", "unreadable", "there"}, lines : {<< >>}]
=============================================================================
