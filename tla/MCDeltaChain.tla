----------------------------- MODULE MCDeltaChain -----------------------------
(* Small object stores for DeltaChain: hashes are 1..N.                     *)
EXTENDS DeltaChain

CONSTANT N

MCHash == 1..N

Whole(h, ok) == [h |-> h, t |-> "base", back |-> 0, base |-> h, right |-> ok]
Ofs(h, b) == [h |-> h, t |-> "ofs", back |-> b, base |-> h, right |-> TRUE]
RefTo(h, g) == [h |-> h, t |-> "ref", back |-> 0, base |-> g, right |-> TRUE]
Junk(h) == [h |-> h, t |-> "junk", back |-> 0, base |-> h, right |-> FALSE]

Sound(h) == {Whole(h, TRUE)} \cup {Ofs(h, b) : b \in 1..2} \cup {RefTo(h, g) : g \in MCHash}

Sorted(es) ==
  [h \in MCHash |-> IF \E i \in DOMAIN es : es[i].h = h THEN CHOOSE i \in DOMAIN es : es[i].h = h ELSE 0]

V2(es) == [idx |-> "v2", offset |-> Sorted(es), data |-> TRUE, entries |-> es]

(* Packs that hold the objects of one of the given orders, and the packs
   among them that git may have written.                                    *)
PacksOf(orders, entries(_)) ==
  UNION {{V2(es) : es \in {f \in [1..Len(o) -> UNION {entries(h) : h \in MCHash}] :
                              \A i \in 1..Len(o) : f[i].h = o[i]}} : o \in orders}

Ascending == {[i \in 1..n |-> i] : n \in 1..N}
AnyOrder == Ascending \cup {[i \in 1..N |-> N + 1 - i], <<N>>, <<N, 1>>}

Written(orders) == {pk \in PacksOf(orders, Sound) : SelfContained(pk)}

NoLoose == [h \in MCHash |-> "none"]

StoreOf(dir, packs, loose) == [packDir |-> dir, packs |-> packs, loose |-> loose]

(* Two overlapping packs that git may have written (one of them ascending,
   up to renaming hashes), the first loose object present or not.           *)
HealthyStores ==
  {StoreOf("dir", <<a, b>>, [NoLoose EXCEPT ![1] = l]) :
     a \in Written(Ascending), b \in Written(AnyOrder), l \in {"none", "right"}}
  \cup {StoreOf("absent", << >>, NoLoose)}

(* One damaged pack: offsets that do not descend, junk, a missing .pack, an
   index of another version, an unreadable pack directory; bases by offset
   only.                                                                    *)
OfsOnly(h) == {Whole(h, TRUE), Whole(h, FALSE), Junk(h)} 
               \cup {[Ofs(h, b) EXCEPT !.right = (b # 1)] : b \in 0..2} \cup {Ofs(h, 1)}
OfsStores ==
  {StoreOf(d, <<pk>>, [NoLoose EXCEPT ![1] = l]) :
     d \in {"dir", "unreadable"}, pk \in PacksOf(Ascending, OfsOnly), l \in LooseFile}
  \cup {StoreOf("dir", <<[pk EXCEPT !.idx = x, !.data = y]>>, NoLoose) :
          pk \in Written(Ascending), x \in {"v2", "old", "io"}, y \in BOOLEAN}

(* Thin packs: bases by name, later hashes only, in the other pack, in a
   loose file or nowhere.                                                   *)
Thin(h) == {Whole(h, TRUE)} \cup {RefTo(h, g) : g \in {g \in MCHash : g > h}}
ThinStores ==
  {StoreOf(d, <<a, b>>, [NoLoose EXCEPT ![N] = l, ![2] = m]) :
     d \in {"dir", "unreadable"}, a \in PacksOf({<<1>>, <<1, 2>>}, Thin),
     b \in PacksOf({<<2>>, <<N>>, <<N, 2>>}, Thin) \cup {[V2(<<Whole(2, TRUE)>>) EXCEPT !.idx = "old"]},
     l \in {"none", "right", "junk"}, m \in {"none", "right"}}

(* Packs under an index that names any entry, or none, for each hash: of
   bases by offset, before a pack that may hold the object too, and, behind a
   thin pack, of its base.                                                  *)
Misread(pk) == {[pk EXCEPT !.offset = f] : f \in [MCHash -> 0..3]}
MisreadStores ==
  {StoreOf("dir", <<a>> \o rest, [NoLoose EXCEPT ![1] = l]) :
     a \in UNION {Misread(V2(<<Whole(1, TRUE), e>>)) : e \in {Whole(2, TRUE), Ofs(2, 1)}},
     rest \in {<< >>, <<V2(<<Whole(2, TRUE)>>)>>}, l \in {"none", "right"}}
  \cup {StoreOf("dir", <<V2(<<RefTo(1, 2)>>), b>>, [NoLoose EXCEPT ![2] = l]) :
           b \in Misread(V2(<<Whole(2, TRUE), Whole(3, TRUE)>>)), l \in {"none", "right"}}

AllStores == HealthyStores \cup OfsStores \cup ThinStores \cup MisreadStores

(* Packs whose bases are named by hash, in any way.                         *)
RefOnly(h) == {Whole(h, TRUE)} \cup {RefTo(h, g) : g \in MCHash}
RefStores == {StoreOf("dir", <<pk>>, NoLoose) : pk \in PacksOf(Ascending, RefOnly)}
=============================================================================
