---------------------------- MODULE DeltaChainProofs ----------------------------
(***************************************************************************)
(* The theorems about reading an object through packfiles, for any store:   *)
(* any number of packs and objects, whole or damaged, any chain of deltas.  *)
(***************************************************************************)
EXTENDS DeltaChain, TLAPS, SequenceTheorems, WellFoundedInduction

(* A set of packs has a first one.                                          *)
LEMMA FirstIsLeast ==
  ASSUME NEW S \in SUBSET Nat, S # {}
  PROVE  First(S) \in S /\ \A q \in S : First(S) <= q
<1> DEFINE R == {ss \in Nat \X Nat : ss[1] < ss[2]}
<1>1. IsWellFoundedOn(R, Nat)
  BY NatLessThanWellFounded, Zenon DEF OpToRel
<1>2. PICK p \in S : \A q \in S : <<q, p>> \notin R
  <2> HIDE DEF R
  <2> QED BY <1>1, WFMin
<1>3. \A q \in S : p <= q
  <2>1. \A m, n \in Nat : m < n => <<m, n>> \in R
    BY Zenon
  <2> HIDE DEF R
  <2>2. p \in Nat /\ \A q \in S : q \in Nat
    OBVIOUS
  <2>3. \A q \in S : ~(q < p)
    BY <1>2, <2>1, <2>2, Zenon
  <2> QED BY <2>2, <2>3
<1> QED BY <1>3 DEF First

(* The parts of a store.                                                    *)
LEMMA StoreTypes ==
  ASSUME TypeOK
  PROVE  /\ store.packDir \in {"dir", "absent", "unreadable"}
         /\ store.packDir = "absent" => store.packs = << >>
         /\ store.packs \in Seq(Pack) /\ DOMAIN store.packs \subseteq Nat \ {0}
         /\ store.loose \in [Hash -> LooseFile]
<1>1. store.packs \in Seq(Pack)
  BY DEF TypeOK, ObjectStore
<1>2. DOMAIN store.packs \subseteq Nat \ {0}
  BY <1>1
<1> QED BY <1>1, <1>2 DEF TypeOK, ObjectStore

(* The parts of a pack.                                                     *)
LEMMA PackTypes ==
  ASSUME TypeOK, NEW p \in DOMAIN store.packs
  PROVE  LET pack == store.packs[p] IN
           /\ pack.idx \in {"v2", "old", "io"} /\ pack.data \in BOOLEAN
           /\ pack.offset \in [Hash -> Nat]
           /\ DOMAIN pack.entries \subseteq Nat \ {0}
           /\ \A i \in DOMAIN pack.entries : \A j \in Nat \ {0} : j <= i => j \in DOMAIN pack.entries
           /\ \A i \in DOMAIN pack.entries : pack.entries[i] \in Entry
<1> DEFINE pack == store.packs[p]
<1>1. pack \in Pack
  BY StoreTypes
<1> HIDE DEF pack
<1>2. /\ pack.entries \in Seq(Entry) /\ pack.idx \in {"v2", "old", "io"} /\ pack.data \in BOOLEAN
      /\ pack.offset \in [Hash -> Nat]
  BY <1>1 DEF Pack
<1>3. DOMAIN pack.entries = 1..Len(pack.entries) /\ Len(pack.entries) \in Nat
  BY <1>2, LenProperties
<1>4. \A i \in DOMAIN pack.entries : pack.entries[i] \in Entry
  BY <1>2, <1>3, ElementOfSeq
<1> QED BY <1>2, <1>3, <1>4 DEF pack

(* The pack that read_packed stops at.                                      *)
LEMMA StopTypes ==
  ASSUME TypeOK, NEW h, Stops(store, h) # {}
  PROVE  LET p == First(Stops(store, h)) IN
           /\ p \in DOMAIN store.packs /\ \A q \in Stops(store, h) : p <= q
           /\ store.packs[p].idx = "v2" => store.packs[p].offset[h] # 0
<1> DEFINE S == Stops(store, h)
           p == First(S)
<1>1. S \subseteq DOMAIN store.packs
  BY DEF Stops
<1>2. p \in S /\ \A q \in S : p <= q
  <2>1. S \in SUBSET Nat /\ S # {}
    BY <1>1, StoreTypes
  <2> HIDE DEF S
  <2> QED BY <2>1, FirstIsLeast
<1> QED BY <1>1, <1>2 DEF Stops

-----------------------------------------------------------------------------
(* The read stands on an entry of a pack from the first that it has found.  *)
ReadType ==
  /\ TypeOK
  /\ pc = "loose" => name = want /\ hops = 0 /\ at = Nowhere
  /\ pc = "at" => at # Nowhere
  /\ hops > 0 => at # Nowhere

(* Where it stands there is an entry.                                       *)
LEMMA StandsOn ==
  ASSUME ReadType, at # Nowhere
  PROVE  /\ at.p \in DOMAIN store.packs /\ at.i \in DOMAIN store.packs[at.p].entries
         /\ at.p \in Nat \ {0} /\ at.i \in Nat \ {0} /\ Here \in Entry
BY PackTypes, StoreTypes DEF ReadType, TypeOK, Here

(* The steps, one by one: a loose file has no pack entry.                   *)
LEMMA ReadLooseTypes ==
  ASSUME ReadType, ReadLoose, UNCHANGED <<store, want>>
  PROVE  ReadType'
BY DEF ReadType, TypeOK, ReadLoose, FromLoose, Rebuilt, Finish

(* The first pack that stops the search has an entry where its index says, or
   the read fails.                                                          *)
LEMMA ReadPackedTypes ==
  ASSUME ReadType, ReadPacked, UNCHANGED <<store, want>>
  PROVE  ReadType'
<1> DEFINE stops == Stops(store, name)
           pack  == store.packs[First(stops)]
           home  == pack.offset[name]
<1>1. CASE NoPack /\ UNCHANGED right
  BY <1>1 DEF ReadType, TypeOK, NoPack, Finish, ReadPacked
<1>2. CASE (Finish("unsupported") \/ Finish("err")) /\ UNCHANGED right
  BY <1>2 DEF ReadType, TypeOK, Finish, ReadPacked
<1>3. CASE /\ stops # {} /\ home \in DOMAIN pack.entries /\ UNCHANGED <<name, hops, result>>
           /\ at' = [p |-> First(stops), i |-> home] /\ depth' = 0 /\ pc' = "at"
           /\ right' = (right /\ pack.entries[home].h = name)
  <2>1. First(stops) \in DOMAIN store.packs /\ home \in DOMAIN pack.entries
    BY <1>3, StopTypes DEF ReadType
  <2>2. First(stops) \in Nat \ {0} /\ home \in Nat \ {0}
    BY <2>1, StoreTypes, PackTypes DEF ReadType
  <2>3. right' \in BOOLEAN
    BY <1>3
  <2> HIDE DEF stops, home
  <2>4. at'.p = First(stops) /\ at'.i = home /\ at' \in [p : Nat, i : Nat] /\ at' # Nowhere
    BY <1>3, <2>2 DEF Nowhere
  <2>5. TypeOK'
    BY <1>3, <2>1, <2>3, <2>4, DeltaChainAssumption DEF ReadType, TypeOK
  <2> QED BY <1>3, <2>4, <2>5 DEF ReadType
<1>4. stops # {} => pack.idx \in {"v2", "old", "io"}
  BY StopTypes, PackTypes DEF ReadType
<1> QED BY <1>1, <1>2, <1>3, <1>4 DEF ReadPacked

(* An offset stays inside the pack, a name goes back to the packs.          *)
LEMMA ReadAtTypes ==
  ASSUME ReadType, ReadAt, UNCHANGED <<store, want>>
  PROVE  ReadType'
<1>1. /\ at.p \in DOMAIN store.packs /\ at.i \in DOMAIN store.packs[at.p].entries
      /\ at.p \in Nat \ {0} /\ at.i \in Nat \ {0} /\ Here \in Entry
  BY StandsOn DEF ReadType, ReadAt
<1>2. right' \in BOOLEAN
  BY DEF ReadAt
<1>3. CASE Rebuilt \/ Finish("err")
  BY <1>2, <1>3 DEF ReadType, TypeOK, Rebuilt, Finish, ReadAt
<1>4. Hop => hops' \in 0..MaxDepth + 1 /\ hops' > 0
  BY DeltaChainAssumption DEF ReadType, TypeOK, Hop
<1>5. CASE ~TooDeep(depth) /\ ToOffset
  <2>1. CASE Finish("err")
    BY <1>3, <2>1
  <2>2. CASE /\ Here.back < at.i /\ at' = [at EXCEPT !.i = @ - Here.back]
             /\ depth' = Deeper(depth) /\ Hop /\ UNCHANGED <<pc, name, result>>
    <3>1. Here.back \in Nat /\ at.i - Here.back \in Nat \ {0} /\ at.i - Here.back <= at.i
      BY <1>1, <2>2 DEF Entry
    <3>2. at' = [p |-> at.p, i |-> at.i - Here.back] /\ at' \in [p : Nat, i : Nat] /\ at' # Nowhere
      BY <1>1, <2>2, <3>1 DEF ReadType, TypeOK, Nowhere
    <3>3. at'.p \in DOMAIN store.packs /\ at'.i \in DOMAIN store.packs[at'.p].entries
      BY <1>1, <3>1, <3>2, PackTypes DEF ReadType
    <3>4. depth' \in 0..MaxDepth + 1
      BY <1>5, <2>2, DeltaChainAssumption DEF Deeper, TooDeep, ReadType, TypeOK
    <3> QED BY <1>2, <1>4, <2>2, <3>2, <3>3, <3>4 DEF ReadType, TypeOK, ReadAt
  <2> QED BY <1>1, <1>5, <2>1, <2>2 DEF ToOffset, Entry
<1>6. CASE ~TooDeep(depth) /\ ToName
  <2>1. CASE Finish("err")
    BY <1>3, <2>1
  <2>2. CASE /\ ~TooDeep(depth + 1) /\ name' = BaseName /\ pc' = "packed"
             /\ depth' = Deeper(depth) /\ Hop /\ UNCHANGED <<at, result>>
    <3>1. name' \in Hash
      BY <1>1, <2>2 DEF BaseName, Entry
    <3>2. depth' \in 0..MaxDepth + 1
      BY <1>6, <2>2, DeltaChainAssumption DEF Deeper, TooDeep, ReadType, TypeOK
    <3>3. pc = "at" /\ at # Nowhere /\ at' = at
      BY <2>2 DEF ReadAt, ReadType
    <3>4. TypeOK'
      BY <1>2, <1>4, <2>2, <3>1, <3>2, <3>3 DEF ReadType, TypeOK
    <3> QED BY <2>2, <3>3, <3>4 DEF ReadType
  <2> QED BY <1>6, <2>1, <2>2 DEF ToName
<1>7. Here.t \in {"base", "ofs", "ref", "junk"}
  BY <1>1 DEF Entry
<1> QED BY <1>3, <1>5, <1>6, <1>7 DEF ReadAt

(* A loose base ends the chain.                                             *)
LEMMA LooseBaseTypes ==
  ASSUME ReadType, LooseBase, UNCHANGED <<store, want>>
  PROVE  ReadType'
BY DEF ReadType, TypeOK, LooseBase, FromLoose, Rebuilt, Finish

(* In every store, the read stays on entries that the packs have, and its
   counters in their bounds.                                                *)
LEMMA ReadTypes == Spec => []ReadType
<1>1. Init => ReadType
  BY DeltaChainAssumption DEF Init, ReadType, TypeOK, Nowhere
<1>2. ReadType /\ [Next]_vars => ReadType'
  <2> SUFFICES ASSUME ReadType, [Next]_vars PROVE ReadType'
    OBVIOUS
  <2>1. CASE UNCHANGED vars
    BY <2>1 DEF vars, ReadType, TypeOK
  <2> QED BY <2>1, ReadLooseTypes, ReadPackedTypes, ReadAtTypes, LooseBaseTypes DEF Next, Terminated
<1> QED BY <1>1, <1>2, PTL DEF Spec

(* In every store the read keeps to the types of its variables: no entry that
   is not there is opened, and no chain is deeper than MaxDepth + 1.        *)
THEOREM TypeCorrect == Spec => []TypeOK
<1>1. ReadType => TypeOK
  BY DEF ReadType
<1> QED BY <1>1, ReadTypes, PTL

-----------------------------------------------------------------------------
(* What is read is needed to read the object asked for.                     *)
Missing == store.packDir = "unreadable" \/ \E h \in Needed : ~Stored(h) \/ Hidden(h)

TraceInv ==
  /\ name \in Needed
  /\ pc = "at" => Here.h \in Needed
  /\ pc = "packed" /\ hops = 0 => name = want /\ store.loose[want] = "none"
  /\ pc = "base" => store.packDir # "dir" \/ Stops(store, name) = {}
  /\ result = "notfound" => Missing

(* The base of a delta that is needed is needed.                            *)
LEMMA NeededCloses ==
  ASSUME ReadType, at # Nowhere, Here.h \in Needed
  PROVE  /\ Here.t = "ref" => Here.base \in Needed
         /\ Here.t = "ofs" /\ Here.back < at.i =>
              store.packs[at.p].entries[at.i - Here.back].h \in Needed
<1>1. /\ at.p \in DOMAIN store.packs /\ at.i \in DOMAIN store.packs[at.p].entries
      /\ at.i \in Nat \ {0} /\ Here \in Entry
  BY StandsOn
<1> DEFINE e == store.packs[at.p].entries
<1>2. Here = e[at.i] /\ Here.base \in Hash
  BY <1>1 DEF Here, Entry
<1>3. Here.t = "ofs" /\ Here.back < at.i => e[at.i - Here.back].h \in Hash
  <2>1. Here.back \in Nat
    BY <1>1 DEF Entry
  <2>2. Here.back < at.i => at.i - Here.back \in Nat \ {0} /\ at.i - Here.back <= at.i
    BY <1>1, <2>1
  <2> QED BY <1>1, <2>2, PackTypes DEF ReadType, Entry
<1> QED BY <1>1, <1>2, <1>3 DEF Needed

(* What an index takes for an object that is needed is needed.              *)
LEMMA NeededFound ==
  ASSUME ReadType, name \in Needed, NEW p \in DOMAIN store.packs,
         store.packs[p].offset[name] \in DOMAIN store.packs[p].entries
  PROVE  store.packs[p].entries[store.packs[p].offset[name]].h \in Needed
<1>1. store.packs[p].entries[store.packs[p].offset[name]].h \in Hash
  BY PackTypes DEF ReadType, Entry
<1> QED BY <1>1 DEF Needed

(* No index names it, and none cannot be searched.                          *)
LEMMA NoneStored ==
  ASSUME ReadType, NEW h \in Needed, store.packDir # "dir" \/ Stops(store, h) = {}, store.loose[h] = "none"
  PROVE  Missing
<1>1. CASE store.packDir = "unreadable"
  BY <1>1 DEF Missing
<1>2. CASE store.packDir = "absent"
  BY <1>2, StoreTypes DEF ReadType, Missing, Hidden
<1>3. CASE Stops(store, h) = {}
  BY <1>3 DEF Missing, Hidden, Stops
<1> QED BY <1>1, <1>2, <1>3, StoreTypes DEF ReadType

(* No step of the read changes what is needed or missing.                   *)
LEMMA NeededStays ==
  ASSUME UNCHANGED <<store, want>>
  PROVE  Needed' = Needed /\ Missing' = Missing
BY DEF Needed, Missing, Stored, Hidden

(* The read begins with the object itself.                                  *)
LEMMA TraceStarts == Init => TraceInv
BY DEF Init, TraceInv, Needed

(* One step finds what is needed, or finds that it is missing.              *)
LEMMA TraceKeeps ==
  ASSUME ReadType, TraceInv, ReadLoose \/ ReadPacked \/ ReadAt \/ LooseBase, UNCHANGED <<store, want>>
  PROVE  TraceInv'
<1>1. Needed' = Needed /\ Missing' = Missing
  BY NeededStays
<1>2. ASSUME NEW r, Finish(r), r # "notfound" PROVE TraceInv'
  BY <1>1, <1>2 DEF Finish, TraceInv
<1>3. Rebuilt => TraceInv'
  BY <1>2 DEF Rebuilt
<1>4. CASE ReadLoose
  <2>1. FromLoose(want) => TraceInv'
    BY <1>2, <1>3 DEF FromLoose
  <2>2. CASE /\ store.loose[want] = "none" /\ pc' = "packed"
             /\ UNCHANGED <<name, at, depth, hops, right, result>>
    BY <1>1, <1>4, <2>2 DEF ReadLoose, ReadType, TraceInv
  <2> QED BY <1>4, <2>1, <2>2 DEF ReadLoose
<1>5. CASE ReadPacked
  <2> DEFINE stops == Stops(store, name)
             pack  == store.packs[First(stops)]
             home  == pack.offset[name]
  <2>1. CASE (store.packDir # "dir" \/ stops = {}) /\ NoPack
    <3>1. CASE hops = 0
      <4>1. Missing
        BY <1>5, <2>1, <3>1, NoneStored DEF TraceInv, ReadPacked
      <4> QED BY <1>1, <2>1, <3>1, <4>1 DEF NoPack, Finish, TraceInv
    <3>2. CASE hops # 0
      <4>1. pc' = "base" /\ UNCHANGED <<name, at, depth, hops, result>> /\ store' = store
        BY <2>1, <3>2 DEF NoPack
      <4>2. Stops(store, name)' = Stops(store, name)
        BY <4>1
      <4> QED BY <1>1, <2>1, <4>1, <4>2 DEF TraceInv
    <3> QED BY <3>1, <3>2
  <2>2. CASE Finish("unsupported") \/ Finish("err")
    BY <1>2, <2>2
  <2>3. CASE /\ stops # {} /\ home \in DOMAIN pack.entries /\ UNCHANGED <<name, hops, result>>
             /\ at' = [p |-> First(stops), i |-> home] /\ pc' = "at"
    <3>1. pack.entries[home].h \in Needed
      BY <2>3, StopTypes, NeededFound DEF ReadType, TraceInv
    <3>2. Here' = pack.entries[home]
      BY <2>3 DEF Here
    <3> HIDE DEF stops, home
    <3> QED BY <1>1, <2>3, <3>1, <3>2 DEF TraceInv
  <2>4. stops # {} => pack.idx \in {"v2", "old", "io"}
    BY StopTypes, PackTypes DEF ReadType
  <2> QED BY <1>5, <2>1, <2>2, <2>3, <2>4 DEF ReadPacked
<1>6. CASE ReadAt
  <2>1. pc = "at" /\ at # Nowhere /\ Here.h \in Needed /\ Here \in Entry
    BY <1>6, StandsOn DEF ReadAt, ReadType, TraceInv
  <2>2. CASE Rebuilt \/ Finish("err")
    BY <1>2, <1>3, <2>2
  <2>3. CASE /\ Here.t = "ofs" /\ Here.back < at.i /\ at' = [at EXCEPT !.i = @ - Here.back]
             /\ UNCHANGED <<pc, name, result>>
    <3>1. store.packs[at.p].entries[at.i - Here.back].h \in Needed
      BY <2>1, <2>3, NeededCloses
    <3>2. at'.p = at.p /\ at'.i = at.i - Here.back
      BY <2>3 DEF ReadType, TypeOK
    <3>3. Here'.h \in Needed
      BY <3>1, <3>2 DEF Here
    <3> QED BY <1>1, <2>1, <2>3, <3>3 DEF TraceInv
  <2>4. CASE Here.t = "ref" /\ name' = BaseName /\ pc' = "packed" /\ Hop /\ UNCHANGED <<at, result>>
    <3>1. name' \in Needed
      BY <2>1, <2>4, NeededCloses DEF BaseName
    <3>2. hops' # 0
      BY <2>4, DeltaChainAssumption DEF Hop, ReadType, TypeOK
    <3> QED BY <1>1, <2>4, <3>1, <3>2 DEF TraceInv
  <2>5. Here.t \in {"base", "ofs", "ref", "junk"} /\ Here.back \in Nat /\ at.i \in Nat
    BY <2>1, StandsOn DEF Entry
  <2>6. (Here.t = "ofs" /\ ToOffset) => TraceInv'
    BY <2>2, <2>3, <2>5 DEF ToOffset
  <2>7. (Here.t = "ref" /\ ToName) => TraceInv'
    BY <2>2, <2>4 DEF ToName
  <2> QED BY <1>6, <2>2, <2>5, <2>6, <2>7 DEF ReadAt
<1>7. CASE LooseBase
  <2>1. FromLoose(name) => TraceInv'
    BY <1>2, <1>3 DEF FromLoose
  <2>2. CASE store.loose[name] = "none" /\ Finish("notfound")
    <3>1. Missing
      BY <1>7, <2>2, NoneStored DEF LooseBase, TraceInv
    <3> QED BY <1>1, <2>2, <3>1 DEF Finish, TraceInv
  <2> QED BY <1>7, <2>1, <2>2 DEF LooseBase
<1> QED BY <1>4, <1>5, <1>6, <1>7

(* In every store, however damaged, an object is said to be missing only if
   it, or an object its delta chain leads to, is in no pack and no loose
   file, or in packs only that all hide it, or if objects/pack cannot be
   listed.                                                                  *)
THEOREM MissingIsMissing == Spec => []NotFoundHonest
<1>1. ReadType /\ TraceInv /\ [Next]_vars => TraceInv'
  <2> SUFFICES ASSUME ReadType, TraceInv, [Next]_vars PROVE TraceInv'
    OBVIOUS
  <2>1. CASE UNCHANGED vars
    <3>1. Needed' = Needed /\ Missing' = Missing
      BY <2>1, NeededStays DEF vars
    <3>2. Here' = Here /\ Stops(store, name)' = Stops(store, name)
      BY <2>1 DEF vars, Here
    <3> QED BY <2>1, <3>1, <3>2 DEF vars, TraceInv
  <2> QED BY <2>1, TraceKeeps DEF Next, Terminated
<1>2. TraceInv => NotFoundHonest
  BY DEF TraceInv, NotFoundHonest, Missing
<1> QED BY <1>1, <1>2, TraceStarts, ReadTypes, PTL DEF Spec

-----------------------------------------------------------------------------
(* Packs that git wrote.  What is left of the chain inside a pack fits in
   what is left of the depth, and a base by name is in the pack that names
   it, if in no pack before it.                                             *)
Fits ==
  \E rank \in [DOMAIN store.packs[at.p].entries -> 0..MaxDepth] :
    Descends(store.packs[at.p], rank) /\ depth + rank[at.i] <= MaxDepth

HealthyInv ==
  Healthy(store) =>
    /\ right /\ pc # "base"
    /\ at # Nowhere => Stored(want)
    /\ pc = "at" => Fits
    /\ pc = "packed" => IF at = Nowhere THEN name = want /\ store.loose[want] = "none"
                        ELSE Holds(store.packs[at.p], name)
    /\ pc = "done" => IF Stored(want) THEN result = "ok" ELSE result = "notfound"

(* The chain stands on a right entry whose base is there, one rank down.    *)
LEMMA HealthyEntry ==
  ASSUME ReadType, Healthy(store), at # Nowhere, Fits, depth \in Nat
  PROVE  /\ Here.t \in {"base", "ofs", "ref"} /\ Here.right /\ depth <= MaxDepth
         /\ Here.t = "ref" =>
              Holds(store.packs[at.p], Here.base) /\ depth + 1 <= MaxDepth
         /\ Here.t = "ofs" =>
              /\ Here.back < at.i
              /\ \E rank \in [DOMAIN store.packs[at.p].entries -> 0..MaxDepth] :
                   /\ Descends(store.packs[at.p], rank)
                   /\ depth + 1 + rank[at.i - Here.back] <= MaxDepth
<1> DEFINE pack == store.packs[at.p]
           e == pack.entries
<1>1. /\ at.p \in DOMAIN store.packs /\ at.i \in DOMAIN e /\ at.i \in Nat \ {0}
      /\ Here \in Entry /\ Here = e[at.i]
  BY StandsOn DEF Here
<1>2. SelfContained(pack)
  BY <1>1 DEF Healthy
<1>3. PICK rank \in [DOMAIN e -> 0..MaxDepth] : Descends(pack, rank) /\ depth + rank[at.i] <= MaxDepth
  BY DEF Fits
<1>4. Here.t \in {"base", "ofs", "ref", "junk"} /\ Here.back \in Nat
  BY <1>1 DEF Entry
<1>5. /\ Here.t # "junk" /\ Here.right /\ (Here.t = "ofs" => Here.back < at.i)
      /\ Here.t = "ref" => BaseOf(pack, at.i) # {}
  BY <1>1, <1>2 DEF SelfContained
<1>6. rank[at.i] \in 0..MaxDepth /\ MaxDepth \in Nat
  BY <1>1, <1>3, DeltaChainAssumption
<1>7. ASSUME Here.t = "ref" PROVE Holds(pack, Here.base) /\ depth + 1 <= MaxDepth
  <2>1. PICK j \in DOMAIN e : e[j].h = Here.base /\ j \in BaseOf(pack, at.i)
    BY <1>1, <1>5, <1>7 DEF BaseOf
  <2>2. rank[j] < rank[at.i] /\ rank[j] \in 0..MaxDepth
    BY <1>1, <1>3, <2>1 DEF Descends
  <2> QED BY <1>3, <1>6, <2>1, <2>2 DEF Holds
<1>8. ASSUME Here.t = "ofs" PROVE depth + 1 + rank[at.i - Here.back] <= MaxDepth
  <2>1. at.i - Here.back \in BaseOf(pack, at.i)
    BY <1>1, <1>8 DEF BaseOf
  <2>2. at.i - Here.back \in Nat \ {0} /\ at.i - Here.back <= at.i
    BY <1>1, <1>4, <1>5, <1>8
  <2>3. at.i - Here.back \in DOMAIN e
    BY <1>1, <2>2, PackTypes DEF ReadType
  <2>4. rank[at.i - Here.back] < rank[at.i] /\ rank[at.i - Here.back] \in 0..MaxDepth
    BY <1>1, <1>3, <2>1, <2>3 DEF Descends
  <2> QED BY <1>3, <1>6, <2>4
<1> QED BY <1>3, <1>4, <1>5, <1>6, <1>7, <1>8

(* The first pack that names what is looked for holds it, and is not after
   the one that the chain came from.                                        *)
LEMMA HealthyLookup ==
  ASSUME ReadType, Healthy(store), NEW h \in Hash, NEW p \in DOMAIN store.packs, Holds(store.packs[p], h)
  PROVE  /\ store.packDir = "dir" /\ Stops(store, h) # {}
         /\ First(Stops(store, h)) <= p
         /\ store.packs[First(Stops(store, h))].idx = "v2"
         /\ store.packs[First(Stops(store, h))].data
<1>1. p \in Stops(store, h)
  BY PackTypes DEF Stops, Healthy, SelfContained, IndexSound, ReadType
<1>2. store.packDir = "dir"
  BY StoreTypes DEF ReadType, Healthy
<1>3. First(Stops(store, h)) \in DOMAIN store.packs /\ First(Stops(store, h)) <= p
  BY <1>1, StopTypes DEF ReadType
<1> QED BY <1>1, <1>2, <1>3 DEF Healthy, SelfContained

(* Nothing in such packs makes the chain fail.                              *)
LEMMA HealthyKeeps ==
  ASSUME ReadType, HealthyInv, ReadLoose \/ ReadPacked \/ ReadAt \/ LooseBase, UNCHANGED <<store, want>>
  PROVE  HealthyInv'
<1> SUFFICES ASSUME Healthy(store), Healthy(store)' PROVE HealthyInv'
  BY DEF HealthyInv
<1>1. Stored(want)' = Stored(want)
  BY DEF Stored
<1>2. right /\ pc # "base" /\ depth \in Nat
  BY DeltaChainAssumption DEF HealthyInv, ReadType, TypeOK
<1>3. ASSUME Finish("ok"), right', Stored(want) PROVE HealthyInv'
  BY <1>1, <1>3 DEF Finish, HealthyInv
<1>4. CASE ReadLoose
  <2>1. store.loose[want] \in {"none", "right"} /\ want \in Hash
    BY DEF Healthy, ReadType, TypeOK
  <2>2. CASE FromLoose(want)
    <3>1. Finish("ok") /\ right' /\ Stored(want)
      BY <1>2, <2>1, <2>2 DEF FromLoose, Rebuilt, Stored
    <3> QED BY <1>3, <3>1
  <2>3. CASE /\ store.loose[want] = "none" /\ pc' = "packed"
             /\ UNCHANGED <<name, at, depth, hops, right, result>>
    BY <1>1, <1>2, <1>4, <2>3 DEF ReadLoose, ReadType, HealthyInv, Nowhere
  <2> QED BY <1>4, <2>2, <2>3 DEF ReadLoose
<1>5. CASE ReadPacked
  <2> DEFINE stops == Stops(store, name)
             pack  == store.packs[First(stops)]
             home  == pack.offset[name]
  <2>1. CASE store.packDir # "dir" \/ stops = {}
    <3>1. at = Nowhere
      BY <1>5, <2>1, HealthyLookup, StandsOn DEF HealthyInv, ReadPacked, ReadType, TypeOK
    <3>2. name = want /\ store.loose[want] = "none" /\ hops = 0
      BY <1>5, <3>1, DeltaChainAssumption DEF HealthyInv, ReadPacked, ReadType, TypeOK
    <3>3. ~Stored(want)
      BY <2>1, <3>2, HealthyLookup DEF Stored, ReadType, TypeOK
    <3> QED BY <1>1, <1>2, <1>5, <2>1, <3>1, <3>2, <3>3 DEF ReadPacked, NoPack, Finish, HealthyInv
  <2>2. CASE store.packDir = "dir" /\ stops # {}
    <3>1. First(stops) \in DOMAIN store.packs
      BY <2>2, StopTypes DEF ReadType
    <3>2. SelfContained(pack) /\ pack.idx = "v2" /\ pack.data
      BY <3>1 DEF Healthy, SelfContained
    <3>3. home \in DOMAIN pack.entries /\ pack.entries[home].h = name
      BY <2>2, <3>2, StopTypes DEF ReadType, TypeOK, SelfContained, IndexSound
    <3>4. /\ at' = [p |-> First(stops), i |-> home] /\ depth' = 0 /\ pc' = "at" /\ right'
      BY <1>2, <1>5, <2>2, <3>2, <3>3 DEF ReadPacked
    <3>5. Stored(want)
      BY <1>5, <3>1, <3>3 DEF HealthyInv, ReadPacked, Stored, Holds
    <3>6. Fits'
      <4>1. PICK rank \in [DOMAIN pack.entries -> 0..MaxDepth] : Descends(pack, rank)
        BY <3>2 DEF SelfContained
      <4>2. rank[home] \in 0..MaxDepth /\ MaxDepth \in Nat
        BY <3>3, <4>1, DeltaChainAssumption
      <4>3. 0 + rank[home] <= MaxDepth
        BY <4>2
      <4>4. at'.p = First(stops) /\ at'.i = home /\ store' = store
        BY <3>4
      <4>5. store'.packs[at'.p] = pack
        BY <4>4
      <4> HIDE DEF pack, home, stops
      <4> QED BY <3>4, <4>1, <4>3, <4>4, <4>5 DEF Fits
    <3> QED BY <1>1, <1>2, <3>4, <3>5, <3>6 DEF HealthyInv
  <2> QED BY <2>1, <2>2
<1>6. CASE ReadAt
  <2>1. pc = "at" /\ at # Nowhere /\ Fits /\ Stored(want)
    BY <1>6 DEF ReadAt, ReadType, HealthyInv
  <2>2. /\ Here.t \in {"base", "ofs", "ref"} /\ Here.right /\ depth <= MaxDepth
        /\ Here.t = "ref" => Holds(store.packs[at.p], Here.base) /\ depth + 1 <= MaxDepth
    BY <1>2, <2>1, HealthyEntry
  <2>3. right' /\ ~TooDeep(depth)
    <3>1. right' = (right /\ Here.right)
      BY <1>6 DEF ReadAt
    <3>2. right'
      BY <1>2, <2>2, <3>1, Zenon
    <3>3. ~TooDeep(depth)
      BY <1>2, <2>2, DeltaChainAssumption DEF TooDeep
    <3> QED BY <3>2, <3>3
  <2>4. CASE Here.t = "base"
    <3>1. Rebuilt
      BY <1>6, <2>3, <2>4 DEF ReadAt
    <3> QED BY <1>3, <2>1, <2>3, <3>1 DEF Rebuilt
  <2>5. CASE Here.t = "ofs"
    <3>1. PICK rank \in [DOMAIN store.packs[at.p].entries -> 0..MaxDepth] :
            Descends(store.packs[at.p], rank) /\ depth + 1 + rank[at.i - Here.back] <= MaxDepth
      BY <1>2, <2>1, <2>5, HealthyEntry
    <3>2. Here.back < at.i /\ Here.back \in Nat /\ at.i \in Nat
      BY <1>2, <2>1, <2>5, HealthyEntry, StandsOn DEF Entry
    <3>3. at' = [at EXCEPT !.i = @ - Here.back] /\ depth' = depth + 1 /\ UNCHANGED <<pc, name, result>>
      BY <1>6, <2>3, <2>5, <3>2 DEF ReadAt, ToOffset, Deeper
    <3>4. at'.p = at.p /\ at'.i = at.i - Here.back
      BY <3>3 DEF ReadType, TypeOK
    <3>5. Fits'
      BY <3>1, <3>3, <3>4 DEF Fits
    <3> QED BY <1>1, <2>1, <2>3, <3>3, <3>5 DEF HealthyInv
  <2>6. CASE Here.t = "ref"
    <3>1. ToName /\ ~TooDeep(depth + 1)
      BY <1>2, <1>6, <2>2, <2>3, <2>6, DeltaChainAssumption DEF ReadAt, TooDeep
    <3>2. name' = Here.base /\ pc' = "packed" /\ at' = at
      BY <3>1 DEF ToName, BaseName
    <3>3. Holds(store'.packs[at'.p], name')
      BY <2>2, <2>6, <3>2
    <3> QED BY <1>1, <2>1, <2>3, <3>2, <3>3 DEF HealthyInv
  <2> QED BY <2>2, <2>4, <2>5, <2>6
<1>7. CASE LooseBase
  BY <1>2, <1>7 DEF LooseBase
<1> QED BY <1>4, <1>5, <1>6, <1>7

(* The invariant of a read in packs that git wrote.                         *)
LEMMA HealthyInvariant == Spec => [](ReadType /\ HealthyInv)
<1>1. Init => HealthyInv
  BY DEF Init, HealthyInv, Nowhere
<1>2. ReadType /\ HealthyInv /\ [Next]_vars => HealthyInv'
  <2> SUFFICES ASSUME ReadType, HealthyInv, [Next]_vars PROVE HealthyInv'
    OBVIOUS
  <2>1. CASE UNCHANGED vars
    BY <2>1 DEF vars, HealthyInv, Stored, Fits
  <2> QED BY <2>1, HealthyKeeps DEF Next, Terminated
<1> QED BY <1>1, <1>2, ReadTypes, PTL DEF Spec

(* In every store of packs that git wrote, however many and however they
   overlap, each stored object reads whole, and the others are missing.     *)
THEOREM HealthyStoreReads == Spec => []HealthyReads
<1>1. HealthyInv => HealthyReads
  BY DEF HealthyInv, HealthyReads
<1> QED BY <1>1, HealthyInvariant, PTL

(* Every pack that the chain moves to sorts before the one it left, or is
   the same one.                                                            *)
THEOREM ChainDescends == Spec => PacksDescend
<1> DEFINE Down == at # Nowhere /\ at'.p > at.p => ~Healthy(store)
<1>1. ReadType /\ HealthyInv /\ [Next]_vars => [Down]_vars
  <2> SUFFICES ASSUME ReadType, HealthyInv, Next, at # Nowhere, Healthy(store) PROVE ~(at'.p > at.p)
    OBVIOUS
  <2>1. at.p \in Nat /\ at.p \in DOMAIN store.packs
    BY StandsOn
  <2>2. CASE UNCHANGED at
    BY <2>1, <2>2
  <2>3. CASE ReadPacked
    <3>1. First(Stops(store, name)) <= at.p /\ Stops(store, name) # {}
      BY <2>1, <2>3, HealthyLookup DEF HealthyInv, ReadPacked, ReadType, TypeOK
    <3>2. First(Stops(store, name)) \in Nat
      BY <3>1, StopTypes, StoreTypes DEF ReadType
    <3>3. at' = at \/ at'.p = First(Stops(store, name))
      BY <2>3 DEF ReadPacked, NoPack, Finish
    <3> QED BY <2>1, <3>1, <3>2, <3>3
  <2>4. CASE ReadAt
    <3>1. at' = at \/ at' = [at EXCEPT !.i = @ - Here.back]
      <4>1. Here.t \in {"base", "ofs", "ref", "junk"}
        BY StandsOn DEF Entry
      <4>2. Finish("err") \/ Rebuilt \/ ToOffset \/ ToName
        BY <2>4, <4>1 DEF ReadAt
      <4> QED BY <4>2 DEF Rebuilt, Finish, ToOffset, ToName
    <3>2. at'.p = at.p
      BY <3>1 DEF ReadType, TypeOK
    <3> QED BY <2>1, <3>2
  <2> QED BY <2>2, <2>3, <2>4 DEF Next, Terminated, vars, ReadLoose, LooseBase, FromLoose, Rebuilt, Finish
<1> QED BY <1>1, HealthyInvariant, PTL DEF Spec, PacksDescend
=============================================================================
