------------------------------- MODULE RefsProofs -------------------------------
(***************************************************************************)
(* The theorems about the enumeration of refs, for any number of refs and   *)
(* directories and any number of commands that git runs meanwhile.          *)
(***************************************************************************)
EXTENDS Refs, TLAPS, FiniteSetTheorems, SequenceTheorems

(* A set of naturals has a least member.                                    *)
LEMMA LeastExists ==
  ASSUME NEW S \in SUBSET Nat, S # {}
  PROVE  \E p \in S : \A q \in S : p <= q
<1> DEFINE R == {ss \in Nat \X Nat : ss[1] < ss[2]}
<1>1. IsWellFoundedOn(R, Nat)
  BY NatLessThanWellFounded, Zenon DEF OpToRel
<1>2. PICK p \in S : \A q \in S : <<q, p>> \notin R
  <2> HIDE DEF R
  <2> QED BY <1>1, WFMin
<1>3. \A q \in S : p <= q
  <2>1. \A m, n \in Nat : m < n => <<m, n>> \in R
    BY Zenon
  <2> HIDE DEF R
  <2>2. p \in Nat /\ \A q \in S : q \in Nat
    OBVIOUS
  <2>3. \A q \in S : ~(q < p)
    BY <1>2, <2>1, <2>2, Zenon
  <2> QED BY <2>2, <2>3
<1> QED BY <1>3

(* A set with 0 and the successor of each of its members is all of Nat.     *)
LEMMA Induction ==
  ASSUME NEW S \in SUBSET Nat, 0 \in S, \A n \in S : n + 1 \in S
  PROVE  S = Nat
<1> SUFFICES ASSUME Nat \ S # {} PROVE FALSE
  OBVIOUS
<1>1. PICK p \in Nat \ S : \A q \in Nat \ S : p <= q
  BY LeastExists
<1>2. p # 0 /\ p - 1 \in Nat
  BY <1>1
<1>3. p - 1 \in S
  BY <1>1, <1>2
<1> QED BY <1>1, <1>3

(* A function is defined by its first value and a step from each to the next. *)
Follows(g, n, first, step) ==
  g[0] = first /\ \A i \in 0..n : i # n => g[i + 1] = step[g[i]]

(* A step function has a sequence of values from any first one.            *)
LEMMA Recursion ==
  ASSUME NEW S, NEW first \in S, NEW step \in [S -> S]
  PROVE  \E F \in [Nat -> S] : F[0] = first /\ \A n \in Nat : F[n + 1] = step[F[n]]
<1> DEFINE Upto(n) == {g \in [0..n -> S] : Follows(g, n, first, step)}
           Some == {n \in Nat : Upto(n) # {}}
<1>1. Some = Nat
  <2>1. 0 \in Some
    <3>1. [i \in 0..0 |-> first] \in Upto(0)
      BY DEF Follows
    <3> QED BY <3>1
  <2>2. ASSUME NEW n \in Some PROVE n + 1 \in Some
    <3>1. PICK g \in [0..n -> S] : Follows(g, n, first, step)
      BY <2>2
    <3> DEFINE h == [i \in 0..(n + 1) |-> IF i = n + 1 THEN step[g[n]] ELSE g[i]]
    <3>2. n \in Nat
      BY <2>2
    <3>3. h \in [0..(n + 1) -> S]
      BY <3>1, <3>2
    <3>4. h[0] = first
      BY <3>1, <3>2 DEF Follows
    <3>5. ASSUME NEW i \in 0..(n + 1), i # n + 1 PROVE h[i + 1] = step[h[i]]
      <4>1. i \in 0..n /\ h[i] = g[i]
        BY <3>2, <3>5
      <4>2. CASE i = n
        BY <4>1, <4>2, <3>2
      <4>3. CASE i # n
        BY <4>1, <4>3, <3>1, <3>2 DEF Follows
      <4> QED BY <4>2, <4>3
    <3>6. h \in Upto(n + 1)
      <4> HIDE DEF h
      <4> QED BY <3>3, <3>4, <3>5 DEF Follows
    <3> HIDE DEF h, Upto
    <3> QED BY <3>6, <3>2
  <2> HIDE DEF Upto
  <2> QED BY <2>1, <2>2, Induction
<1>2. ASSUME NEW m \in Nat, NEW g \in Upto(m), NEW h \in Upto(m + 1), NEW i \in 0..m
      PROVE  g[i] = h[i]
  <2> DEFINE E == {k \in Nat : k <= m => g[k] = h[k]}
  <2>1. 0 \in E
    BY <1>2 DEF Follows
  <2>2. ASSUME NEW k \in E PROVE k + 1 \in E
    <3> SUFFICES ASSUME k + 1 <= m PROVE g[k + 1] = h[k + 1]
      BY <2>2
    <3>1. k \in 0..m /\ k # m /\ k \in 0..(m + 1) /\ k # m + 1 /\ g[k] = h[k]
      BY <2>2
    <3> QED BY <3>1, <1>2 DEF Follows
  <2> HIDE DEF E
  <2>3. E = Nat
    BY <2>1, <2>2, Induction DEF E
  <2> QED BY <2>3 DEF E
<1> DEFINE F == [n \in Nat |-> (CHOOSE g : g \in Upto(n))[n]]
<1>3. \A n \in Nat : (CHOOSE g : g \in Upto(n)) \in Upto(n)
  <2> HIDE DEF Upto
  <2> QED BY <1>1
<1>4. F \in [Nat -> S]
  BY <1>3
<1>5. F[0] = first
  <2>1. 0 \in Nat
    OBVIOUS
  <2> QED BY <1>3, <2>1 DEF Follows
<1>6. ASSUME NEW n \in Nat PROVE F[n + 1] = step[F[n]]
  <2> DEFINE g == CHOOSE x : x \in Upto(n)
             h == CHOOSE x : x \in Upto(n + 1)
  <2>1. g \in Upto(n) /\ h \in Upto(n + 1) /\ n \in 0..n
    <3>1. n + 1 \in Nat
      OBVIOUS
    <3> HIDE DEF Upto
    <3> QED BY <3>1, <1>3
  <2>2. F[n] = g[n] /\ F[n + 1] = h[n + 1]
    OBVIOUS
  <2> HIDE DEF g, h, F
  <2>3. g[n] = h[n]
    BY <2>1, <1>2
  <2>4. h[n + 1] = step[h[n]]
    BY <2>1 DEF Follows
  <2> QED BY <2>2, <2>3, <2>4
<1> HIDE DEF F
<1> QED BY <1>4, <1>5, <1>6

-----------------------------------------------------------------------------
(* The files of a store have their types.                                   *)
Files == loose \in [File -> Content] /\ packed \in PackedFile

(* What a loose ref file can be.                                            *)
LEMMA FileTypes ==
  ASSUME Files, NEW f \in File
  PROVE  /\ loose[f] \in Content
         /\ loose[f].t \in {"none", "bad", "io", "hash", "sym"}
         /\ loose[f].t = "none" <=> loose[f] = None
         /\ loose[f].t = "hash" => loose[f].h \in Hash /\ loose[f] = Direct(loose[f].h)
         /\ loose[f].t = "sym" => loose[f].to \in File \cup Hash
BY DEF Files, Content, None, Direct

(* The names of files, hashes and directories are different.                *)
LEMMA NamesDiffer ==
  /\ File \cap Hash = {} /\ HEAD \notin Ref \cup Lock /\ HEAD \notin Hash
  /\ Ref \cap Lock = {} /\ Dir \cap File = {} /\ RefsRoot \notin Dir
  /\ Peel \notin File /\ BadSha \notin Hash
  /\ \A n \in Ref : LockOf[n] \in Lock
  /\ \A m, n \in Ref : LockOf[m] = LockOf[n] => m = n
  /\ \A f \in Lock : \E n \in Ref : f = LockOf[n]
BY RefsAssumption DEF File, HEAD, Lock, Range, IsInjective, Peel, RefsRoot

(* packed-refs has at most one value for a name, a hash.                    *)
LEMMA PackedValueOf ==
  ASSUME Files, NEW n
  PROVE  /\ PackedValue(n) \subseteq Hash
         /\ \A g, h \in PackedValue(n) : g = h
         /\ n \notin Ref \cup {Peel} => PackedValue(n) = {}
<1>1. CASE packed.t # "lines"
  BY <1>1 DEF PackedValue
<1>2. CASE packed.t = "lines"
  <2>1. packed.lines \in Seq(Line)
    BY <1>2 DEF Files, PackedFile
  <2>2. \A i \in DOMAIN packed.lines : packed.lines[i] \in Line /\ i \in Nat
    BY <2>1
  <2> QED BY <1>2, <2>2 DEF PackedValue, Line
<1> QED BY <1>1, <1>2

(* The value of a name is a hash, if it has one.                              *)
LEMMA LeadsTypes ==
  ASSUME Files, NEW f \in File \cup Hash, NEW there \in [File \cup Hash -> SUBSET Hash]
  PROVE  Leads(f, there) \in SUBSET Hash
<1>1. CASE f \in Hash
  BY <1>1 DEF Leads
<1>2. CASE f \in File /\ f \notin Hash
  BY <1>2, FileTypes, PackedValueOf DEF Leads
<1> QED BY <1>1, <1>2

(* Follow is what its recursive definition says.                            *)
LEMMA FollowIs ==
  ASSUME Files
  PROVE  /\ Follow \in [Nat -> [File \cup Hash -> SUBSET Hash]]
         /\ \A k \in Nat, f \in File \cup Hash :
              Follow[k][f] = Leads(f, IF k = 0 THEN Nowhere ELSE Follow[k - 1])
<1> DEFINE D == File \cup Hash
           S == [D -> SUBSET Hash]
           step == [v \in S |-> [f \in D |-> Leads(f, v)]]
           first == [f \in D |-> Leads(f, Nowhere)]
           Is(F) == F = [k \in Nat |-> [f \in D |-> Leads(f, IF k = 0 THEN Nowhere ELSE F[k - 1])]]
<1>1. Nowhere \in S
  BY DEF Nowhere
<1>2. first \in S
  BY <1>1, LeadsTypes
<1>3. step \in [S -> S]
  BY LeadsTypes
<1>4. \E F \in [Nat -> S] : F[0] = first /\ \A n \in Nat : F[n + 1] = step[F[n]]
  <2> HIDE DEF S, first, step
  <2> QED BY <1>2, <1>3, Recursion
<1>5. PICK F \in [Nat -> S] : F[0] = first /\ \A n \in Nat : F[n + 1] = step[F[n]]
  BY <1>4
<1>6. ASSUME NEW k \in Nat
      PROVE  F[k] = [f \in D |-> Leads(f, IF k = 0 THEN Nowhere ELSE F[k - 1])]
  <2>1. CASE k = 0
    BY <2>1, <1>5
  <2>2. CASE k # 0
    <3>1. k - 1 \in Nat /\ k = (k - 1) + 1
      BY <2>2
    <3>2. F[k] = step[F[k - 1]] /\ F[k - 1] \in S
      BY <3>1, <1>5
    <3> QED BY <3>2, <2>2
  <2> QED BY <2>1, <2>2
<1>7. Is(F)
  <2> HIDE DEF D
  <2> QED BY <1>5, <1>6
<1>8. Is(Follow)
  <2>1. Follow = CHOOSE G : Is(G)
    BY Zenon DEF Follow
  <2> HIDE DEF Is
  <2> QED BY <2>1, <1>7
<1>9. \A k \in Nat : Follow[k] = [f \in D |-> Leads(f, IF k = 0 THEN Nowhere ELSE Follow[k - 1])]
  <2> HIDE DEF D
  <2> QED BY <1>8
<1> DEFINE T == {k \in Nat : Follow[k] \in S}
<1>10. T = Nat
  <2>1. 0 \in T
    BY <1>9, <1>2
  <2>2. ASSUME NEW k \in T PROVE k + 1 \in T
    <3>1. k \in Nat /\ k + 1 \in Nat /\ k + 1 # 0 /\ (k + 1) - 1 = k /\ Follow[k] \in S
      BY <2>2
    <3>2. Follow[k + 1] = step[Follow[k]]
      BY <3>1, <1>9
    <3> QED BY <3>1, <3>2, <1>3
  <2>3. T \in SUBSET Nat
    OBVIOUS
  <2> HIDE DEF T
  <2> QED BY <2>1, <2>2, <2>3, Induction
<1>11. DOMAIN Follow = Nat /\ Follow = [k \in Nat |-> Follow[k]]
  BY <1>8
<1>12. Follow \in [Nat -> S]
  BY <1>10, <1>11
<1> QED BY <1>12, <1>9

(* What git takes a file of a store to be.                                  *)
ValueTypes ==
  \A f \in File :
    /\ GitValue(f) \subseteq Hash
    /\ loose[f].t = "hash" => GitValue(f) = {loose[f].h}
    /\ loose[f].t = "none" => GitValue(f) = PackedValue(f)
    /\ loose[f].t \in {"bad", "io"} => GitValue(f) = {}
    /\ loose[f].t = "sym" /\ loose[f].to \in Hash => GitValue(f) = {loose[f].to}

(* git takes a file to be what its content says.                           *)
LEMMA ValuesTyped == Files => ValueTypes
<1> SUFFICES ASSUME Files, NEW f \in File
             PROVE  /\ GitValue(f) \subseteq Hash
                    /\ loose[f].t = "hash" => GitValue(f) = {loose[f].h}
                    /\ loose[f].t = "none" => GitValue(f) = PackedValue(f)
                    /\ loose[f].t \in {"bad", "io"} => GitValue(f) = {}
                    /\ loose[f].t = "sym" /\ loose[f].to \in Hash => GitValue(f) = {loose[f].to}
  BY DEF ValueTypes
<1>1. Cardinality(Ref) \in Nat
  BY RefsAssumption, FS_CardinalityType
<1> DEFINE k == Cardinality(Ref)
<1>2. k + 1 \in Nat /\ k + 1 # 0 /\ (k + 1) - 1 = k /\ f \in File \cup Hash /\ f \notin Hash
  BY <1>1, NamesDiffer
<1>3. GitValue(f) = Leads(f, Follow[k])
  <2> HIDE DEF k
  <2> QED BY <1>1, <1>2, FollowIs DEF GitValue, k
<1>4. GitValue(f) \subseteq Hash
  BY <1>1, <1>2, <1>3, FollowIs, LeadsTypes
<1>5. ASSUME NEW h \in Hash PROVE Follow[k][h] = {h}
  BY <1>1, FollowIs DEF Leads
<1> QED BY <1>2, <1>3, <1>4, <1>5 DEF Leads

(* The lines that git writes for the values of refs.                        *)
Sole(pairs) == pairs \subseteq Ref \X Hash /\ \A p, q \in pairs : p[1] = q[1] => p = q

(* The values of refs, one for each, can be written as lines.              *)
LEMMA LinesForIs ==
  ASSUME NEW pairs, Sole(pairs)
  PROVE  /\ LinesFor(pairs) \in Seq(Line)
         /\ Range(LinesFor(pairs)) = {[name |-> p[1], sha |-> p[2]] : p \in pairs}
<1> DEFINE line(p) == [name |-> p[1], sha |-> p[2]]
           n == Cardinality(pairs)
<1>1. IsFiniteSet(pairs) /\ n \in Nat
  <2> DEFINE name == [p \in pairs |-> p[1]]
  <2>1. name \in Injection(pairs, Ref)
    BY DEF Injection, IsInjective, Sole
  <2>2. IsFiniteSet(pairs)
    BY <2>1, FS_Injection, RefsAssumption
  <2> QED BY <2>2, FS_CardinalityType
<1>2. PICK s \in Bijection(1..n, pairs) : TRUE
  BY <1>1, FS_CardinalityType DEF ExistsBijection
<1>3. s \in [1..n -> pairs] /\ \A p \in pairs : \E i \in 1..n : s[i] = p
  BY <1>2 DEF Bijection, Injection, Surjection
<1> DEFINE t == [i \in 1..n |-> line(s[i])]
<1>4. t \in [1..n -> Line]
  BY <1>3 DEF Line, Sole
<1>5. Range(t) = {line(p) : p \in pairs}
  BY <1>3 DEF Range
<1>6. LinesFor(pairs) \in [1..n -> Line] /\ Range(LinesFor(pairs)) = {line(p) : p \in pairs}
  <2> HIDE DEF t, n
  <2> QED BY <1>4, <1>5 DEF LinesFor, n
<1> QED BY <1>1, <1>6

(* A ref has in packed-refs the value that git has written for it.          *)
WrittenRead ==
  \A pairs : Sole(pairs) /\ packed = [t |-> "lines", lines |-> LinesFor(pairs)] =>
    \A n \in Ref : PackedValue(n) = {h \in Hash : <<n, h>> \in pairs}

(* The lines that git writes are read back as the values it wrote.         *)
LEMMA WrittenIsRead == WrittenRead
<1> SUFFICES ASSUME NEW pairs, Sole(pairs), NEW n \in Ref,
                    packed = [t |-> "lines", lines |-> LinesFor(pairs)]
             PROVE  PackedValue(n) = {h \in Hash : <<n, h>> \in pairs}
  BY DEF WrittenRead
<1> DEFINE s == LinesFor(pairs)
<1>1. packed.t = "lines" /\ packed.lines = s
  OBVIOUS
<1>2. DOMAIN s \subseteq Nat /\ Range(s) = {[name |-> p[1], sha |-> p[2]] : p \in pairs}
  BY LinesForIs
<1> HIDE DEF s
<1>3. \A i \in DOMAIN s : \E p \in pairs : s[i] = [name |-> p[1], sha |-> p[2]]
  BY <1>2 DEF Range
<1>4. \A p \in pairs : \E i \in DOMAIN s : s[i] = [name |-> p[1], sha |-> p[2]]
  BY <1>2 DEF Range
<1> DEFINE named == {i \in DOMAIN s : s[i].name = n /\ s[i].sha # BadSha}
           first == {i \in named : \A k \in named : i <= k}
<1>5. PackedValue(n) = {s[i].sha : i \in first}
  BY <1>1 DEF PackedValue
<1>6. \A i \in named : s[i].sha \in Hash /\ <<n, s[i].sha>> \in pairs
  BY <1>3 DEF Sole
<1>7. ASSUME NEW h \in Hash, <<n, h>> \in pairs PROVE h \in {s[i].sha : i \in first}
  <2>1. \E i \in DOMAIN s : s[i] = [name |-> n, sha |-> h]
    BY <1>4, <1>7
  <2>2. named # {}
    BY <2>1, NamesDiffer
  <2>3. named \in SUBSET Nat
    BY <1>2
  <2>4. PICK i \in named : \A k \in named : i <= k
    <3> HIDE DEF named
    <3> QED BY <2>2, <2>3, LeastExists
  <2>5. s[i].sha = h
    BY <1>6, <1>7, <2>4 DEF Sole
  <2> QED BY <2>4, <2>5
<1> QED BY <1>5, <1>6, <1>7

(* The enumeration adds the value packed-refs has for each ref not listed.  *)
LEMMA AddedIs ==
  ASSUME Files, packed.t = "lines", NEW listed
  PROVE  AddedByPacked(packed.lines, listed)
           = {p \in (Ref \ listed) \X Hash : p[2] \in PackedValue(p[1])}
<1> DEFINE s == packed.lines
           added == AddedByPacked(s, listed)
<1>1. s \in Seq(Line)
  BY DEF Files, PackedFile
<1>2. DOMAIN s \subseteq Nat /\ \A i \in DOMAIN s : s[i] \in Line
                         /\ \A j \in DOMAIN s : i <= j => i \in 1..j
                         /\ \A k \in 1..i-1 : k \in DOMAIN s /\ k < i
  BY <1>1
<1>3. ASSUME NEW p \in added PROVE p \in (Ref \ listed) \X Hash /\ p[2] \in PackedValue(p[1])
  <2>1. PICK j \in DOMAIN s : /\ p = <<s[j].name, s[j].sha>>
                              /\ Good(s[j]) /\ s[j].name \notin listed
                              /\ \A k \in 1..j-1 : Good(s[k]) => s[k].name # s[j].name
    BY <1>3 DEF AddedByPacked
  <2>2. s[j].name \in Ref \ listed /\ s[j].sha \in Hash /\ s[j].sha # BadSha
    BY <2>1, <1>2 DEF Line, Good
  <2>3. ASSUME NEW k \in DOMAIN s, s[k].name = s[j].name, s[k].sha # BadSha PROVE j <= k
    <3>1. Good(s[k])
      BY <2>3, <2>1 DEF Good
    <3>2. k \notin 1..j-1
      BY <3>1, <2>1, <2>3
    <3>3. j \in Nat /\ k \in Nat /\ k >= 1
      BY <1>1
    <3> QED BY <3>2, <3>3
  <2>4. s[j].sha \in PackedValue(s[j].name)
    BY <2>2, <2>3 DEF PackedValue
  <2> QED BY <2>1, <2>2, <2>4
<1>4. ASSUME NEW n \in Ref \ listed, NEW h \in PackedValue(n) PROVE <<n, h>> \in added
  <2>1. PICK i \in DOMAIN s : /\ h = s[i].sha /\ s[i].name = n /\ s[i].sha # BadSha
                              /\ \A k \in DOMAIN s : s[k].name = n /\ s[k].sha # BadSha => i <= k
    BY <1>4 DEF PackedValue
  <2>2. Good(s[i])
    BY <2>1, NamesDiffer DEF Good, File
  <2>3. ASSUME NEW k \in 1..i-1, Good(s[k]) PROVE s[k].name # s[i].name
    BY <2>1, <2>3, <1>2 DEF Good
  <2> QED BY <2>1, <2>2, <2>3 DEF AddedByPacked
<1>5. \A p \in (Ref \ listed) \X Hash : p[2] \in PackedValue(p[1]) => p \in added
  BY <1>4
<1> HIDE DEF added
<1> QED BY <1>3, <1>5 DEF added

-----------------------------------------------------------------------------
(* The names in a directory, there or not: refs, and the locks beside them. *)
In(dir) == LET here == {n \in Ref : DirOf[n] = dir} IN here \cup {LockOf[n] : n \in here}

(* Directories share no entries, and each ref is in its own.               *)
LEMMA InDiffers ==
  /\ \A d, e \in Dir \cup {RefsRoot} : d # e => In(d) \cap In(e) = {}
  /\ \A d : In(d) \subseteq Ref \cup Lock
  /\ \A n \in Ref : n \in In(DirOf[n]) /\ DirOf[n] \in Dir \cup {RefsRoot}
  /\ \A d : \A n \in Ref : n \in In(d) => d = DirOf[n]
<1>1. \A d : \A n \in Ref : n \in In(d) => d = DirOf[n]
  BY NamesDiffer DEF In
<1>2. \A d : \A n \in Ref : LockOf[n] \in In(d) => d = DirOf[n]
  BY NamesDiffer DEF In
<1>3. \A d : In(d) \subseteq Ref \cup Lock
  BY NamesDiffer DEF In
<1>4. \A d, e : d # e => In(d) \cap In(e) = {}
  BY <1>1, <1>2, NamesDiffer DEF In
<1> QED BY <1>1, <1>3, <1>4, RefsAssumption DEF In

(* Files whose name is no string are entries that are passed over, or below
   one.                                                                     *)
LEMMA LegibleIn ==
  /\ Illegible \subseteq Ref /\ Unseen \subseteq Ref \cup Lock /\ HEAD \notin Unseen
  /\ \A d \in (Dir \cup {RefsRoot}) \ NotUtf8 : In(d) \cap Unseen \subseteq Skipped
  /\ \A d \in Dir \cap NotUtf8 : In(d) \cap Ref \subseteq Illegible
  /\ RefsRoot \notin NotUtf8 /\ Dir \cap Skipped = Dir \cap NotUtf8 /\ Ref \cap Skipped \subseteq Illegible
<1>1. Illegible \subseteq Ref /\ Unseen \subseteq Ref \cup Lock /\ HEAD \notin Unseen
  BY NamesDiffer DEF Illegible, Unseen
<1>2. ASSUME NEW d \in (Dir \cup {RefsRoot}) \ NotUtf8, NEW f \in In(d) \cap Unseen
      PROVE  f \in Skipped
  <2>1. PICK n \in Ref : DirOf[n] = d /\ (f = n \/ f = LockOf[n])
    BY DEF In
  <2>2. n \in Illegible
    BY <1>2, <2>1, NamesDiffer DEF Unseen, Illegible
  <2> QED BY <2>1, <2>2 DEF Illegible, Skipped
<1>3. \A d \in Dir \cap NotUtf8 : In(d) \cap Ref \subseteq Illegible
  BY InDiffers DEF Illegible
<1>4. RefsRoot \notin NotUtf8
  BY RefsAssumption
<1>5. Dir \cap Skipped = Dir \cap NotUtf8 /\ Ref \cap Skipped \subseteq Illegible
  BY NamesDiffer DEF Skipped, Illegible, File
<1> QED BY <1>1, <1>2, <1>3, <1>4, <1>5

(* What is left to walk: entries of refs/ and, under them, those of one of
   its directories, which is itself no longer among the first.              *)
Shape(t) ==
  \/ t = << >>
  \/ \E a \in SUBSET (In(RefsRoot) \cup Dir) : t = <<a>>
  \/ \E a \in SUBSET (In(RefsRoot) \cup Dir), d \in Dir :
       d \notin a /\ \E b \in SUBSET In(d) : t = <<a, b>>

Left(t) == UNION {t[i] : i \in DOMAIN t}

(* The names that may still be met: those left, or in a directory left.     *)
Ahead(t) == (Left(t) \ Dir) \cup UNION {In(d) : d \in Left(t) \cap Dir}

Level == SUBSET (Ref \cup Lock \cup Dir)

(* Sequences of one member and of two.                                      *)
LEMMA ShortSequences ==
  ASSUME NEW S, NEW a \in S, NEW b \in S
  PROVE  /\ <<a>> \in Seq(S) /\ <<a, b>> \in Seq(S)
         /\ Append(<<a>>, b) = <<a, b>> /\ SubSeq(<<a, b>>, 1, 1) = <<a>>
<1>1. /\ <<a>> \in Seq(S) /\ Len(<<a>>) = 1 /\ <<a>>[1] = a
      /\ <<a, b>> \in Seq(S) /\ Len(<<a, b>>) = 2 /\ <<a, b>>[1] = a /\ <<a, b>>[2] = b
  OBVIOUS
<1>2. Append(<<a>>, b) = <<a, b>>
  <2> DEFINE s == Append(<<a>>, b)
  <2>1. s \in Seq(S) /\ Len(s) = 2 /\ s[1] = a /\ s[2] = b
    BY <1>1, AppendProperties
  <2> HIDE DEF s
  <2>2. \A i \in 1..Len(s) : s[i] = <<a, b>>[i]
    BY <1>1, <2>1
  <2>3. s = <<a, b>>
    BY <1>1, <2>1, <2>2, SeqEqual
  <2> QED BY <2>3 DEF s
<1>3. SubSeq(<<a, b>>, 1, 1) = <<a>>
  <2> DEFINE s == SubSeq(<<a, b>>, 1, 1)
  <2>1. \A i \in 1..1 : <<a, b>>[i] \in S
    BY <1>1
  <2>2. s \in Seq(S) /\ Len(s) = 1 /\ s[1] = a
    BY <1>1, <2>1, SubSeqProperties
  <2> HIDE DEF s
  <2>3. \A i \in 1..Len(s) : s[i] = <<a>>[i]
    BY <1>1, <2>2
  <2>4. s = <<a>>
    BY <1>1, <2>2, <2>3, SeqEqual
  <2> QED BY <2>4 DEF s
<1> QED BY <1>1, <1>2, <1>3

(* One level and two of entries left to walk.                               *)
LEMMA OneLevel ==
  ASSUME NEW a \in Level
  PROVE  /\ <<a>> \in Seq(Level) /\ <<a>> # << >> /\ Len(<<a>>) = 1 /\ <<a>>[1] = a
         /\ Last(<<a>>) = a /\ Front(<<a>>) = << >> /\ Left(<<a>>) = a
<1>1. <<a>> \in Seq(Level) /\ Len(<<a>>) = 1 /\ <<a>> # << >> /\ DOMAIN <<a>> = {1} /\ <<a>>[1] = a
  OBVIOUS
<1>2. Front(<<a>>) = << >>
  BY <1>1 DEF Front
<1> QED BY <1>1, <1>2 DEF Last, Left

(* Two levels, as the entries of a directory are walked.                   *)
LEMMA TwoLevels ==
  ASSUME NEW a \in Level, NEW b \in Level
  PROVE  /\ <<a, b>> \in Seq(Level) /\ <<a, b>> # << >> /\ Len(<<a, b>>) = 2 /\ <<a, b>>[2] = b
         /\ Last(<<a, b>>) = b /\ Front(<<a, b>>) = <<a>> /\ Left(<<a, b>>) = a \cup b
<1>1. /\ <<a, b>> \in Seq(Level) /\ Len(<<a, b>>) = 2 /\ <<a, b>> # << >>
      /\ DOMAIN <<a, b>> = {1, 2} /\ <<a, b>>[1] = a /\ <<a, b>>[2] = b
  OBVIOUS
<1>2. Front(<<a, b>>) = <<a>>
  <2>1. Len(<<a, b>>) - 1 = 1
    BY <1>1
  <2>2. SubSeq(<<a, b>>, 1, 1) = <<a>>
    BY ShortSequences
  <2> QED BY <2>1, <2>2, Zenon DEF Front
<1>3. Left(<<a, b>>) = a \cup b
  BY <1>1 DEF Left
<1> QED BY <1>1, <1>2, <1>3 DEF Last

(* What is left to walk is nothing, one level or two.                       *)
LEMMA ShapeIs ==
  ASSUME NEW t, Shape(t), t # << >>
  PROVE  \/ \E a \in Level : a \in SUBSET (In(RefsRoot) \cup Dir) /\ t = <<a>>
         \/ \E a, b \in Level, d \in Dir :
              /\ a \in SUBSET (In(RefsRoot) \cup Dir) /\ d \notin a
              /\ b \in SUBSET In(d) /\ t = <<a, b>>
<1>1. /\ SUBSET (In(RefsRoot) \cup Dir) \subseteq Level
      /\ \A d \in Dir : SUBSET In(d) \subseteq Level
  BY InDiffers DEF Level
<1> QED BY <1>1 DEF Shape

(* What is left to walk is names of refs, locks and directories.           *)
LEMMA ShapeTypes ==
  ASSUME NEW t, Shape(t)
  PROVE  /\ t \in Seq(Level) /\ Len(t) <= 2
         /\ t # << >> => Last(t) \in Level
         /\ Left(t) \subseteq Ref \cup Lock \cup Dir
         /\ Ahead(t) \subseteq Ref \cup Lock
         /\ t = << >> => Left(t) = {} /\ Ahead(t) = {}
<1>1. CASE t = << >>
  <2>1. Left(t) = {}
    BY <1>1 DEF Left
  <2> QED BY <1>1, <2>1 DEF Ahead
<1>2. CASE t # << >>
  <2>1. t \in Seq(Level) /\ Len(t) <= 2 /\ Last(t) \in Level /\ Left(t) \subseteq Ref \cup Lock \cup Dir
    <3>1. ASSUME NEW a \in Level, t = <<a>>
          PROVE  t \in Seq(Level) /\ Len(t) <= 2 /\ Last(t) \in Level /\ Left(t) \subseteq Ref \cup Lock \cup Dir
      BY <3>1, OneLevel DEF Level
    <3>2. ASSUME NEW a \in Level, NEW b \in Level, t = <<a, b>>
          PROVE  t \in Seq(Level) /\ Len(t) <= 2 /\ Last(t) \in Level /\ Left(t) \subseteq Ref \cup Lock \cup Dir
      BY <3>2, TwoLevels DEF Level
    <3> QED BY <1>2, <3>1, <3>2, ShapeIs
  <2> QED BY <1>2, <2>1, InDiffers DEF Ahead
<1> QED BY <1>1, <1>2

(* An entry that is a file is taken.                                        *)
LEMMA FileTaken ==
  ASSUME NEW t, Shape(t), t # << >>, NEW n \in Last(t) \ Dir,
         NEW u, u = [t EXCEPT ![Len(t)] = @ \ {n}]
  PROVE  /\ Shape(u) /\ u # << >> /\ Left(u) = Left(t) \ {n}
         /\ n \in Ahead(t) /\ Ahead(u) = Ahead(t) \ {n}
<1>1. ASSUME NEW a \in Level, a \in SUBSET (In(RefsRoot) \cup Dir), t = <<a>>
      PROVE  /\ Shape(u) /\ u # << >> /\ Left(u) = Left(t) \ {n}
             /\ n \in Ahead(t) /\ Ahead(u) = Ahead(t) \ {n}
  <2>1. a \ {n} \in Level
    BY DEF Level
  <2>2. u = <<a \ {n}>> /\ n \in a /\ u # << >> /\ Left(t) = a /\ Left(u) = a \ {n}
    <3>1. Len(<<a>>) = 1 /\ Last(t) = a /\ <<a>>[1] = a /\ Left(t) = a
      BY <1>1, OneLevel DEF Last
    <3>2. u = [<<a>> EXCEPT ![1] = a \ {n}]
      BY <3>1, <1>1
    <3>3. u = <<a \ {n}>>
      BY <3>2
    <3>4. u # << >> /\ Left(u) = a \ {n}
      BY <3>3, <2>1, OneLevel
    <3> QED BY <3>1, <3>3, <3>4
  <2>3. \A d \in Dir : n \notin In(d)
    BY <1>1, <2>2, InDiffers, NamesDiffer
  <2>4. Shape(u)
    BY <1>1, <2>2 DEF Shape
  <2>5. Left(t) = a /\ Left(u) = a \ {n} /\ n \in a \ Dir
    BY <2>2
  <2> DEFINE rest == UNION {In(e) : e \in a \cap Dir}
  <2>6. Ahead(t) = (a \ Dir) \cup rest /\ Ahead(u) = ((a \ {n}) \ Dir) \cup rest
    <3>1. a \cap Dir = (a \ {n}) \cap Dir
      BY <2>5
    <3> QED BY <2>5, <3>1 DEF Ahead
  <2>7. n \notin rest
    BY <2>3
  <2> HIDE DEF rest
  <2> QED BY <2>2, <2>4, <2>5, <2>6, <2>7
<1>2. ASSUME NEW a \in Level, NEW b \in Level, NEW d \in Dir, a \in SUBSET (In(RefsRoot) \cup Dir),
             d \notin a, b \in SUBSET In(d), t = <<a, b>>
      PROVE  /\ Shape(u) /\ u # << >> /\ Left(u) = Left(t) \ {n}
             /\ n \in Ahead(t) /\ Ahead(u) = Ahead(t) \ {n}
  <2>1. b \ {n} \in Level
    BY DEF Level
  <2>2. u = <<a, b \ {n}>> /\ n \in b /\ u # << >> /\ Left(t) = a \cup b /\ Left(u) = a \cup (b \ {n})
    <3>1. Len(<<a, b>>) = 2 /\ Last(t) = b /\ <<a, b>>[2] = b /\ Left(t) = a \cup b
      BY <1>2, TwoLevels DEF Last
    <3>2. u = [<<a, b>> EXCEPT ![2] = b \ {n}]
      BY <3>1, <1>2
    <3>3. u = <<a, b \ {n}>>
      BY <3>2
    <3>4. u # << >> /\ Left(u) = a \cup (b \ {n})
      BY <3>3, <2>1, TwoLevels
    <3> QED BY <3>1, <3>3, <3>4
  <2>3. n \notin a /\ (\A e \in Dir \ {d} : n \notin In(e)) /\ b \cap Dir = {}
    BY <1>2, <2>2, InDiffers, NamesDiffer DEF File
  <2>4. Shape(u)
    BY <1>2, <2>2 DEF Shape
  <2> DEFINE rest == UNION {In(e) : e \in a \cap Dir}
  <2>5. Ahead(t) = ((a \cup b) \ Dir) \cup rest
    BY <2>2, <2>3 DEF Ahead
  <2>6. Ahead(u) = ((a \cup (b \ {n})) \ Dir) \cup rest
    BY <2>2, <2>3 DEF Ahead
  <2>7. n \notin rest
    BY <1>2, <2>3
  <2> HIDE DEF rest
  <2>8. Ahead(u) = Ahead(t) \ {n} /\ n \in Ahead(t)
    BY <2>2, <2>3, <2>5, <2>6, <2>7
  <2>9. Left(u) = Left(t) \ {n}
    BY <2>2, <2>3
  <2> QED BY <2>2, <2>4, <2>8, <2>9
<1> QED BY <1>1, <1>2, ShapeIs

(* An entry that is a directory is entered.                                 *)
Enter(t, d, b) == Append([t EXCEPT ![Len(t)] = @ \ {d}], b)

(* Entering a directory drops no name but those not found in it.           *)
LEMMA DirEntered ==
  ASSUME NEW t, Shape(t), t # << >>, NEW d \in Last(t) \cap Dir, NEW b \in SUBSET In(d)
  PROVE  /\ Shape(Enter(t, d, b)) /\ Enter(t, d, b) # << >>
         /\ In(d) \subseteq Ahead(t)
         /\ Ahead(Enter(t, d, b)) = (Ahead(t) \ In(d)) \cup b
         /\ Left(Enter(t, d, b)) = (Left(t) \ {d}) \cup b
<1> DEFINE u == Enter(t, d, b)
<1>1. PICK a \in Level : a \in SUBSET (In(RefsRoot) \cup Dir) /\ t = <<a>>
  <2>1. ASSUME NEW a \in Level, NEW c \in Level, NEW e \in Dir, c \in SUBSET In(e), t = <<a, c>>
        PROVE  FALSE
    <3>1. d \in c
      BY <2>1, TwoLevels
    <3> QED BY <2>1, <3>1, InDiffers, NamesDiffer DEF File
  <2> QED BY <2>1, ShapeIs
<1>2. a \ {d} \in Level /\ b \in Level
  BY InDiffers DEF Level
<1>3. d \in a /\ u = <<a \ {d}, b>>
  <2>1. Len(<<a>>) = 1 /\ Last(t) = a /\ <<a>>[1] = a
    BY <1>1, OneLevel DEF Last
  <2>2. u = Append([<<a>> EXCEPT ![1] = a \ {d}], b)
    BY <2>1, <1>1 DEF Enter
  <2>3. [<<a>> EXCEPT ![1] = a \ {d}] = <<a \ {d}>>
    OBVIOUS
  <2>4. Append(<<a \ {d}>>, b) = <<a \ {d}, b>>
    BY <1>2, ShortSequences
  <2> QED BY <2>1, <2>2, <2>3, <2>4
<1> HIDE DEF u
<1>4. Shape(u)
  BY <1>1, <1>3 DEF Shape
<1>5. u # << >> /\ Left(t) = a /\ Left(u) = (a \ {d}) \cup b
  <2>1. Left(t) = a
    BY <1>1, OneLevel
  <2>2. u # << >> /\ Left(u) = (a \ {d}) \cup b
    BY <1>2, <1>3, TwoLevels
  <2> QED BY <2>1, <2>2
<1>6. b \cap Dir = {}
  BY InDiffers, NamesDiffer DEF File
<1>7. (a \ Dir) \cap In(d) = {} /\ \A e \in Dir \ {d} : In(e) \cap In(d) = {}
  BY <1>1, InDiffers, NamesDiffer
<1>8. Ahead(u) = (a \ Dir) \cup b \cup UNION {In(e) : e \in (a \ {d}) \cap Dir}
  BY <1>5, <1>6 DEF Ahead
<1>9. Ahead(t) = (a \ Dir) \cup In(d) \cup UNION {In(e) : e \in (a \ {d}) \cap Dir}
  BY <1>3, <1>5 DEF Ahead
<1>10. (UNION {In(e) : e \in (a \ {d}) \cap Dir}) \cap In(d) = {}
  BY <1>7
<1> QED BY <1>4, <1>5, <1>7, <1>8, <1>9, <1>10 DEF u

(* A directory is passed over.                                              *)
LEMMA DirPassed ==
  ASSUME NEW t, Shape(t), t # << >>, NEW d \in Last(t) \cap Dir,
         NEW u, u = [t EXCEPT ![Len(t)] = @ \ {d}]
  PROVE  /\ Shape(u) /\ u # << >> /\ Left(u) = Left(t) \ {d}
         /\ Ahead(u) = Ahead(t) \ In(d)
<1>1. PICK a \in Level : a \in SUBSET (In(RefsRoot) \cup Dir) /\ t = <<a>>
  <2>1. ASSUME NEW a \in Level, NEW c \in Level, NEW e \in Dir, c \in SUBSET In(e), t = <<a, c>>
        PROVE  FALSE
    <3>1. d \in c
      BY <2>1, TwoLevels
    <3> QED BY <2>1, <3>1, InDiffers, NamesDiffer DEF File
  <2> QED BY <2>1, ShapeIs
<1>2. a \ {d} \in Level
  BY DEF Level
<1>3. d \in a /\ u = <<a \ {d}>> /\ Left(t) = a
  <2>1. Len(<<a>>) = 1 /\ Last(t) = a /\ <<a>>[1] = a /\ Left(t) = a
    BY <1>1, OneLevel DEF Last
  <2>2. u = [<<a>> EXCEPT ![1] = a \ {d}]
    BY <2>1, <1>1
  <2> QED BY <2>1, <2>2
<1>4. Shape(u) /\ u # << >> /\ Left(u) = a \ {d}
  BY <1>1, <1>2, <1>3, OneLevel DEF Shape
<1> DEFINE rest == UNION {In(e) : e \in (a \ {d}) \cap Dir}
<1>5. Ahead(u) = (a \ Dir) \cup rest /\ Ahead(t) = (a \ Dir) \cup In(d) \cup rest
  BY <1>3, <1>4 DEF Ahead
<1>6. (a \ Dir) \cap In(d) = {} /\ \A e \in Dir \ {d} : In(e) \cap In(d) = {}
  BY <1>1, InDiffers, NamesDiffer
<1>7. rest \cap In(d) = {}
  BY <1>6
<1> HIDE DEF rest
<1> QED BY <1>3, <1>4, <1>5, <1>6, <1>7

(* Nothing is left of a directory.                                          *)
LEMMA DirLeft ==
  ASSUME NEW t, Shape(t), t # << >>, Last(t) = {}, NEW u, u = Front(t)
  PROVE  /\ Shape(u) /\ (u = << >> <=> Len(t) = 1)
         /\ Ahead(u) = Ahead(t) /\ Left(u) = Left(t)
<1>1. ASSUME NEW a \in Level, t = <<a>>
      PROVE  u = << >> /\ Len(t) = 1 /\ Left(t) = {} /\ Left(u) = {}
  BY <1>1, OneLevel DEF Left
<1>2. ASSUME NEW a \in Level, NEW b \in Level, t = <<a, b>>
      PROVE  u = <<a>> /\ u # << >> /\ Len(t) # 1 /\ Left(t) = a /\ Left(u) = a
  <2>1. Last(t) = b /\ Front(<<a, b>>) = <<a>> /\ Left(t) = a \cup b /\ Len(<<a, b>>) = 2
    BY <1>2, TwoLevels
  <2>2. u = <<a>> /\ Left(t) = a /\ Len(t) # 1
    BY <1>2, <2>1
  <2> QED BY <2>2, OneLevel
<1>3. Shape(u)
  BY <1>1, <1>2, ShapeIs DEF Shape
<1>4. (u = << >> <=> Len(t) = 1) /\ Left(u) = Left(t)
  <2>1. (\E a \in Level : t = <<a>>) \/ (\E a, b \in Level : t = <<a, b>>)
    BY ShapeIs
  <2>2. CASE \E a \in Level : t = <<a>>
    BY <1>1, <2>2
  <2>3. CASE \E a, b \in Level : t = <<a, b>>
    BY <1>2, <2>3
  <2> QED BY <2>1, <2>2, <2>3
<1> QED BY <1>3, <1>4 DEF Ahead

-----------------------------------------------------------------------------
(* The types of the variables, and where the walk of the directories stands. *)
RefsType ==
  /\ Files /\ refsDir \in RefsDirs /\ op \in Ops
  /\ pc \in {"start", "refs", "entries", "packed", "head", "resolve", "done"}
  /\ Shape(todo) /\ asked \in File /\ cur \in File \cup Hash
  /\ out \subseteq File \X Hash
  /\ result \in {"none", "ok", "err", "miss"}
  /\ prune \subseteq Ref \X Hash /\ deleting \subseteq Ref /\ writes \in 0..MaxWrites
  /\ held \in [File -> SUBSET Hash] /\ gone \subseteq Ref

(* The walk is on: an entry is looked for or, unless it is HEAD, resolved.  *)
Walking == pc = "entries" \/ (pc = "resolve" /\ asked # HEAD)

Placed ==
  /\ op = "head" => pc \in {"start", "resolve", "done"} /\ asked = HEAD
  /\ pc \in {"start", "refs"} \/ (op = "head" /\ pc # "done") => out = {}
  /\ Walking <=> todo # << >> /\ pc # "done"

(* The locks hold hashes, and git changes no ref that is damaged or symbolic. *)
Settable(n) == loose[n].t \in {"none", "hash"}

Steady ==
  \A n \in Ref :
    /\ Settable(LockOf[n])
    /\ loose[LockOf[n]].t = "hash" => Settable(n) /\ refsDir = "dir"
    /\ n \in deleting => Settable(n)
    /\ refsDir \in {"absent", "broken"} => loose[n].t = "none"

(* The answer of resolve_ref is one pair at most, and the caller goes on.   *)
LEMMA AnswerKeeps ==
  ASSUME RefsType, Placed, pc = "resolve", NEW pairs \in SUBSET (File \X Hash), Answer(pairs)
  PROVE  /\ pc' \in {"entries", "done"} /\ Shape(todo') /\ asked' \in File /\ cur' \in File \cup Hash
         /\ out' \subseteq File \X Hash /\ result' \in {"none", "ok", "err", "miss"}
         /\ todo' = todo /\ asked' = asked /\ cur' = cur
         /\ op = "head" => pc' = "done"
         /\ pc' # "done" => Walking
<1>1. op # "head" /\ asked # HEAD => Walking
  BY DEF Walking
<1> QED BY <1>1 DEF Answer, Finish, RefsType

(* The reader's steps keep the types.                                       *)
LEMMA ReaderKeepsTypes ==
  ASSUME RefsType, Placed, ReaderStep
  PROVE  RefsType' /\ Placed'
<1>1. /\ UNCHANGED <<files, git, held, gone>>
      /\ Files' /\ refsDir' \in RefsDirs
      /\ prune' \subseteq Ref \X Hash /\ deleting' \subseteq Ref /\ writes' \in 0..MaxWrites
      /\ held' \in [File -> SUBSET Hash] /\ gone' \subseteq Ref
  BY DEF ReaderStep, files, git, RefsType, Files
<1>2. ASSUME NEW r \in {"ok", "err", "miss"}, NEW listed \in SUBSET (File \X Hash), Finish(r, listed), op' = op
      PROVE  RefsType' /\ Placed'
  BY <1>1, <1>2 DEF Finish, RefsType, Placed, Walking
<1>3. ASSUME Fail, op' = op PROVE RefsType' /\ Placed'
  BY <1>2, <1>3 DEF Fail
<1>4. CASE Begin
  BY <1>1, <1>4 DEF Begin, After, RefsType, Placed, Walking
<1>5. CASE ReadRefsDir
  <2>1. CASE refsDir = "broken" /\ Fail
    BY <1>3, <1>5, <2>1 DEF ReadRefsDir
  <2>2. CASE pc' = "entries" /\ \E b \in {{}, Entries(RefsRoot)} : todo' = <<b>> /\ UNCHANGED <<asked, cur, out, result, op>>
    <3>1. PICK b \in {{}, Entries(RefsRoot)} : todo' = <<b>>
      BY <2>2
    <3>2. b \in SUBSET (In(RefsRoot) \cup Dir)
      BY DEF Entries, In
    <3>3. Shape(todo') /\ todo' # << >>
      BY <3>1, <3>2 DEF Shape
    <3>4. op # "head" /\ pc = "refs"
      BY <1>5 DEF ReadRefsDir, Placed
    <3> QED BY <1>1, <2>2, <3>3, <3>4 DEF RefsType, Placed, Walking
  <2> QED BY <1>5, <2>1, <2>2 DEF ReadRefsDir
<1>6. CASE NextEntry
  <2>1. pc = "entries" /\ todo # << >> /\ op # "head" /\ op' = op
    BY <1>6 DEF NextEntry, Placed, Walking
  <2>5. ASSUME NEW n \in Last(todo), todo' = Rest(n), UNCHANGED <<pc, asked, cur, out, result>>
        PROVE  RefsType' /\ Placed'
    <3>1. Shape(todo') /\ todo' # << >>
      BY <2>1, <2>5, FileTaken, DirPassed DEF Rest, Remaining, RefsType
    <3> QED BY <1>1, <2>1, <2>5, <3>1 DEF RefsType, Placed, Walking
  <2>2. ASSUME NEW n \in Last(todo) \ Dir, todo' = Remaining(n), asked' = n, cur' = n, pc' = "resolve",
               UNCHANGED <<out, result>>
        PROVE  RefsType' /\ Placed'
    <3>1. Shape(todo') /\ todo' # << >> /\ n \in Ahead(todo)
      BY <2>1, <2>2, FileTaken DEF Remaining, RefsType
    <3>2. n \in Ref \cup Lock
      BY <3>1, ShapeTypes DEF RefsType
    <3> QED BY <1>1, <2>1, <2>2, <3>1, <3>2, NamesDiffer DEF RefsType, Placed, Walking, File
  <2>3. ASSUME NEW d \in Last(todo) \cap Dir, todo' = Append(Remaining(d), Entries(d)),
               UNCHANGED <<pc, asked, cur, out, result>>
        PROVE  RefsType' /\ Placed'
    <3>1. Entries(d) \in SUBSET In(d)
      BY NamesDiffer DEF Entries, In
    <3>2. Shape(todo') /\ todo' # << >>
      BY <2>1, <2>3, <3>1, DirEntered DEF Remaining, RefsType, Enter
    <3> QED BY <1>1, <2>1, <2>3, <3>2 DEF RefsType, Placed, Walking
  <2>4. CASE Last(todo) = {} /\ todo' = Front(todo) /\ UNCHANGED <<asked, cur, out, result>>
             /\ pc' = IF Len(todo) = 1 THEN After("refs") ELSE pc
    <3>1. Shape(todo') /\ (todo' = << >> <=> Len(todo) = 1)
      BY <2>1, <2>4, DirLeft DEF RefsType
    <3> QED BY <1>1, <2>1, <2>4, <3>1 DEF RefsType, Placed, Walking, After
  <2> QED BY <1>3, <1>6, <2>1, <2>2, <2>3, <2>4, <2>5 DEF NextEntry
<1>7. CASE ReadPacked
  <2>1. pc = "packed" /\ op # "head" /\ op' = op
    BY <1>7 DEF ReadPacked, Placed
  <2>2. CASE packed.t # "io" /\ pc' = After("packed") /\ UNCHANGED <<todo, asked, cur, result>>
             /\ out' = IF packed.t = "none" THEN out ELSE out \cup AddedByPacked(packed.lines, Names(out))
    <3>1. packed.t = "lines" \/ packed.t = "none"
      BY <2>2 DEF RefsType, Files, PackedFile
    <3>2. packed.t = "lines" => AddedByPacked(packed.lines, Names(out)) \subseteq File \X Hash
      BY AddedIs DEF RefsType, File
    <3>3. out' \subseteq File \X Hash
      BY <2>2, <3>1, <3>2 DEF RefsType
    <3> QED BY <1>1, <2>1, <2>2, <3>3 DEF RefsType, Placed, Walking, After
  <2> QED BY <1>3, <1>7, <2>1, <2>2 DEF ReadPacked
<1>8. CASE ResolveHead
  <2>1. HEAD \in File
    BY DEF File
  <2> QED BY <1>1, <1>8, <2>1 DEF ResolveHead, RefsType, Placed, Walking
<1>9. CASE Resolve
  <2>1. pc = "resolve" /\ op' = op
    BY <1>9 DEF Resolve
  <2>2. ASSUME NEW pairs \in SUBSET (File \X Hash), Answer(pairs) PROVE RefsType' /\ Placed'
    BY <1>1, <2>1, <2>2, AnswerKeeps DEF RefsType, Placed, Walking
  <2>3. CASE cur \in Hash /\ Answer({<<asked, cur>>})
    BY <2>2, <2>3 DEF RefsType
  <2>4. CASE cur \in File /\ loose[cur].t = "hash" /\ Answer({<<asked, loose[cur].h>>})
    BY <2>2, <2>4, FileTypes DEF RefsType
  <2>5. CASE cur \in File /\ loose[cur].t = "sym" /\ cur' = loose[cur].to /\ UNCHANGED <<pc, todo, asked, out, result>>
    <3>1. cur' \in File \cup Hash
      BY <2>5, FileTypes DEF RefsType
    <3> QED BY <1>1, <2>1, <2>5, <3>1 DEF RefsType, Placed, Walking
  <2>6. CASE Answer({})
    BY <2>2, <2>6
  <2> QED BY <1>3, <1>9, <2>1, <2>3, <2>4, <2>5, <2>6 DEF Resolve
<1> QED BY <1>4, <1>5, <1>6, <1>7, <1>8, <1>9 DEF ReaderStep

(* What is looked at has a name that is a string, and so has whatever is left
   to walk, unless it is an entry to be passed over.                        *)
Legible == Left(todo) \cap Unseen \subseteq Skipped /\ cur \notin Unseen

(* The reader never opens a file whose name is no string.                   *)
LEMMA ReaderKeepsLegible ==
  ASSUME RefsType, Placed, Legible, ReaderStep
  PROVE  Legible'
<1>1. ASSUME UNCHANGED <<todo, cur>> PROVE Legible'
  BY <1>1 DEF Legible
<1>2. CASE Begin \/ ReadPacked
  BY <1>1, <1>2 DEF Begin, ReadPacked, Fail, Finish
<1>3. CASE ReadRefsDir
  <2>1. CASE UNCHANGED <<todo, cur>>
    BY <1>1, <2>1
  <2>2. ASSUME NEW b \in {{}, Entries(RefsRoot)}, todo' = <<b>>, cur' = cur PROVE Legible'
    <3>1. b \subseteq In(RefsRoot) \cup Dir /\ b \in Level
      BY NamesDiffer, InDiffers DEF Entries, In, Level
    <3>2. Left(todo') = b
      BY <2>2, <3>1, OneLevel
    <3>3. b \cap Unseen \subseteq Skipped
      BY <3>1, LegibleIn, NamesDiffer DEF File
    <3> QED BY <2>2, <3>2, <3>3 DEF Legible
  <2> QED BY <1>3, <2>1, <2>2 DEF ReadRefsDir, Fail, Finish
<1>4. CASE NextEntry
  <2>1. Shape(todo) /\ todo # << >>
    BY <1>4 DEF NextEntry, Placed, Walking, RefsType
  <2>2. ASSUME NEW n \in Last(todo), todo' = Remaining(n) PROVE Left(todo') \subseteq Left(todo)
    <3>1. CASE n \notin Dir
      <4>1. Left(todo') = Left(todo) \ {n}
        BY <2>1, <2>2, <3>1, FileTaken DEF Remaining
      <4> QED BY <4>1
    <3>2. CASE n \in Dir
      <4>1. Left(todo') = Left(todo) \ {n}
        BY <2>1, <2>2, <3>2, DirPassed DEF Remaining
      <4> QED BY <4>1
    <3> QED BY <3>1, <3>2
  <2>3. ASSUME NEW n \in Last(todo) \ (Dir \cup Skipped), todo' = Remaining(n), cur' = n
        PROVE  Legible'
    <3>1. n \in Left(todo)
      BY <2>1, <2>3, FileTaken DEF Remaining, Ahead
    <3> QED BY <2>2, <2>3, <3>1 DEF Legible
  <2>4. ASSUME NEW d \in (Last(todo) \cap Dir) \ Skipped, todo' = Append(Remaining(d), Entries(d)), cur' = cur
        PROVE  Legible'
    <3>1. Entries(d) \in SUBSET In(d)
      BY NamesDiffer DEF Entries, In
    <3>2. todo' = Enter(todo, d, Entries(d))
      BY <2>4 DEF Remaining, Enter
    <3>3. Left(todo') \subseteq Left(todo) \cup Entries(d)
      BY <2>1, <3>1, <3>2, DirEntered
    <3>4. Entries(d) \cap Unseen \subseteq Skipped
      BY <2>4, <3>1, LegibleIn DEF Skipped
    <3> QED BY <2>4, <3>3, <3>4 DEF Legible
  <2>5. ASSUME Last(todo) = {}, todo' = Front(todo), cur' = cur PROVE Legible'
    <3>1. Left(todo') = Left(todo)
      BY <2>1, <2>5, DirLeft
    <3> QED BY <2>5, <3>1 DEF Legible
  <2>6. ASSUME NEW n \in Last(todo), todo' = Rest(n), cur' = cur PROVE Legible'
    BY <2>2, <2>6 DEF Legible, Rest
  <2> QED BY <1>1, <1>4, <2>3, <2>4, <2>5, <2>6 DEF NextEntry, Fail, Finish
<1>5. CASE ResolveHead
  BY <1>5, LegibleIn DEF ResolveHead, Legible
<1>6. CASE Resolve
  <2>1. \/ UNCHANGED <<todo, cur>>
        \/ cur' = loose[cur].to /\ loose[cur].t = "sym" /\ ~Unread(loose[cur]) /\ todo' = todo
    BY <1>6 DEF Resolve, Answer, Fail, Finish
  <2> QED BY <1>1, <2>1 DEF Legible, Unread
<1> QED BY <1>2, <1>3, <1>4, <1>5, <1>6 DEF ReaderStep

-----------------------------------------------------------------------------
(* A packed-refs without a malformed line.                                  *)
Clean(file) == file.t = "lines" => \A line \in Range(file.lines) : line.sha # BadSha

(* What a step of git does to packed-refs: the value there of a ref stays,
   becomes that of its file, or goes with the ref that is deleted.           *)
PackedSteps ==
  /\ packed' \in PackedFile /\ (packed'.t = "io" <=> packed.t = "io")
  /\ packed' = packed \/ Clean(packed')
  /\ \A n \in Ref :
       \/ PackedValue(n)' = PackedValue(n)
       \/ loose[n].t = "hash" /\ PackedValue(n)' = {loose[n].h}
       \/ n \in deleting' /\ PackedValue(n)' = {}

(* A step that leaves packed-refs as it is.                                *)
LEMMA PackedStays ==
  ASSUME RefsType, UNCHANGED packed
  PROVE  PackedSteps
BY DEF PackedSteps, PackedValue, RefsType, Files

(* packed-refs replaced by the values of refs is well-formed.              *)
LEMMA PackedWritten ==
  ASSUME NEW pairs, Sole(pairs), packed' = [t |-> "lines", lines |-> LinesFor(pairs)], NEW n \in Ref
  PROVE  packed' \in PackedFile /\ Clean(packed') /\ PackedValue(n)' = {h \in Hash : <<n, h>> \in pairs}
<1>1. WrittenRead'
  BY WrittenIsRead, PTL
<1>2. packed' \in PackedFile
  BY LinesForIs DEF PackedFile
<1>3. Clean(packed')
  <2>1. \A line \in Range(LinesFor(pairs)) : \E p \in pairs : line.sha = p[2]
    BY LinesForIs
  <2>2. \A p \in pairs : p[2] \in Hash
    BY DEF Sole
  <2> QED BY <2>1, <2>2, NamesDiffer DEF Clean
<1> QED BY <1>1, <1>2, <1>3 DEF WrittenRead

(* git pack-refs leaves each ref the value that it has.                    *)
LEMMA PackRefsPacks ==
  ASSUME RefsType, PackRefs
  PROVE  PackedSteps /\ prune' \subseteq Ref \X Hash
<1> DEFINE direct == {n \in Ref : loose[n].t = "hash"}
           old    == PackedPairs(Ref \ direct)
           new    == {<<n, loose[n].h>> : n \in direct}
<1>1. /\ packed.t # "io" /\ direct # {} /\ prune' = new
      /\ packed' = [t |-> "lines", lines |-> LinesFor(old \cup new)]
  BY DEF PackRefs
<1>2. \A n \in Ref : n \in File
  BY DEF File
<1>3. new \subseteq Ref \X Hash /\ old \subseteq Ref \X Hash
  BY <1>2, FileTypes DEF RefsType, PackedPairs
<1>4. Sole(old \cup new)
  <2>1. \A p \in old : p[1] \notin direct
    BY DEF PackedPairs
  <2>2. \A p \in new : p[1] \in direct /\ p[2] = loose[p[1]].h
    BY DEF PackedPairs
  <2>3. \A p, q \in old : p[1] = q[1] => p[2] = q[2]
    BY PackedValueOf DEF PackedPairs, RefsType
  <2> HIDE DEF old, new, direct
  <2>4. ASSUME NEW p \in old \cup new, NEW q \in old \cup new, p[1] = q[1] PROVE p = q
    <3>1. p[2] = q[2]
      BY <2>1, <2>2, <2>3, <2>4
    <3>2. p = <<p[1], p[2]>> /\ q = <<q[1], q[2]>>
      BY <1>3, <2>4
    <3> QED BY <2>4, <3>1, <3>2
  <2> QED BY <1>3, <2>4 DEF Sole
<1>5. ASSUME NEW n \in Ref
      PROVE  PackedValue(n)' = IF n \in direct THEN {loose[n].h} ELSE PackedValue(n)
  <2>1. PackedValue(n)' = {h \in Hash : <<n, h>> \in old \cup new}
    <3> HIDE DEF old, new
    <3> QED BY <1>1, <1>4, PackedWritten
  <2>2. CASE n \in direct
    <3>1. \A h : <<n, h>> \in old \cup new <=> h = loose[n].h
      BY <2>2 DEF PackedPairs
    <3> QED BY <2>1, <2>2, <3>1, <1>2, FileTypes DEF RefsType
  <2>3. CASE n \notin direct
    <3>1. \A h \in Hash : <<n, h>> \in old \cup new <=> h \in PackedValue(n)
      BY <2>3 DEF PackedPairs
    <3> QED BY <2>1, <2>3, <3>1, PackedValueOf DEF RefsType
  <2> QED BY <2>2, <2>3
<1>6. packed' \in PackedFile /\ Clean(packed')
  <2>1. PICK n \in Ref : n \in direct
    BY <1>1
  <2> HIDE DEF old, new
  <2> QED BY <1>1, <1>4, <2>1, PackedWritten
<1>7. packed'.t = "lines"
  BY <1>1
<1> QED BY <1>1, <1>3, <1>5, <1>6, <1>7 DEF PackedSteps

(* git branch -d takes one ref from packed-refs and no other.              *)
LEMMA DeleteRefUnpacks ==
  ASSUME RefsType, NEW n \in Ref, DeleteRef(n)
  PROVE  PackedSteps
<1>1. packed.t # "io" /\ deleting' = {n}
  BY DEF DeleteRef
<1>2. CASE packed.t = "lines"
  <2> DEFINE pairs == PackedPairs(Ref \ {n})
  <2>1. packed' = [t |-> "lines", lines |-> LinesFor(pairs)]
    BY <1>2 DEF DeleteRef, RefsType, Files, PackedFile
  <2>2. Sole(pairs)
    <3>1. \A p, q \in pairs : p[1] = q[1] => p[2] = q[2]
      BY PackedValueOf DEF PackedPairs, RefsType
    <3> QED BY <3>1 DEF Sole, PackedPairs
  <2>3. ASSUME NEW m \in Ref PROVE PackedValue(m)' = IF m = n THEN {} ELSE PackedValue(m)
    <3>1. PackedValue(m)' = {h \in Hash : <<m, h>> \in pairs}
      <4> HIDE DEF pairs
      <4> QED BY <2>1, <2>2, PackedWritten
    <3>2. \A h \in Hash : <<m, h>> \in pairs <=> m # n /\ h \in PackedValue(m)
      BY DEF PackedPairs
    <3>3. PackedValue(m) \subseteq Hash
      BY PackedValueOf DEF RefsType
    <3> HIDE DEF pairs
    <3> QED BY <3>1, <3>2, <3>3
  <2>4. packed' \in PackedFile /\ packed'.t = "lines" /\ Clean(packed')
    <3> HIDE DEF pairs
    <3> QED BY <2>1, <2>2, PackedWritten
  <2> QED BY <1>1, <2>3, <2>4 DEF PackedSteps
<1>3. CASE packed.t # "lines"
  BY <1>3, PackedStays DEF DeleteRef
<1> QED BY <1>2, <1>3

(* What a step of git does to the files: damaged and symbolic refs stay, no
   ref becomes one, and HEAD stays or is switched to a ref.                 *)
LooseSteps ==
  /\ loose' \in [File -> Content] /\ refsDir' = refsDir
  /\ \A n \in Ref : IF Settable(n) THEN Settable(n)' ELSE loose'[n] = loose[n]
  /\ loose'[HEAD] = loose[HEAD] \/ \E n \in Ref : loose'[HEAD] = [t |-> "sym", to |-> n]

(* What the history records of a step of git.                               *)
Recorded ==
  /\ held' \in [File -> SUBSET Hash] /\ gone' \subseteq Ref
  /\ \A f \in File : held[f] \subseteq held'[f] /\ GitValue(f)' \subseteq held'[f]
  /\ gone \subseteq gone' /\ deleting' \subseteq gone'
  /\ \A n \in Ref : GitValue(n)' = {} => n \in gone'

(* A step that leaves the loose files as they are.                         *)
LEMMA FilesUnchanged ==
  ASSUME RefsType, Steady, UNCHANGED loose, UNCHANGED refsDir
  PROVE  LooseSteps
BY DEF LooseSteps, Settable, RefsType, Files

(* Every step of git is one of those on the loose files and on packed-refs.*)
LEMMA GitStores ==
  ASSUME RefsType, Steady, GitStep
  PROVE  /\ LooseSteps /\ PackedSteps /\ Steady'
         /\ prune' \subseteq Ref \X Hash /\ deleting' \subseteq Ref /\ writes' \in 0..MaxWrites
<1> USE DEF RefsType, Files
<1>1. \A n \in Ref : /\ n \in File /\ LockOf[n] \in File /\ n # HEAD /\ LockOf[n] # HEAD
                     /\ \A m \in Ref : n # LockOf[m] /\ (LockOf[m] = LockOf[n] => m = n)
  BY NamesDiffer DEF File
<1>2. HEAD \in File /\ None \in Content /\ \A h \in Hash : Direct(h) \in Content
  BY DEF File, None, Direct, Content
<1>3. MaxWrites \in Nat
  BY RefsAssumption
<1>4. ASSUME NEW n \in Ref, NEW h \in Hash, LockRef(n, h)
      PROVE  /\ LooseSteps /\ PackedSteps /\ Steady'
             /\ prune' \subseteq Ref \X Hash /\ deleting' \subseteq Ref /\ writes' \in 0..MaxWrites
  <2>1. PackedSteps
    BY <1>4, PackedStays DEF LockRef
  <2>2. /\ loose' = [loose EXCEPT ![LockOf[n]] = Direct(h)] /\ refsDir = "dir" /\ Settable(n)
        /\ UNCHANGED <<refsDir, prune, deleting>> /\ writes < MaxWrites /\ writes' = writes + 1
    BY <1>4 DEF LockRef, Command, Settable
  <2>3. loose' \in [File -> Content] /\ \A m \in Ref : loose'[m] = loose[m]
    BY <1>1, <1>2, <2>2
  <2>4. \A m \in Ref : loose'[LockOf[m]] = IF m = n THEN Direct(h) ELSE loose[LockOf[m]]
    BY <1>1, <1>2, <2>2
  <2>5. loose'[HEAD] = loose[HEAD]
    BY <1>1, <1>2, <2>2
  <2>6. Steady'
    BY <2>2, <2>3, <2>4 DEF Steady, Settable, Direct
  <2> QED BY <1>3, <2>1, <2>2, <2>3, <2>5, <2>6 DEF LooseSteps, Settable
<1>5. ASSUME NEW n \in Ref, UpdateRef(n)
      PROVE  /\ LooseSteps /\ PackedSteps /\ Steady'
             /\ prune' \subseteq Ref \X Hash /\ deleting' \subseteq Ref /\ writes' \in 0..MaxWrites
  <2>1. PackedSteps
    BY <1>5, PackedStays DEF UpdateRef
  <2>2. /\ loose' = [loose EXCEPT ![n] = loose[LockOf[n]], ![LockOf[n]] = None]
        /\ loose[LockOf[n]].t = "hash" /\ refsDir = "dir" /\ Settable(n)
        /\ UNCHANGED <<refsDir, prune, deleting, writes>>
    BY <1>5 DEF UpdateRef, Steady
  <2>3. loose' \in [File -> Content]
        /\ \A m \in Ref : loose'[m] = IF m = n THEN loose[LockOf[n]] ELSE loose[m]
    BY <1>1, <1>2, <2>2
  <2>4. \A m \in Ref : loose'[LockOf[m]] = IF m = n THEN None ELSE loose[LockOf[m]]
    BY <1>1, <1>2, <2>2
  <2>5. loose'[HEAD] = loose[HEAD]
    BY <1>1, <1>2, <2>2
  <2>6. Steady'
    <3>1. \A m \in Ref : loose'[LockOf[m]].t \in {"none", "hash"}
      BY <2>4 DEF Steady, Settable, None
    <3>2. \A m \in Ref : loose'[LockOf[m]].t = "hash" => loose'[m].t \in {"none", "hash"}
      BY <2>3, <2>4 DEF Steady, Settable, None
    <3>3. \A m \in Ref : m \in deleting => loose'[m].t \in {"none", "hash"}
      BY <2>2, <2>3 DEF Steady, Settable
    <3> QED BY <2>2, <3>1, <3>2, <3>3 DEF Steady, Settable
  <2> QED BY <2>1, <2>2, <2>3, <2>5, <2>6 DEF LooseSteps, Settable
<1>6. CASE PackRefs
  <2>1. PackedSteps /\ prune' \subseteq Ref \X Hash
    BY <1>6, PackRefsPacks
  <2>2. UNCHANGED <<loose, refsDir, deleting>> /\ writes < MaxWrites /\ writes' = writes + 1
    BY <1>6 DEF PackRefs, Command
  <2>3. Steady'
    BY <2>2 DEF Steady, Settable
  <2> QED BY <1>3, <2>1, <2>2, <2>3, FilesUnchanged
<1>7. ASSUME NEW p \in prune, PruneLoose(p)
      PROVE  /\ LooseSteps /\ PackedSteps /\ Steady'
             /\ prune' \subseteq Ref \X Hash /\ deleting' \subseteq Ref /\ writes' \in 0..MaxWrites
  <2>1. PackedSteps
    BY <1>7, PackedStays DEF PruneLoose
  <2>2. UNCHANGED <<refsDir, deleting, writes>> /\ prune' \subseteq Ref \X Hash
    BY <1>7 DEF PruneLoose
  <2>3. CASE UNCHANGED loose
    <3>1. Steady'
      BY <2>2, <2>3 DEF Steady, Settable
    <3> QED BY <2>1, <2>2, <2>3, <3>1, FilesUnchanged
  <2>4. CASE loose[p[1]] = Direct(p[2]) /\ loose' = [loose EXCEPT ![p[1]] = None]
    <3>1. p[1] \in Ref
      OBVIOUS
    <3>2. loose' \in [File -> Content] /\ \A m \in Ref : loose'[m] = IF m = p[1] THEN None ELSE loose[m]
      BY <1>1, <1>2, <2>4, <3>1
    <3>3. (\A m \in Ref : loose'[LockOf[m]] = loose[LockOf[m]]) /\ loose'[HEAD] = loose[HEAD]
      BY <1>1, <1>2, <2>4, <3>1
    <3>4. Settable(p[1])
      BY <2>4 DEF Settable, Direct
    <3>5. Steady'
      BY <2>2, <3>2, <3>3 DEF Steady, Settable, None
    <3> QED BY <2>1, <2>2, <3>2, <3>3, <3>4, <3>5 DEF LooseSteps, Settable, None
  <2> QED BY <1>7, <2>3, <2>4 DEF PruneLoose
<1>8. ASSUME NEW n \in Ref, DeleteRef(n)
      PROVE  /\ LooseSteps /\ PackedSteps /\ Steady'
             /\ prune' \subseteq Ref \X Hash /\ deleting' \subseteq Ref /\ writes' \in 0..MaxWrites
  <2>1. PackedSteps
    BY <1>8, DeleteRefUnpacks
  <2>2. /\ UNCHANGED <<loose, refsDir, prune>> /\ deleting' = {n} /\ Settable(n)
        /\ writes < MaxWrites /\ writes' = writes + 1
    BY <1>8 DEF DeleteRef, Command, Settable
  <2>3. Steady'
    BY <2>2 DEF Steady, Settable
  <2> QED BY <1>3, <2>1, <2>2, <2>3, FilesUnchanged
<1>9. ASSUME NEW n \in Ref, DeleteLoose(n)
      PROVE  /\ LooseSteps /\ PackedSteps /\ Steady'
             /\ prune' \subseteq Ref \X Hash /\ deleting' \subseteq Ref /\ writes' \in 0..MaxWrites
  <2>1. PackedSteps
    BY <1>9, PackedStays DEF DeleteLoose
  <2>2. /\ loose' = [loose EXCEPT ![n] = None] /\ Settable(n) /\ deleting' = {}
        /\ UNCHANGED <<refsDir, prune, writes>>
    BY <1>9 DEF DeleteLoose, Steady
  <2>3. loose' \in [File -> Content] /\ \A m \in Ref : loose'[m] = IF m = n THEN None ELSE loose[m]
    BY <1>1, <1>2, <2>2
  <2>4. (\A m \in Ref : loose'[LockOf[m]] = loose[LockOf[m]]) /\ loose'[HEAD] = loose[HEAD]
    BY <1>1, <1>2, <2>2
  <2>5. Steady'
    BY <2>2, <2>3, <2>4 DEF Steady, Settable, None
  <2> QED BY <2>1, <2>2, <2>3, <2>4, <2>5 DEF LooseSteps, Settable, None
<1>10. ASSUME NEW n \in Ref, SwitchHead(n)
       PROVE  /\ LooseSteps /\ PackedSteps /\ Steady'
              /\ prune' \subseteq Ref \X Hash /\ deleting' \subseteq Ref /\ writes' \in 0..MaxWrites
  <2>1. PackedSteps
    BY <1>10, PackedStays DEF SwitchHead
  <2>2. /\ loose' = [loose EXCEPT ![HEAD] = [t |-> "sym", to |-> n]]
        /\ UNCHANGED <<refsDir, prune, deleting>> /\ writes < MaxWrites /\ writes' = writes + 1
    BY <1>10 DEF SwitchHead, Command
  <2>3. [t |-> "sym", to |-> n] \in Content
    BY <1>1 DEF Content
  <2>4. loose' \in [File -> Content] /\ loose'[HEAD] = [t |-> "sym", to |-> n]
    BY <1>2, <2>2, <2>3
  <2>5. \A m \in Ref : loose'[m] = loose[m] /\ loose'[LockOf[m]] = loose[LockOf[m]]
    BY <1>1, <1>2, <2>2
  <2>6. Steady'
    BY <2>2, <2>5 DEF Steady, Settable
  <2> QED BY <1>3, <2>1, <2>2, <2>4, <2>5, <2>6 DEF LooseSteps, Settable
<1> QED BY <1>4, <1>5, <1>6, <1>7, <1>8, <1>9, <1>10 DEF GitStep

(* git's steps keep the types, and the history what happened.               *)
LEMMA GitKeepsTypes ==
  ASSUME RefsType, Placed, Steady, GitStep
  PROVE  RefsType' /\ Placed' /\ Steady' /\ Recorded
<1>1. /\ LooseSteps /\ PackedSteps /\ Steady'
      /\ prune' \subseteq Ref \X Hash /\ deleting' \subseteq Ref /\ writes' \in 0..MaxWrites
  BY GitStores
<1>2. Files' /\ refsDir' \in RefsDirs
  BY <1>1 DEF Files, LooseSteps, PackedSteps, RefsType
<1>3. ValueTypes'
  <2>1. (Files => ValueTypes)'
    BY ValuesTyped, PTL
  <2> QED BY <1>2, <2>1
<1>4. \A f \in File : GitValue(f)' \subseteq Hash
  BY <1>3 DEF ValueTypes
<1>5. held' = [f \in File |-> held[f] \cup GitValue(f)']
      /\ gone' = gone \cup deleting' \cup {n \in Ref : GitValue(n)' = {}}
  BY DEF GitStep, Remember
<1>6. Recorded
  BY <1>1, <1>4, <1>5 DEF Recorded, RefsType
<1>7. UNCHANGED <<op, pc, todo, asked, cur, out, result>>
  BY DEF GitStep, reader
<1>8. RefsType'
  BY <1>1, <1>2, <1>6, <1>7 DEF RefsType, Recorded
<1>9. Placed'
  BY <1>7 DEF Placed, Walking
<1> QED BY <1>1, <1>6, <1>8, <1>9

(* A ref's values are among those it had; one that has none is gone.        *)
History ==
  /\ \A f \in File : GitValue(f) \subseteq held[f]
  /\ \A n \in Ref : GitValue(n) = {} => n \in gone
  /\ deleting \subseteq gone

(* The value of a ref depends on nothing but the files.                     *)
LEMMA ValuesStay ==
  ASSUME UNCHANGED <<loose, packed>>, NEW f
  PROVE  GitValue(f)' = GitValue(f) /\ PackedValue(f)' = PackedValue(f)
<1>1. \A g : PackedValue(g)' = PackedValue(g)
  BY DEF PackedValue
<1>2. \A g, there : Leads(g, there)' = Leads(g, there)
  BY <1>1 DEF Leads
<1>3. Follow' = Follow
  BY <1>2 DEF Follow
<1> QED BY <1>1, <1>3 DEF GitValue

(* All that holds of the store and of the walk, whoever takes a step.      *)
StoreInv == RefsType /\ Placed /\ Legible /\ Steady /\ History

(* The store has its types before any step.                                *)
LEMMA InitStore == Init => StoreInv
<1> SUFFICES ASSUME Init PROVE StoreInv
  OBVIOUS
<1>1. Files
  <2>1. None \in Content
    BY DEF None, Content
  <2>2. PICK refs \in LooseFiles : loose = [f \in File |-> IF f \in Lock THEN None ELSE refs[f]]
    BY DEF Init
  <2>3. \A f \in File \ Lock : refs[f] \in Content
    BY RefsAssumption DEF File
  <2>4. loose \in [File -> Content]
    BY <2>1, <2>2, <2>3
  <2> QED BY <2>4, RefsAssumption DEF Init, Files
<1>2. ValueTypes
  BY <1>1, ValuesTyped
<1>3. RefsType
  <2>1. HEAD \in File /\ Shape(todo)
    BY DEF Init, File, Shape
  <2>2. held \in [File -> SUBSET Hash] /\ gone \subseteq Ref
    BY <1>2 DEF Init, ValueTypes
  <2>3. writes \in 0..MaxWrites
    BY RefsAssumption DEF Init
  <2> QED BY <1>1, <2>1, <2>2, <2>3 DEF Init, RefsType
<1>4. Placed
  BY DEF Init, Placed, Walking
<1>5. Steady
  <2>1. \A n \in Ref : LockOf[n] \in File /\ LockOf[n] \in Lock
    BY NamesDiffer DEF File, Lock
  <2>2. \A n \in Ref : loose[LockOf[n]] = None
    BY <2>1 DEF Init
  <2>3. \A n \in Ref : refsDir \in {"absent", "broken"} => loose[n] = None
    BY DEF Init
  <2>4. deleting = {}
    BY DEF Init
  <2> QED BY <2>2, <2>3, <2>4 DEF Steady, Settable, None
<1>6. History
  BY <1>2 DEF Init, History
<1>7. Legible
  <2>1. Left(todo) = {}
    BY ShapeTypes DEF Init, Shape
  <2> QED BY <2>1, LegibleIn DEF Init, Legible
<1> QED BY <1>3, <1>4, <1>5, <1>6, <1>7 DEF StoreInv

(* Every step, of the reader and of git, keeps them.                       *)
LEMMA StepStore == StoreInv /\ [Next]_vars => StoreInv'
<1> SUFFICES ASSUME StoreInv, [Next]_vars PROVE StoreInv'
  OBVIOUS
<1>1. ASSUME UNCHANGED <<files, git, held, gone>> PROVE Steady' /\ History'
  <2>1. UNCHANGED <<loose, packed, refsDir, deleting, held, gone>>
    BY <1>1 DEF files, git
  <2>2. \A f : GitValue(f)' = GitValue(f)
    BY <2>1, ValuesStay
  <2> QED BY <2>1, <2>2 DEF StoreInv, Steady, Settable, History
<1>2. CASE ReaderStep
  BY <1>1, <1>2, ReaderKeepsTypes, ReaderKeepsLegible DEF StoreInv, ReaderStep
<1>3. CASE GitStep
  <2>1. RefsType' /\ Placed' /\ Steady' /\ Recorded
    BY <1>3, GitKeepsTypes DEF StoreInv
  <2>2. Legible'
    BY <1>3 DEF GitStep, reader, StoreInv, Legible
  <2> QED BY <2>1, <2>2 DEF StoreInv, History, Recorded
<1>4. CASE UNCHANGED vars
  <2>1. Steady' /\ History' /\ UNCHANGED <<reader, files, git, held, gone>>
    BY <1>1, <1>4 DEF vars
  <2>2. RefsType' /\ Placed' /\ Legible'
    BY <2>1 DEF StoreInv, RefsType, Files, Placed, Legible, Walking, reader, files, git
  <2> QED BY <2>1, <2>2 DEF StoreInv
<1> QED BY <1>2, <1>3, <1>4 DEF Next, Terminated

(* The store, the call and the history keep their types and the invariants
   of git's commands, whatever the order of their steps.                    *)
LEMMA StoreInvariant == Spec => []StoreInv
BY InitStore, StepStore, PTL DEF Spec

(* Every variable has its type: a walk of refs/ is never more than one
   directory deep, and what git writes is what it can read.                 *)
THEOREM TypeCorrect == Spec => []TypeOK
<1>1. StoreInv => TypeOK
  <2> SUFFICES ASSUME StoreInv PROVE TypeOK
    OBVIOUS
  <2>1. todo \in Seq(SUBSET (Ref \cup Lock \cup Dir)) /\ Len(todo) <= 2
    BY ShapeTypes DEF StoreInv, RefsType, Level
  <2>2. packed.t \in {"none", "io", "lines"}
    BY DEF StoreInv, RefsType, Files, PackedFile
  <2>3. packed.t = "lines" => Range(packed.lines) \subseteq Line
    <3>1. packed.t = "lines" => packed.lines \in Seq(Line)
      BY DEF StoreInv, RefsType, Files, PackedFile
    <3> QED BY <3>1 DEF Range
  <2> QED BY <2>1, <2>2, <2>3 DEF StoreInv, RefsType, Files, TypeOK
<1> QED BY <1>1, StoreInvariant, PTL

-----------------------------------------------------------------------------
(* What each step of the reader does, said of the names still to be met.    *)
Stopped == pc' = "done" /\ out' = {} /\ Unreadable /\ (op = "list_refs" \/ result' = "err")

Started ==
  /\ pc = "start" /\ pc' = IF op = "head" THEN "resolve" ELSE "refs"
  /\ UNCHANGED <<todo, asked, cur, out>>

RootRead ==
  /\ pc = "refs" /\ pc' = "entries" /\ refsDir # "broken" /\ out' = out
  /\ \A n \in Ref : n \in Ahead(todo') \/ loose[n].t = "none"
  /\ refsDir = "partly" => Dir \subseteq Left(todo')

EntryTaken ==
  /\ pc = "entries" /\ pc' = "resolve" /\ out' = out
  /\ asked' \in Ahead(todo) /\ cur' = asked' /\ Ahead(todo') = Ahead(todo) \ {asked'}
  /\ Left(todo) \cap Dir \subseteq Left(todo')

WalkedOn ==
  /\ pc = "entries" /\ pc' \in {"entries", "packed"} /\ out' = out
  /\ Ahead(todo') \subseteq Ahead(todo)
  /\ \A n \in (Ref \ Illegible) \cap Ahead(todo) : n \in Ahead(todo') \/ loose[n].t = "none"
  /\ refsDir = "partly" => (Left(todo) \cap Dir) \ NotUtf8 \subseteq Left(todo')

PackedRead ==
  /\ pc = "packed" /\ pc' = "head" /\ packed.t # "io" /\ ~Undecodable
  /\ out' = out \cup {p \in (Ref \ Names(out)) \X Hash : p[2] \in PackedValue(p[1])}

HeadAsked ==
  pc = "head" /\ pc' = "resolve" /\ asked' = HEAD /\ cur' = HEAD /\ UNCHANGED <<todo, out>>

Followed ==
  /\ pc = "resolve" /\ cur \in File /\ loose[cur].t = "sym" /\ ~Unread(loose[cur])
  /\ cur' = loose[cur].to
  /\ UNCHANGED <<pc, todo, asked, out>>

(* What resolve_ref answers where it stands.                                *)
Given(pairs) ==
  \/ pairs = {} /\ cur \in File /\ loose[cur].t \in {"none", "bad"}
  \/ \E h \in Hash : pairs = {<<asked, h>>} /\ (cur = h \/ (cur \in File /\ loose[cur] = Direct(h)))

Answered ==
  /\ pc = "resolve"
  /\ \E pairs : Given(pairs) /\
       \/ op = "head" /\ pc' = "done" /\ out' = pairs
       \/ /\ op # "head" /\ asked = HEAD /\ pc' = "done" /\ result' = "ok"
          /\ out' = out \cup {p \in pairs : HEAD \notin Names(out)}
       \/ /\ op # "head" /\ asked # HEAD /\ pc' = "entries"
          /\ out' = out \cup pairs /\ UNCHANGED <<todo, asked, cur>>

(* Every step of the reader is one of these, and writes to no file.        *)
LEMMA ReaderSteps ==
  ASSUME StoreInv, ReaderStep
  PROVE  /\ op' = op /\ UNCHANGED <<loose, packed, refsDir, prune, deleting, writes, held, gone>>
         /\ \/ Stopped \/ Started \/ RootRead \/ EntryTaken \/ WalkedOn
            \/ PackedRead \/ HeadAsked \/ Followed \/ Answered
<1> USE DEF StoreInv, RefsType
<1>1. UNCHANGED <<loose, packed, refsDir, prune, deleting, writes, held, gone>>
  BY DEF ReaderStep, files, git
<1>2. op' = op
  BY DEF ReaderStep, Begin, ReadRefsDir, NextEntry, ReadPacked, ResolveHead, Resolve
<1> SUFFICES \/ Stopped \/ Started \/ RootRead \/ EntryTaken \/ WalkedOn
             \/ PackedRead \/ HeadAsked \/ Followed \/ Answered
  BY <1>1, <1>2
<1>3. ASSUME Fail, Unreadable PROVE Stopped
  BY <1>3 DEF Fail, Finish, Stopped
<1>4. CASE Begin
  BY <1>4 DEF Begin, After, Started
<1>5. CASE ReadRefsDir
  <2>1. CASE refsDir = "broken" /\ Fail
    BY <1>3, <2>1 DEF Unreadable
  <2>2. CASE refsDir # "broken" /\ pc' = "entries" /\ out' = out
             /\ todo' = IF refsDir = "absent" THEN <<{}>> ELSE <<Entries(RefsRoot)>>
    <3>1. CASE refsDir = "absent"
      BY <1>5, <2>2, <3>1 DEF RootRead, Steady, ReadRefsDir
    <3>2. CASE refsDir # "absent"
      <4>1. Entries(RefsRoot) \in Level /\ Dir \subseteq Entries(RefsRoot)
        <5>1. Entries(RefsRoot) \subseteq In(RefsRoot) \cup Dir /\ Dir \subseteq Entries(RefsRoot)
          BY DEF Entries, In
        <5> QED BY <5>1, InDiffers DEF Level
      <4>2. Left(todo') = Entries(RefsRoot)
        BY <2>2, <3>2, <4>1, OneLevel
      <4>3. ASSUME NEW n \in Ref, loose[n].t # "none" PROVE n \in Ahead(todo')
        <5>1. CASE DirOf[n] = RefsRoot
          <6>1. n \in Entries(RefsRoot) /\ n \notin Dir
            BY <4>3, <5>1, NamesDiffer DEF Entries, File
          <6> QED BY <4>2, <6>1 DEF Ahead
        <5>2. CASE DirOf[n] \in Dir
          BY <4>1, <4>2, <5>2, InDiffers DEF Ahead
        <5> QED BY <5>1, <5>2, InDiffers
      <4> QED BY <1>5, <2>2, <4>1, <4>2, <4>3 DEF RootRead, ReadRefsDir
    <3> QED BY <3>1, <3>2
  <2> QED BY <1>5, <2>1, <2>2 DEF ReadRefsDir
<1>6. CASE NextEntry
  <2>1. pc = "entries" /\ todo # << >>
    BY <1>6 DEF NextEntry, Placed, Walking
  <2>2. ASSUME NEW n \in Last(todo) \ Dir, todo' = Remaining(n), asked' = n, cur' = n, pc' = "resolve", out' = out
        PROVE  EntryTaken
    <3>1. n \in Ahead(todo) /\ Ahead(todo') = Ahead(todo) \ {n} /\ Left(todo') = Left(todo) \ {n}
      BY <2>1, <2>2, FileTaken DEF Remaining
    <3> QED BY <2>1, <2>2, <3>1 DEF EntryTaken
  <2>3. ASSUME NEW d \in Last(todo) \cap Dir, refsDir # "partly", todo' = Append(Remaining(d), Entries(d)),
               UNCHANGED <<pc, out>>
        PROVE  WalkedOn
    <3>1. Entries(d) \in SUBSET In(d)
      BY NamesDiffer DEF Entries, In
    <3>2. In(d) \subseteq Ahead(todo) /\ Ahead(todo') = (Ahead(todo) \ In(d)) \cup Entries(d)
      <4>1. Shape(todo) /\ todo' = Enter(todo, d, Entries(d))
        BY <2>3 DEF Remaining, Enter
      <4> QED BY <2>1, <3>1, <4>1, DirEntered
    <3>3. \A n \in Ref \cap In(d) : n \in Entries(d) \/ loose[n].t = "none"
      BY InDiffers DEF Entries
    <3> QED BY <2>1, <2>3, <3>1, <3>2, <3>3 DEF WalkedOn
  <2>4. CASE Last(todo) = {} /\ todo' = Front(todo) /\ out' = out
             /\ pc' = IF Len(todo) = 1 THEN After("refs") ELSE pc
    <3>1. Ahead(todo') = Ahead(todo) /\ Left(todo') = Left(todo)
      BY <2>1, <2>4, DirLeft
    <3> QED BY <2>1, <2>4, <3>1 DEF WalkedOn, After
  <2>5. ASSUME refsDir = "partly", Fail PROVE Stopped
    BY <1>3, <2>5 DEF Unreadable
  <2>6. ASSUME NEW n \in Last(todo) \cap Skipped, todo' = Rest(n), UNCHANGED <<pc, out>> PROVE WalkedOn
    <3>1. CASE n \notin Dir
      <4>1. Left(todo') = Left(todo) \ {n} /\ Ahead(todo') = Ahead(todo) \ {n}
        BY <2>1, <2>6, <3>1, FileTaken DEF Rest, Remaining
      <4>2. n \in Ref => n \in Illegible
        BY <2>6, LegibleIn
      <4> QED BY <2>1, <2>6, <3>1, <4>1, <4>2 DEF WalkedOn
    <3>2. CASE n \in Dir
      <4>1. Left(todo') = Left(todo) \ {n} /\ Ahead(todo') = Ahead(todo) \ In(n)
        BY <2>1, <2>6, <3>2, DirPassed DEF Rest, Remaining
      <4>2. n \in NotUtf8 /\ In(n) \cap Ref \subseteq Illegible
        BY <2>6, <3>2, LegibleIn
      <4> QED BY <2>1, <2>6, <4>1, <4>2 DEF WalkedOn
    <3> QED BY <3>1, <3>2
  <2> QED BY <1>6, <2>2, <2>3, <2>4, <2>5, <2>6 DEF NextEntry
<1>7. CASE ReadPacked
  <2>1. CASE (packed.t = "io" \/ Undecodable) /\ Fail
    BY <1>3, <2>1 DEF Unreadable, Undecodable
  <2>2. CASE packed.t = "none" /\ pc' = "head" /\ out' = out
    <3>1. \A n : PackedValue(n) = {}
      BY <2>2 DEF PackedValue
    <3> QED BY <1>7, <2>2, <3>1 DEF PackedRead, ReadPacked, Undecodable
  <2>3. CASE packed.t = "lines" /\ ~Undecodable /\ pc' = "head"
             /\ out' = out \cup AddedByPacked(packed.lines, Names(out))
    BY <1>7, <2>3, AddedIs DEF PackedRead, ReadPacked
  <2>4. packed.t \in {"io", "none", "lines"}
    BY DEF Files, PackedFile
  <2> QED BY <1>7, <2>1, <2>2, <2>3, <2>4 DEF ReadPacked, After
<1>8. CASE ResolveHead
  BY <1>8 DEF ResolveHead, HeadAsked
<1>9. CASE Resolve
  <2>1. pc = "resolve"
    BY <1>9 DEF Resolve
  <2>2. ASSUME NEW pairs, Given(pairs), Answer(pairs) PROVE Answered
    <3>1. \/ op = "head" /\ pc' = "done" /\ out' = pairs
          \/ /\ op # "head" /\ asked = HEAD /\ pc' = "done" /\ result' = "ok"
             /\ out' = out \cup {p \in pairs : HEAD \notin Names(out)}
          \/ /\ op # "head" /\ asked # HEAD /\ pc' = "entries"
             /\ out' = out \cup pairs /\ UNCHANGED <<todo, asked, cur>>
      BY <2>2 DEF Answer, Finish
    <3> QED BY <2>1, <2>2, <3>1 DEF Answered
  <2>3. CASE cur \in Hash /\ Answer({<<asked, cur>>})
    BY <2>2, <2>3 DEF Given
  <2>4. CASE cur \in File /\ loose[cur].t = "hash" /\ Answer({<<asked, loose[cur].h>>})
    <3>1. loose[cur].h \in Hash /\ loose[cur] = Direct(loose[cur].h)
      BY <2>4, FileTypes
    <3> QED BY <2>2, <2>4, <3>1 DEF Given
  <2>5. CASE cur \in File /\ loose[cur].t = "sym" /\ ~Unread(loose[cur]) /\ cur' = loose[cur].to
             /\ UNCHANGED <<pc, todo, asked, out>>
    BY <2>1, <2>5 DEF Followed
  <2>6. CASE cur \in File /\ Miss(loose[cur]) /\ Answer({})
    BY <2>2, <2>6 DEF Given, Miss
  <2>7. CASE cur \in File /\ Unread(loose[cur]) /\ Fail
    BY <1>3, <2>7 DEF Unreadable, Unread, Legible
  <2> QED BY <1>9, <2>3, <2>4, <2>5, <2>6, <2>7 DEF Resolve
<1> QED BY <1>4, <1>5, <1>6, <1>7, <1>8, <1>9 DEF ReaderStep

-----------------------------------------------------------------------------
(* No name still to be met is listed already.                               *)
OnceInv ==
  /\ OncePerName
  /\ pc # "done" => HEAD \notin Names(out)
  /\ Walking => Ahead(todo) \cap Names(out) = {}
  /\ pc = "resolve" /\ asked # HEAD => asked \notin Names(out) \cup Ahead(todo)

(* What resolve_ref answers is for the name asked.                          *)
LEMMA GivenIs ==
  ASSUME NEW pairs, Given(pairs)
  PROVE  pairs = {} \/ \E h \in Hash : pairs = {<<asked, h>>} /\ Names(pairs) = {asked}
BY DEF Given, Names

(* No step of the reader lists a name again.                               *)
LEMMA ReaderLists ==
  ASSUME StoreInv, StoreInv', OnceInv, ReaderStep
  PROVE  OnceInv'
<1> USE DEF Names
<1>1. op' = op /\ \/ Stopped \/ Started \/ RootRead \/ EntryTaken \/ WalkedOn
                  \/ PackedRead \/ HeadAsked \/ Followed \/ Answered
  BY ReaderSteps
<1>2. Placed /\ Placed' /\ Ahead(todo) \subseteq Ref \cup Lock /\ HEAD \notin Ref \cup Lock
  BY ShapeTypes, NamesDiffer DEF StoreInv, RefsType
<1>3. CASE Stopped
  BY <1>3 DEF Stopped, OnceInv, OncePerName, Walking
<1>4. CASE Started \/ RootRead
  <2>1. out' = {} /\ pc' # "done"
    BY <1>2, <1>4 DEF Started, RootRead, Placed
  <2>2. pc' = "resolve" => asked' = HEAD
    BY <1>2, <1>4 DEF Started, RootRead, Placed
  <2> QED BY <2>1, <2>2 DEF OnceInv, OncePerName
<1>5. CASE EntryTaken
  BY <1>2, <1>5 DEF EntryTaken, OnceInv, OncePerName, Walking
<1>6. CASE WalkedOn
  BY <1>6 DEF WalkedOn, OnceInv, OncePerName, Walking
<1>7. CASE PackedRead
  <2>1. \A n, g, h : g \in PackedValue(n) /\ h \in PackedValue(n) => g = h
    BY PackedValueOf DEF StoreInv, RefsType
  <2>2. OncePerName'
    <3>1. ASSUME NEW p \in out', NEW q \in out', p[1] = q[1] PROVE p = q
      <4> DEFINE added == {x \in (Ref \ Names(out)) \X Hash : x[2] \in PackedValue(x[1])}
      <4>1. out' = out \cup added
        BY <1>7 DEF PackedRead
      <4>2. \A x \in added : x[1] \notin Names(out) /\ x[2] \in PackedValue(x[1]) /\ x = <<x[1], x[2]>>
        OBVIOUS
      <4>3. \A x \in out : x[1] \in Names(out)
        OBVIOUS
      <4> HIDE DEF added, Names
      <4>4. CASE p \in out /\ q \in out
        BY <3>1, <4>4 DEF OnceInv, OncePerName
      <4>5. CASE p \in added /\ q \in added
        BY <2>1, <3>1, <4>2, <4>5
      <4> QED BY <3>1, <4>1, <4>2, <4>3, <4>4, <4>5
    <3> QED BY <3>1 DEF OncePerName
  <2>3. HEAD \notin Names(out')
    BY <1>2, <1>7 DEF PackedRead, OnceInv
  <2> QED BY <1>7, <2>2, <2>3 DEF PackedRead, OnceInv, Walking
<1>8. CASE HeadAsked
  BY <1>8 DEF HeadAsked, OnceInv, OncePerName, Walking
<1>9. CASE Followed
  BY <1>9 DEF Followed, OnceInv, OncePerName, Walking
<1>10. CASE Answered
  <2>1. PICK pairs : Given(pairs) /\
          \/ op = "head" /\ pc' = "done" /\ out' = pairs
          \/ /\ op # "head" /\ asked = HEAD /\ pc' = "done" /\ result' = "ok"
             /\ out' = out \cup {p \in pairs : HEAD \notin Names(out)}
          \/ /\ op # "head" /\ asked # HEAD /\ pc' = "entries"
             /\ out' = out \cup pairs /\ UNCHANGED <<todo, asked, cur>>
    BY <1>10 DEF Answered
  <2>2. pc = "resolve" /\ asked \notin Names(out)
    BY <1>10 DEF Answered, OnceInv
  <2>3. (\A p, q \in pairs : p = q) /\ \A p \in pairs : p[1] = asked
    BY <2>1, GivenIs
  <2>4. out' \subseteq out \cup pairs
    BY <2>1
  <2>5. OncePerName'
    <3>1. \A p \in out : p[1] # asked
      BY <2>2
    <3> HIDE DEF Names
    <3> QED BY <2>3, <2>4, <3>1 DEF OnceInv, OncePerName
  <2>6. CASE pc' = "done"
    BY <2>5, <2>6 DEF OnceInv, Walking
  <2>7. CASE /\ op # "head" /\ asked # HEAD /\ pc' = "entries"
             /\ out' = out \cup pairs /\ UNCHANGED <<todo, asked, cur>>
    <3>1. HEAD \notin Names(out')
      BY <2>2, <2>3, <2>7 DEF OnceInv
    <3>2. Ahead(todo') \cap Names(out') = {}
      BY <2>2, <2>3, <2>7 DEF OnceInv, Walking
    <3> QED BY <2>5, <2>7, <3>1, <3>2 DEF OnceInv
  <2> QED BY <2>1, <2>6, <2>7
<1> QED BY <1>1, <1>3, <1>4, <1>5, <1>6, <1>7, <1>8, <1>9, <1>10

(* The listed names and those still to be met never meet.                  *)
LEMMA OnceInvariant == Spec => [](StoreInv /\ OnceInv)
<1>1. Init => OnceInv
  BY DEF Init, OnceInv, OncePerName, Names, Walking
<1>2. StoreInv /\ StoreInv' /\ OnceInv /\ [Next]_vars => OnceInv'
  <2> SUFFICES ASSUME StoreInv, StoreInv', OnceInv, [Next]_vars PROVE OnceInv'
    OBVIOUS
  <2>1. CASE UNCHANGED reader
    BY <2>1 DEF reader, OnceInv, OncePerName, Names, Walking
  <2> QED BY <2>1, ReaderLists DEF Next, GitStep, Terminated, vars
<1> QED BY <1>1, <1>2, StoreInvariant, PTL DEF Spec

(* A ref is listed once, in any order of the reader's steps and of git's.   *)
THEOREM ListedOnce == Spec => []OncePerName
<1>1. OnceInv => OncePerName
  BY DEF OnceInv
<1> QED BY <1>1, OnceInvariant, PTL

-----------------------------------------------------------------------------
(* A ref neither listed nor still to be met is in packed-refs, where its value
   is one that it has had: the file was not there when it was looked for.   *)
Fallback(n) ==
  Settable(n) => PackedValue(n) \subseteq held[n] /\ (n \notin gone => PackedValue(n) # {})

Met(n) == n \in Names(out) \/ n \in Ahead(todo) \/ (pc = "resolve" /\ asked = n)

(* A value that some name has had.                                          *)
Had(h) == \E f \in File : h \in held[f]

Genuine(p) ==
  IF p[1] = HEAD THEN Had(p[2])
  ELSE p[1] \in Ref \cup Lock /\ (Settable(p[1]) => p[2] \in held[p[1]])

(* packed-refs has been read.                                               *)
Enumerated ==
  pc = "head" \/ (pc = "resolve" /\ asked = HEAD)
    \/ (pc = "done" /\ result = "ok" /\ ~(op = "list_refs" /\ Unreadable))

FreshInv ==
  op # "head" =>
    /\ Walking \/ pc = "packed" => \A n \in Ref \ Illegible : Met(n) \/ Fallback(n)
    /\ pc = "resolve" /\ asked # HEAD /\ cur # asked => asked \in Ref /\ loose[asked].t = "sym"
    /\ pc = "resolve" /\ cur \in Hash => Had(cur)
    /\ \A p \in out : Genuine(p)
    /\ Enumerated => \A n \in Ref \ (gone \cup Illegible) : loose[n].t # "sym" => n \in Names(out)

(* A ref that has a value and is not symbolic is one that git can set.      *)
LEMMA ValuesKnown ==
  ASSUME StoreInv
  PROVE  /\ \A f \in File : loose[f].t = "hash" => loose[f].h \in held[f]
         /\ \A f \in File : loose[f].t = "sym" /\ loose[f].to \in Hash => loose[f].to \in held[f]
         /\ \A n \in Ref : loose[n].t = "none" => Fallback(n)
         /\ \A n \in Ref \ gone : loose[n].t # "sym" => Settable(n)
<1>1. ValueTypes /\ History /\ \A n \in Ref : n \in File
  BY ValuesTyped DEF StoreInv, RefsType, File
<1>2. \A n \in Ref : loose[n].t \in {"none", "bad", "io", "hash", "sym"}
  BY <1>1, FileTypes DEF StoreInv, RefsType
<1>3. \A f \in File : loose[f].t = "hash" => loose[f].h \in held[f]
  BY <1>1 DEF ValueTypes, History
<1>4. \A f \in File : loose[f].t = "sym" /\ loose[f].to \in Hash => loose[f].to \in held[f]
  BY <1>1 DEF ValueTypes, History
<1>5. \A n \in Ref : loose[n].t = "none" => Fallback(n)
  BY <1>1 DEF ValueTypes, History, Fallback
<1>6. \A n \in Ref \ gone : loose[n].t # "sym" => Settable(n)
  BY <1>1, <1>2 DEF ValueTypes, History, Settable
<1> QED BY <1>3, <1>4, <1>5, <1>6

(* A packed-refs that is read as text has values only for names that are.   *)
LEMMA PackedNames ==
  ASSUME Files, ~Undecodable, NEW n \in Illegible
  PROVE  PackedValue(n) = {}
<1>1. CASE packed.t # "lines"
  BY <1>1 DEF PackedValue
<1>2. CASE packed.t = "lines"
  <2>1. \A i \in DOMAIN packed.lines : packed.lines[i].name # n
    BY <1>2 DEF Undecodable, Range
  <2> QED BY <1>2, <2>1 DEF PackedValue
<1> QED BY <1>1, <1>2

(* A step of git leaves a fallback one, and what was genuine.               *)
LEMMA GitKeepsFallback ==
  ASSUME StoreInv, StoreInv', GitStep
  PROVE  /\ \A n \in Ref : Fallback(n) => Fallback(n)'
         /\ \A h : Had(h) => Had(h)'
         /\ \A p : Genuine(p) => Genuine(p)'
         /\ \A n \in Ref : loose[n].t = "sym" => loose'[n].t = "sym"
         /\ \A n \in Ref : loose'[n].t # "sym" => loose[n].t # "sym"
<1>1. LooseSteps /\ PackedSteps /\ Recorded
  BY GitStores, GitKeepsTypes DEF StoreInv
<1>2. \A n \in Ref : n \in File
  BY DEF File
<1>3. ASSUME NEW n \in Ref, Fallback(n) PROVE Fallback(n)'
  <2> SUFFICES ASSUME Settable(n)'
               PROVE  PackedValue(n)' \subseteq held'[n] /\ (n \notin gone' => PackedValue(n)' # {})
    BY DEF Fallback
  <2>1. Settable(n)
    BY <1>1 DEF LooseSteps, Settable
  <2>2. PackedValue(n) \subseteq held[n] /\ (n \notin gone => PackedValue(n) # {})
    BY <1>3, <2>1 DEF Fallback
  <2>3. held[n] \subseteq held'[n] /\ gone \subseteq gone' /\ deleting' \subseteq gone'
    BY <1>1, <1>2 DEF Recorded
  <2>4. CASE PackedValue(n)' = PackedValue(n)
    BY <2>2, <2>3, <2>4
  <2>5. CASE loose[n].t = "hash" /\ PackedValue(n)' = {loose[n].h}
    BY <1>2, <2>3, <2>5, ValuesKnown
  <2>6. CASE n \in deleting' /\ PackedValue(n)' = {}
    BY <2>3, <2>6
  <2> QED BY <1>1, <2>4, <2>5, <2>6 DEF PackedSteps
<1>4. ASSUME NEW h, Had(h) PROVE Had(h)'
  BY <1>1, <1>4 DEF Had, Recorded
<1>5. ASSUME NEW p, Genuine(p) PROVE Genuine(p)'
  <2>1. CASE p[1] = HEAD
    BY <1>4, <1>5, <2>1 DEF Genuine
  <2>2. CASE p[1] # HEAD
    <3>1. p[1] \in Ref \cup Lock /\ (Settable(p[1]) => p[2] \in held[p[1]])
      BY <1>5, <2>2 DEF Genuine
    <3>2. Settable(p[1])' => Settable(p[1])
      <4>1. CASE p[1] \in Ref
        BY <1>1, <4>1 DEF LooseSteps, Settable
      <4>2. CASE p[1] \in Lock
        BY <4>2, NamesDiffer DEF StoreInv, Steady
      <4> QED BY <3>1, <4>1, <4>2
    <3>3. held[p[1]] \subseteq held'[p[1]]
      BY <1>1, <3>1 DEF Recorded, File
    <3> QED BY <2>2, <3>1, <3>2, <3>3 DEF Genuine
  <2> QED BY <2>1, <2>2
<1>6. \A n \in Ref : loose[n].t = "sym" => loose'[n].t = "sym"
  BY <1>1 DEF LooseSteps, Settable
<1>7. \A n \in Ref : loose'[n].t # "sym" => loose[n].t # "sym"
  BY <1>6
<1> QED BY <1>3, <1>4, <1>5, <1>6, <1>7

(* git, moving a ref from its file to packed-refs or back, hides it from
   no reader: the value it has in the meantime is recorded.                *)
LEMMA GitKeepsFresh ==
  ASSUME StoreInv, StoreInv', FreshInv, GitStep
  PROVE  FreshInv'
<1>1. UNCHANGED <<op, pc, todo, asked, cur, out, result>> /\ pc # "done"
  BY DEF GitStep, reader
<1>2. gone \subseteq gone'
  BY GitKeepsTypes DEF StoreInv, Recorded
<1>3. Walking' = Walking /\ (Enumerated' <=> Enumerated) /\ \A n : Met(n)' <=> Met(n)
  BY <1>1 DEF Walking, Enumerated, Met, Names
<1>4. SUFFICES ASSUME op # "head" PROVE FreshInv'
  BY <1>1 DEF FreshInv
<1>5. (Walking \/ pc = "packed" => \A n \in Ref \ Illegible : Met(n) \/ Fallback(n))'
  BY <1>1, <1>3, <1>4, GitKeepsFallback DEF FreshInv
<1>6. (pc = "resolve" /\ asked # HEAD /\ cur # asked => asked \in Ref /\ loose[asked].t = "sym")'
  BY <1>1, <1>4, GitKeepsFallback DEF FreshInv
<1>7. (pc = "resolve" /\ cur \in Hash => Had(cur))'
  <2>1. Had(cur) => Had(cur)'
    BY <1>1, GitKeepsFallback DEF Had
  <2> QED BY <1>1, <1>4, <2>1 DEF FreshInv
<1>8. (\A p \in out : Genuine(p))'
  BY <1>1, <1>4, GitKeepsFallback DEF FreshInv
<1>9. (Enumerated => \A n \in Ref \ (gone \cup Illegible) : loose[n].t # "sym" => n \in Names(out))'
  BY <1>1, <1>2, <1>3, <1>4, GitKeepsFallback DEF FreshInv, Names
<1> QED BY <1>5, <1>6, <1>7, <1>8, <1>9 DEF FreshInv

(* What resolve_ref answers is a value that the name asked has had.         *)
LEMMA GivenIsGenuine ==
  ASSUME StoreInv, FreshInv, op # "head", pc = "resolve", NEW pairs, Given(pairs), NEW p \in pairs
  PROVE  p[1] = asked /\ Genuine(p)
<1>1. PICK h \in Hash : p = <<asked, h>> /\ (cur = h \/ (cur \in File /\ loose[cur] = Direct(h)))
  BY DEF Given
<1>2. asked \in File /\ \A f \in File : f \notin Hash
  BY NamesDiffer DEF StoreInv, RefsType
<1>3. cur \in File => loose[cur] = Direct(h) /\ h \in held[cur]
  BY <1>1, <1>2, ValuesKnown DEF Direct
<1>4. CASE asked = HEAD
  <2>1. Had(h)
    BY <1>1, <1>3 DEF FreshInv, Had
  <2> QED BY <1>1, <1>4, <2>1 DEF Genuine
<1>5. CASE asked # HEAD
  <2>1. asked \in Ref \cup Lock
    BY <1>2, <1>5 DEF File
  <2>2. CASE cur = asked
    BY <1>1, <1>2, <1>3, <1>5, <2>1, <2>2 DEF Genuine
  <2>3. CASE cur # asked
    BY <1>1, <1>5, <2>1, <2>3 DEF FreshInv, Genuine, Settable
  <2> QED BY <2>2, <2>3
<1> QED BY <1>1, <1>4, <1>5

(* The reader lists each name it meets, and leaves to packed-refs only those
   that are there.                                                         *)
LEMMA ReaderKeepsFresh ==
  ASSUME StoreInv, StoreInv', FreshInv, ReaderStep
  PROVE  FreshInv'
<1> SUFFICES ASSUME op # "head" PROVE FreshInv'
  BY ReaderSteps DEF FreshInv
<1>1. /\ op' = op /\ UNCHANGED <<loose, packed, refsDir, held, gone>>
      /\ \/ Stopped \/ Started \/ RootRead \/ EntryTaken \/ WalkedOn
         \/ PackedRead \/ HeadAsked \/ Followed \/ Answered
  BY ReaderSteps
<1>2. /\ \A n : PackedValue(n)' = PackedValue(n)
      /\ \A n : Settable(n)' <=> Settable(n)
      /\ \A n : Fallback(n)' <=> Fallback(n)
      /\ \A h : Had(h)' <=> Had(h)
      /\ \A p : Genuine(p)' <=> Genuine(p)
      /\ Unreadable' <=> Unreadable
  <2>1. \A n : PackedValue(n)' = PackedValue(n)
    BY <1>1, ValuesStay
  <2>2. (\A h : Had(h)' <=> Had(h)) /\ \A n : Settable(n)' <=> Settable(n)
    BY <1>1 DEF Had, Settable
  <2>3. \A n : Fallback(n)' <=> Fallback(n)
    BY <1>1, <2>1, <2>2 DEF Fallback
  <2>4. \A p : Genuine(p)' <=> Genuine(p)
    BY <1>1, <2>2 DEF Genuine
  <2> QED BY <1>1, <2>1, <2>2, <2>3, <2>4 DEF Unreadable
<1>3. /\ Placed /\ Placed' /\ asked \in File /\ asked' \in File /\ cur \in File \cup Hash
      /\ Ahead(todo) \subseteq Ref \cup Lock
      /\ todo = << >> => Ahead(todo) = {}
  BY ShapeTypes DEF StoreInv, RefsType
<1>4. HEAD \notin Ref \cup Lock /\ HEAD \notin Hash
  BY NamesDiffer
<1>5. CASE Stopped
  BY <1>1, <1>2, <1>5 DEF Stopped, FreshInv, Enumerated, Walking
<1>6. CASE Started
  <2>1. out' = {} /\ pc' = "refs"
    BY <1>3, <1>6 DEF Started, Placed
  <2> QED BY <2>1 DEF FreshInv, Enumerated, Walking
<1>7. CASE RootRead
  <2>1. \A n \in Ref : n \in Ahead(todo') \/ Fallback(n)
    BY <1>7, ValuesKnown DEF RootRead
  <2> QED BY <1>1, <1>2, <1>7, <2>1 DEF RootRead, FreshInv, Enumerated, Walking, Met
<1>8. CASE EntryTaken
  <2>1. Walking /\ ~Enumerated' /\ cur' \notin Hash
    BY <1>3, <1>4, <1>8, NamesDiffer DEF EntryTaken, Walking, Enumerated
  <2>2. \A n \in Ref \ Illegible : n \in Names(out) \/ n \in Ahead(todo) \/ Fallback(n)
    BY <1>8, <2>1 DEF FreshInv, Met, EntryTaken
  <2>3. \A n \in Ref \ Illegible : Met(n)' \/ Fallback(n)
    BY <1>8, <2>2 DEF EntryTaken, Met, Names
  <2> QED BY <1>1, <1>2, <1>8, <2>1, <2>3 DEF EntryTaken, FreshInv
<1>9. CASE WalkedOn
  <2>1. \A n \in Ref \ Illegible : n \in Names(out) \/ n \in Ahead(todo) \/ Fallback(n)
    BY <1>9 DEF FreshInv, Met, WalkedOn, Walking
  <2>2. \A n \in Ref \ Illegible : Met(n)' \/ Fallback(n)
    BY <1>9, <2>1, ValuesKnown DEF WalkedOn, Met, Names
  <2> QED BY <1>1, <1>2, <1>9, <2>2 DEF WalkedOn, FreshInv, Enumerated
<1>10. CASE PackedRead
  <2> DEFINE added == {p \in (Ref \ Names(out)) \X Hash : p[2] \in PackedValue(p[1])}
  <2>1. todo = << >> /\ Ahead(todo) = {} /\ pc = "packed" /\ pc' = "head" /\ out' = out \cup added
    BY <1>3, <1>10 DEF PackedRead, Placed, Walking
  <2>2. \A n \in Ref \ Illegible : n \in Names(out) \/ Fallback(n)
    BY <2>1 DEF FreshInv, Met
  <2>3. ASSUME NEW p \in added PROVE Genuine(p)
    <3>1. p[1] \in Ref /\ p[1] \notin Names(out) /\ p[2] \in PackedValue(p[1])
      OBVIOUS
    <3>2. p[1] \notin Illegible
      BY <1>1, <1>10, <3>1, PackedNames DEF PackedRead, StoreInv, RefsType
    <3> QED BY <1>4, <2>2, <3>1, <3>2 DEF Fallback, Genuine
  <2>4. ASSUME NEW n \in Ref \ (gone \cup Illegible), loose[n].t # "sym" PROVE n \in Names(out')
    <3>1. Settable(n)
      BY <2>4, ValuesKnown
    <3>2. CASE n \in Names(out)
      BY <2>1, <3>2 DEF Names
    <3>3. CASE n \notin Names(out)
      <4>1. PICK h \in PackedValue(n) : TRUE
        BY <2>2, <3>1, <3>3 DEF Fallback
      <4>2. h \in Hash
        BY PackedValueOf DEF StoreInv, RefsType
      <4>3. <<n, h>> \in out'
        BY <2>1, <3>3, <4>1, <4>2
      <4> QED BY <4>3 DEF Names
    <3> QED BY <3>2, <3>3
  <2>5. \A p \in out' : Genuine(p)
    BY <2>1, <2>3 DEF FreshInv
  <2> HIDE DEF added
  <2> QED BY <1>1, <1>2, <2>1, <2>4, <2>5 DEF FreshInv, Enumerated, Walking, Names
<1>11. CASE HeadAsked
  BY <1>1, <1>2, <1>4, <1>11 DEF HeadAsked, FreshInv, Enumerated, Walking, Names
<1>12. CASE Followed
  <2>1. (Walking' <=> Walking) /\ (Enumerated' <=> Enumerated) /\ \A n : Met(n)' <=> Met(n)
    BY <1>1, <1>2, <1>12 DEF Followed, Walking, Enumerated, Met, Names
  <2>2. cur' \in Hash => Had(cur')
    BY <1>12, ValuesKnown DEF Followed, Had
  <2>3. asked # HEAD => asked \in Ref /\ loose[asked].t = "sym"
    <3>1. CASE cur = asked
      <4>1. asked \notin Lock
        BY <1>12, <3>1, NamesDiffer DEF Followed, StoreInv, Steady, Settable
      <4> QED BY <1>3, <1>12, <3>1, <4>1 DEF Followed, File
    <3>2. CASE cur # asked
      BY <1>12, <3>2 DEF Followed, FreshInv
    <3> QED BY <3>1, <3>2
  <2>4. out' = out /\ pc' = pc /\ asked' = asked
    BY <1>12 DEF Followed
  <2> QED BY <1>1, <1>2, <2>1, <2>2, <2>3, <2>4 DEF FreshInv, Names, Had
<1>13. CASE Answered
  <2>1. PICK pairs : /\ pc = "resolve" /\ Given(pairs)
                     /\ \/ /\ asked = HEAD /\ pc' = "done" /\ result' = "ok"
                           /\ out' = out \cup {p \in pairs : HEAD \notin Names(out)}
                        \/ /\ asked # HEAD /\ pc' = "entries"
                           /\ out' = out \cup pairs /\ UNCHANGED <<todo, asked, cur>>
    BY <1>13 DEF Answered
  <2>2. \A p \in out' : Genuine(p)
    BY <2>1, GivenIsGenuine DEF FreshInv
  <2>3. CASE asked = HEAD /\ pc' = "done"
    <3>1. Enumerated /\ out \subseteq out'
      BY <2>1, <2>3 DEF Enumerated
    <3>2. \A n \in Ref \ (gone \cup Illegible) : loose[n].t # "sym" => n \in Names(out')
      BY <3>1 DEF FreshInv, Names
    <3> QED BY <1>1, <1>2, <2>2, <2>3, <3>2 DEF FreshInv, Walking, Names
  <2>4. CASE asked # HEAD /\ pc' = "entries" /\ out' = out \cup pairs /\ UNCHANGED <<todo, asked, cur>>
    <3>1. Walking /\ ~Enumerated'
      BY <2>1, <2>4 DEF Walking, Enumerated
    <3>2. asked \in Names(out') \/ (asked \in Ref => Fallback(asked))
      <4>1. CASE pairs = {} /\ cur \in File /\ loose[cur].t \in {"none", "bad"}
        <5>1. CASE cur = asked
          BY <4>1, <5>1, ValuesKnown DEF Fallback, Settable
        <5>2. CASE cur # asked
          BY <2>1, <2>4, <5>2 DEF FreshInv, Fallback, Settable
        <5> QED BY <5>1, <5>2
      <4>2. CASE \E h \in Hash : pairs = {<<asked, h>>}
        BY <2>4, <4>2 DEF Names
      <4> QED BY <2>1, <4>1, <4>2 DEF Given
    <3>3. \A n \in Ref \ Illegible : Met(n)' \/ Fallback(n)
      <4>1. ASSUME NEW n \in Ref \ Illegible, n # asked PROVE Met(n)' \/ Fallback(n)
        BY <2>4, <3>1, <4>1 DEF FreshInv, Met, Names
      <4> QED BY <3>2, <4>1 DEF Met
    <3> QED BY <1>1, <1>2, <2>2, <2>4, <3>1, <3>3 DEF FreshInv
  <2> QED BY <2>1, <2>3, <2>4
<1> QED BY <1>1, <1>5, <1>6, <1>7, <1>8, <1>9, <1>10, <1>11, <1>12, <1>13

(* Whatever git does meanwhile, what is not yet met can still be.          *)
LEMMA FreshInvariant == Spec => [](StoreInv /\ FreshInv)
<1>1. Init => FreshInv
  <2> SUFFICES ASSUME Init PROVE FreshInv
    OBVIOUS
  <2> QED BY DEF Init, FreshInv, Walking, Enumerated
<1>2. StoreInv /\ StoreInv' /\ FreshInv /\ [Next]_vars => FreshInv'
  <2> SUFFICES ASSUME StoreInv, StoreInv', FreshInv, [Next]_vars PROVE FreshInv'
    OBVIOUS
  <2>1. CASE UNCHANGED vars
    <3>1. UNCHANGED <<loose, packed, refsDir, op, pc, todo, asked, cur, out, result, held, gone>>
      BY <2>1 DEF vars, files, reader
    <3>2. \A n : PackedValue(n)' = PackedValue(n)
      BY <3>1, ValuesStay
    <3> QED BY <3>1, <3>2 DEF FreshInv, Walking, Enumerated, Met, Names, Fallback, Genuine, Had,
                              Settable, Unreadable
  <2> QED BY <2>1, ReaderKeepsFresh, GitKeepsFresh DEF Next, Terminated
<1> QED BY <1>1, <1>2, StoreInvariant, PTL DEF Spec

(* A ref that is not symbolic, and whose name is UTF-8, is listed if it exists
   all the while it is looked for, with a value it had: packing it, from a
   loose file not yet read to a packed file not yet read, never hides it.    *)
THEOREM NoRefLost == Spec => []RefKept
<1>1. StoreInv /\ FreshInv => RefKept
  <2> SUFFICES ASSUME StoreInv, FreshInv, Listing, op = "list_refs" => ~Unreadable,
                      NEW n \in Ref \ (gone \cup Illegible), loose[n].t # "sym"
               PROVE  \E h \in held[n] : <<n, h>> \in out
    BY DEF RefKept
  <2>1. n \in Names(out)
    BY DEF FreshInv, Enumerated, Listing
  <2>2. PICK p \in out : p[1] = n
    BY <2>1 DEF Names
  <2>3. p = <<n, p[2]>>
    BY <2>2 DEF StoreInv, RefsType
  <2>4. Genuine(p) /\ n # HEAD /\ Settable(n)
    BY ValuesKnown, NamesDiffer DEF FreshInv, Listing
  <2>5. p[2] \in held[n]
    BY <2>2, <2>4 DEF Genuine
  <2> QED BY <2>2, <2>3, <2>5
<1> QED BY <1>1, FreshInvariant, PTL

(* No value is invented: each listed is one that its name has had, or, for
   HEAD, that the name it leads to has had.                                  *)
THEOREM NoneInvented == Spec => []NoPhantom
<1>1. StoreInv /\ FreshInv => NoPhantom
  <2> SUFFICES ASSUME StoreInv, FreshInv, Listing, NEW p \in out
               PROVE  IF p[1] = HEAD THEN p[2] \in UNION Range(held)
                      ELSE loose[p[1]].t \in {"none", "hash"} => p[2] \in held[p[1]]
    BY DEF NoPhantom
  <2>1. Genuine(p)
    BY DEF FreshInv, Listing
  <2>2. Had(p[2]) => p[2] \in UNION Range(held)
    BY DEF Had, Range, StoreInv, RefsType
  <2> QED BY <2>1, <2>2 DEF Genuine, Settable
<1> QED BY <1>1, FreshInvariant, PTL

-----------------------------------------------------------------------------
(* git writes only to a store that is plain while the checked enumeration runs;
   before its first command there is nothing of its own in the store.        *)
Quiet == (\A n \in Ref : loose[LockOf[n]].t = "none") /\ prune = {} /\ deleting = {}

QuietInv ==
  /\ ~Plain \/ op # "list_refs_checked" => writes = MaxWrites /\ Quiet
  /\ writes = 0 => Quiet

(* The store is at rest: git has not written to it.                         *)
Resting == op = "list_refs_checked" /\ AtRest

(* After a step of git the store is not, or no longer, at rest.             *)
LEMMA GitUnrests ==
  ASSUME StoreInv, QuietInv, GitStep
  PROVE  Plain' /\ writes' # 0 /\ op' = op /\ op = "list_refs_checked"
<1>1. LooseSteps /\ PackedSteps /\ op' = op /\ writes \in 0..MaxWrites
  BY GitStores DEF StoreInv, RefsType, GitStep, reader
<1>2. writes' \in {writes, writes + 1}
  BY DEF GitStep, LockRef, UpdateRef, PackRefs, PruneLoose, DeleteRef, DeleteLoose, SwitchHead, Command
<1>3. Plain /\ op = "list_refs_checked" /\ writes' # 0
  <2>1. CASE Quiet
    <3>1. writes < MaxWrites /\ writes' = writes + 1
      <4>1. ASSUME NEW n \in Ref, UpdateRef(n) \/ DeleteLoose(n) PROVE FALSE
        BY <2>1, <4>1 DEF UpdateRef, DeleteLoose, Quiet
      <4> QED BY <2>1, <4>1 DEF GitStep, LockRef, PackRefs, PruneLoose, DeleteRef, SwitchHead, Command, Quiet
    <3> QED BY <1>1, <3>1, RefsAssumption DEF QuietInv
  <2>2. CASE ~Quiet
    BY <1>1, <1>2, <2>2, RefsAssumption DEF QuietInv
  <2> QED BY <2>1, <2>2
<1>4. Plain'
  <2>1. refsDir' = "dir" /\ packed'.t # "io"
    BY <1>1, <1>3 DEF Plain, LooseSteps, PackedSteps
  <2>2. Clean(packed')
    BY <1>1, <1>3 DEF Plain, Clean, PackedSteps
  <2>3. \A n \in Ref : loose'[n].t \in {"none", "hash"}
    BY <1>1, <1>3 DEF Plain, LooseSteps, Settable
  <2>4. loose'[HEAD].t \in {"none", "hash", "sym"}
    <3>1. CASE loose'[HEAD] = loose[HEAD]
      BY <1>3, <3>1 DEF Plain
    <3>2. ASSUME NEW n \in Ref, loose'[HEAD] = [t |-> "sym", to |-> n] PROVE loose'[HEAD].t = "sym"
      BY <3>2
    <3> QED BY <1>1, <3>1, <3>2 DEF LooseSteps
  <2> QED BY <2>1, <2>2, <2>3, <2>4 DEF Plain, Clean
<1> QED BY <1>1, <1>3, <1>4

(* The value that a name leads to at once is listed for it.                 *)
Shown(f) ==
  /\ loose[f].t = "hash" => <<f, loose[f].h>> \in out
  /\ loose[f].t = "sym" /\ loose[f].to \in Hash => <<f, loose[f].to>> \in out

Late == pc \in {"entries", "packed", "head", "resolve"}

RestInv ==
  Resting =>
    /\ Late => \A n \in Ref \ Illegible : Shown(n) \/ n \in Ahead(todo) \/ (pc = "resolve" /\ asked = n)
    /\ pc = "resolve" /\ cur # asked =>
         loose[asked].t = "sym" /\ (loose[asked].to \in Hash => cur = loose[asked].to)
    /\ Walking \/ pc = "packed" => \A p \in out : loose[p[1]].t # "none"
    /\ Enumerated => \A n \in Ref, h \in Hash :
                       loose[n].t = "none" /\ h \in PackedValue(n) => <<n, h>> \in out
    /\ pc = "done" /\ result = "ok" => \A f \in (Ref \ Illegible) \cup {HEAD} : Shown(f)

(* At rest, what resolve_ref answers for a name is what it leads to.        *)
LEMMA GivenIsShown ==
  ASSUME StoreInv, RestInv, Resting, pc = "resolve", NEW pairs, Given(pairs)
  PROVE  /\ loose[asked].t = "hash" => <<asked, loose[asked].h>> \in pairs
         /\ loose[asked].t = "sym" /\ loose[asked].to \in Hash => <<asked, loose[asked].to>> \in pairs
         /\ loose[asked].t = "none" => pairs = {}
<1>1. asked \in File /\ \A f \in File : f \notin Hash
  BY NamesDiffer DEF StoreInv, RefsType
<1>2. CASE cur = asked
  <2>1. CASE pairs = {} /\ loose[asked].t \in {"none", "bad"}
    BY <2>1
  <2>2. ASSUME NEW h \in Hash, pairs = {<<asked, h>>}, loose[asked] = Direct(h)
        PROVE  pairs = {<<asked, loose[asked].h>>} /\ loose[asked].t = "hash"
    BY <2>2 DEF Direct
  <2>3. cur \notin Hash
    BY <1>1, <1>2
  <2> QED BY <1>2, <2>1, <2>2, <2>3 DEF Given
<1>3. CASE cur # asked
  <2>1. loose[asked].t = "sym" /\ (loose[asked].to \in Hash => cur = loose[asked].to)
    BY <1>3 DEF RestInv
  <2> QED BY <1>1, <2>1 DEF Given
<1> QED BY <1>2, <1>3

(* git leaves quiet alone what it may not write to.                         *)
LEMMA QuietStays ==
  ASSUME StoreInv, QuietInv, [Next]_vars
  PROVE  QuietInv'
<1>1. CASE GitStep
  BY <1>1, GitUnrests DEF QuietInv
<1>2. CASE UNCHANGED <<loose, packed, refsDir, prune, deleting, writes, op>>
  BY <1>2 DEF QuietInv, Quiet, Plain
<1>3. CASE ReaderStep
  BY <1>2, <1>3, ReaderSteps
<1>4. CASE UNCHANGED vars
  BY <1>2, <1>4 DEF vars, files, reader, git
<1> QED BY <1>1, <1>3, <1>4 DEF Next, Terminated

(* At rest, the reader passes over no value that a name has.                *)
LEMMA ReaderKeepsRest ==
  ASSUME StoreInv, StoreInv', OnceInv, RestInv, ReaderStep
  PROVE  RestInv'
<1>1. /\ op' = op /\ UNCHANGED <<loose, packed, refsDir, writes>>
      /\ \/ Stopped \/ Started \/ RootRead \/ EntryTaken \/ WalkedOn
         \/ PackedRead \/ HeadAsked \/ Followed \/ Answered
  BY ReaderSteps
<1>2. /\ \A n : PackedValue(n)' = PackedValue(n)
      /\ Resting' <=> Resting
      /\ Unreadable' <=> Unreadable
  BY <1>1, ValuesStay DEF Resting, AtRest, Plain, Unreadable
<1> SUFFICES ASSUME Resting PROVE RestInv'
  BY <1>2 DEF RestInv
<1>3. /\ Placed /\ Placed' /\ asked \in File /\ asked' \in File /\ cur \in File \cup Hash
      /\ Ahead(todo) \subseteq Ref \cup Lock /\ op = "list_refs_checked"
      /\ todo = << >> => Ahead(todo) = {}
  BY ShapeTypes DEF StoreInv, RefsType, Resting
<1>4. HEAD \notin Ref \cup Lock /\ HEAD \notin Hash /\ File \cap Hash = {}
  BY NamesDiffer
<1>5. \A f : Shown(f) /\ out \subseteq out' => Shown(f)'
  BY <1>1 DEF Shown
<1>6. \A f : loose[f].t = "none" => Shown(f)'
  BY <1>1 DEF Shown
<1>7. CASE Stopped
  <2>1. pc' = "done" /\ result' = "err"
    BY <1>3, <1>7 DEF Stopped
  <2> QED BY <2>1 DEF RestInv, Late, Walking, Enumerated
<1>8. CASE Started
  <2>1. pc' = "refs"
    BY <1>3, <1>8 DEF Started
  <2> QED BY <2>1 DEF RestInv, Late, Walking, Enumerated
<1>9. CASE RootRead
  <2>1. pc' = "entries" /\ out' = {}
    BY <1>3, <1>9 DEF RootRead, Placed
  <2>2. \A n \in Ref \ Illegible : n \in Ahead(todo') \/ Shown(n)'
    BY <1>6, <1>9 DEF RootRead
  <2> QED BY <2>1, <2>2 DEF RestInv, Enumerated
<1>10. CASE EntryTaken
  <2>1. Late /\ Walking /\ pc' = "resolve" /\ cur' = asked' /\ out' = out /\ asked' # HEAD
    BY <1>3, <1>4, <1>10 DEF EntryTaken, Late, Walking
  <2>2. \A n \in Ref \ Illegible : Shown(n)' \/ n \in Ahead(todo') \/ asked' = n
    BY <1>5, <1>10, <2>1 DEF RestInv, EntryTaken
  <2>3. \A p \in out' : loose'[p[1]].t # "none"
    BY <1>1, <2>1 DEF RestInv
  <2> QED BY <2>1, <2>2, <2>3 DEF RestInv, Enumerated
<1>11. CASE WalkedOn
  <2>1. Late /\ Walking /\ pc' \in {"entries", "packed"} /\ out' = out /\ pc = "entries"
    BY <1>11 DEF WalkedOn, Late, Walking
  <2>2. \A n \in Ref \ Illegible : Shown(n)' \/ n \in Ahead(todo')
    BY <1>5, <1>6, <1>11, <2>1 DEF RestInv, WalkedOn
  <2>3. \A p \in out' : loose'[p[1]].t # "none"
    BY <1>1, <2>1 DEF RestInv
  <2> QED BY <2>1, <2>2, <2>3 DEF RestInv, Enumerated
<1>12. CASE PackedRead
  <2> DEFINE added == {p \in (Ref \ Names(out)) \X Hash : p[2] \in PackedValue(p[1])}
  <2>1. todo = << >> /\ Ahead(todo) = {} /\ pc = "packed" /\ pc' = "head" /\ out' = out \cup added
    BY <1>3, <1>12 DEF PackedRead, Placed, Walking
  <2>2. \A n \in Ref \ Illegible : Shown(n)'
    BY <1>5, <2>1 DEF RestInv, Late
  <2>3. ASSUME NEW n \in Ref, NEW h \in Hash, loose[n].t = "none", h \in PackedValue(n)
        PROVE  <<n, h>> \in out'
    <3>1. n \notin Names(out)
      BY <2>1, <2>3 DEF RestInv, Names
    <3> QED BY <2>1, <2>3, <3>1
  <2> HIDE DEF added
  <2> QED BY <1>1, <1>2, <2>1, <2>2, <2>3 DEF RestInv, Walking
<1>13. CASE HeadAsked
  <2>1. todo' = todo /\ pc = "head" /\ pc' = "resolve" /\ out' = out /\ asked' = HEAD /\ cur' = HEAD
    BY <1>13 DEF HeadAsked
  <2>2. \A n \in Ref \ Illegible : Shown(n)' \/ n \in Ahead(todo')
    BY <1>5, <2>1 DEF RestInv, Late
  <2> QED BY <1>1, <1>2, <2>1, <2>2 DEF RestInv, Walking, Enumerated
<1>14. CASE Followed
  <2>1. (Late' <=> Late) /\ (Walking' <=> Walking) /\ (Enumerated' <=> Enumerated)
    BY <1>1, <1>2, <1>14 DEF Followed, Late, Walking, Enumerated
  <2>2. pc = "resolve" /\ pc' = pc /\ out' = out /\ asked' = asked /\ todo' = todo
    BY <1>14 DEF Followed
  <2>3. \A n \in Ref \ Illegible : Late => Shown(n)' \/ n \in Ahead(todo') \/ asked' = n
    BY <1>5, <2>2 DEF RestInv
  <2>4. loose[asked].t = "sym" /\ (loose[asked].to \in Hash => cur' = loose[asked].to)
    <3>1. CASE cur = asked
      BY <1>14, <3>1 DEF Followed
    <3>2. CASE cur # asked
      BY <1>4, <1>14, <2>2, <3>2 DEF Followed, RestInv
    <3> QED BY <3>1, <3>2
  <2> QED BY <1>1, <1>2, <2>1, <2>2, <2>3, <2>4 DEF RestInv
<1>15. CASE Answered
  <2>1. PICK pairs : /\ pc = "resolve" /\ Given(pairs)
                     /\ \/ /\ asked = HEAD /\ pc' = "done"
                           /\ out' = out \cup {p \in pairs : HEAD \notin Names(out)}
                        \/ /\ asked # HEAD /\ pc' = "entries"
                           /\ out' = out \cup pairs /\ UNCHANGED <<todo, asked, cur>>
    BY <1>3, <1>15 DEF Answered
  <2>2. out' = out \cup pairs
    BY <2>1 DEF OnceInv
  <2>3. \A f : f = asked => Shown(f)'
    <3>1. /\ loose[asked].t = "hash" => <<asked, loose[asked].h>> \in out'
          /\ loose[asked].t = "sym" /\ loose[asked].to \in Hash => <<asked, loose[asked].to>> \in out'
      BY <2>1, <2>2, GivenIsShown
    <3> QED BY <1>1, <3>1 DEF Shown
  <2>4. \A n \in Ref \ Illegible : Shown(n)' \/ n \in Ahead(todo)
    BY <1>5, <2>1, <2>2, <2>3 DEF RestInv, Late
  <2>5. CASE asked = HEAD /\ pc' = "done"
    <3>1. Ahead(todo) = {}
      BY <1>3, <2>1, <2>5 DEF Placed, Walking
    <3>2. Enumerated
      BY <2>1, <2>5 DEF Enumerated
    <3>3. \A n \in Ref, h \in Hash :
            loose'[n].t = "none" /\ h \in PackedValue(n)' => <<n, h>> \in out'
      BY <1>1, <1>2, <2>2, <3>2 DEF RestInv
    <3> QED BY <2>3, <2>4, <2>5, <3>1, <3>3 DEF RestInv, Late, Walking
  <2>6. CASE asked # HEAD /\ pc' = "entries" /\ UNCHANGED <<todo, asked, cur>>
    <3>1. \A p \in pairs : loose[p[1]].t # "none"
      <4>1. pairs # {} => loose[asked].t # "none"
        BY <2>1, GivenIsShown
      <4>2. \A p \in pairs : p[1] = asked
        BY <2>1, GivenIs
      <4> QED BY <4>1, <4>2
    <3>2. \A p \in out' : loose'[p[1]].t # "none"
      BY <1>1, <2>1, <2>2, <2>6, <3>1 DEF RestInv, Walking
    <3> QED BY <2>4, <2>6, <3>2 DEF RestInv, Enumerated
  <2> QED BY <2>1, <2>5, <2>6
<1> QED BY <1>1, <1>7, <1>8, <1>9, <1>10, <1>11, <1>12, <1>13, <1>14, <1>15

(* The store is quiet and read in full, while it is at rest.                *)
LEMMA RestInvariant == Spec => [](StoreInv /\ QuietInv /\ RestInv)
<1>1. Init => QuietInv /\ RestInv
  <2> SUFFICES ASSUME Init PROVE QuietInv /\ RestInv
    OBVIOUS
  <2>1. QuietInv
    <3>1. \A n \in Ref : loose[LockOf[n]].t = "none"
      <4> SUFFICES ASSUME NEW n \in Ref PROVE loose[LockOf[n]].t = "none"
        OBVIOUS
      <4>1. LockOf[n] \in File /\ LockOf[n] \in Lock
        BY NamesDiffer DEF File, Lock
      <4> QED BY <4>1 DEF Init, None
    <3>2. writes = IF Plain /\ op = "list_refs_checked" THEN 0 ELSE MaxWrites
      BY DEF Init
    <3> QED BY <3>1, <3>2 DEF Init, QuietInv, Quiet
  <2>2. RestInv
    BY DEF Init, RestInv, Late, Walking, Enumerated
  <2> QED BY <2>1, <2>2
<1>2. StoreInv /\ StoreInv' /\ OnceInv /\ QuietInv /\ RestInv /\ [Next]_vars => QuietInv' /\ RestInv'
  <2> SUFFICES ASSUME StoreInv, StoreInv', OnceInv, QuietInv, RestInv, [Next]_vars
               PROVE  QuietInv' /\ RestInv'
    OBVIOUS
  <2>1. QuietInv'
    BY QuietStays
  <2>2. CASE UNCHANGED vars
    <3>1. UNCHANGED <<loose, packed, refsDir, op, pc, todo, asked, cur, out, result, writes>>
      BY <2>2 DEF vars, files, reader, git
    <3>2. \A n : PackedValue(n)' = PackedValue(n)
      BY <3>1, ValuesStay
    <3> QED BY <2>1, <3>1, <3>2 DEF RestInv, Resting, AtRest, Plain, Late, Walking, Enumerated, Shown, Unreadable
  <2>3. CASE GitStep
    <3>1. ~Resting'
      BY <2>3, GitUnrests DEF Resting, AtRest
    <3> QED BY <2>1, <3>1 DEF RestInv
  <2> QED BY <2>1, <2>2, <2>3, ReaderKeepsRest DEF Next, Terminated
<1> QED BY <1>1, <1>2, OnceInvariant, StoreInvariant, PTL DEF Spec

-----------------------------------------------------------------------------
(* What cannot be read has not been passed over by the checked enumeration of
   a store at rest.                                                         *)
LoudInv ==
  Resting =>
    /\ Late => refsDir # "broken"
    /\ Walking /\ refsDir = "partly" => Dir \ NotUtf8 \subseteq Left(todo)
    /\ Late /\ ~Walking => refsDir # "partly"
    /\ pc = "head" \/ (pc = "resolve" /\ asked = HEAD) => packed.t # "io" /\ ~Undecodable
    /\ Late => \A n \in Ref \ Illegible : Unread(loose[n]) =>
                 n \in Ahead(todo) \/ (pc = "resolve" /\ asked = n /\ cur = n)
    /\ pc = "resolve" /\ asked = HEAD /\ cur # HEAD => ~Unread(loose[HEAD])
    /\ pc = "done" /\ result = "ok" => ~Unreadable

(* No step of the reader passes over what it cannot read.                  *)
LEMMA ReaderIsLoud ==
  ASSUME StoreInv, StoreInv', LoudInv, ReaderStep
  PROVE  LoudInv'
<1>1. /\ op' = op /\ UNCHANGED <<loose, packed, refsDir, writes>>
      /\ \/ Stopped \/ Started \/ RootRead \/ EntryTaken \/ WalkedOn
         \/ PackedRead \/ HeadAsked \/ Followed \/ Answered
  BY ReaderSteps
<1>2. /\ Unreadable' <=> Unreadable
      /\ Undecodable' <=> Undecodable
      /\ Resting' <=> Resting
      /\ \A f : Unread(loose[f])' <=> Unread(loose[f])
  BY <1>1 DEF Unreadable, Undecodable, Resting, AtRest, Plain, Unread
<1> SUFFICES ASSUME Resting PROVE LoudInv'
  BY <1>2 DEF LoudInv
<1>3. /\ Placed /\ Placed' /\ refsDir \in RefsDirs /\ cur \in File \cup Hash
      /\ Ahead(todo) \subseteq Ref \cup Lock
      /\ todo = << >> => Left(todo) = {} /\ Ahead(todo) = {}
      /\ todo' = << >> => Left(todo') = {} /\ Ahead(todo') = {}
      /\ op = "list_refs_checked"
  BY ShapeTypes DEF StoreInv, RefsType, Resting
<1>4. HEAD \notin Ref \cup Lock /\ Ref \cap Hash = {} /\ HEAD \notin Hash
  BY NamesDiffer DEF File
<1>5. CASE Stopped
  BY <1>3, <1>5 DEF Stopped, LoudInv, Late, Walking
<1>6. CASE Started
  BY <1>3, <1>6 DEF Started, LoudInv, Late, Walking
<1>7. CASE RootRead
  BY <1>1, <1>3, <1>7 DEF RootRead, LoudInv, Late, Walking, Unread
<1>8. CASE EntryTaken
  <2>1. Walking /\ Walking' /\ asked' # HEAD
    BY <1>3, <1>4, <1>8 DEF EntryTaken, Walking
  <2>2. refsDir = "partly" => Dir \ NotUtf8 \subseteq Left(todo')
    BY <1>8, <2>1 DEF EntryTaken, LoudInv
  <2>3. \A n \in Ref \ Illegible : Unread(loose[n]) => n \in Ahead(todo') \/ (asked' = n /\ cur' = n)
    BY <1>8 DEF EntryTaken, LoudInv, Late
  <2>4. refsDir # "broken"
    BY <1>8 DEF EntryTaken, LoudInv, Late
  <2> QED BY <1>1, <1>8, <2>1, <2>2, <2>3, <2>4 DEF EntryTaken, LoudInv, Late
<1>9. CASE WalkedOn
  <2>1. /\ refsDir # "broken" /\ (refsDir = "partly" => Dir \ NotUtf8 \subseteq Left(todo'))
        /\ \A n \in Ref \ Illegible : Unread(loose[n]) => n \in Ahead(todo')
    <3>1. ASSUME NEW n \in Ref \ Illegible, Unread(loose[n]) PROVE n \in Ahead(todo')
      <4>1. n \in Ahead(todo)
        BY <1>9, <3>1 DEF WalkedOn, LoudInv, Late
      <4>2. loose[n].t # "none"
        BY <3>1 DEF Unread
      <4> QED BY <1>9, <3>1, <4>1, <4>2 DEF WalkedOn
    <3>2. ASSUME refsDir = "partly" PROVE Dir \ NotUtf8 \subseteq Left(todo')
      <4>1. Dir \ NotUtf8 \subseteq Left(todo)
        BY <1>9, <3>2 DEF WalkedOn, LoudInv, Walking
      <4> QED BY <1>9, <3>2, <4>1 DEF WalkedOn
    <3>3. refsDir # "broken"
      BY <1>9 DEF WalkedOn, LoudInv, Late
    <3> QED BY <3>1, <3>2, <3>3
  <2>2. pc' = "packed" => refsDir # "partly"
    <3>1. pc' = "packed" => Left(todo') = {}
      BY <1>3 DEF Placed, Walking
    <3> QED BY <1>3, <2>1, <3>1, RefsAssumption
  <2> QED BY <1>1, <1>9, <2>1, <2>2 DEF WalkedOn, LoudInv, Late, Walking
<1>10. CASE PackedRead
  <2>1. ~Walking /\ todo = << >> /\ Ahead(todo) = {}
    BY <1>3, <1>10 DEF PackedRead, Placed, Walking
  <2>2. ~Walking' /\ refsDir \notin {"broken", "partly"} /\ \A n \in Ref \ Illegible : ~Unread(loose[n])
    BY <1>10, <2>1 DEF PackedRead, LoudInv, Late, Walking
  <2> QED BY <1>1, <1>2, <1>10, <2>2 DEF PackedRead, LoudInv, Late
<1>11. CASE HeadAsked
  <2>1. ~Walking /\ ~Walking' /\ todo = << >> /\ Ahead(todo) = {}
    BY <1>3, <1>11 DEF HeadAsked, Placed, Walking
  <2>2. refsDir \notin {"broken", "partly"} /\ packed.t # "io" /\ ~Undecodable /\ \A n \in Ref \ Illegible : ~Unread(loose[n])
    BY <1>11, <2>1 DEF HeadAsked, LoudInv, Late
  <2> QED BY <1>1, <1>2, <1>11, <2>1, <2>2 DEF HeadAsked, LoudInv, Late
<1>12. CASE Followed
  <2>1. Walking' <=> Walking
    BY <1>12 DEF Followed, Walking
  <2>2. \A n \in Ref \ Illegible : Unread(loose[n]) => n \in Ahead(todo')
    BY <1>12 DEF Followed, LoudInv, Late
  <2>3. asked = HEAD => ~Unread(loose[HEAD])
    BY <1>12 DEF Followed, LoudInv
  <2> QED BY <1>1, <1>2, <1>12, <2>1, <2>2, <2>3 DEF Followed, LoudInv, Late
<1>13. CASE Answered
  <2>1. /\ pc = "resolve" /\ op # "head"
        /\ cur \in File => ~Unread(loose[cur])
        /\ \/ asked = HEAD /\ pc' = "done"
           \/ asked # HEAD /\ pc' = "entries" /\ UNCHANGED <<todo, asked, cur>>
    <3>1. PICK pairs : Given(pairs)
      BY <1>13 DEF Answered
    <3>2. cur \in File => ~Unread(loose[cur])
      <4>1. ASSUME NEW h \in Hash, cur = h \/ (cur \in File /\ loose[cur] = Direct(h)), cur \in File
            PROVE  ~Unread(loose[cur])
        BY <4>1, NamesDiffer DEF Direct, Unread
      <4> QED BY <3>1, <4>1 DEF Given, Unread
    <3> QED BY <1>3, <1>13, <3>2 DEF Answered
  <2>2. CASE asked = HEAD /\ pc' = "done"
    <3>1. ~Walking /\ todo = << >> /\ Ahead(todo) = {}
      BY <1>3, <2>1, <2>2 DEF Placed, Walking
    <3>2. refsDir \notin {"broken", "partly"} /\ packed.t # "io" /\ ~Undecodable
      BY <2>1, <2>2, <3>1 DEF LoudInv, Late
    <3>3. \A n \in Ref \ Illegible : ~Unread(loose[n])
      BY <1>4, <2>1, <2>2, <3>1 DEF LoudInv, Late
    <3>4. ~Unread(loose[HEAD])
      BY <2>1, <2>2 DEF LoudInv, File
    <3>5. \A f \in Lock : ~Unread(loose[f])
      BY NamesDiffer DEF StoreInv, Steady, Settable, Unread
    <3>6. \A f \in File \ Unseen : ~Unread(loose[f])
      BY <3>3, <3>4, <3>5 DEF File, Unseen
    <3>7. ~Unreadable
      BY <3>2, <3>6 DEF Unreadable, Undecodable, Unread
    <3> QED BY <1>2, <2>2, <3>7 DEF LoudInv, Late, Walking
  <2>3. CASE asked # HEAD /\ pc' = "entries" /\ UNCHANGED <<todo, asked, cur>>
    <3>1. Walking /\ Walking'
      BY <2>1, <2>3 DEF Walking
    <3>2. \A n \in Ref \ Illegible : Unread(loose[n]) => n \in Ahead(todo')
      BY <2>1, <2>3 DEF LoudInv, Late, File
    <3> QED BY <1>1, <2>1, <2>3, <3>1, <3>2 DEF LoudInv, Late
  <2> QED BY <2>1, <2>2, <2>3
<1> QED BY <1>1, <1>5, <1>6, <1>7, <1>8, <1>9, <1>10, <1>11, <1>12, <1>13

(* Git's steps end the rest, so nothing becomes unreadable during it.        *)
LEMMA LoudInvariant == Spec => [](StoreInv /\ LoudInv)
<1>1. Init => LoudInv
  BY DEF Init, LoudInv, Late, Walking
<1>2. StoreInv /\ StoreInv' /\ QuietInv /\ LoudInv /\ [Next]_vars => LoudInv'
  <2> SUFFICES ASSUME StoreInv, StoreInv', QuietInv, LoudInv, [Next]_vars PROVE LoudInv'
    OBVIOUS
  <2>1. CASE UNCHANGED vars
    BY <2>1 DEF vars, files, reader, git, LoudInv, Late, Walking, Unreadable, Undecodable,
                Resting, AtRest, Plain
  <2>2. CASE GitStep
    <3>1. ~Resting'
      BY <2>2, GitUnrests DEF Resting, AtRest
    <3> QED BY <3>1 DEF LoudInv
  <2> QED BY <2>1, <2>2, ReaderIsLoud DEF Next, Terminated
<1> QED BY <1>1, <1>2, RestInvariant, StoreInvariant, PTL DEF Spec

(* The checked enumeration of a store at rest answers ok from all that it opens
   or not at all: whatever cannot be read is met before the end.  (Entries whose
   name is not UTF-8 are not opened.)                                       *)
THEOREM CheckedIsComplete == Spec => []BootstrapLoud
<1>1. LoudInv => BootstrapLoud
  BY DEF LoudInv, BootstrapLoud, Listing, Resting
<1> QED BY <1>1, LoudInvariant, PTL

-----------------------------------------------------------------------------
(* Every hash that HEAD, or a ref or lock whose name is UTF-8, leads to, by
   however many symbolic refs, is listed for some name when a store at rest is
   enumerated.                                                               *)
THEOREM RootsAreAll == Spec => []RootsComplete
<1>1. StoreInv /\ QuietInv /\ RestInv /\ LoudInv => RootsComplete
  <2> DEFINE roots == {p[2] : p \in out}
  <2> SUFFICES ASSUME StoreInv, QuietInv, RestInv, LoudInv, Listing, Resting,
                      NEW f \in File \ Unseen
               PROVE  GitValue(f) \subseteq roots
    BY DEF RootsComplete, Resting
  <2>1. Files /\ Quiet /\ Enumerated /\ pc = "done" /\ result = "ok" /\ ~Unreadable
    <3>1. Files /\ pc = "done" /\ result = "ok" /\ op = "list_refs_checked"
      BY DEF StoreInv, RefsType, Resting, Listing
    <3>2. Quiet
      BY <3>1, RefsAssumption DEF QuietInv, Resting, AtRest
    <3> QED BY <3>1, <3>2 DEF LoudInv, Enumerated
  <2>2. ASSUME NEW g \in File \ Unseen, NEW there \in [File \cup Hash -> SUBSET Hash],
               \A e \in File \ Unseen : there[e] \subseteq roots, \A h \in Hash : there[h] \subseteq {h}
        PROVE  Leads(g, there) \subseteq roots
    <3>1. g \notin Hash
      BY NamesDiffer
    <3>2. CASE g \in Lock
      <4>1. loose[g].t = "none" /\ PackedValue(g) = {}
        BY <2>1, <3>2, PackedValueOf, NamesDiffer DEF Quiet, File
      <4> QED BY <3>1, <4>1 DEF Leads
    <3>3. CASE g \in (Ref \ Illegible) \cup {HEAD}
      <4>1. Shown(g)
        BY <2>1, <3>3 DEF RestInv
      <4>2. CASE loose[g].t = "hash"
        BY <3>1, <4>1, <4>2 DEF Leads, Shown
      <4>3. CASE loose[g].t = "none"
        <5>1. PackedValue(g) \subseteq Hash /\ (g = HEAD => PackedValue(g) = {})
          BY <2>1, PackedValueOf, NamesDiffer DEF File
        <5>2. \A h \in PackedValue(g) : <<g, h>> \in out
          BY <2>1, <3>3, <4>3, <5>1 DEF RestInv
        <5>3. ASSUME NEW h \in PackedValue(g) PROVE h \in roots
          <6>1. <<g, h>> \in out /\ <<g, h>>[2] = h
            BY <5>2
          <6> QED BY <6>1, Zenon
        <5> QED BY <3>1, <4>3, <5>3 DEF Leads
      <4>4. CASE loose[g].t = "sym"
        <5>1. loose[g].to \in File \cup Hash /\ Leads(g, there) = there[loose[g].to]
          BY <2>1, <3>1, <4>4, FileTypes DEF Leads
        <5>2. CASE loose[g].to \in Hash
          <6>1. loose[g].to \in roots
            BY <4>1, <4>4, <5>2 DEF Shown
          <6> QED BY <2>2, <5>1, <5>2, <6>1
        <5>3. loose[g].to \notin Unseen
          BY <2>1, <4>4 DEF Unreadable
        <5> QED BY <2>2, <5>1, <5>2, <5>3
      <4>5. CASE loose[g].t \in {"bad", "io"}
        BY <3>1, <4>5 DEF Leads
      <4> QED BY <2>1, <4>2, <4>3, <4>4, <4>5, FileTypes
    <3> QED BY <3>2, <3>3 DEF File, Unseen
  <2> HIDE DEF roots
  <2> DEFINE T == {k \in Nat : /\ \A e \in File \ Unseen : Follow[k][e] \subseteq roots
                               /\ \A h \in Hash : Follow[k][h] \subseteq {h}}
  <2>3. T = Nat
    <3>1. \A k \in Nat, h \in Hash : Follow[k][h] \subseteq {h}
      BY <2>1, FollowIs DEF Leads
    <3>2. 0 \in T
      <4>1. Nowhere \in [File \cup Hash -> SUBSET Hash] /\ \A e \in File \cup Hash : Nowhere[e] = {}
        BY DEF Nowhere
      <4>2. \A e \in File \ Unseen : Leads(e, Nowhere) \subseteq roots
        BY <2>2, <4>1
      <4>3. \A e \in File : Follow[0][e] = Leads(e, Nowhere)
        BY <2>1, FollowIs
      <4> QED BY <3>1, <4>2, <4>3
    <3>3. ASSUME NEW k \in T PROVE k + 1 \in T
      <4>1. k \in Nat /\ k + 1 \in Nat /\ k + 1 # 0 /\ (k + 1) - 1 = k
        BY <3>3
      <4>2. Follow[k] \in [File \cup Hash -> SUBSET Hash]
        BY <2>1, <4>1, FollowIs
      <4>3. \A e \in File \ Unseen : Leads(e, Follow[k]) \subseteq roots
        BY <2>2, <3>3, <4>2
      <4>4. \A e \in File : Follow[k + 1][e] = Leads(e, Follow[k])
        BY <2>1, <4>1, FollowIs
      <4> QED BY <3>1, <4>1, <4>3, <4>4
    <3>4. T \in SUBSET Nat
      OBVIOUS
    <3> HIDE DEF T
    <3> QED BY <3>2, <3>3, <3>4, Induction
  <2>4. Cardinality(Ref) + 1 \in Nat
    BY RefsAssumption, FS_CardinalityType
  <2> QED BY <2>3, <2>4 DEF GitValue
<1> QED BY <1>1, RestInvariant, LoudInvariant, PTL

=====
