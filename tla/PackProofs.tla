------------------------------ MODULE PackProofs ------------------------------
(***************************************************************************)
(* The theorems about PackBytes: the header of an entry and the distance to *)
(* its base mean the numbers git wrote (EntryIsExact), and a delta made     *)
(* from a base gives what it was made for (DeltaIsExact), for numbers and   *)
(* instructions of any size the format has.                                 *)
(***************************************************************************)
EXTENDS DecodeProofs

(* A quotient is less than what is divided; and what the quotient and the
   remainder of a number are.                                               *)
LEMMA Quotient ==
  /\ \A a \in Nat, d \in Nat : d > 1 /\ a > 0 => a \div d < a
  /\ \A a \in Nat, d \in Nat \ {0} : a \div d <= a
  /\ \A a, q, r \in Nat, d \in Nat \ {0} : r < d /\ a = q * d + r => a \div d = q /\ a % d = r
<1>1. ASSUME NEW a \in Nat, NEW d \in Nat, d > 1, a > 0 PROVE a \div d < a
  BY <1>1
<1>2. ASSUME NEW a \in Nat, NEW d \in Nat \ {0} PROVE a \div d <= a
  BY <1>2
<1>3. ASSUME NEW a \in Nat, NEW q \in Nat, NEW r \in Nat, NEW d \in Nat \ {0}, r < d, a = q * d + r
      PROVE  a \div d = q /\ a % d = r
  <2> DEFINE k == a \div d
             x == a % d
  <2>1. k \in Nat /\ x \in 0..(d - 1) /\ a = k * d + x
    BY DivMod
  <2> HIDE DEF k, x
  <2>2. q - k \in Int /\ (q - k) * d = x - r
    BY <1>3, <2>1, Products
  <2>3. ~(d <= (x - r)) /\ ~((x - r) <= (0 - d))
    <3>1. x \in Nat /\ x < d /\ r < d
      BY <1>3, <2>1
    <3> QED BY ONLY <3>1, r \in Nat, d \in Nat \ {0}
  <2>4. (1 * d = d) /\ ((-1) * d = 0 - d)
    OBVIOUS
  <2>5. (q - k < 1) /\ (-1 < q - k)
    <3>1. (q - k) * d < 1 * d /\ (-1) * d < (q - k) * d
      BY <2>1, <2>2, <2>3, <2>4
    <3> QED BY <2>2, <3>1, Products
  <2>6. q = k
    BY <2>1, <2>5
  <2> QED BY <1>3, <2>1, <2>6 DEF k, x
<1> QED BY <1>1, <1>2, <1>3

(* The bytes of a number.                                                   *)
LEMMA BytesAre ==
  ASSUME NEW n \in Nat
  PROVE  /\ More(n) \in Byte /\ More(n).more /\ More(n).bits = n
         /\ End(n) \in Byte /\ ~End(n).more /\ End(n).bits = n
BY DEF More, End, Byte

(* SizeBytes and OfsLead are what their definitions say, for every number.  *)
LEMMA SizeBytesIs ==
  \A n \in Nat :
    /\ SizeBytes[n] \in Seq(Byte)
    /\ SizeBytes[n] = IF n < Group THEN <<End(n)>> ELSE <<More(n % Group)>> \o SizeBytes[n \div Group]
<1> DEFINE stop == 0..(Group - 1)
           base == [n \in Nat |-> <<End(n)>>]
           down == [n \in Nat |-> n \div Group]
           step == [p \in Nat \X Seq(Byte) |-> <<More(p[1] % Group)>> \o p[2]]
           Is(f) == f = [n \in Nat |-> IF n < Group THEN <<End(n)>>
                                       ELSE <<More(n % Group)>> \o f[n \div Group]]
<1>1. Group \in Nat \ {0, 1}
  BY PackConstants
<1>2. \A n \in Nat : /\ n \in stop <=> n < Group
                     /\ n \div Group \in Nat /\ n % Group \in Nat
                     /\ n \notin stop => n \div Group < n
  BY <1>1, Quotient
<1>3. \A n \in Nat : base[n] = <<End(n)>> /\ base[n] \in Seq(Byte) /\ down[n] = n \div Group
  BY BytesAre
<1>4. \A n \in Nat, s \in Seq(Byte) :
        step[<<n, s>>] = <<More(n % Group)>> \o s /\ step[<<n, s>>] \in Seq(Byte)
  <2> SUFFICES ASSUME NEW n \in Nat, NEW s \in Seq(Byte)
               PROVE  step[<<n, s>>] = <<More(n % Group)>> \o s /\ step[<<n, s>>] \in Seq(Byte)
    OBVIOUS
  <2>1. More(n % Group) \in Byte
    BY <1>2, BytesAre
  <2>2. <<More(n % Group)>> \o s \in Seq(Byte)
    BY <2>1
  <2>3. <<n, s>> \in Nat \X Seq(Byte) /\ <<n, s>>[1] = n /\ <<n, s>>[2] = s
    OBVIOUS
  <2> QED BY <2>2, <2>3
<1> HIDE DEF stop, base, down, step
<1>5. PICK f : f \in [Nat -> Seq(Byte)] /\ \A n \in Nat : Rec(f, n, stop, base, down, step)
  <2> DEFINE S == Seq(Byte)
  <2>1. \A n \in Nat : n \in stop => base[n] \in S
    BY <1>3
  <2>2. \A n \in Nat : n \notin stop => down[n] \in Nat /\ down[n] < n
    BY <1>2, <1>3
  <2>3. \A n \in Nat, v \in S : step[<<n, v>>] \in S
    BY <1>4
  <2> HIDE DEF S
  <2>4. \E f : f \in [Nat -> S] /\ \A n \in Nat : Rec(f, n, stop, base, down, step)
    BY <2>1, <2>2, <2>3, NatRecursion
  <2> QED BY <2>4 DEF S
<1>6. \A n \in Nat : f[n] = IF n < Group THEN <<End(n)>> ELSE <<More(n % Group)>> \o f[n \div Group]
  <2> SUFFICES ASSUME NEW n \in Nat
               PROVE  f[n] = IF n < Group THEN <<End(n)>> ELSE <<More(n % Group)>> \o f[n \div Group]
    OBVIOUS
  <2>1. n \div Group \in Nat /\ f[n \div Group] \in Seq(Byte)
    BY <1>2, <1>5
  <2>2. Rec(f, n, stop, base, down, step) /\ (n \in stop <=> n < Group)
    BY <1>2, <1>5
  <2>3. base[n] = <<End(n)>> /\ down[n] = n \div Group
    BY <1>3
  <2>4. step[<<n, f[n \div Group]>>] = <<More(n % Group)>> \o f[n \div Group]
    BY <1>4, <2>1
  <2> QED BY <2>2, <2>3, <2>4, Zenon DEF Rec
<1>7. Is(f)
  <2>1. f = [n \in Nat |-> f[n]]
    BY <1>5
  <2> QED BY <1>6, <2>1
<1>8. SizeBytes = CHOOSE g : Is(g)
  BY DEF SizeBytes
<1>9. Is(SizeBytes)
  BY <1>7, <1>8, Zenon
<1>10. \A n \in Nat : SizeBytes[n] = IF n < Group THEN <<End(n)>>
                                     ELSE <<More(n % Group)>> \o SizeBytes[n \div Group]
  BY <1>9, Zenon
<1>11. ASSUME NEW n \in Nat PROVE SizeBytes[n] \in Seq(Byte)
  <2> DEFINE D == {m \in Nat : SizeBytes[m] \notin Seq(Byte)}
  <2>1. ASSUME NEW m \in D, \A k \in D : m <= k PROVE FALSE
    <3>1. CASE m < Group
      <4>1. m \in Nat /\ SizeBytes[m] \notin Seq(Byte)
        BY <2>1
      <4>2. End(m) \in Byte
        BY <4>1, BytesAre
      <4>3. SizeBytes[m] = <<End(m)>>
        BY <1>10, <3>1, <4>1
      <4> QED BY <4>1, <4>2, <4>3
    <3>2. CASE ~(m < Group)
      <4> DEFINE k == m \div Group
      <4>1. k \in Nat /\ k < m
        BY <1>2, <3>2
      <4>2. SizeBytes[k] \in Seq(Byte)
        <5> HIDE DEF k
        <5> QED BY <2>1, <4>1
      <4>3. More(m % Group) \in Byte
        BY <1>2, BytesAre
      <4>4. <<More(m % Group)>> \o SizeBytes[k] \in Seq(Byte)
        BY <4>2, <4>3
      <4>5. SizeBytes[m] = <<More(m % Group)>> \o SizeBytes[k]
        BY <1>10, <3>2
      <4>6. SizeBytes[m] \notin Seq(Byte)
        BY <2>1
      <4> QED BY <4>4, <4>5, <4>6
    <3> QED BY <3>1, <3>2
  <2>2. D = {}
    <3>1. D \in SUBSET Nat
      OBVIOUS
    <3> HIDE DEF D
    <3> QED BY <2>1, <3>1, LeastExists
  <2> QED BY <2>2
<1> QED BY <1>10, <1>11

(* The bytes of a distance before its last: none, or those of the groups
   above and one more.                                                      *)
LEMMA OfsLeadIs ==
  \A n \in Nat :
    /\ OfsLead[n] \in Seq(Byte)
    /\ n = 0 => OfsLead[n] = << >>
    /\ n # 0 => OfsLead[n] = OfsLead[(n - 1) \div Group] \o <<More((n - 1) % Group)>>
<1> DEFINE stop == {0}
           base == [n \in Nat |-> << >>]
           down == [n \in Nat |-> (n - 1) \div Group]
           step == [p \in Nat \X Seq(Byte) |-> p[2] \o <<More((p[1] - 1) % Group)>>]
           Is(f) == f = [n \in Nat |-> IF n = 0 THEN << >>
                                       ELSE f[(n - 1) \div Group] \o <<More((n - 1) % Group)>>]
<1>1. Group \in Nat \ {0, 1}
  BY PackConstants
<1>2. \A n \in Nat : n # 0 => /\ (n - 1) \div Group \in Nat /\ (n - 1) % Group \in Nat
                              /\ (n - 1) \div Group < n
  <2> SUFFICES ASSUME NEW n \in Nat, n # 0
               PROVE  (n - 1) \div Group \in Nat /\ (n - 1) % Group \in Nat /\ (n - 1) \div Group < n
    OBVIOUS
  <2>1. PICK a \in Nat : a = n - 1
    OBVIOUS
  <2>2. a \div Group \in Nat /\ a % Group \in Nat /\ a \div Group <= a /\ a < n
    BY <1>1, <2>1, Quotient
  <2> QED BY <2>1, <2>2
<1>3. \A n \in Nat : base[n] = << >> /\ base[n] \in Seq(Byte) /\ down[n] = (n - 1) \div Group
  OBVIOUS
<1>4. \A n \in Nat, s \in Seq(Byte) :
        n # 0 => step[<<n, s>>] = s \o <<More((n - 1) % Group)>> /\ step[<<n, s>>] \in Seq(Byte)
  <2> SUFFICES ASSUME NEW n \in Nat, NEW s \in Seq(Byte), n # 0
               PROVE  step[<<n, s>>] = s \o <<More((n - 1) % Group)>> /\ step[<<n, s>>] \in Seq(Byte)
    OBVIOUS
  <2>1. More((n - 1) % Group) \in Byte
    BY <1>2, BytesAre
  <2>2. s \o <<More((n - 1) % Group)>> \in Seq(Byte)
    BY <2>1
  <2>3. <<n, s>> \in Nat \X Seq(Byte) /\ <<n, s>>[1] = n /\ <<n, s>>[2] = s
    OBVIOUS
  <2> QED BY <2>2, <2>3
<1> HIDE DEF base, down, step
<1>5. PICK f : f \in [Nat -> Seq(Byte)] /\ \A n \in Nat : Rec(f, n, stop, base, down, step)
  <2> DEFINE S == Seq(Byte)
  <2>1. \A n \in Nat : n \in stop => base[n] \in S
    BY <1>3
  <2>2. \A n \in Nat : n \notin stop => down[n] \in Nat /\ down[n] < n
    BY <1>2, <1>3
  <2>3. \A n \in Nat, v \in S : n \notin stop => step[<<n, v>>] \in S
    BY <1>4
  <2> HIDE DEF S, stop
  <2>4. \E f : f \in [Nat -> S] /\ \A n \in Nat : Rec(f, n, stop, base, down, step)
    BY <2>1, <2>2, <2>3, NatRecursion
  <2> QED BY <2>4 DEF S
<1>6. ASSUME NEW n \in Nat
      PROVE  f[n] = IF n = 0 THEN << >> ELSE f[(n - 1) \div Group] \o <<More((n - 1) % Group)>>
  <2>1. n # 0 => f[(n - 1) \div Group] \in Seq(Byte)
    BY <1>2, <1>5
  <2>2. Rec(f, n, stop, base, down, step) /\ (n \in stop <=> n = 0)
    BY <1>5
  <2>3. base[n] = << >> /\ down[n] = (n - 1) \div Group
    BY <1>3
  <2>4. n # 0 => step[<<n, f[(n - 1) \div Group]>>] = f[(n - 1) \div Group] \o <<More((n - 1) % Group)>>
    BY <1>4, <2>1
  <2> QED BY <2>2, <2>3, <2>4, Zenon DEF Rec
<1>7. Is(f)
  <2>1. f = [n \in Nat |-> f[n]]
    BY <1>5
  <2> QED BY <1>6, <2>1
<1>8. OfsLead = CHOOSE g : Is(g)
  BY DEF OfsLead
<1>9. Is(OfsLead)
  BY <1>7, <1>8, Zenon
<1>10. \A n \in Nat : OfsLead[n] = IF n = 0 THEN << >>
                                   ELSE OfsLead[(n - 1) \div Group] \o <<More((n - 1) % Group)>>
  BY <1>9, Zenon
<1>11. ASSUME NEW n \in Nat PROVE OfsLead[n] \in Seq(Byte)
  <2> DEFINE D == {m \in Nat : OfsLead[m] \notin Seq(Byte)}
  <2>1. ASSUME NEW m \in D, \A k \in D : m <= k PROVE FALSE
    <3>1. m \in Nat /\ OfsLead[m] \notin Seq(Byte)
      BY <2>1
    <3>2. CASE m = 0
      <4>1. OfsLead[m] = << >>
        BY <1>10, <3>1, <3>2
      <4> QED BY <3>1, <4>1
    <3>3. CASE m # 0
      <4> DEFINE k == (m - 1) \div Group
      <4>1. k \in Nat /\ k < m
        BY <1>2, <3>1, <3>3
      <4>2. OfsLead[m] = OfsLead[k] \o <<More((m - 1) % Group)>>
        BY <1>10, <3>1, <3>3
      <4> HIDE DEF k
      <4>3. OfsLead[k] \in Seq(Byte)
        BY <2>1, <3>1, <4>1
      <4>4. More((m - 1) % Group) \in Byte
        BY <1>2, <3>1, <3>3, BytesAre
      <4>5. OfsLead[k] \o <<More((m - 1) % Group)>> \in Seq(Byte)
        BY <4>3, <4>4
      <4> QED BY <3>1, <4>2, <4>5
    <3> QED BY <3>2, <3>3
  <2>2. D = {}
    <3>1. D \in SUBSET Nat
      OBVIOUS
    <3> HIDE DEF D
    <3> QED BY <2>1, <3>1, LeastExists
  <2> QED BY <2>2
<1> QED BY <1>10, <1>11


-----------------------------------------------------------------------------
(* A byte before a sequence of bytes, and after it.                         *)
LEMMA OneMore ==
  ASSUME NEW S, NEW s \in Seq(S), NEW b \in S
  PROVE  /\ <<b>> \o s \in Seq(S) /\ Len(<<b>> \o s) = 1 + Len(s)
         /\ (<<b>> \o s)[1] = b /\ \A i \in 1..Len(s) : (<<b>> \o s)[1 + i] = s[i]
         /\ s \o <<b>> \in Seq(S) /\ Len(s \o <<b>>) = Len(s) + 1
         /\ (s \o <<b>>)[Len(s) + 1] = b /\ \A i \in 1..Len(s) : (s \o <<b>>)[i] = s[i]
<1>1. <<b>> \in Seq(S) /\ Len(<<b>>) = 1 /\ <<b>>[1] = b /\ Len(s) \in Nat
  OBVIOUS
<1>2. /\ <<b>> \o s \in Seq(S) /\ Len(<<b>> \o s) = 1 + Len(s)
      /\ \A i \in 1..(1 + Len(s)) : (<<b>> \o s)[i] = IF i <= 1 THEN <<b>>[i] ELSE s[i - 1]
  BY <1>1, ConcatProperties
<1>3. /\ s \o <<b>> \in Seq(S) /\ Len(s \o <<b>>) = Len(s) + 1
      /\ \A i \in 1..(Len(s) + 1) : (s \o <<b>>)[i] = IF i <= Len(s) THEN s[i] ELSE <<b>>[i - Len(s)]
  BY <1>1, ConcatProperties
<1> DEFINE n == Len(s)
           p == <<b>> \o s
           q == s \o <<b>>
<1> HIDE DEF n, p, q
<1>4. /\ n \in Nat
      /\ \A i \in 1..(1 + n) : p[i] = IF i <= 1 THEN <<b>>[i] ELSE s[i - 1]
      /\ \A i \in 1..(n + 1) : q[i] = IF i <= n THEN s[i] ELSE <<b>>[i - n]
  BY <1>1, <1>2, <1>3 DEF n, p, q
<1>5. p[1] = b /\ \A i \in 1..n : p[1 + i] = s[i]
  BY <1>1, <1>4
<1>6. q[n + 1] = b /\ \A i \in 1..n : q[i] = s[i]
  BY <1>1, <1>4
<1> QED BY <1>2, <1>3, <1>5, <1>6 DEF n, p, q

(* The bytes of a size, byte by byte: all but the last are followed.        *)
LEMMA SizeUnfold ==
  ASSUME NEW n \in Nat
  PROVE  /\ SizeBytes[n] \in Seq(Byte) /\ Len(SizeBytes[n]) \in Nat
         /\ n < Group => Len(SizeBytes[n]) = 1 /\ SizeBytes[n][1] = End(n)
         /\ ~(n < Group) =>
              /\ n \div Group \in Nat \ {0} /\ n \div Group < n
              /\ Len(SizeBytes[n]) = 1 + Len(SizeBytes[n \div Group])
              /\ SizeBytes[n][1] = More(n % Group)
              /\ \A i \in 1..Len(SizeBytes[n \div Group]) : SizeBytes[n][1 + i] = SizeBytes[n \div Group][i]
<1>1. SizeBytes[n] \in Seq(Byte) /\ Len(SizeBytes[n]) \in Nat
  <2>1. SizeBytes[n] \in Seq(Byte)
    BY SizeBytesIs
  <2> QED BY <2>1
<1>2. ASSUME n < Group PROVE Len(SizeBytes[n]) = 1 /\ SizeBytes[n][1] = End(n)
  <2>1. SizeBytes[n] = <<End(n)>>
    BY <1>2, SizeBytesIs
  <2> QED BY <2>1
<1>3. ASSUME ~(n < Group)
      PROVE  /\ n \div Group \in Nat \ {0} /\ n \div Group < n
             /\ Len(SizeBytes[n]) = 1 + Len(SizeBytes[n \div Group])
             /\ SizeBytes[n][1] = More(n % Group)
             /\ \A i \in 1..Len(SizeBytes[n \div Group]) : SizeBytes[n][1 + i] = SizeBytes[n \div Group][i]
  <2> DEFINE k == n \div Group
             x == n % Group
  <2>1. Group \in Nat \ {0, 1}
    BY PackConstants
  <2>2. k \in Nat /\ k < n /\ x \in 0..(Group - 1) /\ x \in Nat /\ n = k * Group + x
    <3>1. k \in Nat /\ x \in 0..(Group - 1) /\ n = k * Group + x
      BY <2>1, DivMod
    <3>2. n > 0 /\ Group > 1 /\ Group \in Nat
      BY <1>3, <2>1
    <3>3. k < n
      BY <3>2, Quotient
    <3> QED BY <2>1, <3>1, <3>3
  <2>3. SizeBytes[n] = <<More(x)>> \o SizeBytes[k]
    BY <1>3, SizeBytesIs
  <2> HIDE DEF k, x
  <2>4. k # 0
    BY <1>3, <2>1, <2>2
  <2>5. More(x) \in Byte /\ SizeBytes[k] \in Seq(Byte)
    BY <2>1, <2>2, BytesAre, SizeBytesIs
  <2>6. /\ Len(SizeBytes[n]) = 1 + Len(SizeBytes[k])
        /\ SizeBytes[n][1] = More(x)
        /\ \A i \in 1..Len(SizeBytes[k]) : SizeBytes[n][1 + i] = SizeBytes[k][i]
    BY <2>3, <2>5, OneMore
  <2> QED BY <2>2, <2>4, <2>6 DEF k, x
<1> QED BY <1>1, <1>2, <1>3

(* Sequences whose last byte, and no other, ends a number.                  *)
Ended(s) == Len(s) \in Nat \ {0} /\ \A i \in 1..Len(s) : s[i].more <=> i < Len(s)

(* One is, if what follows its first byte is.                               *)
LEMMA EndedAfter ==
  ASSUME NEW s, NEW t, Ended(t), Len(s) = 1 + Len(t), s[1].more, \A i \in 1..Len(t) : s[1 + i] = t[i]
  PROVE  Ended(s)
<1>1. PICK l \in Nat \ {0} : Len(t) = l /\ Len(s) = 1 + l
  BY DEF Ended
<1>2. \A i \in 1..l : s[1 + i].more <=> i < l
  BY <1>1 DEF Ended
<1>3. ASSUME NEW i \in 1..(1 + l) PROVE s[i].more <=> i < 1 + l
  <2>1. CASE i = 1
    BY <1>1, <2>1
  <2>2. CASE i # 1
    <3>1. PICK j \in 1..l : i = 1 + j
      <4>1. i - 1 \in 1..l /\ i = 1 + (i - 1)
        BY <1>1, <2>2
      <4> QED BY <4>1
    <3>2. j < l <=> i < 1 + l
      BY <1>1, <3>1
    <3> QED BY <1>2, <3>1, <3>2
  <2> QED BY <2>1, <2>2
<1> QED BY <1>1, <1>3 DEF Ended

(* A size is such a sequence.                                               *)
LEMMA SizeShape == \A n \in Nat : Ended(SizeBytes[n])
<1> DEFINE D == {m \in Nat : ~Ended(SizeBytes[m])}
<1>1. ASSUME NEW n \in D, \A k \in D : n <= k PROVE FALSE
  <2>1. n \in Nat /\ ~Ended(SizeBytes[n])
    BY <1>1
  <2>2. CASE n < Group
    <3>1. Len(SizeBytes[n]) = 1 /\ SizeBytes[n][1] = End(n) /\ ~End(n).more
      BY <2>1, <2>2, SizeUnfold, BytesAre
    <3> QED BY <2>1, <3>1 DEF Ended
  <2>3. CASE ~(n < Group)
    <3> DEFINE k == n \div Group
               x == n % Group
               s == SizeBytes[n]
               t == SizeBytes[k]
    <3>1. /\ k \in Nat /\ k < n /\ Len(s) = 1 + Len(t) /\ s[1] = More(x)
          /\ \A i \in 1..Len(t) : s[1 + i] = t[i]
      BY <2>1, <2>3, SizeUnfold
    <3>2. x \in Nat
      BY <2>1, PackConstants
    <3> HIDE DEF x, k
    <3>3. k \notin D
      BY <1>1, <2>1, <3>1
    <3> HIDE DEF D
    <3>4. Ended(t) /\ s[1].more
      <4>1. Ended(t)
        BY <3>1, <3>3 DEF D
      <4> QED BY <3>1, <3>2, <4>1, BytesAre
    <3> HIDE DEF s, t
    <3>6. Ended(s)
      BY <3>1, <3>4, EndedAfter
    <3> QED BY <2>1, <3>6 DEF s
  <2> QED BY <2>2, <2>3
<1>2. D = {}
  <2>1. D \in SUBSET Nat
    OBVIOUS
  <2> HIDE DEF D
  <2> QED BY <1>1, <2>1, LeastExists
<1> QED BY <1>2

(* What is left of a header after its first n bytes is a size.              *)
Tails(s, n, r) ==
  Len(s) = n + Len(SizeBytes[r]) /\ \A i \in 1..Len(SizeBytes[r]) : s[n + i] = SizeBytes[r][i]

(* A header: its type and low bits first, the rest of the size after them.  *)
LEMMA HeaderIs ==
  ASSUME NEW t \in 0..7, NEW s \in Nat
  PROVE  /\ Header(t, s) \in Seq(Byte) /\ Ended(Header(t, s))
         /\ (Header(t, s)[1].bits \div First) % 8 = t
         /\ Header(t, s)[1].bits % First = s % First
         /\ s < First => Len(Header(t, s)) = 1
         /\ ~(s < First) => s \div First \in Nat \ {0} /\ Tails(Header(t, s), 1, s \div First)
<1> DEFINE x == s % First
           k == s \div First
           b == t * First + x
           H == Header(t, s)
<1>1. First \in Nat \ {0, 1}
  BY PackConstants
<1>2. k \in Nat /\ x \in 0..(First - 1) /\ s = k * First + x
  BY <1>1, DivMod
<1>3. s < First => x = s
  BY <1>1
<1>4. ~(s < First) => k # 0
  <2> HIDE DEF k, x
  <2> QED BY <1>1, <1>2
<1> HIDE DEF k, x
<1>5. b \in Nat /\ b \div First = t /\ b % First = x
  <2>1. t * First \in Nat
    BY <1>1
  <2>2. b \in Nat /\ x < First /\ x \in Nat /\ t \in Nat
    BY <1>1, <1>2, <2>1
  <2> HIDE DEF b
  <2>3. b = t * First + x
    BY DEF b
  <2> QED BY <1>1, <2>2, <2>3, Quotient
<1>6. t % 8 = t
  OBVIOUS
<1>7. CASE s < First
  <2>1. b = t * First + s
    BY <1>3, <1>7
  <2> HIDE DEF b
  <2>2. H = <<End(b)>>
    BY <1>7, <2>1 DEF Header
  <2>3. End(b) \in Byte /\ ~End(b).more /\ End(b).bits = b
    BY <1>5, BytesAre
  <2> HIDE DEF H
  <2>4. H \in Seq(Byte) /\ Len(H) = 1 /\ H[1] = End(b)
    BY <2>2, <2>3
  <2>5. Ended(H)
    BY <2>3, <2>4 DEF Ended
  <2> QED BY <1>5, <1>6, <1>7, <2>3, <2>4, <2>5 DEF H, x
<1>8. CASE ~(s < First)
  <2>1. H = <<More(b)>> \o SizeBytes[k]
    BY <1>8 DEF Header, x, k
  <2> HIDE DEF b
  <2>2. More(b) \in Byte /\ More(b).more /\ More(b).bits = b /\ SizeBytes[k] \in Seq(Byte) /\ Ended(SizeBytes[k])
    BY <1>2, <1>5, BytesAre, SizeBytesIs, SizeShape
  <2> HIDE DEF H
  <2>3. /\ H \in Seq(Byte) /\ Len(H) = 1 + Len(SizeBytes[k]) /\ H[1] = More(b)
        /\ \A i \in 1..Len(SizeBytes[k]) : H[1 + i] = SizeBytes[k][i]
    BY <2>1, <2>2, OneMore
  <2>4. Ended(H)
    BY <2>2, <2>3, EndedAfter
  <2>5. Tails(H, 1, k)
    BY <2>3 DEF Tails
  <2> QED BY <1>2, <1>4, <1>5, <1>6, <1>8, <2>2, <2>3, <2>4, <2>5 DEF H, x, k
<1> QED BY <1>7, <1>8


-----------------------------------------------------------------------------
(* What leads a distance, byte by byte: all are followed.                   *)
LEMMA LeadUnfold ==
  ASSUME NEW n \in Nat
  PROVE  /\ OfsLead[n] \in Seq(Byte) /\ Len(OfsLead[n]) \in Nat
         /\ n = 0 => Len(OfsLead[n]) = 0
         /\ n # 0 => \E k \in Nat, x \in 0..(Group - 1) :
              /\ k < n /\ n = k * Group + x + 1
              /\ Len(OfsLead[n]) = Len(OfsLead[k]) + 1
              /\ OfsLead[n][Len(OfsLead[k]) + 1] = More(x)
              /\ \A i \in 1..Len(OfsLead[k]) : OfsLead[n][i] = OfsLead[k][i]
<1>1. OfsLead[n] \in Seq(Byte) /\ (n = 0 => OfsLead[n] = << >>)
  BY OfsLeadIs
<1>2. Len(OfsLead[n]) \in Nat /\ (n = 0 => Len(OfsLead[n]) = 0)
  BY <1>1
<1>3. ASSUME n # 0
      PROVE  \E k \in Nat, x \in 0..(Group - 1) :
               /\ k < n /\ n = k * Group + x + 1
               /\ Len(OfsLead[n]) = Len(OfsLead[k]) + 1
               /\ OfsLead[n][Len(OfsLead[k]) + 1] = More(x)
               /\ \A i \in 1..Len(OfsLead[k]) : OfsLead[n][i] = OfsLead[k][i]
  <2>1. Group \in Nat \ {0, 1}
    BY PackConstants
  <2>2. PICK a \in Nat : a = n - 1 /\ a < n
    BY <1>3
  <2> DEFINE k == a \div Group
             x == a % Group
  <2>3. k \in Nat /\ x \in 0..(Group - 1) /\ x \in Nat /\ a = k * Group + x /\ k <= a
    <3>1. k \in Nat /\ x \in 0..(Group - 1) /\ a = k * Group + x
      BY <2>1, DivMod
    <3>2. k <= a
      BY <2>1, Quotient
    <3> QED BY <2>1, <3>1, <3>2
  <2>4. OfsLead[n] = OfsLead[k] \o <<More(x)>>
    BY <1>3, <2>2, OfsLeadIs
  <2> HIDE DEF k, x
  <2>5. k * Group \in Nat /\ k < n /\ n = k * Group + x + 1
    BY <2>1, <2>2, <2>3
  <2>6. OfsLead[k] \in Seq(Byte)
    BY <2>3, OfsLeadIs
  <2>7. More(x) \in Byte
    BY <2>3, BytesAre
  <2>8. /\ Len(OfsLead[n]) = Len(OfsLead[k]) + 1
        /\ OfsLead[n][Len(OfsLead[k]) + 1] = More(x)
        /\ \A i \in 1..Len(OfsLead[k]) : OfsLead[n][i] = OfsLead[k][i]
    BY <2>4, <2>6, <2>7, OneMore
  <2> QED BY <2>3, <2>5, <2>8
<1> QED BY <1>1, <1>2, <1>3

(* Two sequences agree up to a place.                                       *)
Agree(s, t, n) == \A i \in 1..n : s[i] = t[i]

(* Every byte of a lead is followed, and what it starts with leads a smaller
   distance.                                                                *)
LEMMA LeadShape ==
  \A n \in Nat :
    /\ n # 0 <=> Len(OfsLead[n]) # 0
    /\ \A i \in 1..Len(OfsLead[n]) : OfsLead[n][i].more
    /\ \A k \in 0..Len(OfsLead[n]) :
         \E m \in 0..n : Len(OfsLead[m]) = k /\ Agree(OfsLead[m], OfsLead[n], k)
<1> DEFINE P(n) == /\ n # 0 <=> Len(OfsLead[n]) # 0
                   /\ \A i \in 1..Len(OfsLead[n]) : OfsLead[n][i].more
                   /\ \A k \in 0..Len(OfsLead[n]) :
                        \E m \in 0..n : Len(OfsLead[m]) = k /\ Agree(OfsLead[m], OfsLead[n], k)
           D == {n \in Nat : ~P(n)}
<1>1. ASSUME NEW n \in D, \A k \in D : n <= k PROVE FALSE
  <2>1. n \in Nat /\ ~P(n)
    BY <1>1
  <2>2. OfsLead[n] \in Seq(Byte) /\ Len(OfsLead[n]) \in Nat
    BY <2>1, LeadUnfold
  <2>3. CASE n = 0
    <3>1. Len(OfsLead[n]) = 0 /\ 0..0 = {0} /\ 1..0 = {}
      BY <2>1, <2>3, LeadUnfold
    <3>2. n \in 0..n
      BY <2>1
    <3>3. P(n)
      BY <2>3, <3>1, <3>2 DEF Agree
    <3> QED BY <2>1, <3>3
  <2>4. CASE n # 0
    <3>1. PICK p \in Nat, x \in 0..(Group - 1) :
            /\ p < n /\ Len(OfsLead[n]) = Len(OfsLead[p]) + 1
            /\ OfsLead[n][Len(OfsLead[p]) + 1] = More(x)
            /\ \A i \in 1..Len(OfsLead[p]) : OfsLead[n][i] = OfsLead[p][i]
      BY <2>1, <2>4, LeadUnfold
    <3>2. p \notin D
      <4> HIDE DEF D, P
      <4>1. n <= p => FALSE
        BY <2>1, <3>1
      <4> QED BY <1>1, <4>1
    <3> HIDE DEF D
    <3>3. P(p)
      BY <3>2 DEF D
    <3>4. PICK l \in Nat : l = Len(OfsLead[p]) /\ Len(OfsLead[n]) = l + 1
      BY <3>1, LeadUnfold
    <3>5. More(x).more
      <4>1. x \in Nat
        BY PackConstants
      <4> QED BY <4>1, BytesAre
    <3>6. \A i \in 1..(l + 1) : i \in 1..l \/ i = l + 1
      BY <3>4
    <3>7. \A i \in 1..Len(OfsLead[n]) : OfsLead[n][i].more
      BY <3>1, <3>3, <3>4, <3>5, <3>6
    <3>8. ASSUME NEW k \in 0..Len(OfsLead[n])
          PROVE  \E m \in 0..n : Len(OfsLead[m]) = k /\ Agree(OfsLead[m], OfsLead[n], k)
      <4>1. CASE k = l + 1
        <5>1. n \in 0..n /\ Len(OfsLead[n]) = k /\ Agree(OfsLead[n], OfsLead[n], k)
          BY <2>1, <3>4, <4>1 DEF Agree
        <5> QED BY <5>1
      <4>2. CASE k # l + 1
        <5>1. k \in 0..l /\ \A i \in 1..k : i \in 1..l
          BY <3>4, <4>2
        <5>2. PICK m \in 0..p : Len(OfsLead[m]) = k /\ Agree(OfsLead[m], OfsLead[p], k)
          BY <3>3, <3>4, <5>1
        <5>3. Agree(OfsLead[m], OfsLead[n], k)
          BY <3>1, <3>4, <5>1, <5>2 DEF Agree
        <5>4. m \in 0..n
          BY <2>1, <3>1
        <5> QED BY <5>2, <5>3, <5>4
      <4> QED BY <4>1, <4>2
    <3>9. Len(OfsLead[n]) # 0
      BY <3>4
    <3> QED BY <2>1, <2>4, <3>7, <3>8, <3>9
  <2> QED BY <2>3, <2>4
<1>2. D = {}
  <2>1. D \in SUBSET Nat
    OBVIOUS
  <2> HIDE DEF D
  <2> QED BY <1>1, <2>1, LeastExists
<1> QED BY <1>2

(* A distance: what leads it and its low bits.                              *)
LEMMA DistanceIs ==
  ASSUME NEW d \in Nat
  PROVE  /\ OfsBytes(d) \in Seq(Byte) /\ Ended(OfsBytes(d))
         /\ d \div Group \in Nat /\ d % Group \in 0..(Group - 1)
         /\ d = (d \div Group) * Group + (d % Group) /\ d \div Group <= d
         /\ Len(OfsLead[d \div Group]) \in Nat
         /\ Len(OfsBytes(d)) = Len(OfsLead[d \div Group]) + 1
         /\ OfsBytes(d)[Len(OfsBytes(d))] = End(d % Group)
         /\ Agree(OfsBytes(d), OfsLead[d \div Group], Len(OfsLead[d \div Group]))
<1> DEFINE k == d \div Group
           x == d % Group
           s == OfsBytes(d)
           t == OfsLead[k]
<1>1. Group \in Nat \ {0, 1}
  BY PackConstants
<1>2. k \in Nat /\ x \in 0..(Group - 1) /\ d = k * Group + x
  BY <1>1, DivMod
<1>3. k <= d
  BY <1>1, Quotient
<1>4. s = t \o <<End(x)>>
  BY DEF OfsBytes
<1> HIDE DEF k, x, s
<1>5. x \in Nat
  BY <1>1, <1>2
<1>6. t \in Seq(Byte) /\ Len(t) \in Nat /\ \A i \in 1..Len(t) : t[i].more
  BY <1>2, LeadUnfold, LeadShape
<1>7. End(x) \in Byte /\ ~End(x).more
  BY <1>5, BytesAre
<1> HIDE DEF t
<1>8. /\ s \in Seq(Byte) /\ Len(s) = Len(t) + 1 /\ s[Len(t) + 1] = End(x)
      /\ \A i \in 1..Len(t) : s[i] = t[i]
  BY <1>4, <1>6, <1>7, OneMore
<1>9. Ended(s)
  <2>1. PICK l \in Nat : l = Len(t) /\ Len(s) = l + 1
    BY <1>6, <1>8
  <2>2. \A i \in 1..(l + 1) : IF i < l + 1 THEN i \in 1..l ELSE i = l + 1
    BY <2>1
  <2>3. \A i \in 1..(l + 1) : s[i].more <=> i < l + 1
    BY <1>6, <1>7, <1>8, <2>1, <2>2
  <2> QED BY <2>1, <2>3 DEF Ended
<1> QED BY <1>2, <1>3, <1>6, <1>8, <1>9 DEF k, x, s, t, Agree


-----------------------------------------------------------------------------
(* What has been read of an entry, bytes b, when n of them are: the headers
   and distances that b agrees with so far, and what they say is still to
   come.                                                                    *)
HeadTypes == {1, 2, 3, 4, 6, 7}
Numbers == 0..(Word - 1)

Followed(b, from, to) == \A i \in from..to : b[i].more
Stands(s, b, at) == \A i \in 1..Len(s) : s[i] = b[at + i]

HeadRead(b, a, n) ==
  \A t \in HeadTypes, s \in Numbers :
    n < Len(Header(t, s)) /\ Agree(Header(t, s), b, n) =>
      a.type = t /\ \E r \in Nat \ {0} : Tails(Header(t, s), n, r) /\ s = a.size + a.scale * r
HeadDone(b, a, e) ==
  \A t \in HeadTypes, s \in Numbers :
    Len(Header(t, s)) = e /\ Agree(Header(t, s), b, e) => a.type = t /\ a.size = s
DistRead(b, a, e, n) ==
  \A m \in 1..(Word - 1) : e + Len(OfsLead[m]) = n /\ Stands(OfsLead[m], b, e) => a.dist = m - 1
DistDone(b, a, e, n) ==
  \A d \in Numbers : e + Len(OfsBytes(d)) = n /\ Stands(OfsBytes(d), b, e) => a.dist = d

(* After a header of e bytes.                                               *)
PastHead(b, a, e, n, off) ==
  /\ a.part \in {"ofs", "farther", "base"} => a.type = 6
  /\ a.part = "name" => a.type = 7
  /\ a.part \in {"ofs", "name"} => n = e
  /\ a.part = "farther" => e < n /\ Followed(b, e + 1, n) /\ DistRead(b, a, e, n)
  /\ a.part = "base" \/ (a.part = "body" /\ a.type = 6) =>
       e < n /\ Followed(b, e + 1, n - 1) /\ ~b[n].more /\ DistDone(b, a, e, n)
  /\ a.part = "body" => IF a.type = 6 THEN a.dist <= off
                        ELSE n = e + (IF a.type = 7 THEN NameBytes ELSE 0)

Progress(b, a, n, off) ==
  /\ a.part = "size" => Followed(b, 1, n) /\ HeadRead(b, a, n)
  /\ a.part \notin {"first", "size"} =>
       \E e \in 1..n : Followed(b, 1, e - 1) /\ ~b[e].more /\ HeadDone(b, a, e) /\ PastHead(b, a, e, n, off)

(* The first byte of a header.                                              *)
LEMMA FirstReads ==
  ASSUME NEW b \in Seq(Byte), Len(b) \in Nat \ {0}, NEW off, NEW a, NEW t,
         t = (b[1].bits \div First) % 8, a.type = t,
         a.size = b[1].bits % First, a.scale = First,
         a.part = IF b[1].more THEN "size" ELSE AfterHeader(t)
  PROVE  Progress(b, a, 1, off)
<1>1. First \in Nat \ {0, 1} /\ Word \in Nat /\ NameBytes \in Nat
  BY PackConstants
<1>2. ASSUME NEW u \in HeadTypes, NEW s \in Numbers, Header(u, s)[1] = b[1]
      PROVE  /\ a.type = u /\ a.size = s % First /\ s \in Nat
             /\ s < First => s % First = s
             /\ ~(s < First) => s \div First \in Nat \ {0} /\ Tails(Header(u, s), 1, s \div First)
                                /\ 1 < Len(Header(u, s)) /\ s = (s % First) + First * (s \div First)
  <2>1. u \in 0..7 /\ s \in Nat
    BY <1>1 DEF HeadTypes, Numbers
  <2>2. a.type = u /\ a.size = s % First
    <3>1. /\ (Header(u, s)[1].bits \div First) % 8 = u
          /\ Header(u, s)[1].bits % First = s % First
      BY <2>1, HeaderIs
    <3> QED BY <1>2, <3>1, Zenon
  <2>3. s < First => s % First = s
    BY <1>1, <2>1
  <2>4. ASSUME ~(s < First)
        PROVE  /\ s \div First \in Nat \ {0} /\ Tails(Header(u, s), 1, s \div First)
               /\ 1 < Len(Header(u, s)) /\ s = (s % First) + First * (s \div First)
    <3> DEFINE r == s \div First
               x == s % First
    <3>1. r \in Nat \ {0} /\ Tails(Header(u, s), 1, r)
      BY <2>1, <2>4, HeaderIs
    <3>2. r \in Nat /\ x \in 0..(First - 1) /\ s = r * First + x
      BY <1>1, <2>1, DivMod
    <3> HIDE DEF r, x
    <3>3. Len(SizeBytes[r]) \in Nat \ {0}
      BY <3>1, SizeShape DEF Ended
    <3>4. 1 < Len(Header(u, s))
      BY <3>1, <3>3 DEF Tails
    <3>5. r * First = First * r /\ r * First \in Nat
      BY <1>1, <3>2
    <3>6. s = x + First * r
      BY <1>1, <3>2, <3>5
    <3> QED BY <3>1, <3>4, <3>6 DEF r, x
  <2> QED BY <2>1, <2>2, <2>3, <2>4
<1>3. 1..1 = {1} /\ 1..(1 - 1) = {} /\ 1 \in 1..1
  OBVIOUS
<1>4. CASE b[1].more
  <2>1. a.part = "size" /\ Followed(b, 1, 1)
    BY <1>3, <1>4 DEF Followed
  <2>2. ASSUME NEW u \in HeadTypes, NEW s \in Numbers, 1 < Len(Header(u, s)), Agree(Header(u, s), b, 1)
        PROVE  a.type = u /\ \E r \in Nat \ {0} : Tails(Header(u, s), 1, r) /\ s = a.size + a.scale * r
    <3>1. Header(u, s)[1] = b[1]
      BY <1>3, <2>2 DEF Agree
    <3>2. ~(s < First)
      <4> DEFINE l == Len(Header(u, s))
      <4>1. s < First => l = 1
        <5>1. u \in 0..7 /\ s \in Nat
          BY <1>1 DEF HeadTypes, Numbers
        <5> QED BY <5>1, HeaderIs
      <4>2. 1 < l
        BY <2>2
      <4> HIDE DEF l
      <4> QED BY <4>1, <4>2
    <3>3. /\ a.type = u /\ a.size = s % First
          /\ s \div First \in Nat \ {0} /\ Tails(Header(u, s), 1, s \div First)
          /\ s = (s % First) + First * (s \div First)
      BY <1>2, <3>1, <3>2
    <3> QED BY <3>3
  <2> QED BY <2>1, <2>2 DEF Progress, HeadRead
<1>5. CASE ~b[1].more
  <2>1. a.part = AfterHeader(t)
    BY <1>5
  <2>2. HeadDone(b, a, 1)
    <3> SUFFICES ASSUME NEW u \in HeadTypes, NEW s \in Numbers,
                        Len(Header(u, s)) = 1, Agree(Header(u, s), b, 1)
                 PROVE  a.type = u /\ a.size = s
      BY DEF HeadDone
    <3>1. Header(u, s)[1] = b[1]
      BY <1>3 DEF Agree
    <3>2. s < First
      <4> DEFINE l == Len(Header(u, s))
      <4>1. ~(s < First) => 1 < l
        BY <1>2, <3>1
      <4>2. l = 1
        OBVIOUS
      <4> HIDE DEF l
      <4> QED BY <4>1, <4>2
    <3> QED BY <1>2, <3>1, <3>2
  <2>3. Followed(b, 1, 1 - 1)
    BY <1>3 DEF Followed
  <2>4. PastHead(b, a, 1, 1, off)
    BY <1>1, <2>1 DEF PastHead, AfterHeader
  <2>5. a.part \notin {"first", "size"}
    BY <2>1 DEF AfterHeader
  <2> QED BY <1>3, <1>5, <2>2, <2>3, <2>4, <2>5 DEF Progress
<1> QED BY <1>4, <1>5


(* A group of bits that fits the word is put in its place whole.            *)
LEMMA PlacedWhole ==
  ASSUME NEW x \in Nat, NEW scale \in Nat, x * scale < Word
  PROVE  Placed(x, scale) = x * scale /\ x * scale \in Nat
<1>1. x * scale \in Nat /\ Word \in Nat \ {0}
  BY PackConstants
<1> DEFINE y == x * scale
<1>2. y \in Nat /\ y < Word
  BY <1>1
<1> HIDE DEF y
<1>3. y % Word = y
  BY <1>1, <1>2
<1> QED BY <1>1, <1>3 DEF Placed, y

(* One group of a number: what is added is what it stands for.              *)
LEMMA GroupTaken ==
  ASSUME NEW size \in Nat, NEW scale \in Nat, NEW k \in Nat, NEW x \in Nat,
         size + scale * (k * Group + x) < Word
  PROVE  /\ Placed(x, scale) = x * scale
         /\ size + scale * (k * Group + x) = (size + Placed(x, scale)) + (scale * Group) * k
<1>1. Group \in Nat
  BY PackConstants
<1> DEFINE p == k * Group
           y == x * scale
           z == scale * p
<1>2. p \in Nat /\ y \in Nat /\ z \in Nat
  <2>1. p \in Nat
    BY <1>1
  <2> HIDE DEF p
  <2> QED BY <2>1
<1>3. scale * (p + x) = z + y
  <2> HIDE DEF p
  <2> QED BY <1>2
<1>4. (scale * Group) * k = z
  BY <1>1
<1>5. size + scale * (p + x) < Word
  OBVIOUS
<1>6. Word \in Nat
  BY PackConstants
<1> HIDE DEF p, z
<1>7. y < Word
  <2> HIDE DEF y
  <2> QED BY <1>2, <1>3, <1>5, <1>6
<1>8. Placed(x, scale) = y
  BY <1>7, PlacedWhole
<1> HIDE DEF y
<1>9. size + (z + y) = (size + y) + z
  BY <1>2
<1> QED BY <1>3, <1>4, <1>8, <1>9 DEF p, y

(* A later byte of a header.                                                *)
LEMMA SizeReads ==
  ASSUME NEW b, NEW n \in Nat \ {0}, NEW off, NEW a, NEW c,
         a.part = "size", a.size \in Nat, a.scale \in Nat \ {0}, Progress(b, a, n, off),
         b[n + 1].bits \in Nat,
         c.type = a.type, c.size = a.size + Placed(b[n + 1].bits, a.scale),
         c.scale = a.scale * Group,
         c.part = IF b[n + 1].more THEN "size" ELSE AfterHeader(a.type)
  PROVE  Progress(b, c, n + 1, off)
<1>1. Followed(b, 1, n) /\ HeadRead(b, a, n)
  BY DEF Progress
<1>2. \A i \in 1..(n + 1) : i \in 1..n \/ i = n + 1
  OBVIOUS
<1>3. ASSUME NEW t \in HeadTypes, NEW s \in Numbers, n + 1 <= Len(Header(t, s)),
             Agree(Header(t, s), b, n + 1)
      PROVE  /\ c.type = t
             /\ b[n + 1].more => /\ n + 1 < Len(Header(t, s))
                                 /\ \E r \in Nat \ {0} : Tails(Header(t, s), n + 1, r) /\ s = c.size + c.scale * r
             /\ ~b[n + 1].more => Len(Header(t, s)) = n + 1 /\ c.size = s
  <2> DEFINE H == Header(t, s)
  <2>1. t \in 0..7 /\ s \in Nat /\ s < Word /\ Word \in Nat /\ Group \in Nat \ {0}
    BY PackConstants DEF HeadTypes, Numbers
  <2>2. PICK l \in Nat : l = Len(H) /\ n + 1 <= l
    <3>1. Len(H) \in Nat
      BY <2>1, HeaderIs DEF Ended
    <3> QED BY <1>3, <3>1
  <2> HIDE DEF H
  <2>3. n < Len(H) /\ Agree(H, b, n) /\ H[n + 1] = b[n + 1]
    <3>1. n + 1 \in 1..(n + 1) /\ \A i \in 1..n : i \in 1..(n + 1)
      OBVIOUS
    <3>2. Agree(H, b, n + 1)
      BY <1>3 DEF H
    <3> QED BY <2>2, <3>1, <3>2 DEF Agree
  <2>4. PICK r \in Nat \ {0} : Tails(H, n, r) /\ s = a.size + a.scale * r
    BY <1>1, <2>3 DEF HeadRead, H
  <2>5. a.type = t
    BY <1>1, <2>3 DEF HeadRead, H
  <2>6. Ended(SizeBytes[r]) /\ 1 \in 1..Len(SizeBytes[r])
    BY SizeShape DEF Ended
  <2>7. b[n + 1] = SizeBytes[r][1]
    BY <2>3, <2>4, <2>6 DEF Tails
  <2>8. CASE r < Group
    <3>1. Len(SizeBytes[r]) = 1 /\ b[n + 1] = End(r)
      BY <2>7, <2>8, SizeUnfold
    <3>2. ~b[n + 1].more /\ b[n + 1].bits = r
      BY <3>1, BytesAre
    <3>3. Len(H) = n + 1
      BY <2>4, <3>1 DEF Tails
    <3>4. c.size = s
      <4> DEFINE y == r * a.scale
      <4>1. y \in Nat /\ s = a.size + y
        BY <2>4
      <4>2. y < Word
        <5> HIDE DEF y
        <5> QED BY <2>1, <4>1
      <4>3. Placed(r, a.scale) = y
        BY <4>2, PlacedWhole
      <4> HIDE DEF y
      <4> QED BY <3>2, <4>1, <4>3
    <3> QED BY <2>5, <3>2, <3>3, <3>4 DEF H
  <2>9. CASE ~(r < Group)
    <3> DEFINE k == r \div Group
               x == r % Group
    <3>1. /\ k \in Nat \ {0} /\ Len(SizeBytes[r]) = 1 + Len(SizeBytes[k]) /\ b[n + 1] = More(x)
          /\ \A i \in 1..Len(SizeBytes[k]) : SizeBytes[r][1 + i] = SizeBytes[k][i]
      BY <2>7, <2>9, SizeUnfold
    <3>2. x \in Nat /\ r = k * Group + x
      <4>1. k \in Nat /\ x \in 0..(Group - 1) /\ r = k * Group + x
        BY <2>1, DivMod
      <4> QED BY <2>1, <4>1
    <3> HIDE DEF k, x
    <3>3. b[n + 1].more /\ b[n + 1].bits = x
      BY <3>1, <3>2, BytesAre
    <3>4. PICK m \in Nat \ {0} : m = Len(SizeBytes[k])
      BY <3>1, SizeShape DEF Ended
    <3>5. Len(H) = n + (1 + m) /\ \A i \in 1..(1 + m) : H[n + i] = SizeBytes[r][i]
      BY <2>4, <3>1, <3>4 DEF Tails
    <3>6. Len(H) = (n + 1) + m /\ n + 1 < Len(H)
      BY <3>5
    <3>7. ASSUME NEW i \in 1..m PROVE H[(n + 1) + i] = SizeBytes[k][i]
      <4>1. (n + 1) + i = n + (1 + i) /\ 1 + i \in 1..(1 + m)
        BY <3>4
      <4>2. H[n + (1 + i)] = SizeBytes[r][1 + i] /\ SizeBytes[r][1 + i] = SizeBytes[k][i]
        BY <3>1, <3>4, <3>5, <4>1
      <4> QED BY <4>1, <4>2
    <3>8. Tails(H, n + 1, k)
      BY <3>4, <3>6, <3>7 DEF Tails
    <3>9. s = c.size + c.scale * k
      <4>1. s = a.size + a.scale * (k * Group + x)
        BY <2>4, <3>2
      <4>2. a.size + a.scale * (k * Group + x) = (a.size + Placed(x, a.scale)) + (a.scale * Group) * k
        BY <2>1, <3>1, <3>2, <4>1, GroupTaken
      <4> QED BY <3>3, <4>1, <4>2
    <3> QED BY <2>5, <3>1, <3>3, <3>6, <3>8, <3>9 DEF H
  <2> QED BY <2>8, <2>9
<1>4. ASSUME NEW t \in HeadTypes, NEW s \in Numbers PROVE Len(Header(t, s)) \in Nat
  <2>1. t \in 0..7 /\ s \in Nat
    BY PackConstants DEF HeadTypes, Numbers
  <2> QED BY <2>1, HeaderIs DEF Ended
<1>5. CASE b[n + 1].more
  <2>1. c.part = "size" /\ Followed(b, 1, n + 1)
    BY <1>1, <1>2, <1>5 DEF Followed
  <2>2. HeadRead(b, c, n + 1)
    <3> SUFFICES ASSUME NEW t \in HeadTypes, NEW s \in Numbers,
                        n + 1 < Len(Header(t, s)), Agree(Header(t, s), b, n + 1)
                 PROVE  c.type = t /\ \E r \in Nat \ {0} : Tails(Header(t, s), n + 1, r) /\ s = c.size + c.scale * r
      BY DEF HeadRead
    <3>1. n + 1 <= Len(Header(t, s))
      BY <1>4
    <3> QED BY <1>3, <1>5, <3>1
  <2> QED BY <2>1, <2>2 DEF Progress
<1>6. CASE ~b[n + 1].more
  <2>1. c.part = AfterHeader(a.type)
    BY <1>6
  <2>2. HeadDone(b, c, n + 1)
    <3> SUFFICES ASSUME NEW t \in HeadTypes, NEW s \in Numbers,
                        Len(Header(t, s)) = n + 1, Agree(Header(t, s), b, n + 1)
                 PROVE  c.type = t /\ c.size = s
      BY DEF HeadDone
    <3>1. n + 1 <= Len(Header(t, s))
      BY <1>4
    <3> QED BY <1>3, <1>6, <3>1
  <2>3. Followed(b, 1, (n + 1) - 1) /\ n + 1 \in 1..(n + 1)
    <3>1. (n + 1) - 1 = n
      OBVIOUS
    <3> QED BY <1>1, <3>1
  <2>4. PastHead(b, c, n + 1, n + 1, off)
    <3>1. NameBytes \in Nat /\ n + 1 + 0 = n + 1
      BY PackConstants
    <3> QED BY <2>1, <3>1 DEF PastHead, AfterHeader
  <2>5. c.part \notin {"first", "size"}
    BY <2>1 DEF AfterHeader
  <2> QED BY <1>6, <2>2, <2>3, <2>4, <2>5 DEF Progress
<1> QED BY <1>5, <1>6


(* Nothing of a header is read again.                                       *)
SameHead(a, c) == c.type = a.type /\ c.size = a.size

(* A byte of a distance.                                                    *)
LEMMA OfsReads ==
  ASSUME NEW b, NEW e \in Nat, NEW n \in Nat, NEW off, NEW a, NEW c,
         a.part \in {"ofs", "farther"}, HeadDone(b, a, e), PastHead(b, a, e, n, off),
         b[n + 1].bits \in Nat,
         SameHead(a, c),
         a.part = "ofs" => c.dist = b[n + 1].bits,
         a.part # "ofs" => c.dist = Farther(a.dist, b[n + 1].bits),
         c.part = IF b[n + 1].more THEN "farther" ELSE "base"
  PROVE  HeadDone(b, c, e) /\ PastHead(b, c, e, n + 1, off)
<1>1. /\ a.type = 6 /\ (a.part = "ofs" => n = e)
      /\ a.part = "farther" => e < n /\ Followed(b, e + 1, n) /\ DistRead(b, a, e, n)
  BY DEF PastHead
<1>2. Group \in Nat \ {0, 1} /\ Word \in Nat \ {0}
  BY PackConstants
<1>3. ASSUME NEW k \in Nat, NEW x \in Nat, k * Group + x < Word, e + Len(OfsLead[k]) = n,
             Stands(OfsLead[k], b, e), b[n + 1].bits = x
      PROVE  c.dist = k * Group + x
  <2>1. PICK l \in Nat : l = Len(OfsLead[k]) /\ (k = 0 <=> l = 0) /\ n = e + l
    BY <1>3, LeadUnfold, LeadShape
  <2>2. CASE k = 0
    <3>1. a.part = "ofs"
      BY <1>1, <2>1, <2>2
    <3>2. k * Group + x = x
      BY <1>2, <2>2
    <3> QED BY <1>3, <3>1, <3>2
  <2>3. CASE k # 0
    <3> DEFINE y == k * Group
    <3>1. y \in Nat /\ k <= y
      BY <1>2, <2>3
    <3>2. y < Word
      <4> HIDE DEF y
      <4>1. y + x < Word
        BY <1>3 DEF y
      <4> QED BY <1>2, <3>1, <4>1
    <3>3. a.part = "farther" /\ k \in 1..(Word - 1)
      <4>1. a.part = "farther"
        BY <1>1, <2>1, <2>3
      <4> HIDE DEF y
      <4> QED BY <1>2, <2>3, <3>1, <3>2, <4>1
    <3>4. a.dist = k - 1
      BY <1>1, <1>3, <3>3 DEF DistRead
    <3>5. a.dist + 1 = k
      BY <3>4
    <3>6. Placed(k, Group) = y
      BY <1>2, <3>2, PlacedWhole
    <3> QED BY <1>3, <3>3, <3>5, <3>6 DEF Farther
  <2> QED BY <2>2, <2>3
<1>4. HeadDone(b, c, e) /\ c.type = 6
  BY <1>1 DEF HeadDone, SameHead
<1>5. \A i \in (e + 1)..(n + 1) : (a.part = "farther" /\ i \in (e + 1)..n) \/ i = n + 1
  BY <1>1
<1>6. e < n + 1
  BY <1>1
<1>7. CASE b[n + 1].more
  <2>1. DistRead(b, c, e, n + 1)
    <3> SUFFICES ASSUME NEW m \in 1..(Word - 1), e + Len(OfsLead[m]) = n + 1, Stands(OfsLead[m], b, e)
                 PROVE  c.dist = m - 1
      BY DEF DistRead
    <3>1. m \in Nat /\ m # 0 /\ m < Word
      BY <1>2
    <3>2. PICK k \in Nat, x \in 0..(Group - 1) :
            /\ k < m /\ m = k * Group + x + 1
            /\ Len(OfsLead[m]) = Len(OfsLead[k]) + 1
            /\ OfsLead[m][Len(OfsLead[k]) + 1] = More(x)
            /\ \A i \in 1..Len(OfsLead[k]) : OfsLead[m][i] = OfsLead[k][i]
      BY <3>1, LeadUnfold
    <3>3. PICK l \in Nat : l = Len(OfsLead[k]) /\ n = e + l /\ l + 1 = Len(OfsLead[m])
      <4>1. PICK l \in Nat : l = Len(OfsLead[k])
        BY LeadUnfold
      <4> QED BY <3>2, <4>1
    <3>4. x \in Nat /\ k * Group \in Nat
      BY <1>2
    <3>5. l + 1 \in 1..(l + 1) /\ (\A i \in 1..l : i \in 1..(l + 1)) /\ e + (l + 1) = n + 1
      BY <3>3
    <3>6. b[n + 1] = More(x)
      BY <3>2, <3>3, <3>5 DEF Stands
    <3>7. Stands(OfsLead[k], b, e)
      BY <3>2, <3>3, <3>5 DEF Stands
    <3>8. k * Group + x < Word /\ m - 1 = k * Group + x
      BY <1>2, <3>1, <3>2, <3>4
    <3>9. b[n + 1].bits = x
      BY <3>4, <3>6, BytesAre
    <3>10. c.dist = k * Group + x
      BY <1>3, <3>3, <3>4, <3>7, <3>8, <3>9
    <3> QED BY <3>8, <3>10
  <2>2. Followed(b, e + 1, n + 1)
    BY <1>1, <1>5, <1>7 DEF Followed
  <2>3. c.part = "farther"
    BY <1>7
  <2> QED BY <1>1, <1>4, <1>6, <2>1, <2>2, <2>3 DEF PastHead
<1>8. CASE ~b[n + 1].more
  <2>1. DistDone(b, c, e, n + 1)
    <3> SUFFICES ASSUME NEW d \in Numbers, e + Len(OfsBytes(d)) = n + 1, Stands(OfsBytes(d), b, e)
                 PROVE  c.dist = d
      BY DEF DistDone
    <3>1. d \in Nat /\ d < Word
      BY <1>2 DEF Numbers
    <3> DEFINE k == d \div Group
               x == d % Group
               D == OfsBytes(d)
    <3>2. /\ k \in Nat /\ x \in 0..(Group - 1) /\ d = k * Group + x
          /\ Len(OfsLead[k]) \in Nat /\ Len(D) = Len(OfsLead[k]) + 1
          /\ D[Len(D)] = End(x) /\ Agree(D, OfsLead[k], Len(OfsLead[k]))
      BY <3>1, DistanceIs
    <3> HIDE DEF k, x, D
    <3>3. PICK l \in Nat : l = Len(OfsLead[k]) /\ Len(D) = l + 1
      BY <3>2
    <3>4. n = e + l /\ e + (l + 1) = n + 1
      BY <3>3 DEF D
    <3>5. l + 1 \in 1..(l + 1) /\ \A i \in 1..l : i \in 1..(l + 1)
      BY <3>3
    <3>6. \A i \in 1..(l + 1) : D[i] = b[e + i]
      BY <3>3 DEF D, Stands
    <3>7. b[n + 1] = End(x) /\ Stands(OfsLead[k], b, e)
      BY <3>2, <3>3, <3>4, <3>5, <3>6 DEF Stands, Agree
    <3>8. x \in Nat
      BY <1>2, <3>2
    <3>9. b[n + 1].bits = x
      BY <3>7, <3>8, BytesAre
    <3>10. c.dist = k * Group + x
      BY <1>3, <3>1, <3>2, <3>3, <3>4, <3>7, <3>8, <3>9
    <3> QED BY <3>2, <3>10
  <2>2. Followed(b, e + 1, (n + 1) - 1)
    <3>1. (n + 1) - 1 = n /\ (a.part = "ofs" => (e + 1)..n = {})
      BY <1>1
    <3>2. CASE a.part = "ofs"
      BY <3>1, <3>2 DEF Followed
    <3>3. CASE a.part = "farther"
      BY <1>1, <3>1, <3>3
    <3> QED BY <3>2, <3>3
  <2>3. c.part = "base"
    BY <1>8
  <2> QED BY <1>1, <1>4, <1>6, <1>8, <2>1, <2>2, <2>3 DEF PastHead
<1> QED BY <1>7, <1>8


-----------------------------------------------------------------------------
(* Where the reading of an entry may stop, and with what.                   *)
Outcome(type) ==
  IF type \in {0, 5} \/ ~input.zlib THEN "invalid" ELSE IF input.body > MaxObject THEN "bomb" ELSE "ok"
EntryStop ==
  /\ acc.part # "body" => result = "oob"
  /\ acc.part \in {"first", "ofs"} => Beyond
  /\ acc.part = "size" => Beyond \/ ~ShiftFits(acc.scale)
  /\ acc.part = "farther" => Beyond \/ acc.dist + 1 = Word
  /\ acc.part = "base" => acc.dist > input.off
  /\ acc.part = "name" => ~NameFits
  /\ acc.part = "body" => result = Outcome(acc.type)

EntryInv ==
  call = "read_entry" =>
    /\ EntryType
    /\ Progress(input.bytes, acc, pos - 1, input.off)
    /\ result # "pending" => EntryStop

(* A step that reads leaves the rest of the invariant to be shown; one that
   answers only has to say why.                                             *)
LEMMA EntryMoves ==
  ASSUME EntryInv, call = "read_entry", EntryStep
  PROVE  /\ \A m, c : Advance(m, c) /\ Progress(input.bytes, c, (pos + m) - 1, input.off) => EntryInv'
         /\ \A r : Return(r) /\ EntryStop' => EntryInv'
<1>1. EntryType' /\ EntryType /\ result = "pending" /\ Progress(input.bytes, acc, pos - 1, input.off)
  BY EntryStepTypes DEF EntryInv, EntryStep, Reading
<1>2. ASSUME NEW m, NEW c, Advance(m, c), Progress(input.bytes, c, (pos + m) - 1, input.off)
      PROVE  EntryInv'
  <2>1. pos' = pos + m /\ acc' = c /\ input' = input /\ result' = "pending"
    BY <1>1, <1>2 DEF Advance
  <2>2. Progress(input'.bytes, acc', pos' - 1, input'.off)
    BY <1>2, <2>1, Zenon
  <2> QED BY <1>1, <2>1, <2>2, Zenon DEF EntryInv
<1>3. ASSUME NEW r, Return(r), EntryStop' PROVE EntryInv'
  <2>1. pos' = pos /\ acc' = acc /\ input' = input
    BY <1>3 DEF Return
  <2>2. Progress(input'.bytes, acc', pos' - 1, input'.off)
    BY <1>1, <2>1, Zenon
  <2> QED BY <1>1, <1>3, <2>2, Zenon DEF EntryInv
<1> QED BY <1>2, <1>3, Zenon

(* Any byte of an entry, its base, its name, its body.                      *)
LEMMA EntryStepKeeps ==
  ASSUME EntryInv, call = "read_entry", EntryStep
  PROVE  EntryInv'
<1> DEFINE b == input.bytes
           n == pos - 1
           off == input.off
<1>1. /\ input \in Entries /\ pos \in 1..(Len(b) + 1) /\ acc \in EntryParts
      /\ b \in Seq(Byte) /\ \A i \in 1..Len(b) : b[i].bits \in Nat
      /\ IF acc.part = "first" THEN pos = 1 /\ acc.scale = First ELSE pos > 1
  BY EntryBytes DEF EntryInv, EntryType
<1>2. Progress(b, acc, n, off) /\ n \in Nat /\ n + 1 = pos /\ Len(b) \in Nat
  BY <1>1 DEF EntryInv
<1>3. ASSUME NEW m, NEW c, Advance(m, c), Progress(b, c, (pos + m) - 1, off) PROVE EntryInv'
  BY <1>3, EntryMoves
<1>4. ASSUME NEW r, Return(r), EntryStop' PROVE EntryInv'
  BY <1>4, EntryMoves
<1>5. (pos + 1) - 1 = pos /\ (pos + 0) - 1 = n
  BY <1>1
<1>6. ASSUME ~Beyond PROVE pos \in 1..Len(b) /\ At = b[pos] /\ At.bits \in Nat
  <2>1. pos \in 1..Len(b)
    BY <1>1, <1>2, <1>6 DEF Beyond
  <2> QED BY <1>1, <2>1 DEF At
<1>7. ASSUME acc.part \notin {"first", "size"}
      PROVE  \E e \in 1..n : /\ Followed(b, 1, e - 1) /\ ~b[e].more /\ HeadDone(b, acc, e)
                             /\ PastHead(b, acc, e, n, off)
  BY <1>2, <1>7 DEF Progress
<1>8. CASE FirstByte
  <2> DEFINE t == (At.bits \div First) % 8
             c == [acc EXCEPT !.type = t, !.size = At.bits % First,
                              !.part = IF At.more THEN "size" ELSE AfterHeader(t)]
  <2>1. acc.part = "first" /\ ~Beyond /\ Advance(1, c)
    BY <1>8 DEF FirstByte
  <2>2. pos = 1 /\ At = b[1] /\ Len(b) \in Nat \ {0} /\ acc.scale = First
    BY <1>1, <1>2, <1>6, <2>1
  <2>3. t = (b[1].bits \div First) % 8
    BY <2>2
  <2>4. /\ c.type = t /\ c.size = b[1].bits % First /\ c.scale = First
        /\ c.part = IF b[1].more THEN "size" ELSE AfterHeader(t)
    <3> HIDE DEF t
    <3> QED BY <1>1, <2>2 DEF EntryParts
  <2> HIDE DEF c, t
  <2>5. Progress(b, c, 1, off)
    BY <1>1, <2>2, <2>3, <2>4, FirstReads
  <2>6. Progress(b, c, (pos + 1) - 1, off)
    BY <1>5, <2>2, <2>5
  <2> QED BY <1>3, <2>1, <2>6
<1>9. CASE SizeByte
  <2> DEFINE c == [acc EXCEPT !.size = @ + Placed(At.bits, acc.scale), !.scale = @ * Group,
                              !.part = IF At.more THEN "size" ELSE AfterHeader(acc.type)]
  <2>1. acc.part = "size" /\ ~Beyond
    BY <1>9 DEF SizeByte
  <2>2. CASE ~ShiftFits(acc.scale)
    <3>1. Return("oob")
      BY <1>9, <2>2 DEF SizeByte
    <3>2. EntryStop'
      BY <2>1, <2>2, <3>1 DEF Return, EntryStop, ShiftFits
    <3> QED BY <1>4, <3>1, <3>2
  <2>3. CASE ShiftFits(acc.scale)
    <3>1. Advance(1, c)
      BY <1>9, <2>3 DEF SizeByte
    <3>2. n \in Nat \ {0} /\ At = b[n + 1] /\ b[n + 1].bits \in Nat
      <4>1. pos > 1
        BY <1>1, <2>1
      <4>2. n # 0
        BY <1>1, <4>1
      <4> HIDE DEF n
      <4> QED BY <1>2, <1>6, <2>1, <4>2
    <3>3. acc.size \in Nat /\ acc.scale \in Nat \ {0}
      BY <1>1, PackConstants DEF EntryParts
    <3>4. /\ c.type = acc.type /\ c.size = acc.size + Placed(b[n + 1].bits, acc.scale)
          /\ c.scale = acc.scale * Group
          /\ c.part = IF b[n + 1].more THEN "size" ELSE AfterHeader(acc.type)
      <4> HIDE DEF n
      <4> QED BY <1>1, <3>2 DEF EntryParts
    <3> HIDE DEF c, n
    <3>5. Progress(b, c, n + 1, off)
      BY <1>2, <2>1, <3>2, <3>3, <3>4, SizeReads
    <3>6. Progress(b, c, (pos + 1) - 1, off)
      BY <1>2, <1>5, <3>5
    <3> QED BY <1>3, <3>1, <3>6
  <2> QED BY <2>2, <2>3
<1>10. CASE OfsByte
  <2> DEFINE c == [acc EXCEPT !.dist = IF acc.part = "ofs" THEN At.bits ELSE Farther(acc.dist, At.bits),
                              !.part = IF At.more THEN "farther" ELSE "base"]
  <2>1. acc.part \in {"ofs", "farther"} /\ ~Beyond
    BY <1>10 DEF OfsByte
  <2>2. CASE acc.part = "farther" /\ acc.dist + 1 = Word
    <3>1. Return("oob")
      BY <1>10, <2>2 DEF OfsByte
    <3>2. EntryStop'
      BY <2>2, <3>1 DEF Return, EntryStop
    <3> QED BY <1>4, <3>1, <3>2
  <2>3. CASE ~(acc.part = "farther" /\ acc.dist + 1 = Word)
    <3>1. Advance(1, c)
      BY <1>10, <2>3 DEF OfsByte
    <3>2. PICK e \in 1..n : /\ Followed(b, 1, e - 1) /\ ~b[e].more /\ HeadDone(b, acc, e)
                            /\ PastHead(b, acc, e, n, off)
      BY <1>7, <2>1
    <3>3. At = b[n + 1] /\ b[n + 1].bits \in Nat
      <4> HIDE DEF n
      <4> QED BY <1>2, <1>6, <2>1
    <3>4. SameHead(acc, c) /\ c.part = IF b[n + 1].more THEN "farther" ELSE "base"
      <4> HIDE DEF n
      <4> QED BY <1>1, <3>3 DEF EntryParts, SameHead
    <3>5. /\ acc.part = "ofs" => c.dist = b[n + 1].bits
          /\ acc.part # "ofs" => c.dist = Farther(acc.dist, b[n + 1].bits)
      <4> HIDE DEF n
      <4> QED BY <1>1, <3>3 DEF EntryParts
    <3> HIDE DEF c, n
    <3>6. e \in Nat /\ e \in 1..(n + 1) /\ n \in Nat
      BY <1>2
    <3>7. HeadDone(b, c, e) /\ PastHead(b, c, e, n + 1, off)
      BY <2>1, <3>2, <3>3, <3>4, <3>5, <3>6, OfsReads
    <3>8. c.part \notin {"first", "size"}
      BY <3>4
    <3>9. Progress(b, c, n + 1, off)
      BY <3>2, <3>6, <3>7, <3>8 DEF Progress
    <3>10. Progress(b, c, (pos + 1) - 1, off)
      BY <1>2, <1>5, <3>9
    <3> QED BY <1>3, <3>1, <3>10
  <2> QED BY <2>2, <2>3
<1>11. CASE Base \/ Name
  <2> DEFINE c == [acc EXCEPT !.part = "body"]
  <2>1. acc.part \in {"base", "name"} /\ (Base => acc.part = "base") /\ (Name => acc.part = "name")
    BY <1>11 DEF Base, Name
  <2>2. CASE Return("oob") /\ (Base => acc.dist > input.off) /\ (Name => ~NameFits)
    <3>1. acc.part = "base" => acc.dist > input.off
      BY <1>11, <2>1, <2>2
    <3>2. acc.part = "name" => ~NameFits
      BY <1>11, <2>1, <2>2
    <3>3. EntryStop'
      BY <2>1, <2>2, <3>1, <3>2 DEF Return, EntryStop, NameFits
    <3> QED BY <1>4, <2>2, <3>3
  <2>3. ASSUME NEW m \in Nat, Advance(m, c),
               acc.part = "base" => m = 0 /\ ~(acc.dist > input.off), acc.part = "name" => m = NameBytes
        PROVE  EntryInv'
    <3>1. PICK e \in 1..n : /\ Followed(b, 1, e - 1) /\ ~b[e].more /\ HeadDone(b, acc, e)
                            /\ PastHead(b, acc, e, n, off)
      BY <1>7, <2>1
    <3>2. c.part = "body" /\ c.type = acc.type
      BY <1>1 DEF EntryParts
    <3>3. c.size = acc.size
      BY <1>1 DEF EntryParts
    <3>4. c.dist = acc.dist
      BY <1>1 DEF EntryParts
    <3> HIDE DEF c, n
    <3>5. HeadDone(b, c, e)
      BY <3>1, <3>2, <3>3 DEF HeadDone
    <3>6. acc.dist \in Nat /\ input.off \in Nat /\ NameBytes \in Nat
      <4>1. input.off \in Nat
        BY <1>1, PackBytesAssumption DEF Entry
      <4> QED BY <1>1, <4>1, PackConstants DEF EntryParts
    <3>7. PastHead(b, c, e, n + m, off)
      <4>1. CASE acc.part = "base"
        <5>1. n + m = n /\ acc.dist <= off
          BY <1>2, <2>3, <3>6, <4>1
        <5>2. /\ acc.type = 6 /\ e < n /\ Followed(b, e + 1, n - 1) /\ ~b[n].more
              /\ DistDone(b, acc, e, n)
          BY <3>1, <4>1 DEF PastHead
        <5>3. DistDone(b, c, e, n)
          BY <3>4, <5>2 DEF DistDone
        <5> QED BY <3>2, <3>4, <5>1, <5>2, <5>3, Zenon DEF PastHead
      <4>2. CASE acc.part = "name"
        <5>1. acc.type = 7 /\ n = e
          BY <3>1, <4>2 DEF PastHead
        <5> QED BY <2>3, <3>2, <4>2, <5>1 DEF PastHead
      <4> QED BY <2>1, <4>1, <4>2
    <3>8. e \in 1..(n + m)
      BY <1>2, <2>3
    <3>9. Progress(b, c, n + m, off)
      BY <3>1, <3>2, <3>5, <3>7, <3>8 DEF Progress
    <3>10. (pos + m) - 1 = n + m
      <4>1. n \in Nat /\ n + 1 = pos
        BY <1>2
      <4>2. (pos + m) - 1 = ((n + 1) + m) - 1
        BY <4>1, Zenon
      <4> QED BY <4>1, <4>2
    <3> QED BY <1>3, <2>3, <3>9, <3>10
  <2>4. Base => (acc.dist > input.off /\ Return("oob")) \/ (~(acc.dist > input.off) /\ Advance(0, c))
    BY DEF Base
  <2>5. Name => (~NameFits /\ Return("oob")) \/ Advance(NameBytes, c)
    BY DEF Name
  <2>6. 0 \in Nat /\ NameBytes \in Nat
    BY PackConstants
  <2> HIDE DEF c
  <2>7. CASE Base
    <3>1. CASE acc.dist > input.off /\ Return("oob")
      <4>1. ~Name
        BY <2>1, <2>7
      <4> QED BY <2>2, <3>1, <4>1
    <3>2. CASE ~(acc.dist > input.off) /\ Advance(0, c)
      <4>1. acc.part = "base" /\ acc.part # "name"
        BY <2>1, <2>7
      <4> QED BY <2>3, <2>6, <3>2, <4>1
    <3> QED BY <2>4, <2>7, <3>1, <3>2
  <2>8. CASE Name
    <3>1. CASE ~NameFits /\ Return("oob")
      <4>1. ~Base
        BY <2>1, <2>8
      <4> QED BY <2>2, <3>1, <4>1
    <3>2. CASE Advance(NameBytes, c)
      <4>1. acc.part = "name" /\ acc.part # "base"
        BY <2>1, <2>8
      <4> QED BY <2>3, <2>6, <3>2, <4>1
    <3> QED BY <2>5, <2>8, <3>1, <3>2
  <2> QED BY <1>11, <2>7, <2>8
<1>12. CASE Inflate
  <2>1. acc.part = "body" /\ Return(Outcome(acc.type))
    BY <1>12 DEF Inflate, Outcome
  <2>2. EntryStop'
    BY <2>1 DEF Return, EntryStop, Outcome
  <2> QED BY <1>4, <2>1, <2>2
<1>13. CASE acc.part \in {"first", "size", "ofs", "farther"} /\ Beyond /\ Return("oob")
  <2>1. EntryStop'
    BY <1>13 DEF Return, EntryStop, Beyond
  <2> QED BY <1>4, <1>13, <2>1
<1> QED BY <1>8, <1>9, <1>10, <1>11, <1>12, <1>13 DEF EntryStep



-----------------------------------------------------------------------------
(* The first bytes of a sequence.                                           *)
LEMMA PrefixIs ==
  ASSUME NEW S, NEW s \in Seq(S), NEW t \in Seq(S)
  PROVE  /\ IsPrefix(s, t) => Len(s) <= Len(t) /\ Agree(s, t, Len(s))
         /\ IsStrictPrefix(s, t) => Len(s) < Len(t) /\ Agree(s, t, Len(s))
<1>1. Len(s) \in Nat /\ Len(t) \in Nat
  OBVIOUS
<1>2. ASSUME IsPrefix(s, t) PROVE Len(s) <= Len(t) /\ Agree(s, t, Len(s))
  <2>1. Len(s) <= Len(t) /\ SubSeq(s, 1, Len(s)) = SubSeq(t, 1, Len(s))
    BY <1>2 DEF IsPrefix
  <2>2. \A i \in 1..Len(s) : SubSeq(s, 1, Len(s))[i] = s[i] /\ SubSeq(t, 1, Len(s))[i] = t[i]
    <3> DEFINE l == Len(s)
               p == SubSeq(s, 1, l)
               q == SubSeq(t, 1, l)
    <3>1. l \in Nat /\ (\A i \in 1..l : s[i] \in S) /\ (\A i \in 1..l : t[i] \in S)
      BY <1>1, <2>1
    <3> HIDE DEF l
    <3>2. 1 \in Int /\ l \in Int
      BY <3>1
    <3>3. \A i \in 1..((l - 1) + 1) : p[i] = s[(1 + i) - 1]
      BY <3>1, <3>2, SubSeqProperties
    <3>4. \A i \in 1..((l - 1) + 1) : q[i] = t[(1 + i) - 1]
      BY <3>1, <3>2, SubSeqProperties
    <3> HIDE DEF p, q
    <3>5. \A i \in 1..l : p[i] = s[i] /\ q[i] = t[i]
      <4>1. \A i \in 1..l : i \in 1..((l - 1) + 1) /\ (1 + i) - 1 = i
        BY <3>1
      <4> QED BY <3>3, <3>4, <4>1
    <3> QED BY <3>5 DEF l, p, q
  <2> QED BY <2>1, <2>2 DEF Agree
<1>3. ASSUME IsStrictPrefix(s, t) PROVE Len(s) < Len(t)
  <2>1. Len(s) <= Len(t) /\ Agree(s, t, Len(s)) /\ s # t
    BY <1>2, <1>3 DEF IsStrictPrefix
  <2>2. CASE Len(s) = Len(t)
    <3>1. \A i \in 1..Len(s) : s[i] = t[i]
      BY <2>1 DEF Agree
    <3>2. s = t
      BY <2>2, <3>1
    <3> QED BY <2>1, <3>2
  <2> QED BY <1>1, <2>1, <2>2
<1> QED BY <1>2, <1>3 DEF IsStrictPrefix

(* What follows the first n of them.                                        *)
LEMMA RestIs ==
  ASSUME NEW S, NEW s \in Seq(S), NEW n \in 0..Len(s)
  PROVE  /\ SubSeq(s, n + 1, Len(s)) \in Seq(S)
         /\ Len(SubSeq(s, n + 1, Len(s))) = Len(s) - n
         /\ \A i \in 1..(Len(s) - n) : SubSeq(s, n + 1, Len(s))[i] = s[n + i]
<1> DEFINE l == Len(s)
           q == SubSeq(s, n + 1, l)
<1>1. l \in Nat /\ n \in 0..l /\ \A i \in 1..l : s[i] \in S
  OBVIOUS
<1>2. SubSeq(s, n + 1, l) = q
  OBVIOUS
<1> HIDE DEF l
<1>3. n + 1 \in Int /\ l \in Int /\ \A i \in (n + 1)..l : s[i] \in S
  BY <1>1
<1>4. /\ q \in Seq(S) /\ Len(q) = (IF n + 1 <= l THEN (l - (n + 1)) + 1 ELSE 0)
      /\ \A i \in 1..((l - (n + 1)) + 1) : q[i] = s[((n + 1) + i) - 1]
  BY <1>3, SubSeqProperties
<1> HIDE DEF q
<1>5. (l - (n + 1)) + 1 = l - n /\ (n + 1 > l => l - n = 0)
  BY <1>1
<1>6. \A i \in 1..(l - n) : i \in 1..((l - (n + 1)) + 1) /\ ((n + 1) + i) - 1 = n + i
  BY <1>1
<1>7. Len(q) = l - n
  BY <1>1, <1>4, <1>5
<1>8. \A i \in 1..(l - n) : q[i] = s[n + i]
  BY <1>4, <1>6
<1> QED BY <1>4, <1>7, <1>8 DEF l, q

(* A header that the bytes agree with: they end inside it and are refused, or
   it is the one that was read, and the bytes after it come next.           *)
LEMMA HeadAnswers ==
  ASSUME EntryInv, Finished("read_entry"), NEW t \in HeadTypes, NEW s \in Numbers
  PROVE  LET b == input.bytes
             h == Header(t, s)
         IN  /\ Len(b) < Len(h) /\ Agree(h, b, Len(b)) => result = "oob"
             /\ Len(h) <= Len(b) /\ Agree(h, b, Len(h)) =>
                  /\ acc.part \notin {"first", "size"} /\ acc.type = t /\ acc.size = s
                  /\ Len(h) \in 1..(pos - 1) /\ PastHead(b, acc, Len(h), pos - 1, input.off)
<1> DEFINE b == input.bytes
           h == Header(t, s)
           n == pos - 1
           off == input.off
<1>1. /\ input \in Entries /\ pos \in 1..(Len(b) + 1) /\ acc \in EntryParts /\ b \in Seq(Byte)
      /\ Progress(b, acc, n, off) /\ EntryStop
  BY EntryBytes DEF EntryInv, EntryType, Finished
<1>2. t \in 0..7 /\ s \in Nat /\ s < Word /\ Word \in Nat
  BY PackConstants DEF HeadTypes, Numbers
<1>3. h \in Seq(Byte) /\ Ended(h)
  BY <1>2, HeaderIs
<1>4. PICK l \in Nat \ {0} : l = Len(h) /\ \A i \in 1..l : h[i].more <=> i < l
  BY <1>3 DEF Ended
<1>5. PICK k \in Nat : k = Len(b) /\ n \in 0..k
  <2>1. Len(b) \in Nat
    BY <1>1
  <2> QED BY <1>1, <2>1
<1>6. acc.part = "first" => k = 0
  <2>1. ASSUME acc.part = "first" PROVE k = 0
    <3>1. Beyond /\ pos = 1
      BY <2>1, <1>1 DEF EntryStop, EntryInv, EntryType, Finished
    <3> QED BY <1>5, <3>1 DEF Beyond
  <2> QED BY <2>1
<1>7. acc.part = "size" =>
        Followed(b, 1, n) /\ HeadRead(b, acc, n) /\ (n = k \/ ~(acc.scale < Word))
  <2>1. ASSUME acc.part = "size" PROVE n = k \/ ~(acc.scale < Word)
    <3>1. Beyond \/ ~(acc.scale < Word)
      BY <1>1, <2>1 DEF EntryStop, ShiftFits
    <3>2. Beyond => n = k
      BY <1>1, <1>5 DEF Beyond
    <3> QED BY <3>1, <3>2
  <2> QED BY <1>1, <2>1 DEF Progress
<1>8. acc.part \notin {"first", "size"} =>
        \E e \in 1..n : Followed(b, 1, e - 1) /\ ~b[e].more /\ HeadDone(b, acc, e) /\ PastHead(b, acc, e, n, off)
  BY <1>1 DEF Progress
<1>9. acc.part \in {"first", "size"} => result = "oob"
  BY <1>1 DEF EntryStop
<1> HIDE DEF b, h, n, off
<1>10. ASSUME k < l, Agree(h, b, k) PROVE result = "oob"
  <2>1. CASE acc.part \notin {"first", "size"}
    <3>1. PICK e \in 1..n : ~b[e].more
      BY <1>8, <2>1
    <3>2. e \in 1..k /\ e \in 1..l /\ e < l
      BY <1>4, <1>5, <1>10, <3>1
    <3>3. h[e] = b[e] /\ h[e].more
      BY <1>4, <1>10, <3>2 DEF Agree
    <3> QED BY <3>1, <3>3
  <2> QED BY <1>9, <2>1
<1>11. ASSUME l <= k, Agree(h, b, l)
       PROVE  /\ acc.part \notin {"first", "size"} /\ acc.type = t /\ acc.size = s
              /\ l \in 1..n /\ PastHead(b, acc, l, n, off)
  <2>1. \A i \in 1..l : b[i].more <=> i < l
    BY <1>4, <1>11 DEF Agree
  <2>2. acc.part # "first"
    BY <1>4, <1>5, <1>6, <1>11
  <2>3. acc.part # "size"
    <3> SUFFICES ASSUME acc.part = "size" PROVE FALSE
      OBVIOUS
    <3>1. n < l
      <4>1. ~(l \in 1..n)
        <5>1. l \in 1..l /\ ~b[l].more
          BY <1>4, <2>1
        <5> QED BY <1>7, <5>1 DEF Followed
      <4> QED BY <1>4, <1>5, <4>1
    <3>2. ~(acc.scale < Word)
      BY <1>4, <1>5, <1>7, <1>11, <3>1
    <3>3. Agree(h, b, n) /\ n < Len(h)
      <4>1. \A i \in 1..n : i \in 1..l
        BY <1>4, <1>5, <3>1
      <4> QED BY <1>4, <1>11, <3>1, <4>1 DEF Agree
    <3>4. PICK r \in Nat \ {0} : s = acc.size + acc.scale * r
      BY <1>7, <3>3 DEF HeadRead, h
    <3>5. acc.size \in Nat /\ acc.scale \in Nat
      BY <1>1, <1>2 DEF EntryParts
    <3> DEFINE p == acc.scale * r
    <3>6. p \in Nat /\ p >= acc.scale
      <4>1. \A u, v \in Nat : v # 0 => u * v \in Nat /\ u * v >= u
        OBVIOUS
      <4> QED BY <3>4, <3>5, <4>1
    <3>7. s = acc.size + p
      BY <3>4
    <3> HIDE DEF p
    <3> QED BY <1>2, <3>2, <3>5, <3>6, <3>7
  <2>4. PICK e \in 1..n : /\ Followed(b, 1, e - 1) /\ ~b[e].more /\ HeadDone(b, acc, e)
                          /\ PastHead(b, acc, e, n, off)
    BY <1>8, <2>2, <2>3
  <2>5. e = l
    <3>1. ~(l < e)
      <4>1. ~(l \in 1..(e - 1))
        <5>1. l \in 1..l /\ ~b[l].more
          BY <1>4, <2>1
        <5> QED BY <2>4, <5>1 DEF Followed
      <4> QED BY <1>4, <1>5, <4>1
    <3>2. ~(e < l)
      <4>1. e < l => e \in 1..l
        BY <1>4, <1>5
      <4> QED BY <2>1, <2>4, <4>1
    <3> QED BY <1>4, <1>5, <3>1, <3>2
  <2>6. acc.type = t /\ acc.size = s
    BY <1>4, <1>11, <2>4, <2>5 DEF HeadDone, h
  <2> QED BY <2>2, <2>3, <2>4, <2>5, <2>6
<1>12. /\ k < l /\ Agree(h, b, k) => result = "oob"
       /\ l <= k /\ Agree(h, b, l) =>
            /\ acc.part \notin {"first", "size"} /\ acc.type = t /\ acc.size = s
            /\ l \in 1..n /\ PastHead(b, acc, l, n, off)
  BY <1>10, <1>11, Zenon
<1> QED BY <1>4, <1>5, <1>12 DEF b, h, n, off


(* A distance that the bytes after a header of e bytes agree with: likewise. *)
LEMMA DistAnswers ==
  ASSUME EntryInv, Finished("read_entry"), NEW e \in Nat, e <= pos - 1, acc.type = 6,
         acc.part \notin {"first", "size"}, PastHead(input.bytes, acc, e, pos - 1, input.off),
         NEW d \in Numbers
  PROVE  LET b == input.bytes
             D == OfsBytes(d)
         IN  /\ Len(b) < e + Len(D) /\ (\A i \in 1..(Len(b) - e) : D[i] = b[e + i]) => result = "oob"
             /\ e + Len(D) <= Len(b) /\ Stands(D, b, e) =>
                  /\ acc.dist = d /\ pos - 1 = e + Len(D)
                  /\ result = IF d > input.off THEN "oob" ELSE Outcome(6)
<1> DEFINE b == input.bytes
           D == OfsBytes(d)
           n == pos - 1
           off == input.off
<1>1. /\ input \in Entries /\ pos \in 1..(Len(b) + 1) /\ acc \in EntryParts /\ b \in Seq(Byte)
      /\ EntryStop
  BY EntryBytes DEF EntryInv, EntryType, Finished
<1>2. d \in Nat /\ d < Word /\ Word \in Nat /\ Group \in Nat \ {0, 1}
  BY PackConstants DEF Numbers
<1>3. Ended(D)
  BY <1>2, DistanceIs
<1>4. PICK l \in Nat \ {0} : l = Len(D) /\ \A i \in 1..l : D[i].more <=> i < l
  BY <1>3 DEF Ended
<1>5. PICK k \in Nat : k = Len(b) /\ n \in 0..k /\ e \in 0..n
  <2>1. Len(b) \in Nat
    BY <1>1
  <2> QED BY <1>1, <2>1
<1>6. acc.part \in {"ofs", "farther"} =>
        n = k \/ (acc.part = "farther" /\ acc.dist + 1 = Word)
  <2>1. ASSUME acc.part \in {"ofs", "farther"}, ~(acc.part = "farther" /\ acc.dist + 1 = Word)
        PROVE  n = k
    <3>1. Beyond
      BY <1>1, <2>1 DEF EntryStop
    <3> QED BY <1>1, <1>5, <3>1 DEF Beyond
  <2> QED BY <2>1
<1>7. /\ acc.part \in {"ofs", "farther", "base", "body"}
      /\ acc.part = "ofs" => n = e
      /\ acc.part = "farther" => e < n /\ Followed(b, e + 1, n) /\ DistRead(b, acc, e, n)
      /\ acc.part \in {"base", "body"} =>
           e < n /\ Followed(b, e + 1, n - 1) /\ ~b[n].more /\ DistDone(b, acc, e, n)
      /\ acc.part = "body" => acc.dist <= off
  BY <1>1 DEF PastHead, EntryParts
<1>8. /\ acc.part \in {"ofs", "farther", "base"} => result = "oob"
      /\ acc.part = "base" => acc.dist > off
      /\ acc.part = "body" => result = Outcome(6)
  BY <1>1 DEF EntryStop
<1>9. acc.dist \in Nat /\ off \in Nat
  <2>1. off \in Nat
    BY <1>1, PackBytesAssumption DEF Entry
  <2> QED BY <1>1, <1>2, <2>1 DEF EntryParts
<1> HIDE DEF b, D, n, off
<1>10. ASSUME k < e + l, \A i \in 1..(k - e) : D[i] = b[e + i] PROVE result = "oob"
  <2>1. CASE acc.part \in {"base", "body"}
    <3>1. ~b[n].more
      BY <1>7, <2>1
    <3>2. e < n
      BY <1>7, <2>1
    <3>3. PICK i \in Nat : n = e + i /\ i # 0
      <4>1. n - e \in Nat /\ n = e + (n - e) /\ n - e # 0
        BY <1>5, <3>2
      <4> QED BY <4>1
    <3>4. i <= k - e /\ i < l
      BY <1>4, <1>5, <1>10, <3>3
    <3>5. i \in 1..(k - e) /\ i \in 1..l
      BY <1>4, <1>5, <3>3, <3>4
    <3>6. D[i].more /\ D[i] = b[n]
      BY <1>4, <1>10, <3>3, <3>4, <3>5
    <3> QED BY <3>1, <3>6
  <2> QED BY <1>7, <1>8, <2>1
<1>11. ASSUME e + l <= k, Stands(D, b, e)
       PROVE  /\ acc.dist = d /\ n = e + l
              /\ result = IF d > off THEN "oob" ELSE Outcome(6)
  <2>1. \A i \in 1..l : b[e + i].more <=> i < l
    BY <1>4, <1>11 DEF Stands
  <2>2. ~b[e + l].more
    BY <1>4, <2>1
  <2>3. acc.part # "ofs"
    BY <1>4, <1>5, <1>6, <1>7, <1>11
  <2>4. acc.part # "farther"
    <3> SUFFICES ASSUME acc.part = "farther" PROVE FALSE
      OBVIOUS
    <3>1. e < n /\ n < e + l
      <4>1. e < n /\ ~(e + l \in (e + 1)..n)
        BY <1>7, <2>2 DEF Followed
      <4>2. e + l \in Int /\ e + 1 <= e + l
        BY <1>4
      <4> QED BY <1>4, <1>5, <4>1, <4>2
    <3>2. acc.dist + 1 = Word
      BY <1>4, <1>5, <1>6, <1>11, <3>1
    <3>3. PICK q \in Nat : q = d \div Group /\ q <= d
      BY <1>2, DistanceIs
    <3>4. PICK p \in Nat : p = Len(OfsLead[q]) /\ l = p + 1 /\ Agree(D, OfsLead[q], p)
      <4>1. /\ Len(OfsLead[q]) \in Nat /\ Len(D) = Len(OfsLead[q]) + 1
            /\ Agree(D, OfsLead[q], Len(OfsLead[q]))
        BY <1>2, <3>3, DistanceIs DEF D
      <4> QED BY <1>4, <4>1
    <3>5. PICK j \in Nat : n = e + j /\ j \in 1..p
      <4>1. n - e \in Nat /\ n = e + (n - e) /\ n - e \in 1..p
        BY <1>5, <3>1, <3>4
      <4> QED BY <4>1
    <3>6. PICK m \in 0..q : Len(OfsLead[m]) = j /\ Agree(OfsLead[m], OfsLead[q], j)
      <4>1. j \in 0..Len(OfsLead[q])
        BY <3>4, <3>5
      <4> QED BY <3>3, <4>1, LeadShape
    <3>7. m # 0
      <4>1. m \in Nat /\ (m = 0 => Len(OfsLead[m]) = 0)
        BY <3>3, LeadUnfold
      <4> QED BY <3>5, <3>6, <4>1
    <3>8. Stands(OfsLead[m], b, e)
      <4> SUFFICES ASSUME NEW i \in 1..j PROVE OfsLead[m][i] = b[e + i]
        BY <3>6 DEF Stands
      <4>1. i \in 1..p /\ i \in 1..l
        BY <3>4, <3>5
      <4> QED BY <1>4, <1>11, <3>4, <3>6, <4>1 DEF Agree, Stands
    <3>9. m \in 1..(Word - 1) /\ m < Word
      BY <1>2, <3>3, <3>7
    <3>10. DistRead(b, acc, e, n) /\ e + Len(OfsLead[m]) = n
      BY <1>7, <3>5, <3>6
    <3>11. acc.dist = m - 1
      BY <3>8, <3>9, <3>10 DEF DistRead
    <3> QED BY <1>2, <3>2, <3>9, <3>11
  <2>5. acc.part \in {"base", "body"}
    BY <1>7, <2>3, <2>4
  <2>6. e < n /\ Followed(b, e + 1, n - 1) /\ ~b[n].more /\ DistDone(b, acc, e, n)
    BY <1>7, <2>5
  <2>7. n = e + l
    <3>1. ~(e + l < n)
      <4>1. e + l < n => e + l \in (e + 1)..(n - 1)
        BY <1>4, <1>5
      <4> QED BY <2>2, <2>6, <4>1 DEF Followed
    <3>2. ~(n < e + l)
      <4> SUFFICES ASSUME n < e + l PROVE FALSE
        OBVIOUS
      <4>1. PICK i \in Nat : n = e + i /\ i \in 1..l /\ i < l
        <5>1. n - e \in Nat /\ n = e + (n - e) /\ n - e \in 1..l /\ n - e < l
          BY <1>4, <1>5, <2>6
        <5> QED BY <5>1
      <4> QED BY <2>1, <2>6, <4>1
    <3> QED BY <1>4, <1>5, <3>1, <3>2
  <2>8. acc.dist = d
    BY <1>4, <1>11, <2>6, <2>7 DEF DistDone, D
  <2>9. CASE acc.part = "base"
    BY <1>8, <2>7, <2>8, <2>9
  <2>10. CASE acc.part = "body"
    <3>1. ~(d > off)
      BY <1>7, <1>9, <2>8, <2>10
    <3> QED BY <1>8, <2>7, <2>8, <2>10, <3>1
  <2> QED BY <2>5, <2>9, <2>10
<1>12. /\ k < e + l /\ (\A i \in 1..(k - e) : D[i] = b[e + i]) => result = "oob"
       /\ e + l <= k /\ Stands(D, b, e) =>
            /\ acc.dist = d /\ n = e + l
            /\ result = IF d > off THEN "oob" ELSE Outcome(6)
  BY <1>10, <1>11, Zenon
<1> QED BY <1>4, <1>5, <1>12 DEF b, D, n, off


(* What the invariant says of the answer.                                   *)
LEMMA EntryInvExact ==
  ASSUME EntryInv
  PROVE  EntryExact
<1> DEFINE b == input.bytes
           answer == IF ~input.zlib THEN "invalid" ELSE IF input.body > MaxObject THEN "bomb" ELSE "ok"
           rest(h) == SubSeq(b, Len(h.bytes) + 1, Len(b))
           taken(h) == (pos - 1) - Len(h.bytes)
           Dist(h, d) == /\ IsStrictPrefix(rest(h), d.bytes) => result = "oob"
                         /\ IsPrefix(d.bytes, rest(h)) =>
                              /\ acc.dist = d.dist /\ taken(h) = Len(d.bytes)
                              /\ result = IF d.dist > input.off THEN "oob" ELSE answer
           Given(h) == /\ acc.type = h.type /\ acc.size = h.size
                       /\ h.type < 6 => result = answer /\ taken(h) = 0
                       /\ h.type = 7 => IF Len(rest(h)) < NameBytes THEN result = "oob"
                                        ELSE result = answer /\ taken(h) = NameBytes
                       /\ h.type = 6 => \A d \in Distances : Dist(h, d)
<1>1. ASSUME Finished("read_entry"), NEW h \in Headers
      PROVE  /\ IsStrictPrefix(b, h.bytes) => result = "oob"
             /\ IsPrefix(h.bytes, b) => Given(h)
  <2>1. PICK t \in HeadTypes, s \in Numbers : h = [type |-> t, size |-> s, bytes |-> Header(t, s)]
    BY DEF Headers, HeadTypes, Numbers
  <2>2. h.type = t /\ h.size = s /\ h.bytes = Header(t, s)
    BY <2>1
  <2>3. t \in 0..7 /\ s \in Nat /\ t \notin {0, 5} /\ Word \in Nat /\ NameBytes \in Nat
    BY PackConstants DEF HeadTypes, Numbers
  <2>4. Header(t, s) \in Seq(Byte)
    BY <2>3, HeaderIs
  <2>5. /\ input \in Entries /\ b \in Seq(Byte) /\ EntryStop /\ acc \in EntryParts
        /\ pos \in 1..(Len(b) + 1)
    BY <1>1, EntryBytes DEF EntryInv, EntryType, Finished
  <2>6. Outcome(t) = answer
    BY <2>3 DEF Outcome
  <2> DEFINE H == Header(t, s)
  <2>7. /\ Len(b) < Len(H) /\ Agree(H, b, Len(b)) => result = "oob"
        /\ Len(H) <= Len(b) /\ Agree(H, b, Len(H)) =>
             /\ acc.part \notin {"first", "size"} /\ acc.type = t /\ acc.size = s
             /\ Len(H) \in 1..(pos - 1) /\ PastHead(b, acc, Len(H), pos - 1, input.off)
    BY <1>1, HeadAnswers
  <2>8. PICK l \in Nat : l = Len(H)
    BY <2>4
  <2>9. PICK k \in Nat : k = Len(b)
    BY <2>5
  <2>10. H \in Seq(Byte) /\ h.bytes = H
    BY <2>2, <2>4
  <2> HIDE DEF H
  <2>11. ASSUME IsStrictPrefix(b, H) PROVE result = "oob"
    <3>1. Len(b) < Len(H) /\ Agree(b, H, Len(b))
      BY <2>5, <2>10, <2>11, PrefixIs
    <3>2. Agree(H, b, Len(b))
      BY <3>1 DEF Agree
    <3> QED BY <2>7, <3>1, <3>2
  <2>12. ASSUME IsPrefix(H, b) PROVE Given(h)
    <3>1. Len(H) <= Len(b) /\ Agree(H, b, Len(H))
      BY <2>5, <2>10, <2>12, PrefixIs
    <3>2. /\ acc.part \notin {"first", "size"} /\ acc.type = t /\ acc.size = s
          /\ l \in 1..(pos - 1) /\ PastHead(b, acc, l, pos - 1, input.off)
      BY <2>7, <2>8, <3>1
    <3> DEFINE q == SubSeq(b, l + 1, k)
    <3>3. l \in 0..Len(b)
      BY <2>8, <2>9, <3>1
    <3>4. /\ q \in Seq(Byte) /\ Len(q) = k - l /\ \A i \in 1..(k - l) : q[i] = b[l + i]
      BY <2>5, <2>9, <3>3, RestIs
    <3>5. rest(h) = q /\ taken(h) = (pos - 1) - l
      BY <2>8, <2>9, <2>10
    <3>6. k - l \in Nat /\ l <= k /\ pos \in 1..(k + 1)
      BY <2>5, <2>8, <2>9, <3>1
    <3> HIDE DEF b, answer, q
    <3>7. ASSUME t < 6 PROVE result = answer /\ (pos - 1) - l = 0
      <4>1. acc.part = "body"
        BY <2>5, <3>2, <3>7 DEF PastHead, EntryParts
      <4>2. pos - 1 = l + 0
        BY <3>2, <3>7, <4>1 DEF PastHead
      <4>3. result = answer
        BY <2>5, <2>6, <3>2, <4>1 DEF EntryStop
      <4> QED BY <3>2, <3>6, <4>2, <4>3
    <3>8. ASSUME t = 7
          PROVE  IF k - l < NameBytes THEN result = "oob"
                 ELSE result = answer /\ (pos - 1) - l = NameBytes
      <4>1. acc.part \in {"name", "body"}
        BY <2>5, <3>2, <3>8 DEF PastHead, EntryParts
      <4>2. CASE acc.part = "name"
        <5>1. pos - 1 = l
          BY <3>2, <4>2 DEF PastHead
        <5>2. ~(pos + NameBytes <= k + 1) /\ result = "oob"
          BY <2>5, <2>9, <4>2 DEF EntryStop, NameFits, b
        <5>3. k - l < NameBytes
          BY <2>3, <3>6, <5>1, <5>2
        <5> QED BY <5>2, <5>3
      <4>3. CASE acc.part = "body"
        <5>1. pos - 1 = l + NameBytes
          BY <3>2, <3>8, <4>3 DEF PastHead
        <5>2. result = answer
          BY <2>5, <2>6, <3>2, <4>3 DEF EntryStop
        <5>3. (pos - 1) - l = NameBytes /\ ~(k - l < NameBytes)
          BY <2>3, <3>6, <5>1
        <5> QED BY <5>2, <5>3
      <4> QED BY <4>1, <4>2, <4>3
    <3>9. ASSUME t = 6, NEW d \in Distances
          PROVE  /\ IsStrictPrefix(q, d.bytes) => result = "oob"
                 /\ IsPrefix(d.bytes, q) =>
                      /\ acc.dist = d.dist /\ (pos - 1) - l = Len(d.bytes)
                      /\ result = IF d.dist > input.off THEN "oob" ELSE answer
      <4>1. PICK m \in Numbers : d = [dist |-> m, bytes |-> OfsBytes(m)]
        BY DEF Distances, Numbers
      <4>2. m \in Nat
        BY DEF Numbers
      <4> DEFINE D == OfsBytes(m)
      <4>3. D \in Seq(Byte) /\ d.dist = m /\ d.bytes = D
        BY <4>1, <4>2, DistanceIs
      <4>4. l <= pos - 1 /\ l \in Nat
        BY <2>8, <3>2, <3>6
      <4>5. /\ k < l + Len(D) /\ (\A i \in 1..(k - l) : D[i] = b[l + i]) => result = "oob"
            /\ l + Len(D) <= k /\ Stands(D, b, l) =>
                 /\ acc.dist = m /\ pos - 1 = l + Len(D)
                 /\ result = IF m > input.off THEN "oob" ELSE Outcome(6)
        <5> USE DEF b
        <5> QED BY <1>1, <2>9, <3>2, <3>9, <4>4, DistAnswers
      <4> HIDE DEF D
      <4>6. PICK j \in Nat : j = Len(D)
        BY <4>3
      <4>7. ASSUME IsStrictPrefix(q, D) PROVE result = "oob"
        <5>1. k - l < j /\ \A i \in 1..(k - l) : q[i] = D[i]
          <6>1. Len(q) < Len(D) /\ Agree(q, D, Len(q))
            BY <3>4, <4>3, <4>7, PrefixIs
          <6>2. k - l < j /\ Agree(q, D, k - l)
            BY <3>4, <4>6, <6>1, Zenon
          <6> QED BY <6>2, Zenon DEF Agree
        <5>2. k < l + j
          BY <2>8, <2>9, <4>6, <5>1
        <5>3. \A i \in 1..(k - l) : D[i] = b[l + i]
          BY <3>4, <5>1
        <5> QED BY <4>5, <4>6, <5>2, <5>3
      <4>8. ASSUME IsPrefix(D, q)
            PROVE  /\ acc.dist = m /\ (pos - 1) - l = j
                   /\ result = IF m > input.off THEN "oob" ELSE answer
        <5>1. j <= k - l /\ \A i \in 1..j : D[i] = q[i]
          BY <3>4, <4>3, <4>6, <4>8, PrefixIs DEF Agree
        <5>2. l + j <= k
          BY <2>8, <2>9, <4>6, <5>1
        <5>3. \A i \in 1..j : D[i] = b[l + i]
          <6>1. \A i \in 1..j : i \in 1..(k - l)
            BY <2>8, <2>9, <4>6, <5>1
          <6> QED BY <3>4, <5>1, <6>1
        <5>4. Stands(D, b, l)
          BY <4>6, <5>3 DEF Stands
        <5>5. /\ acc.dist = m /\ pos - 1 = l + j
              /\ result = IF m > input.off THEN "oob" ELSE Outcome(6)
          BY <4>5, <4>6, <5>2, <5>4
        <5>6. (pos - 1) - l = j
          BY <2>8, <3>6, <4>6, <5>5
        <5>7. Outcome(6) = answer
          BY <2>6, <3>9
        <5> QED BY <5>5, <5>6, <5>7
      <4> QED BY <4>3, <4>6, <4>7, <4>8
    <3> HIDE DEF rest, taken
    <3>10. \A d \in Distances : t = 6 => Dist(h, d)
      BY <3>5, <3>9
    <3> HIDE DEF Dist
    <3>11. /\ acc.type = h.type /\ acc.size = h.size
           /\ h.type < 6 => result = answer /\ taken(h) = 0
      BY <2>2, <3>2, <3>5, <3>7
    <3>12. h.type = 7 => IF Len(rest(h)) < NameBytes THEN result = "oob"
                         ELSE result = answer /\ taken(h) = NameBytes
      BY <2>2, <3>4, <3>5, <3>8
    <3>13. h.type = 6 => \A d \in Distances : Dist(h, d)
      BY <2>2, <3>10
    <3> QED BY <3>11, <3>12, <3>13
  <2> QED BY <2>10, <2>11, <2>12, Zenon
<1>2. ASSUME Finished("read_entry")
      PROVE  \A h \in Headers : /\ IsStrictPrefix(b, h.bytes) => result = "oob"
                                /\ IsPrefix(h.bytes, b) => Given(h)
  BY <1>1, <1>2
<1> QED BY <1>2, Zenon DEF EntryExact

(* The other calls leave it alone, and so does an answer given.             *)
LEMMA EntryKept ==
  ASSUME EntryInv, [Next]_vars
  PROVE  EntryInv'
<1>1. CASE EntryStep
  BY <1>1, EntryStepKeeps DEF EntryStep, Reading
<1>2. CASE DeltaStep \/ ParseLoose \/ TreeRecord \/ TreeEnd \/ CommitStep \/ ReflogStep
  <2>1. call' = call
    BY <1>2, OthersLeaveLoose, OthersLeaveTree
  <2>2. call # "read_entry"
    BY <1>2 DEF DeltaStep, ParseLoose, TreeRecord, TreeEnd, CommitStep, ReflogStep, OpenLog, NextLine,
                LogEnd, Reading
  <2> QED BY <2>1, <2>2 DEF EntryInv
<1>3. CASE Terminated \/ UNCHANGED vars
  <2>1. UNCHANGED <<call, input, pos, acc, result>>
    BY <1>3 DEF Terminated, vars
  <2> QED BY <2>1 DEF EntryInv, EntryType, EntryStop, Outcome, Beyond, NameFits
<1> QED BY <1>1, <1>2, <1>3 DEF Next

(* read_object_at reads every entry git writes with its own type, size and
   distance, up to the first byte of its body; one that ends early, that has
   its base before the pack or a body over the limit is refused.            *)
THEOREM EntryIsExact == Spec => []EntryExact
<1>1. Init => EntryInv
  <2> SUFFICES ASSUME Init, call = "read_entry" PROVE EntryInv
    BY DEF EntryInv
  <2>1. input \in Entries /\ acc = EntryAcc /\ pos = 1 /\ result = "pending"
    BY DEF Init, Begin
  <2>2. EntryType
    BY EntryStarts
  <2>3. acc.part = "first"
    BY <2>1 DEF EntryAcc
  <2> QED BY <2>1, <2>2, <2>3 DEF EntryInv, Progress
<1>2. EntryInv /\ [Next]_vars => EntryInv'
  BY EntryKept
<1>3. EntryInv => EntryExact
  BY EntryInvExact
<1> QED BY <1>1, <1>2, <1>3, PTL DEF Spec

-----------------------------------------------------------------------------
(* The two numbers of a copy, read back from the bytes that are there.      *)

(* A byte that is not there is zero.                                        *)
LEMMA DigitIs ==
  ASSUME NEW n \in Nat, NEW S \in SUBSET (0..3), NEW i \in 0..3
  PROVE  Digit(Present(n, S), i) = IF i \in S THEN LowBytes(n)[i] ELSE 0
<1> DEFINE T == {j \in S : LowBytes(n)[j] # 0}
           f == [j \in T |-> LowBytes(n)[j]]
<1>1. Present(n, S) = f /\ DOMAIN f = T
  BY DEF Present
<1>2. Digit(f, i) = IF i \in T THEN f[i] ELSE 0
  BY <1>1 DEF Digit
<1>3. i \in T => f[i] = LowBytes(n)[i] /\ i \in S
  OBVIOUS
<1>4. i \notin T => i \notin S \/ LowBytes(n)[i] = 0
  OBVIOUS
<1> HIDE DEF T, f
<1> QED BY <1>1, <1>2, <1>3, <1>4

(* A number is its low byte and the rest of it, and so on.                  *)
LEMMA LowBytesAre ==
  ASSUME NEW n \in Nat
  PROVE  \E a, b, c \in Nat :
           /\ LowBytes(n)[0] \in 0..(Radix - 1) /\ n = LowBytes(n)[0] + Radix * a
           /\ LowBytes(n)[1] \in 0..(Radix - 1) /\ a = LowBytes(n)[1] + Radix * b
           /\ LowBytes(n)[2] \in 0..(Radix - 1) /\ b = LowBytes(n)[2] + Radix * c
           /\ c < Radix => LowBytes(n)[3] = c
<1>1. Radix \in Nat \ {0}
  BY PackBytesAssumption
<1> DEFINE a == n \div Radix
           b == a \div Radix
           c == b \div Radix
<1>2. \A m \in Nat : /\ m \div Radix \in Nat /\ m % Radix \in 0..(Radix - 1)
                     /\ m = (m % Radix) + Radix * (m \div Radix)
                     /\ m < Radix => m % Radix = m
  <2> SUFFICES ASSUME NEW m \in Nat
               PROVE  /\ m \div Radix \in Nat /\ m % Radix \in 0..(Radix - 1)
                      /\ m = (m % Radix) + Radix * (m \div Radix)
                      /\ m < Radix => m % Radix = m
    OBVIOUS
  <2>1. m \div Radix \in Nat /\ m % Radix \in 0..(Radix - 1) /\ m = (m \div Radix) * Radix + (m % Radix)
    BY <1>1, DivMod
  <2>2. m < Radix => m % Radix = m
    BY <1>1
  <2> DEFINE q == m \div Radix
             x == m % Radix
  <2>3. q \in Nat /\ x \in Nat /\ m = q * Radix + x
    BY <1>1, <2>1
  <2> HIDE DEF q, x
  <2>4. m = x + Radix * q
    BY <1>1, <2>3
  <2> QED BY <2>1, <2>2, <2>4 DEF q, x
<1>3. LowBytes(n) = [i \in 0..3 |-> CASE i = 0 -> n % Radix [] i = 1 -> a % Radix
                                      [] i = 2 -> b % Radix [] OTHER -> c % Radix]
  BY DEF LowBytes
<1>4. /\ LowBytes(n)[0] = n % Radix /\ LowBytes(n)[1] = a % Radix
      /\ LowBytes(n)[2] = b % Radix /\ LowBytes(n)[3] = c % Radix
  <2> HIDE DEF a, b, c
  <2> QED BY <1>3
<1>5. a \in Nat
  BY <1>2
<1>6. b \in Nat
  <2> HIDE DEF a
  <2> QED BY <1>2, <1>5
<1>7. c \in Nat
  <2> HIDE DEF b
  <2> QED BY <1>2, <1>6
<1>8. n % Radix \in 0..(Radix - 1) /\ n = (n % Radix) + Radix * a
  BY <1>2
<1>9. a % Radix \in 0..(Radix - 1) /\ a = (a % Radix) + Radix * b
  <2> HIDE DEF a
  <2> QED BY <1>2, <1>5 DEF b
<1>10. b % Radix \in 0..(Radix - 1) /\ b = (b % Radix) + Radix * c
  <2> HIDE DEF b
  <2> QED BY <1>2, <1>6 DEF c
<1>11. c < Radix => c % Radix = c
  <2> HIDE DEF c
  <2> QED BY <1>2, <1>7
<1> HIDE DEF a, b, c
<1> QED BY <1>4, <1>5, <1>6, <1>7, <1>8, <1>9, <1>10, <1>11

(* What is over a byte is less by one of them.                              *)
LEMMA RestBelow ==
  ASSUME NEW r \in Nat \ {0}, NEW x \in Nat, NEW a \in Nat, NEW k \in Nat, x + r * a < r * k
  PROVE  a < k
<1>1. r * a = a * r /\ r * k = k * r /\ a * r \in Int /\ k * r \in Int
  BY Products
<1>2. a * r < k * r
  BY <1>1
<1> QED BY <1>2, Products

(* A copy says where it is from and how long it is.                         *)
LEMMA CopyReads ==
  /\ \A n \in Nat : n < Radix * Radix * Radix * Radix => Little(Present(n, 0..3)) = n
  /\ \A n \in 1..Big : CopySize(Present(n, 0..1)) = n
<1>1. Radix \in Nat \ {0} /\ Big = Radix * Radix
  BY PackBytesAssumption
<1>2. ASSUME NEW n \in Nat, n < Radix * Radix * Radix * Radix PROVE Little(Present(n, 0..3)) = n
  <2> DEFINE f == Present(n, 0..3)
             d == LowBytes(n)
  <2>1. /\ Digit(f, 0) = d[0] /\ Digit(f, 1) = d[1] /\ Digit(f, 2) = d[2] /\ Digit(f, 3) = d[3]
    BY DigitIs
  <2>2. PICK a, b, c \in Nat :
          /\ d[0] \in 0..(Radix - 1) /\ n = d[0] + Radix * a
          /\ d[1] \in 0..(Radix - 1) /\ a = d[1] + Radix * b
          /\ d[2] \in 0..(Radix - 1) /\ b = d[2] + Radix * c
          /\ c < Radix => d[3] = c
    BY LowBytesAre
  <2>3. c < Radix
    <3>1. d[0] \in Nat /\ d[1] \in Nat /\ d[2] \in Nat
      BY <1>1, <2>2
    <3>2. Radix * Radix * Radix * Radix = Radix * (Radix * (Radix * Radix))
      BY <1>1
    <3>3. Radix * Radix \in Nat /\ Radix * (Radix * Radix) \in Nat
      BY <1>1
    <3>4. a < Radix * (Radix * Radix)
      BY <1>1, <1>2, <2>2, <3>1, <3>2, <3>3, RestBelow
    <3>5. b < Radix * Radix
      BY <1>1, <2>2, <3>1, <3>3, <3>4, RestBelow
    <3> QED BY <1>1, <2>2, <3>1, <3>5, RestBelow
  <2> HIDE DEF f, d
  <2>4. Little(f) = d[0] + Radix * (d[1] + Radix * (d[2] + Radix * c))
    BY <2>1, <2>2, <2>3 DEF Little
  <2> QED BY <2>2, <2>4, Zenon DEF f
<1>3. ASSUME NEW n \in 1..Big PROVE CopySize(Present(n, 0..1)) = n
  <2> DEFINE f == Present(n, 0..1)
             d == LowBytes(n)
  <2>0. n \in Nat
    BY <1>1
  <2>1. /\ Digit(f, 0) = d[0] /\ Digit(f, 1) = d[1] /\ Digit(f, 2) = 0 /\ Digit(f, 3) = 0
    BY <2>0, DigitIs
  <2>2. PICK a, b \in Nat :
          /\ d[0] \in 0..(Radix - 1) /\ n = d[0] + Radix * a
          /\ d[1] \in 0..(Radix - 1) /\ a = d[1] + Radix * b
    BY <2>0, LowBytesAre
  <2> HIDE DEF f, d
  <2>3. Little(f) = d[0] + Radix * d[1]
    <3>1. d[1] \in Nat /\ Radix \in Nat
      BY <1>1, <2>2
    <3>2. d[1] + Radix * (0 + Radix * 0) = d[1]
      BY <3>1
    <3> QED BY <2>1, <3>2, Zenon DEF Little
  <2>4. d[0] \in Nat /\ d[1] \in Nat
    BY <1>1, <2>2
  <2>5. CASE n < Big
    <3>1. a < Radix
      BY <1>1, <2>2, <2>4, <2>5, RestBelow
    <3>2. b = 0
      <4>1. d[1] + Radix * b < Radix * 1
        BY <1>1, <2>2, <3>1
      <4>2. b < 1
        BY <1>1, <2>2, <2>4, <4>1, RestBelow
      <4> QED BY <2>2, <4>2
    <3>3. a = d[1]
      BY <1>1, <2>2, <2>4, <3>2
    <3>4. Little(f) = n /\ n # 0
      BY <2>2, <2>3, <3>3
    <3> QED BY <3>4 DEF CopySize, f
  <2>6. CASE n = Big
    <3>1. d[0] + Radix * a < Radix * (Radix + 1) /\ d[0] < Radix /\ ~(a < Radix)
      <4>1. d[0] < Radix /\ n = Radix * Radix
        BY <1>1, <2>2, <2>6
      <4>2. Radix * (Radix + 1) = Radix * Radix + Radix
        BY <1>1
      <4>3. Radix * Radix \in Nat
        BY <1>1
      <4>4. d[0] + Radix * a < Radix * (Radix + 1)
        BY <1>1, <2>2, <4>1, <4>2, <4>3
      <4>5. a < Radix => Radix * a + Radix <= Radix * Radix
        <5>1. (a + 1) * Radix = a * Radix + Radix /\ a * Radix = Radix * a /\ a * Radix \in Int
          BY <1>1, <2>2, Products
        <5>2. ~(Radix < a + 1) => ~(Radix * Radix < (a + 1) * Radix)
          BY <1>1, <2>2, Products
        <5>3. a < Radix => ~(Radix < a + 1)
          BY <1>1, <2>2
        <5> QED BY <1>1, <4>3, <5>1, <5>2, <5>3
      <4>6. Radix * a \in Nat
        BY <1>1, <2>2
      <4> QED BY <1>1, <2>2, <2>4, <4>1, <4>3, <4>4, <4>5, <4>6
    <3>2. a = Radix
      <4>1. a < Radix + 1
        BY <1>1, <2>2, <2>4, <3>1, RestBelow
      <4> QED BY <1>1, <2>2, <3>1, <4>1
    <3>3. d[0] = 0
      <4>1. Radix * Radix \in Nat /\ d[0] + Radix * Radix = Radix * Radix
        BY <1>1, <2>2, <2>6, <3>2
      <4> QED BY <2>4, <4>1
    <3>4. b = 1
      <4>1. d[1] < Radix /\ d[1] + Radix * b = Radix
        BY <1>1, <2>2, <3>2
      <4>2. d[1] + Radix * b < Radix * 2
        BY <1>1, <2>4, <4>1
      <4>3. b < 2
        BY <1>1, <2>2, <2>4, <4>2, RestBelow
      <4>4. b # 0
        BY <1>1, <2>4, <4>1
      <4> QED BY <2>2, <4>3, <4>4
    <3>5. d[1] = 0
      BY <1>1, <2>2, <2>4, <3>2, <3>4
    <3>6. Little(f) = 0
      BY <1>1, <2>3, <3>3, <3>5
    <3> QED BY <2>6, <3>6 DEF CopySize, f
  <2> QED BY <1>1, <2>5, <2>6
<1> QED BY <1>2, <1>3


-----------------------------------------------------------------------------
(* The size being read: what is left of it up to byte end, and the number
   it is with what has been read.                                           *)
SizeWalk(b, n, end, size, scale, v) ==
  \E r \in Nat :
    /\ end = n + Len(SizeBytes[r]) /\ \A i \in 1..Len(SizeBytes[r]) : b[n + i] = SizeBytes[r][i]
    /\ v = size + scale * r /\ (scale = 1 \/ r # 0)

(* One byte of it: its shift fits the word, and what it holds is put where it
   belongs.                                                                 *)
LEMMA SizeWalkOn ==
  ASSUME NEW b, NEW n \in Nat, NEW end, NEW size \in Nat, NEW scale \in Nat \ {0}, NEW v \in Numbers,
         SizeWalk(b, n, end, size, scale, v)
  PROVE  /\ end \in Nat /\ n < end /\ ShiftFits(scale)
         /\ b[n + 1].more => SizeWalk(b, n + 1, end, size + Placed(b[n + 1].bits, scale), scale * Group, v)
         /\ ~b[n + 1].more => n + 1 = end /\ v = size + Placed(b[n + 1].bits, scale)
<1>1. PICK r \in Nat :
        /\ end = n + Len(SizeBytes[r]) /\ \A i \in 1..Len(SizeBytes[r]) : b[n + i] = SizeBytes[r][i]
        /\ v = size + scale * r /\ (scale = 1 \/ r # 0)
  BY DEF SizeWalk
<1>2. Group \in Nat \ {0, 1} /\ Word \in Nat \ {0, 1} /\ v \in Nat /\ v < Word
  BY PackConstants DEF Numbers
<1>3. PICK l \in Nat \ {0} : l = Len(SizeBytes[r])
  BY SizeShape DEF Ended
<1>4. b[n + 1] = SizeBytes[r][1] /\ end = n + l
  BY <1>1, <1>3
<1> DEFINE p == scale * r
<1>5. p \in Nat /\ v = size + p /\ p < Word /\ p = r * scale
  <2>1. p \in Nat /\ p = r * scale /\ v = size + p
    BY <1>1
  <2> HIDE DEF p
  <2> QED BY <1>2, <2>1
<1>6. ShiftFits(scale)
  <2>1. CASE scale = 1
    BY <1>2, <2>1 DEF ShiftFits
  <2>2. CASE r # 0
    <3>1. p >= scale
      <4>1. \A u, w \in Nat : w # 0 => u * w >= u
        OBVIOUS
      <4> QED BY <2>2, <4>1
    <3> HIDE DEF p
    <3> QED BY <1>2, <1>5, <3>1 DEF ShiftFits
  <2> QED BY <1>1, <2>1, <2>2
<1>7. CASE r < Group
  <2>1. l = 1 /\ b[n + 1] = End(r)
    BY <1>3, <1>4, <1>7, SizeUnfold
  <2>2. ~b[n + 1].more /\ b[n + 1].bits = r
    BY <2>1, BytesAre
  <2>3. Placed(r, scale) = r * scale
    BY <1>5, PlacedWhole
  <2> HIDE DEF p
  <2> QED BY <1>4, <1>5, <1>6, <2>1, <2>2, <2>3
<1>8. CASE ~(r < Group)
  <2> DEFINE k == r \div Group
             x == r % Group
  <2>1. /\ k \in Nat \ {0} /\ l = 1 + Len(SizeBytes[k]) /\ b[n + 1] = More(x)
        /\ \A i \in 1..Len(SizeBytes[k]) : SizeBytes[r][1 + i] = SizeBytes[k][i]
    BY <1>3, <1>4, <1>8, SizeUnfold
  <2>2. x \in Nat /\ r = k * Group + x
    <3>1. x \in 0..(Group - 1) /\ r = k * Group + x
      BY <1>2, DivMod
    <3> QED BY <1>2, <3>1
  <2> HIDE DEF k, x, p
  <2>3. b[n + 1].more /\ b[n + 1].bits = x
    BY <2>1, <2>2, BytesAre
  <2> DEFINE q == Placed(x, scale)
  <2>4. v = (size + q) + (scale * Group) * k
    <3>1. v = size + scale * (k * Group + x)
      BY <1>1, <2>2, Zenon
    <3>2. size + scale * (k * Group + x) < Word
      BY <1>2, <3>1, Zenon
    <3>3. size + scale * (k * Group + x) = (size + Placed(x, scale)) + (scale * Group) * k
      BY <2>1, <2>2, <3>2, GroupTaken
    <3> QED BY <3>1, <3>3, Zenon
  <2>5. PICK j \in Nat : j = Len(SizeBytes[k]) /\ l = 1 + j
    <3>1. Len(SizeBytes[k]) \in Nat
      BY <2>1, SizeUnfold
    <3> QED BY <2>1, <3>1
  <2>6. end = (n + 1) + j
    <3>1. end = n + l /\ l = 1 + j
      BY <1>4, <2>5
    <3> HIDE <1>3
    <3> QED BY <3>1
  <2>7. \A i \in 1..j : b[(n + 1) + i] = SizeBytes[k][i]
    <3> SUFFICES ASSUME NEW i \in 1..j PROVE b[(n + 1) + i] = SizeBytes[k][i]
      OBVIOUS
    <3>1. 1 + i \in 1..l /\ n + (1 + i) = (n + 1) + i
      BY <2>5
    <3> QED BY <1>1, <1>3, <2>1, <2>5, <3>1
  <2> HIDE DEF q
  <2>8. SizeWalk(b, n + 1, end, size + q, scale * Group, v)
    BY <2>1, <2>4, <2>5, <2>6, <2>7 DEF SizeWalk
  <2> QED BY <1>3, <1>4, <1>6, <2>3, <2>8 DEF q
<1> QED BY <1>7, <1>8

(* The two sizes git writes, one after the other.                           *)
LEMMA TwoSizes ==
  ASSUME NEW s \in Numbers, NEW t \in Numbers, NEW b, b = SizeBytes[s] \o SizeBytes[t]
  PROVE  /\ SizeWalk(b, 0, Len(SizeBytes[s]), 0, 1, s)
         /\ SizeWalk(b, Len(SizeBytes[s]), Len(b), 0, 1, t)
         /\ Len(SizeBytes[s]) \in Nat /\ Len(SizeBytes[s]) < Len(b)
<1>1. s \in Nat /\ t \in Nat
  BY PackConstants DEF Numbers
<1>2. SizeBytes[s] \in Seq(Byte) /\ SizeBytes[t] \in Seq(Byte)
  BY <1>1, SizeBytesIs
<1>3. PICK m \in Nat, l \in Nat \ {0} : m = Len(SizeBytes[s]) /\ l = Len(SizeBytes[t])
  BY <1>1, SizeShape DEF Ended
<1>4. /\ Len(b) = m + l
      /\ \A i \in 1..(m + l) : b[i] = IF i <= m THEN SizeBytes[s][i] ELSE SizeBytes[t][i - m]
  BY <1>2, <1>3, ConcatProperties
<1> DEFINE q == SizeBytes[s]
           u == SizeBytes[t]
<1>5. SizeWalk(b, 0, m, 0, 1, s)
  <2>1. \A i \in 1..m : b[0 + i] = q[i]
    <3> HIDE DEF q, u
    <3>1. \A i \in 1..m : i \in 1..(m + l) /\ 0 + i = i /\ i <= m
      OBVIOUS
    <3>2. \A i \in 1..(m + l) : b[i] = IF i <= m THEN q[i] ELSE u[i - m]
      BY <1>4 DEF q, u
    <3> QED BY <3>1, <3>2
  <2>2. m = 0 + Len(SizeBytes[s]) /\ s = 0 + 1 * s
    <3>1. 0 + m = m /\ 0 + 1 * s = s
      BY <1>1
    <3> QED BY <1>3, <3>1, Zenon
  <2> QED BY <1>1, <1>3, <2>1, <2>2, Zenon DEF SizeWalk
<1>6. SizeWalk(b, m, m + l, 0, 1, t)
  <2>1. \A i \in 1..l : b[m + i] = u[i]
    <3> HIDE DEF q, u
    <3>1. \A i \in 1..l : m + i \in 1..(m + l) /\ ~(m + i <= m) /\ (m + i) - m = i
      OBVIOUS
    <3>2. \A i \in 1..(m + l) : b[i] = IF i <= m THEN q[i] ELSE u[i - m]
      BY <1>4 DEF q, u
    <3> QED BY <3>1, <3>2
  <2>2. m + l = m + Len(SizeBytes[t]) /\ t = 0 + 1 * t
    <3>1. 0 + 1 * t = t
      BY <1>1
    <3> QED BY <1>3, <3>1, Zenon
  <2> QED BY <1>1, <1>3, <2>1, <2>2, Zenon DEF SizeWalk
<1>7. m < m + l
  OBVIOUS
<1> QED BY <1>3, <1>4, <1>5, <1>6, <1>7, Zenon

(* What has been read of a delta d when n of its bytes and instructions are. *)
SizesRight(b, a, n) ==
  \A s, t \in Numbers : b = SizeBytes[s] \o SizeBytes[t] =>
    /\ ~a.target => a.scale # 0 /\ SizeWalk(b, n, Len(SizeBytes[s]), a.size, a.scale, s)
    /\ a.target /\ a.scale # 0 => SizeWalk(b, n, Len(b), a.size, a.scale, t)
    /\ a.target /\ a.scale = 0 => a.size = t

(* What an instruction stands for.                                          *)
Made(base, o) ==
  IF o.op = "insert" THEN o.lit
  ELSE SubSeq(base, Little(o.off) + 1, Little(o.off) + CopySize(o.size))
MadeOf(d, m) == [i \in 1..m |-> Made(d.base, d.ops[i])]

OutRight(d, a, n) ==
  IF a.scale # 0 THEN a.out = << >>
  ELSE \E m \in 0..Len(d.ops) :
         /\ n = Len(d.sizes) + m /\ MadeOf(d, m) \in Seq(Seq(Nat)) /\ a.out = FlattenSeq(MadeOf(d, m))
         /\ \A i \in 1..m : d.ops[i].op \notin {"zero", "cut"}

(* A byte of a size.                                                        *)
LEMMA SizesKept ==
  ASSUME NEW b, NEW n \in Nat, NEW a, NEW c, a.size \in Nat, a.scale \in Nat \ {0},
         SizesRight(b, a, n),
         c = IF b[n + 1].more
             THEN [a EXCEPT !.size = a.size + Placed(b[n + 1].bits, a.scale), !.scale = a.scale * Group]
             ELSE IF a.target THEN [a EXCEPT !.size = a.size + Placed(b[n + 1].bits, a.scale), !.scale = 0]
             ELSE [a EXCEPT !.size = 0, !.scale = 1, !.target = TRUE],
         a \in DeltaParts
  PROVE  SizesRight(b, c, n + 1)
<1> DEFINE x == b[n + 1]
           sum == a.size + Placed(x.bits, a.scale)
<1>0. a.scale * Group # 0
  BY PackConstants
<1> SUFFICES ASSUME NEW s \in Numbers, NEW t \in Numbers, b = SizeBytes[s] \o SizeBytes[t]
             PROVE  /\ ~c.target => c.scale # 0 /\ SizeWalk(b, n + 1, Len(SizeBytes[s]), c.size, c.scale, s)
                    /\ c.target /\ c.scale # 0 => SizeWalk(b, n + 1, Len(b), c.size, c.scale, t)
                    /\ c.target /\ c.scale = 0 => c.size = t
  BY DEF SizesRight
<1>1. /\ ~a.target => SizeWalk(b, n, Len(SizeBytes[s]), a.size, a.scale, s)
      /\ a.target => SizeWalk(b, n, Len(b), a.size, a.scale, t)
  BY DEF SizesRight
<1>2. a.target \in BOOLEAN
  BY DEF DeltaParts
<1>3. CASE x.more
  <2>1. c = [a EXCEPT !.size = sum, !.scale = a.scale * Group]
    BY <1>3
  <2> HIDE DEF sum
  <2>2. c.size = sum /\ c.scale = a.scale * Group /\ c.target = a.target
    BY <2>1 DEF DeltaParts
  <2>3. ~a.target => SizeWalk(b, n + 1, Len(SizeBytes[s]), sum, a.scale * Group, s)
    BY <1>1, <1>3, SizeWalkOn DEF sum
  <2>4. a.target => SizeWalk(b, n + 1, Len(b), sum, a.scale * Group, t)
    BY <1>1, <1>3, SizeWalkOn DEF sum
  <2> QED BY <1>0, <2>2, <2>3, <2>4
<1>4. CASE ~x.more /\ a.target
  <2>1. c = [a EXCEPT !.size = sum, !.scale = 0]
    BY <1>4
  <2> HIDE DEF sum
  <2>2. c.size = sum /\ c.scale = 0 /\ c.target
    BY <1>4, <2>1 DEF DeltaParts
  <2>3. t = sum
    BY <1>1, <1>4, SizeWalkOn DEF sum
  <2> QED BY <2>2, <2>3
<1>5. CASE ~x.more /\ ~a.target
  <2>1. c = [a EXCEPT !.size = 0, !.scale = 1, !.target = TRUE]
    BY <1>5
  <2>2. c.size = 0 /\ c.scale = 1 /\ c.target
    BY <2>1 DEF DeltaParts
  <2>3. n + 1 = Len(SizeBytes[s])
    BY <1>1, <1>5, SizeWalkOn
  <2>4. SizeWalk(b, n + 1, Len(b), 0, 1, t)
    BY <2>3, TwoSizes
  <2>5. 1 # 0
    OBVIOUS
  <2> QED BY <2>2, <2>4, <2>5, Zenon
<1> QED BY <1>3, <1>4, <1>5

(* An instruction more.                                                     *)
LEMMA OutKept ==
  ASSUME NEW d, NEW m \in Nat, NEW out, MadeOf(d, m) \in Seq(Seq(Nat)), out = FlattenSeq(MadeOf(d, m)),
         NEW x \in Seq(Nat), Made(d.base, d.ops[m + 1]) = x
  PROVE  MadeOf(d, m + 1) \in Seq(Seq(Nat)) /\ out \o x = FlattenSeq(MadeOf(d, m + 1))
<1> DEFINE f == MadeOf(d, m)
           g == MadeOf(d, m + 1)
<1>1. /\ f = [i \in 1..m |-> Made(d.base, d.ops[i])]
      /\ g = [i \in 1..(m + 1) |-> Made(d.base, d.ops[i])]
  BY DEF MadeOf
<1>2. g = Append(f, x)
  <2>1. /\ m + 1 \in 1..(m + 1) /\ f \in Seq(Seq(Nat))
        /\ \A i \in 1..m : i \in 1..(m + 1)
    OBVIOUS
  <2> HIDE DEF f, g
  <2>2. Longer(g, f, m, x)
    BY <1>1, <2>1 DEF Longer
  <2>3. g = UpTo(g, m + 1)
    BY <1>1 DEF UpTo
  <2>4. UpTo(g, m + 1) = Append(f, x)
    BY <2>1, <2>2, OneLonger
  <2> QED BY <2>3, <2>4, Zenon
<1>3. f \in Seq(Seq(Nat))
  OBVIOUS
<1> HIDE DEF f, g
<1>4. Append(f, x) \in Seq(Seq(Nat)) /\ FlattenSeq(Append(f, x)) = FlattenSeq(f) \o x
  BY <1>3, FlattenAppend
<1> QED BY <1>2, <1>4 DEF f, g


-----------------------------------------------------------------------------
(* Where the reading of a delta may stop, and with what.                    *)
DeltaStop ==
  /\ ~SizesRead => result = "oob" /\ (pos <= Len(input.sizes) => ~ShiftFits(acc.scale))
  /\ SizesRead /\ NoMoreOps => result = IF Len(acc.out) = acc.size THEN "ok" ELSE "invalid"
  /\ SizesRead /\ ~NoMoreOps =>
       /\ result # "ok" /\ Op.op \in {"copy", "zero", "cut"}
       /\ Op.op = "copy" => Little(Op.off) + CopySize(Op.size) > Len(input.base)

DeltaInv ==
  call = "apply_delta" =>
    /\ DeltaType /\ SizesRight(input.sizes, acc, pos - 1) /\ OutRight(input, acc, pos - 1)
    /\ result # "pending" => DeltaStop

(* An answer only has to say why.                                           *)
LEMMA DeltaAnswers ==
  ASSUME DeltaInv, call = "apply_delta", DeltaStep, NEW r, Return(r), DeltaStop'
  PROVE  DeltaInv'
<1>1. DeltaType' /\ SizesRight(input.sizes, acc, pos - 1) /\ OutRight(input, acc, pos - 1)
  BY DeltaStepTypes DEF DeltaInv
<1>2. pos' = pos /\ acc' = acc /\ input' = input
  BY DEF Return
<1>3. SizesRight(input.sizes, acc, pos - 1)' /\ OutRight(input, acc, pos - 1)'
  BY <1>1, <1>2, Zenon
<1> QED BY <1>1, <1>3 DEF DeltaInv

(* A byte of a size.                                                        *)
LEMMA DeltaSizeKeeps ==
  ASSUME DeltaInv, call = "apply_delta", DeltaStep, DeltaSize
  PROVE  DeltaInv'
<1> DEFINE b == input.sizes
           k == Len(b)
           n == pos - 1
           x == b[pos]
           sum == acc.size + Placed(x.bits, acc.scale)
           c == IF x.more THEN [acc EXCEPT !.size = sum, !.scale = @ * Group]
                ELSE IF acc.target THEN [acc EXCEPT !.size = sum, !.scale = 0]
                ELSE [acc EXCEPT !.size = 0, !.scale = 1, !.target = TRUE]
<1>1. /\ DeltaType /\ SizesRight(b, acc, n) /\ OutRight(input, acc, n)
      /\ DeltaType' /\ result = "pending"
  BY DeltaStepTypes DEF DeltaInv, DeltaStep, Reading
<1>2. /\ pos <= k /\ acc \in DeltaParts /\ pos \in 1..(k + Len(input.ops) + 1)
      /\ (acc.scale = 0 => pos > k) /\ input \in Deltas
  BY <1>1 DEF DeltaSize, DeltaType
<1>3. k \in Nat /\ Len(input.ops) \in Nat
  <2>1. b \in Seq(Byte) /\ input.ops \in Seq(Range(input.ops))
    BY <1>2, DeltaBytes
  <2> QED BY <2>1
<1>4. pos \in Nat /\ n \in Nat /\ n + 1 = pos /\ acc.scale # 0
  <2> DEFINE l == Len(input.ops)
  <2>1. l \in Nat /\ pos \in 1..(k + l + 1)
    BY <1>2, <1>3
  <2> HIDE DEF k, l
  <2> QED BY <1>2, <1>3, <2>1
<1>5. acc.size \in Nat /\ acc.scale \in Nat \ {0} /\ acc.out = << >>
  BY <1>1, <1>2, <1>4, PackConstants DEF DeltaParts, OutRight
<1>6. CASE ~ShiftFits(acc.scale)
  <2>1. Return("oob")
    BY <1>6 DEF DeltaSize
  <2>2. DeltaStop'
    BY <1>4, <1>6, <2>1 DEF Return, DeltaStop, SizesRead, ShiftFits
  <2> QED BY <2>1, <2>2, DeltaAnswers
<1>7. CASE ShiftFits(acc.scale)
  <2>1. Advance(1, c)
    BY <1>7 DEF DeltaSize
  <2>2. pos' = pos + 1 /\ acc' = c /\ input' = input /\ result' = "pending"
    BY <1>1, <2>1 DEF Advance
  <2>3. c.out = << >>
    BY <1>2, <1>5 DEF DeltaParts
  <2>4. SizesRight(b, c, n + 1)
    <3>1. c = IF b[n + 1].more
              THEN [acc EXCEPT !.size = acc.size + Placed(b[n + 1].bits, acc.scale), !.scale = acc.scale * Group]
              ELSE IF acc.target THEN [acc EXCEPT !.size = acc.size + Placed(b[n + 1].bits, acc.scale), !.scale = 0]
              ELSE [acc EXCEPT !.size = 0, !.scale = 1, !.target = TRUE]
      BY <1>4
    <3> HIDE DEF c, n, b
    <3> QED BY <1>1, <1>2, <1>4, <1>5, <3>1, SizesKept
  <2> HIDE DEF c
  <2>5. c.scale = 0 => pos = k
    <3> SUFFICES ASSUME c.scale = 0 PROVE pos = k
      OBVIOUS
    <3>1. pos + 1 > k
      BY <1>1, <2>2 DEF DeltaType
    <3> HIDE DEF k
    <3> QED BY <1>2, <1>3, <1>4, <3>1
  <2>6. OutRight(input, c, pos)
    <3>1. CASE c.scale # 0
      BY <2>3, <3>1 DEF OutRight
    <3>2. CASE c.scale = 0
      <4>1. MadeOf(input, 0) = << >>
        BY DEF MadeOf
      <4>2. << >> \in Seq(Seq(Nat)) /\ FlattenSeq(<< >>) = << >>
        <5>1. << >> \in Seq(Seq(Nat)) /\ << >> \in Seq(Nat)
          OBVIOUS
        <5> QED BY <5>1, FlattenAppend
      <4>3. pos = k + 0 /\ 0 \in 0..Len(input.ops)
        BY <1>3, <2>5, <3>2
      <4>4. \A i \in 1..0 : input.ops[i].op \notin {"zero", "cut"}
        OBVIOUS
      <4> HIDE DEF n
      <4>5. \E m \in 0..Len(input.ops) :
              /\ pos = Len(input.sizes) + m /\ MadeOf(input, m) \in Seq(Seq(Nat))
              /\ c.out = FlattenSeq(MadeOf(input, m))
              /\ \A i \in 1..m : input.ops[i].op \notin {"zero", "cut"}
        BY <2>3, <4>1, <4>2, <4>3, <4>4, Zenon
      <4> QED BY <3>2, <4>5, Zenon DEF OutRight
    <3> QED BY <3>1, <3>2
  <2>7. (pos + 1) - 1 = pos
    BY <1>4
  <2>8. SizesRight(input.sizes, acc, pos - 1)'
    BY <1>4, <2>2, <2>4, <2>7, Zenon
  <2>9. OutRight(input, acc, pos - 1)'
    BY <2>2, <2>6, <2>7, Zenon
  <2> QED BY <1>1, <2>2, <2>8, <2>9, Zenon DEF DeltaInv
<1> QED BY <1>6, <1>7

(* An instruction.                                                          *)
LEMMA DeltaOpKeeps ==
  ASSUME DeltaInv, call = "apply_delta", DeltaStep, SizesRead, ~NoMoreOps, Copy \/ Insert \/ Refuse
  PROVE  DeltaInv'
<1> DEFINE k == Len(input.sizes)
           l == Len(input.ops)
<1>1. /\ DeltaType /\ SizesRight(input.sizes, acc, pos - 1) /\ OutRight(input, acc, pos - 1)
      /\ DeltaType' /\ result = "pending" /\ acc.scale = 0
  BY DeltaStepTypes DEF DeltaInv, DeltaStep, Reading, SizesRead
<1>2. acc \in DeltaParts /\ pos \in 1..(k + l + 1) /\ input \in Deltas /\ ~(pos > k + l)
  BY <1>1 DEF DeltaType, NoMoreOps
<1>3. k \in Nat /\ l \in Nat
  <2>1. input.sizes \in Seq(Byte) /\ input.ops \in Seq(Range(input.ops))
    BY <1>2, DeltaBytes
  <2> QED BY <2>1
<1>4. PICK m \in 0..l :
        /\ pos - 1 = k + m /\ MadeOf(input, m) \in Seq(Seq(Nat)) /\ acc.out = FlattenSeq(MadeOf(input, m))
        /\ \A i \in 1..m : input.ops[i].op \notin {"zero", "cut"}
  BY <1>1 DEF OutRight
<1> HIDE DEF k, l
<1>5. m \in Nat /\ pos = k + m + 1 /\ m + 1 \in 1..l /\ pos - k = m + 1
  BY <1>2, <1>3, <1>4
<1>6. Op = input.ops[m + 1]
  BY <1>5, Zenon DEF Op, k
<1>7. /\ input.ops[m + 1].op = "insert" => input.ops[m + 1].lit \in Seq(Nat)
      /\ input.ops[m + 1].op = "copy" =>
           Little(input.ops[m + 1].off) \in Nat /\ CopySize(input.ops[m + 1].size) \in Nat
      /\ input.base \in Seq(Nat)
  BY <1>2, <1>5, DeltaBytes DEF l
<1>8. ASSUME NEW x \in Seq(Nat), Made(input.base, Op) = x, Op.op \in {"copy", "insert"},
             Advance(1, [acc EXCEPT !.out = acc.out \o x])
      PROVE  DeltaInv'
  <2> DEFINE c == [acc EXCEPT !.out = acc.out \o x]
  <2>1. c.out = acc.out \o x
    BY <1>2 DEF DeltaParts
  <2>2. c.scale = acc.scale /\ c.size = acc.size /\ c.target = acc.target
    BY <1>2 DEF DeltaParts
  <2>3. pos' = pos + 1 /\ acc' = c /\ input' = input /\ result' = "pending"
    BY <1>1, <1>8 DEF Advance
  <2> HIDE DEF c
  <2>4. SizesRight(input.sizes, c, pos)
    <3> SUFFICES ASSUME NEW s \in Numbers, NEW t \in Numbers, input.sizes = SizeBytes[s] \o SizeBytes[t]
                 PROVE  /\ ~c.target => c.scale # 0 /\ SizeWalk(input.sizes, pos, Len(SizeBytes[s]), c.size, c.scale, s)
                        /\ c.target /\ c.scale # 0 =>
                             SizeWalk(input.sizes, pos, Len(input.sizes), c.size, c.scale, t)
                        /\ c.target /\ c.scale = 0 => c.size = t
      BY Zenon DEF SizesRight
    <3>1. /\ ~acc.target => acc.scale # 0
          /\ acc.target /\ acc.scale = 0 => acc.size = t
      BY <1>1, Zenon DEF SizesRight
    <3> QED BY <1>1, <2>2, <3>1, Zenon
  <2>5. OutRight(input, c, pos)
    <3>1. Made(input.base, input.ops[m + 1]) = x
      BY <1>6, <1>8
    <3>2. /\ MadeOf(input, m + 1) \in Seq(Seq(Nat))
          /\ acc.out \o x = FlattenSeq(MadeOf(input, m + 1))
      BY <1>4, <1>5, <3>1, OutKept
    <3>3. \A i \in 1..(m + 1) : input.ops[i].op \notin {"zero", "cut"}
      <4>1. \A i \in 1..(m + 1) : i \in 1..m \/ i = m + 1
        BY <1>5
      <4>2. input.ops[m + 1].op \notin {"zero", "cut"}
        BY <1>6, <1>8
      <4> QED BY <1>4, <4>1, <4>2, Zenon
    <3>4. m + 1 \in 0..l /\ pos = k + (m + 1)
      BY <1>3, <1>5
    <3>5. \E j \in 0..Len(input.ops) :
            /\ pos = Len(input.sizes) + j /\ MadeOf(input, j) \in Seq(Seq(Nat))
            /\ c.out = FlattenSeq(MadeOf(input, j))
            /\ \A i \in 1..j : input.ops[i].op \notin {"zero", "cut"}
      BY <2>1, <3>2, <3>3, <3>4, Zenon DEF k, l
    <3> QED BY <1>1, <2>2, <3>5, Zenon DEF OutRight
  <2>6. (pos + 1) - 1 = pos
    BY <1>3, <1>5
  <2>7. SizesRight(input.sizes, acc, pos - 1)'
    BY <2>3, <2>4, <2>6, Zenon
  <2>8. OutRight(input, acc, pos - 1)'
    BY <2>3, <2>5, <2>6, Zenon
  <2> QED BY <1>1, <2>3, <2>7, <2>8, Zenon DEF DeltaInv
<1>9. CASE Copy
  <2> DEFINE from == Little(Op.off)
             end == from + CopySize(Op.size)
             s == SubSeq(input.base, from + 1, end)
  <2>1. from \in Nat /\ end \in Nat /\ Op.op = "copy"
    BY <1>6, <1>7, <1>9 DEF Copy
  <2>2. CASE end > Len(input.base)
    <3>1. Return("oob")
      BY <1>9, <2>2 DEF Copy
    <3>2. DeltaStop'
      BY <2>1, <2>2, <3>1 DEF Return, DeltaStop, SizesRead, NoMoreOps, Op
    <3> QED BY <3>1, <3>2, DeltaAnswers
  <2>3. CASE ~(end > Len(input.base))
    <3>1. Advance(1, [acc EXCEPT !.out = acc.out \o s])
      BY <1>9, <2>3 DEF Copy
    <3>2. s \in Seq(Nat)
      <4> HIDE DEF from, end
      <4>1. \A i \in (from + 1)..end : input.base[i] \in Nat
        BY <1>7, <2>1, <2>3
      <4> QED BY <2>1, <4>1, SubSeqProperties
    <3>3. Made(input.base, Op) = s
      BY <2>1 DEF Made
    <3> HIDE DEF s
    <3> QED BY <1>8, <2>1, <3>1, <3>2, <3>3
  <2> QED BY <2>2, <2>3
<1>10. CASE Insert
  <2> DEFINE s == Op.lit
  <2>1. s \in Seq(Nat) /\ Advance(1, [acc EXCEPT !.out = acc.out \o s]) /\ Op.op = "insert"
    BY <1>6, <1>7, <1>10 DEF Insert
  <2>2. Made(input.base, Op) = s
    BY <2>1 DEF Made
  <2> HIDE DEF s
  <2> QED BY <1>8, <2>1, <2>2
<1>11. CASE Refuse
  <2> DEFINE r == IF Op.op = "zero" THEN "invalid" ELSE "oob"
  <2>1. Return(r) /\ Op.op \in {"zero", "cut"} /\ r # "ok"
    BY <1>11 DEF Refuse
  <2> HIDE DEF r
  <2>2. DeltaStop'
    BY <2>1 DEF Return, DeltaStop, SizesRead, NoMoreOps, Op
  <2> QED BY <2>1, <2>2, DeltaAnswers
<1> QED BY <1>9, <1>10, <1>11

(* Any step of it.                                                          *)
LEMMA DeltaStepKeeps ==
  ASSUME DeltaInv, call = "apply_delta", DeltaStep
  PROVE  DeltaInv'
<1>1. CASE pos > Len(input.sizes) /\ ~SizesRead /\ Return("oob")
  <2>1. ~(pos <= Len(input.sizes))
    <3>1. input.sizes \in Seq(Byte) /\ pos \in 1..(Len(input.sizes) + Len(input.ops) + 1)
      BY DeltaBytes DEF DeltaInv, DeltaType
    <3>2. PICK k \in Nat : k = Len(input.sizes)
      BY <3>1
    <3>3. input.ops \in Seq(Range(input.ops))
      BY DeltaBytes DEF DeltaInv, DeltaType
    <3>4. PICK l \in Nat : l = Len(input.ops)
      BY <3>3
    <3>5. pos \in 1..(k + l + 1) /\ pos > k
      BY <1>1, <3>1, <3>2, <3>4
    <3>6. ~(pos <= k)
      BY <3>5
    <3> QED BY <3>2, <3>6
  <2>2. DeltaStop'
    BY <1>1, <2>1 DEF Return, DeltaStop, SizesRead
  <2> QED BY <1>1, <2>2, DeltaAnswers
<1>2. CASE SizesRead /\ NoMoreOps /\ Return(IF Len(acc.out) = acc.size THEN "ok" ELSE "invalid")
  <2>1. DeltaStop'
    BY <1>2 DEF Return, DeltaStop, SizesRead, NoMoreOps
  <2> QED BY <1>2, <2>1, DeltaAnswers
<1> QED BY <1>1, <1>2, DeltaSizeKeeps, DeltaOpKeeps DEF DeltaStep


(* What an instruction git writes stands for: its slice is the one that its
   bytes name.                                                              *)
LEMMA PieceMade ==
  ASSUME NEW base, NEW p \in Slices(base), NEW o, CopyOp(p) = o, Big \in Nat
  PROVE  /\ o.op = "copy" /\ Little(o.off) = p.from /\ CopySize(o.size) = p.len
         /\ p.from + p.len <= Len(base)
         /\ Made(base, o) = SubSeq(base, p.from + 1, p.from + p.len)
<1>1. /\ p \in [from : 0..Len(base), len : 1..Big]
      /\ p.from < Radix * Radix * Radix * Radix /\ p.from + p.len <= Len(base)
  BY Zenon DEF Slices
<1>2. p.from \in 0..Len(base) /\ p.len \in 1..Big
  BY <1>1
<1>3. p.from \in Nat
  BY <1>2
<1>4. o.op = "copy" /\ o.off = Present(p.from, 0..3) /\ o.size = Present(p.len, 0..1)
  BY DEF CopyOp
<1>5. Little(o.off) = p.from /\ CopySize(o.size) = p.len
  BY <1>1, <1>2, <1>3, <1>4, CopyReads, Zenon
<1>6. "copy" # "insert"
  OBVIOUS
<1> QED BY <1>1, <1>4, <1>5, <1>6, Zenon DEF Made

(* What the invariant says of the answer.                                   *)
LEMMA DeltaInvExact ==
  ASSUME DeltaInv
  PROVE  DeltaExact
<1> DEFINE slices == Slices(input.base)
           written(o) == o.op = "insert" \/ \E p \in slices : CopyOp(p) = o
           piece(o) == IF o.op = "insert" THEN o.lit
                       ELSE LET p == CHOOSE p \in slices : CopyOp(p) = o
                            IN  SubSeq(input.base, p.from + 1, p.from + p.len)
           pieces == [i \in DOMAIN input.ops |-> piece(input.ops[i])]
           whole == FlattenSeq(pieces)
           k == Len(input.sizes)
           l == Len(input.ops)
<1>0. SUFFICES ASSUME Finished("apply_delta")
               PROVE  /\ (\A i \in DOMAIN input.ops : written(input.ops[i])) =>
                           \A s, t \in Numbers :
                             input.sizes = SizeBytes[s] \o SizeBytes[t] =>
                               IF t = Len(whole) THEN result = "ok" /\ acc.out = whole
                               ELSE result = "invalid"
                      /\ (\E i \in DOMAIN input.ops : input.ops[i].op \in {"zero", "cut"}) => result # "ok"
  BY Zenon DEF DeltaExact, Numbers
<1>1. /\ DeltaType /\ SizesRight(input.sizes, acc, pos - 1) /\ OutRight(input, acc, pos - 1) /\ DeltaStop
      /\ input \in Deltas /\ acc \in DeltaParts /\ pos \in 1..(k + l + 1)
  BY <1>0 DEF DeltaInv, DeltaType, Finished
<1>2. input.sizes \in Seq(Byte) /\ input.ops \in Seq(Range(input.ops))
  BY <1>1, DeltaBytes
<1>3. k \in Nat /\ l \in Nat /\ DOMAIN input.ops = 1..l
  BY <1>2
<1>4. ASSUME SizesRead
      PROVE  \E m \in 0..l :
               /\ pos - 1 = k + m /\ acc.out = FlattenSeq(MadeOf(input, m))
               /\ \A i \in 1..m : input.ops[i].op \notin {"zero", "cut"}
  BY <1>1, <1>4 DEF OutRight, SizesRead
<1>5. ASSUME SizesRead, NoMoreOps
      PROVE  /\ acc.out = FlattenSeq(MadeOf(input, l))
             /\ \A i \in 1..l : input.ops[i].op \notin {"zero", "cut"}
  <2>1. PICK m \in 0..l :
          /\ pos - 1 = k + m /\ acc.out = FlattenSeq(MadeOf(input, m))
          /\ \A i \in 1..m : input.ops[i].op \notin {"zero", "cut"}
    BY <1>4, <1>5
  <2>2. pos > k + l
    BY <1>5, Zenon DEF NoMoreOps, k, l
  <2> HIDE DEF k, l
  <2>3. m = l
    BY <1>1, <1>3, <2>1, <2>2
  <2> QED BY <2>1, <2>3
<1>6. ASSUME SizesRead, ~NoMoreOps PROVE pos - k \in 1..l /\ Op = input.ops[pos - k]
  <2>1. PICK m \in 0..l : pos - 1 = k + m
    BY <1>4, <1>6
  <2>2. ~(pos > k + l)
    BY <1>6, Zenon DEF NoMoreOps, k, l
  <2>3. Op = input.ops[pos - k]
    BY DEF Op
  <2> HIDE DEF k, l
  <2>4. pos - k \in 1..l
    BY <1>1, <1>3, <2>1, <2>2
  <2> QED BY <2>3, <2>4
<1> HIDE DEF k, l
<1>7. ASSUME NEW i \in DOMAIN input.ops, input.ops[i].op \in {"zero", "cut"} PROVE result # "ok"
  <2>1. CASE ~SizesRead
    BY <1>1, <2>1 DEF DeltaStop
  <2>2. CASE SizesRead /\ NoMoreOps
    BY <1>3, <1>5, <1>7, <2>2
  <2>3. CASE SizesRead /\ ~NoMoreOps
    BY <1>1, <2>3 DEF DeltaStop
  <2> QED BY <2>1, <2>2, <2>3
<1>8. ASSUME \A i \in DOMAIN input.ops : written(input.ops[i]), NEW s \in Numbers, NEW t \in Numbers,
             input.sizes = SizeBytes[s] \o SizeBytes[t]
      PROVE  IF t = Len(whole) THEN result = "ok" /\ acc.out = whole ELSE result = "invalid"
  <2>0. Big \in Nat
    BY PackBytesAssumption
  <2>1. ASSUME NEW i \in 1..l
        PROVE  /\ piece(input.ops[i]) = Made(input.base, input.ops[i])
               /\ \/ input.ops[i].op = "insert"
                  \/ /\ input.ops[i].op = "copy"
                     /\ ~(Little(input.ops[i].off) + CopySize(input.ops[i].size) > Len(input.base))
    <3> DEFINE o == input.ops[i]
    <3>1. written(o)
      BY <1>3, <1>8, <2>1
    <3> HIDE DEF o
    <3>2. CASE o.op = "insert"
      BY <3>2 DEF Made, o
    <3>3. CASE ~(o.op = "insert")
      <4> DEFINE p == CHOOSE p \in slices : CopyOp(p) = o
      <4>1. p \in slices /\ CopyOp(p) = o
        <5>1. \E q \in slices : CopyOp(q) = o
          BY <3>1, <3>3
        <5> QED BY <5>1
      <4>2. piece(o) = SubSeq(input.base, p.from + 1, p.from + p.len)
        BY <3>3
      <4> HIDE DEF p
      <4>3. /\ o.op = "copy" /\ Little(o.off) = p.from /\ CopySize(o.size) = p.len
            /\ p.from + p.len <= Len(input.base)
            /\ Made(input.base, o) = SubSeq(input.base, p.from + 1, p.from + p.len)
        BY <2>0, <4>1, PieceMade
      <4>4. ~(p.from + p.len > Len(input.base))
        <5>1. input.base \in Seq(Nat)
          BY <1>1, DeltaBytes
        <5>2. PICK j \in Nat : j = Len(input.base)
          BY <5>1
        <5>3. p.from \in Nat /\ p.len \in Nat
          <6>1. p \in [from : 0..Len(input.base), len : 1..Big]
            BY <4>1 DEF Slices
          <6>2. p.from \in 0..j /\ p.len \in 1..Big
            BY <5>2, <6>1
          <6> QED BY <2>0, <6>2
        <5>4. p.from + p.len <= j
          BY <4>3, <5>2, Zenon
        <5>5. ~(p.from + p.len > j)
          BY <5>3, <5>4
        <5> QED BY <5>2, <5>5, Zenon
      <4> QED BY <4>2, <4>3, <4>4, Zenon DEF o
    <3> QED BY <3>2, <3>3
  <2>2. pieces = MadeOf(input, l)
    <3> HIDE DEF piece
    <3>1. pieces = [i \in 1..l |-> piece(input.ops[i])]
      BY <1>3
    <3>2. [i \in 1..l |-> piece(input.ops[i])] = [i \in 1..l |-> Made(input.base, input.ops[i])]
      BY <2>1
    <3> QED BY <3>1, <3>2, Zenon DEF MadeOf
  <2>3. /\ ~acc.target => acc.scale # 0 /\ SizeWalk(input.sizes, pos - 1, Len(SizeBytes[s]), acc.size, acc.scale, s)
        /\ acc.target /\ acc.scale # 0 =>
             SizeWalk(input.sizes, pos - 1, Len(input.sizes), acc.size, acc.scale, t)
        /\ acc.target /\ acc.scale = 0 => acc.size = t
    BY <1>1, <1>8, Zenon DEF SizesRight
  <2>4. acc.target \in BOOLEAN /\ acc.scale \in Nat /\ acc.size \in Nat /\ pos \in Nat /\ pos - 1 \in Nat
    BY <1>1, <1>3, PackConstants DEF DeltaParts
  <2>5. SizesRead
    <3> SUFFICES ASSUME ~SizesRead PROVE FALSE
      OBVIOUS
    <3>1. acc.scale \in Nat \ {0}
      BY <2>4 DEF SizesRead
    <3>2. Len(SizeBytes[s]) \in Nat /\ Len(SizeBytes[s]) < Len(input.sizes)
      BY <1>8, TwoSizes
    <3>3. PICK j \in Nat : j = Len(SizeBytes[s]) /\ j < k
      BY <3>2 DEF k
    <3>4. ShiftFits(acc.scale) /\ (pos - 1 < j \/ pos - 1 < k)
      <4>1. CASE acc.target
        <5>1. SizeWalk(input.sizes, pos - 1, k, acc.size, acc.scale, t)
          BY <2>3, <3>1, <4>1 DEF k
        <5> QED BY <2>4, <3>1, <5>1, SizeWalkOn
      <4>2. CASE ~acc.target
        <5>1. SizeWalk(input.sizes, pos - 1, j, acc.size, acc.scale, s)
          BY <2>3, <3>3, <4>2
        <5> QED BY <2>4, <3>1, <5>1, SizeWalkOn
      <4> QED BY <4>1, <4>2
    <3>5. pos <= k
      BY <1>3, <2>4, <3>3, <3>4
    <3> QED BY <1>1, <3>4, <3>5 DEF DeltaStop, k
  <2>6. NoMoreOps
    <3> SUFFICES ASSUME ~NoMoreOps PROVE FALSE
      OBVIOUS
    <3>1. pos - k \in 1..l /\ Op = input.ops[pos - k]
      BY <1>6, <2>5
    <3>2. /\ Op.op \in {"copy", "zero", "cut"}
          /\ Op.op = "copy" => Little(Op.off) + CopySize(Op.size) > Len(input.base)
      BY <1>1, <2>5 DEF DeltaStop
    <3>3. \/ Op.op = "insert"
          \/ /\ Op.op = "copy"
             /\ ~(Little(Op.off) + CopySize(Op.size) > Len(input.base))
      BY <2>1, <3>1, Zenon
    <3> QED BY <3>2, <3>3
  <2>7. acc.out = whole
    BY <1>5, <2>2, <2>5, <2>6, Zenon
  <2>8. acc.target /\ acc.size = t
    BY <2>3, <2>4, <2>5 DEF SizesRead
  <2>9. result = IF Len(acc.out) = acc.size THEN "ok" ELSE "invalid"
    BY <1>1, <2>5, <2>6, Zenon DEF DeltaStop
  <2> HIDE DEF whole
  <2> QED BY <2>7, <2>8, <2>9
<1> HIDE DEF whole, written
<1> QED BY <1>7, <1>8

(* The other calls leave it alone, and so does an answer given.             *)
LEMMA DeltaKept ==
  ASSUME DeltaInv, [Next]_vars
  PROVE  DeltaInv'
<1>1. CASE DeltaStep
  BY <1>1, DeltaStepKeeps DEF DeltaStep, Reading
<1>2. CASE EntryStep \/ ParseLoose \/ TreeRecord \/ TreeEnd \/ CommitStep \/ ReflogStep
  <2>1. call' = call
    BY <1>2, OthersLeaveLoose, OthersLeaveTree
  <2>2. call # "apply_delta"
    BY <1>2 DEF EntryStep, ParseLoose, TreeRecord, TreeEnd, CommitStep, ReflogStep, OpenLog, NextLine,
                LogEnd, Reading
  <2> QED BY <2>1, <2>2 DEF DeltaInv
<1>3. CASE Terminated \/ UNCHANGED vars
  <2>1. UNCHANGED <<call, input, pos, acc, result>>
    BY <1>3 DEF Terminated, vars
  <2> QED BY <2>1 DEF DeltaInv, DeltaType, DeltaStop, SizesRead, NoMoreOps, Op
<1> QED BY <1>1, <1>2, <1>3 DEF Next

(* apply_delta gives what the instructions git wrote make of the base, if it
   has as many bytes as the delta says; a delta with an instruction that is
   cut or reserved gives nothing.                                           *)
THEOREM DeltaIsExact == Spec => []DeltaExact
<1>1. Init => DeltaInv
  <2> SUFFICES ASSUME Init, call = "apply_delta" PROVE DeltaInv
    BY DEF DeltaInv
  <2>1. input \in Deltas /\ acc = DeltaAcc /\ pos = 1 /\ result = "pending"
    BY DEF Init, Begin
  <2>2. DeltaType
    BY DeltaStarts
  <2>3. acc.size = 0 /\ acc.scale = 1 /\ acc.target = FALSE /\ acc.out = << >> /\ pos - 1 = 0
    BY <2>1 DEF DeltaAcc
  <2>4. 1 # 0
    OBVIOUS
  <2>5. SizesRight(input.sizes, acc, 0)
    BY <2>3, <2>4, TwoSizes, Zenon DEF SizesRight
  <2>6. OutRight(input, acc, 0)
    BY <2>3, <2>4, Zenon DEF OutRight
  <2> QED BY <2>1, <2>2, <2>3, <2>5, <2>6, Zenon DEF DeltaInv
<1>2. DeltaInv /\ [Next]_vars => DeltaInv'
  BY DeltaKept
<1>3. DeltaInv => DeltaExact
  BY DeltaInvExact
<1> QED BY <1>1, <1>2, <1>3, PTL DEF Spec
=============================================================================
