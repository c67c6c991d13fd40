-------------------------- MODULE WireStreamProofs --------------------------
(***************************************************************************)
(* Proofs about WireStream for every value of a byte, every text and any   *)
(* number of frames.                                                       *)
(***************************************************************************)
EXTENDS WireStream, SequenceTheorems, FiniteSetTheorems, TLAPS

-----------------------------------------------------------------------------
(***************************************************************************)
(* Numbers in bytes                                                        *)
(***************************************************************************)

LEMMA Division ==
    ASSUME NEW n \in Nat, NEW b \in Nat, b > 0
    PROVE  /\ n \div b \in Nat /\ n % b \in Nat /\ n % b < b
           /\ n = b * (n \div b) + (n % b)
OBVIOUS

LEMMA Quotient ==
    ASSUME NEW b \in Nat, b > 0, NEW q \in Nat, NEW r \in Nat, r < b,
           NEW n \in Nat, n = b * q + r
    PROVE  n \div b = q /\ n % b = r
OBVIOUS

\* A quotient is small when the number is.
LEMMA SmallQuotient ==
    ASSUME NEW n \in Nat, NEW b \in Nat, b > 0, NEW c \in Nat, n < b * c
    PROVE  n \div b < c
<1>1. PICK q \in Nat, r \in Nat : q = n \div b /\ n = b * q + r
  BY Division
<1>2. ASSUME q >= c PROVE FALSE
  <2>1. PICK d \in Nat : q = c + d
    <3>1. q - c \in Nat /\ q = c + (q - c)
      BY <1>2
    <3> QED BY <3>1
  <2>2. b * q = b * c + b * d
    BY <2>1
  <2>3. b * d \in Nat /\ b * c \in Nat
    OBVIOUS
  <2> QED BY <1>1, <2>2, <2>3
<1> QED BY <1>1, <1>2

LEMMA SmallRemainder ==
    ASSUME NEW n \in Nat, NEW b \in Nat, n < b PROVE n \div b = 0 /\ n % b = n
<1>1. n = b * 0 + n
  OBVIOUS
<1> QED BY <1>1, Quotient

LEMMA Limits ==
    /\ Base \in Nat /\ Base > 0
    /\ Limit16 \in Nat /\ Limit16 > 0
    /\ Limit32 \in Nat /\ Limit32 > 0
    /\ Limit64 \in Nat /\ Limit64 > 0
<1>1. ASSUME NEW a \in Nat, a > 0, NEW b \in Nat, b > 0 PROVE a * b \in Nat /\ a * b > 0
  BY <1>1
<1>2. Base \in Nat /\ Base > 0
  BY BaseAssumption
<1>3. Limit16 \in Nat /\ Limit16 > 0
  BY <1>1, <1>2 DEF Limit16
<1>4. Limit32 \in Nat /\ Limit32 > 0
  BY <1>1, <1>3 DEF Limit32
<1> QED BY <1>1, <1>2, <1>3, <1>4 DEF Limit64

LEMMA U16Bytes ==
    ASSUME NEW n \in Nat
    PROVE  U16(n) \in Seq(Nat) /\ Len(U16(n)) = 2
<1>1. n \div Base \in Nat /\ n % Base \in Nat
  BY Limits, Division
<1>2. (n \div Base) % Base \in Nat
  BY <1>1, Limits, Division
<1> QED BY <1>1, <1>2 DEF U16

LEMMA U16Number ==
    ASSUME NEW n \in Nat
    PROVE  Base * U16(n)[1] + U16(n)[2] = n % Limit16
<1>1. PICK q \in Nat, r \in Nat : q = n \div Base /\ r = n % Base /\ r < Base /\ n = Base * q + r
  BY Limits, Division
<1>2. PICK s \in Nat, t \in Nat : s = q \div Base /\ t = q % Base /\ t < Base /\ q = Base * s + t
  BY Limits, Division
<1>3. U16(n)[1] = t /\ U16(n)[2] = r
  BY <1>1, <1>2 DEF U16
<1>4. n = Limit16 * s + (Base * t + r)
  BY <1>1, <1>2, Limits DEF Limit16
<1>5. Base * t + r \in Nat /\ Base * t + r < Limit16
  <2>1. t + 1 <= Base
    BY <1>2, Limits
  <2>2. PICK d \in Nat : Base = (t + 1) + d
    <3>1. Base - (t + 1) \in Nat /\ Base = (t + 1) + (Base - (t + 1))
      BY <2>1, Limits
    <3> QED BY <3>1
  <2>3. Base * Base = Base * t + Base + Base * d
    BY <2>2, Limits
  <2>4. Base * t \in Nat /\ Base * d \in Nat
    BY Limits
  <2> QED BY <1>1, <2>3, <2>4, Limits DEF Limit16
<1>6. PICK u : u = Base * t + r
  OBVIOUS
<1>7. u \in Nat /\ u < Limit16 /\ n = Limit16 * s + u
  BY <1>4, <1>5, <1>6
<1>8. n % Limit16 = u
  BY <1>7, Limits, Quotient
<1> QED BY <1>3, <1>6, <1>8

\* c is a with b behind it, place by place.
Joins(a, b, c) ==
    /\ c \in Seq(Nat)
    /\ Len(a) \in Nat /\ Len(b) \in Nat /\ Len(c) = Len(a) + Len(b)
    /\ \A i \in 1 .. Len(a) : c[i] = a[i]
    /\ \A i \in 1 .. Len(b) : c[Len(a) + i] = b[i]

LEMMA Joined ==
    ASSUME NEW a \in Seq(Nat), NEW b \in Seq(Nat) PROVE Joins(a, b, a \o b)
<1>1. /\ a \o b \in Seq(Nat) /\ Len(a \o b) = Len(a) + Len(b)
      /\ \A i \in 1 .. Len(a) + Len(b) :
            (a \o b)[i] = IF i <= Len(a) THEN a[i] ELSE b[i - Len(a)]
  BY ConcatProperties
<1>2. Len(a) \in Nat /\ Len(b) \in Nat
  BY LenProperties
<1>c. PICK c : c = a \o b
  OBVIOUS
<1>3. PICK m \in Nat, n \in Nat : m = Len(a) /\ n = Len(b)
  BY <1>2
<1>4. \A i \in 1 .. m + n : c[i] = IF i <= m THEN a[i] ELSE b[i - m]
  BY <1>1, <1>c, <1>3
<1>5. \A i \in 1 .. m : c[i] = a[i]
  BY <1>4
<1>6. ASSUME NEW i \in 1 .. n PROVE c[m + i] = b[i]
  <2>1. m + i \in 1 .. m + n /\ ~(m + i <= m) /\ (m + i) - m = i
    OBVIOUS
  <2> QED BY <1>4, <2>1
<1> QED BY <1>1, <1>2, <1>c, <1>3, <1>5, <1>6 DEF Joins

-----------------------------------------------------------------------------
(***************************************************************************)
(* Sequences of bytes                                                      *)
(***************************************************************************)

LEMMA Cat ==
    ASSUME NEW a \in Seq(Nat), NEW b \in Seq(Nat)
    PROVE  a \o b \in Seq(Nat) /\ Len(a \o b) = Len(a) + Len(b)
BY Joined DEF Joins

LEMMA Assoc ==
    ASSUME NEW a \in Seq(Nat), NEW b \in Seq(Nat), NEW c \in Seq(Nat)
    PROVE  (a \o b) \o c = a \o (b \o c)
BY ConcatAssociative

LEMMA Nothing ==
    /\ <<>> \in Seq(Nat) /\ Len(<<>>) = 0
    /\ \A a \in Seq(Nat) : a \o <<>> = a /\ <<>> \o a = a
BY EmptySeq, ConcatEmptySeq

\* Two ways to cut the same bytes at the same place.
LEMMA SameCut ==
    ASSUME NEW a \in Seq(Nat), NEW b \in Seq(Nat), NEW c \in Seq(Nat), NEW d \in Seq(Nat),
           a \o b = c \o d, Len(a) = Len(c)
    PROVE  a = c /\ b = d
<1>s. PICK s : s = a \o b
  OBVIOUS
<1>1. PICK m \in Nat, n \in Nat : m = Len(a) /\ n = Len(b)
  BY LenProperties
<1>2. Joins(a, b, s)
  <2>1. Joins(a, b, a \o b)
    BY Joined
  <2> QED BY <2>1, <1>s
<1>3. Joins(c, d, s)
  <2>1. Joins(c, d, c \o d)
    BY Joined
  <2> QED BY <2>1, <1>s
<1>4. Len(c) = m /\ Len(d) = n
  BY <1>1, <1>2, <1>3 DEF Joins
<1>5. \A i \in 1 .. m : a[i] = c[i]
  BY <1>1, <1>2, <1>3, <1>4 DEF Joins
<1>6. \A i \in 1 .. n : b[i] = d[i]
  BY <1>1, <1>2, <1>3, <1>4 DEF Joins
<1>7. a = c
  BY <1>1, <1>4, <1>5, SeqEqual
<1>8. b = d
  BY <1>1, <1>4, <1>6, SeqEqual
<1> QED BY <1>7, <1>8

\* The first k bytes, and the others.
LEMMA SubSeqFacts ==
    ASSUME NEW s \in Seq(Nat), NEW m \in Nat, NEW n \in Nat,
           0 < m, m <= n + 1, n <= Len(s), NEW t, t = SubSeq(s, m, n)
    PROVE  /\ t \in Seq(Nat)
           /\ Len(t) = (n + 1) - m
           /\ \A i \in 1 .. (n + 1) - m : t[i] = s[(m + i) - 1]
<1>1. PICK l \in Nat : l = Len(s)
  BY LenProperties
<1>2. \A i \in 1 .. l : s[i] \in Nat
  BY <1>1, ElementOfSeq
<1>3. \A i \in m .. n : s[i] \in Nat
  BY <1>1, <1>2
<1>4. /\ t \in Seq(Nat)
      /\ Len(t) = IF m <= n THEN n - m + 1 ELSE 0
      /\ \A i \in 1 .. n - m + 1 : t[i] = s[m + i - 1]
  <2>1. m \in Int /\ n \in Int
    OBVIOUS
  <2>2. /\ SubSeq(s, m, n) \in Seq(Nat)
        /\ Len(SubSeq(s, m, n)) = IF m <= n THEN n - m + 1 ELSE 0
        /\ \A i \in 1 .. n - m + 1 : SubSeq(s, m, n)[i] = s[m + i - 1]
    BY <1>3, <2>1, SubSeqProperties
  <2> QED BY <2>2
<1> QED BY <1>4

Splits(s, k, x, y) ==
    /\ x \in Seq(Nat) /\ Len(x) = k
    /\ y \in Seq(Nat) /\ Len(y) = Len(s) - k
    /\ s = x \o y

LEMMA Split ==
    ASSUME NEW s \in Seq(Nat), NEW k \in Nat, k <= Len(s)
    PROVE  Splits(s, k, SubSeq(s, 1, k), SubSeq(s, k + 1, Len(s)))
<1>0. PICK x, y : x = SubSeq(s, 1, k) /\ y = SubSeq(s, k + 1, Len(s))
  OBVIOUS
<1>1. PICK n \in Nat : n = Len(s)
  BY LenProperties
<1>2. x \in Seq(Nat) /\ Len(x) = k /\ \A i \in 1 .. k : x[i] = s[i]
  <2>1. 1 \in Nat /\ k \in Nat /\ 0 < 1 /\ 1 <= k + 1
    OBVIOUS
  <2>2. /\ x \in Seq(Nat) /\ Len(x) = (k + 1) - 1
        /\ \A i \in 1 .. (k + 1) - 1 : x[i] = s[(1 + i) - 1]
    BY <2>1, <1>0, SubSeqFacts
  <2> QED BY <2>2
<1>3. y \in Seq(Nat) /\ Len(y) = n - k /\ \A i \in 1 .. n - k : y[i] = s[k + i]
  <2>1. k + 1 \in Nat /\ n \in Nat /\ 0 < k + 1 /\ k + 1 <= n + 1
    BY <1>1
  <2>2. /\ y \in Seq(Nat) /\ Len(y) = (n + 1) - (k + 1)
        /\ \A i \in 1 .. (n + 1) - (k + 1) : y[i] = s[((k + 1) + i) - 1]
    BY <1>0, <1>1, <2>1, SubSeqFacts
  <2> QED BY <2>2
<1>4. PICK t : t = x \o y
  OBVIOUS
<1>5. Joins(x, y, t)
  <2>1. Joins(x, y, x \o y)
    BY <1>2, <1>3, Joined
  <2> QED BY <2>1, <1>4
<1>6. /\ t \in Seq(Nat) /\ Len(t) = k + (n - k)
      /\ \A i \in 1 .. k : t[i] = x[i]
      /\ \A i \in 1 .. n - k : t[k + i] = y[i]
  BY <1>2, <1>3, <1>5 DEF Joins
<1>7. ASSUME NEW i \in 1 .. n PROVE t[i] = s[i]
  <2>1. CASE i <= k
    BY <2>1, <1>2, <1>6
  <2>2. CASE i > k
    <3>1. PICK j \in 1 .. n - k : i = k + j
      <4>1. i - k \in 1 .. n - k /\ i = k + (i - k)
        BY <1>1, <2>2
      <4> QED BY <4>1
    <3> QED BY <3>1, <1>3, <1>6
  <2> QED BY <2>1, <2>2
<1>8. s = t
  BY <1>1, <1>6, <1>7, SeqEqual
<1> QED BY <1>0, <1>1, <1>2, <1>3, <1>4, <1>8 DEF Splits

\* The same bytes grouped in another way.
Regrouped(s, d, x, y) == s \o d = x \o (y \o d)

LEMMA Regroup ==
    ASSUME NEW s, NEW k, NEW x, NEW y, Splits(s, k, x, y), NEW d, d \in Seq(Nat)
    PROVE  Regrouped(s, d, x, y)
<1>1. x \in Seq(Nat) /\ y \in Seq(Nat)
  BY DEF Splits
<1>2. (x \o y) \o d = x \o (y \o d)
  BY <1>1, Assoc
<1> QED BY <1>2 DEF Splits, Regrouped

\* A reader that takes as many bytes as a is long, takes a and leaves b.
Takes(s, d, a, b) ==
    /\ SubSeq(s, 1, Len(a)) = a
    /\ SubSeq(s, Len(a) + 1, Len(s)) \in Seq(Nat)
    /\ SubSeq(s, Len(a) + 1, Len(s)) \o d = b

LEMMA Front ==
    ASSUME NEW a \in Seq(Nat), NEW b \in Seq(Nat), NEW s \in Seq(Nat), NEW d \in Seq(Nat),
           a \o b = s \o d, Len(a) <= Len(s)
    PROVE  Takes(s, d, a, b)
<1>1. PICK k \in Nat : k = Len(a)
  BY LenProperties
<1>2. PICK x, y : x = SubSeq(s, 1, k) /\ y = SubSeq(s, k + 1, Len(s))
  OBVIOUS
<1>3. Splits(s, k, x, y)
  BY <1>1, <1>2, Split
<1>4. /\ x \in Seq(Nat) /\ Len(x) = k /\ y \in Seq(Nat)
  BY <1>3 DEF Splits
<1>a. y \o d \in Seq(Nat)
  BY <1>4, Cat
<1>7. a \o b = x \o (y \o d)
  <2>1. Regrouped(s, d, x, y)
    BY <1>3, Regroup
  <2> QED BY <2>1 DEF Regrouped
<1>8. a = x /\ b = y \o d
  BY <1>1, <1>4, <1>a, <1>7, SameCut
<1> QED BY <1>1, <1>2, <1>4, <1>8 DEF Takes

LEMMA U32Bytes ==
    ASSUME NEW n \in Nat
    PROVE  /\ U32(n) \in Seq(Nat) /\ Len(U32(n)) = 4
           /\ U32(n)[1] = U16(n \div Limit16)[1] /\ U32(n)[2] = U16(n \div Limit16)[2]
           /\ U32(n)[3] = U16(n)[1] /\ U32(n)[4] = U16(n)[2]
<1>1. n \div Limit16 \in Nat
  BY Limits, Division
<1>2. PICK a, b : a = U16(n \div Limit16) /\ b = U16(n)
  OBVIOUS
<1>3. a \in Seq(Nat) /\ Len(a) = 2 /\ b \in Seq(Nat) /\ Len(b) = 2
  BY <1>1, <1>2, U16Bytes
<1>4. PICK c : c = a \o b
  OBVIOUS
<1>5. Joins(a, b, c)
  <2>1. Joins(a, b, a \o b)
    BY <1>3, Joined
  <2> QED BY <2>1, <1>4
<1>6. /\ c \in Seq(Nat) /\ Len(c) = 4
      /\ \A i \in 1 .. 2 : c[i] = a[i]
      /\ \A i \in 1 .. 2 : c[2 + i] = b[i]
  BY <1>3, <1>5 DEF Joins
<1>7. c[1] = a[1] /\ c[2] = a[2] /\ c[2 + 1] = b[1] /\ c[2 + 2] = b[2]
  BY <1>6
<1>8. c = U32(n)
  BY <1>2, <1>4 DEF U32
<1> QED BY <1>2, <1>6, <1>7, <1>8

LEMMA U16At ==
    ASSUME NEW n \in Nat, n < Limit16, NEW b, NEW k \in Nat,
           b[k] = U16(n)[1], b[k + 1] = U16(n)[2]
    PROVE  Num16(b, k) = n
<1>1. n % Limit16 = n
  BY Limits, SmallRemainder
<1> QED BY <1>1, U16Number DEF Num16

\* Two digits in base b make a number below b * b.
LEMMA TwoDigits ==
    ASSUME NEW b \in Nat, b > 0, NEW x \in Nat, NEW y \in Nat, x < b, y < b
    PROVE  b * x + y \in Nat /\ b * x + y < b * b
<1>1. PICK d \in Nat : b = (x + 1) + d
  <2>1. b - (x + 1) \in Nat /\ b = (x + 1) + (b - (x + 1))
    OBVIOUS
  <2> QED BY <2>1
<1>2. b * b = b * x + b + b * d
  BY <1>1
<1>3. b * x \in Nat /\ b * d \in Nat
  OBVIOUS
<1> QED BY <1>2, <1>3

\* Of a number that does not fit, four bytes keep the remainder.
LEMMA U32Number ==
    ASSUME NEW n \in Nat, NEW b, NEW k \in Nat,
           b[k] = U32(n)[1], b[k + 1] = U32(n)[2],
           b[k + 2] = U32(n)[3], b[(k + 2) + 1] = U32(n)[4]
    PROVE  Num32(b, k) = n % Limit32
<1>1. PICK q \in Nat, y \in Nat : /\ q = n \div Limit16 /\ y = n % Limit16 /\ y < Limit16
                                  /\ n = Limit16 * q + y
  BY Limits, Division
<1>2. PICK t \in Nat, x \in Nat : x = q % Limit16 /\ x < Limit16 /\ q = Limit16 * t + x
  BY Limits, Division
<1>3. Base * b[k] + b[k + 1] = x
  <2>1. b[k] = U16(q)[1] /\ b[k + 1] = U16(q)[2]
    BY <1>1, U32Bytes
  <2>2. Base * U16(q)[1] + U16(q)[2] = q % Limit16
    BY U16Number
  <2> QED BY <1>2, <2>1, <2>2
<1>4. Base * b[k + 2] + b[(k + 2) + 1] = y
  BY <1>1, U32Bytes, U16Number
<1>5. Num32(b, k) = Limit16 * x + y
  BY <1>3, <1>4 DEF Num16, Num32
<1>6. PICK u : u = Limit16 * x + y
  OBVIOUS
<1>7. u \in Nat /\ u < Limit32
  BY <1>1, <1>2, <1>6, Limits, TwoDigits DEF Limit32
<1>8. n = Limit32 * t + u
  BY <1>1, <1>2, <1>6, Limits DEF Limit32
<1>9. n % Limit32 = u
  BY <1>7, <1>8, Limits, Quotient
<1> QED BY <1>5, <1>6, <1>9

-----------------------------------------------------------------------------
(***************************************************************************)
(* Induction over the natural numbers.  What T lacks up to n is closed     *)
(* under the predecessor: mapping it so into itself misses n, which a      *)
(* finite set does not allow (the pigeonhole principle).                   *)
(***************************************************************************)

LEMMA Induction ==
    ASSUME NEW T, 0 \in T, \A n \in Nat : n \in T => n + 1 \in T,
           NEW n \in Nat
    PROVE  n \in T
<1> SUFFICES ASSUME n \notin T PROVE FALSE
  OBVIOUS
<1> DEFINE U == {k \in 0 .. n : k \notin T}
           V == U \ {n}
           f == [k \in U |-> k - 1]
<1>1. IsFiniteSet(0 .. n) /\ U \subseteq 0 .. n /\ n \in U
  BY FS_Interval
<1>2. IsFiniteSet(U)
  BY <1>1, FS_Subset
<1>3. IsFiniteSet(V) /\ Cardinality(V) = Cardinality(U) - 1
  BY <1>1, <1>2, FS_RemoveElement
<1>4. Cardinality(V) < Cardinality(U)
  BY <1>2, <1>3, FS_CardinalityType
<1>5. ASSUME NEW k \in U PROVE k - 1 \in V
  <2>1. k \in 0 .. n /\ k \notin T /\ k # 0
    OBVIOUS
  <2>2. k - 1 \in Nat /\ (k - 1) + 1 = k /\ k - 1 \in 0 .. n /\ k - 1 # n
    BY <2>1
  <2>3. k - 1 \notin T
    BY <2>1, <2>2
  <2> QED BY <2>2, <2>3
<1>6. f \in [U -> V]
  BY <1>5
<1>7. PICK x \in U, y \in U : x # y /\ f[x] = f[y]
  <2> HIDE DEF U, V, f
  <2> QED BY <1>2, <1>3, <1>4, <1>6, FS_PigeonHole
<1>8. x \in Int /\ y \in Int /\ x - 1 = y - 1
  BY <1>7
<1> QED BY <1>7, <1>8

-----------------------------------------------------------------------------
(***************************************************************************)
(* Frames                                                                  *)
(***************************************************************************)

\* A header is 12 bytes from which the reader gets what the writer put in.
LEMMA HeaderFacts ==
    ASSUME NEW type \in Nat, NEW n \in Nat, n < Limit32
    PROVE  /\ MakeHeader(type, n) \in Seq(Nat) /\ Len(MakeHeader(type, n)) = HeaderSize
           /\ ValidHeader(MakeHeader(type, n))
           /\ HeaderType(MakeHeader(type, n)) = type
           /\ PayloadLen(MakeHeader(type, n)) = n
<1>1. PICK a, v, t, l, z :
         a = Magic /\ v = <<Version>> /\ t = <<type>> /\ l = U32(n) /\ z = U16(0)
  OBVIOUS
<1>2. /\ a \in Seq(Nat) /\ Len(a) = 4
      /\ a[1] = 70 /\ a[2] = 83 /\ a[3] = 88 /\ a[4] = 49
  BY <1>1 DEF Magic
<1>3. /\ v \in Seq(Nat) /\ Len(v) = 1 /\ v[1] = Version
      /\ t \in Seq(Nat) /\ Len(t) = 1 /\ t[1] = type
  BY <1>1 DEF Version
<1>4. l \in Seq(Nat) /\ Len(l) = 4 /\ z \in Seq(Nat) /\ Len(z) = 2
  BY <1>1, U32Bytes, U16Bytes
<1>5. PICK b, c, d, h : b = a \o v /\ c = b \o t /\ d = c \o l /\ h = d \o z
  OBVIOUS
<1>6. Joins(a, v, b)
  <2>1. Joins(a, v, a \o v)
    BY <1>2, <1>3, Joined
  <2> QED BY <2>1, <1>5
<1>b. /\ b \in Seq(Nat) /\ Len(b) = 5 /\ b[4 + 1] = v[1]
      /\ \A i \in 1 .. 4 : b[i] = a[i]
  BY <1>2, <1>3, <1>6 DEF Joins
<1>7. Joins(b, t, c)
  <2>1. Joins(b, t, b \o t)
    BY <1>b, <1>3, Joined
  <2> QED BY <2>1, <1>5
<1>c. /\ c \in Seq(Nat) /\ Len(c) = 6 /\ c[5 + 1] = t[1]
      /\ \A i \in 1 .. 5 : c[i] = b[i]
  BY <1>3, <1>b, <1>7 DEF Joins
<1>8. Joins(c, l, d)
  <2>1. Joins(c, l, c \o l)
    BY <1>c, <1>4, Joined
  <2> QED BY <2>1, <1>5
<1>d. /\ d \in Seq(Nat) /\ Len(d) = 10
      /\ \A i \in 1 .. 6 : d[i] = c[i]
      /\ \A i \in 1 .. 4 : d[6 + i] = l[i]
  BY <1>4, <1>c, <1>8 DEF Joins
<1>9. Joins(d, z, h)
  <2>1. Joins(d, z, d \o z)
    BY <1>d, <1>4, Joined
  <2> QED BY <2>1, <1>5
<1>h. /\ h \in Seq(Nat) /\ Len(h) = 12
      /\ \A i \in 1 .. 10 : h[i] = d[i]
  BY <1>4, <1>d, <1>9 DEF Joins
<1>10. h = MakeHeader(type, n)
  BY <1>1, <1>5 DEF MakeHeader, Byte
<1>11. /\ h[1] = 70 /\ h[2] = 83 /\ h[3] = 88 /\ h[4] = 49
  BY <1>2, <1>b, <1>c, <1>d, <1>h
<1>12. h[5] = Version /\ h[6] = type
  BY <1>3, <1>b, <1>c, <1>d, <1>h
<1>13. h[6 + 1] = l[1] /\ h[6 + 2] = l[2] /\ h[6 + 3] = l[3] /\ h[6 + 4] = l[4]
  BY <1>d, <1>h
<1>14. SubSeq(h, 1, 4) = Magic
  <2>1. PICK s : s = SubSeq(h, 1, 4)
    OBVIOUS
  <2>2. s \in Seq(Nat) /\ Len(s) = 4 /\ \A i \in 1 .. 4 : s[i] = h[i]
    <3>1. Splits(h, 4, s, SubSeq(h, 4 + 1, Len(h)))
      <4>1. PICK k \in Nat : k = 4
        OBVIOUS
      <4>2. k <= Len(h)
        BY <1>h, <4>1
      <4>3. Splits(h, k, SubSeq(h, 1, k), SubSeq(h, k + 1, Len(h)))
        BY <1>h, <4>2, Split
      <4> QED BY <2>1, <4>1, <4>3
    <3>2. PICK u \in Seq(Nat) : h = s \o u /\ s \in Seq(Nat) /\ Len(s) = 4
      BY <3>1 DEF Splits
    <3>3. Joins(s, u, s \o u)
      BY <3>2, Joined
    <3>4. Joins(s, u, h)
      BY <3>2, <3>3
    <3> QED BY <3>2, <3>4 DEF Joins
  <2>3. a \in Seq(Nat) /\ Len(a) = 4 /\ \A i \in 1 .. 4 : a[i] = s[i]
    BY <1>2, <1>11, <2>2
  <2>4. a = s
    BY <2>2, <2>3, SeqEqual
  <2> QED BY <2>1, <2>4, <1>1
<1>15. Num32(h, 7) = n
  <2>1. h[7] = l[1] /\ h[7 + 1] = l[2] /\ h[7 + 2] = l[3] /\ h[(7 + 2) + 1] = l[4]
    BY <1>13
  <2>2. 7 \in Nat
    OBVIOUS
  <2>3. Num32(h, 7) = n % Limit32
    BY <1>1, <2>1, <2>2, U32Number
  <2>4. n % Limit32 = n
    BY Limits, SmallRemainder
  <2> QED BY <2>3, <2>4
<1>16. ValidHeader(h) /\ HeaderType(h) = type /\ PayloadLen(h) = n
  BY <1>12, <1>14, <1>15 DEF ValidHeader, HeaderType, PayloadLen
<1> QED BY <1>h, <1>10, <1>16 DEF HeaderSize

-----------------------------------------------------------------------------
(***************************************************************************)
(* Payloads                                                                *)
(***************************************************************************)

\* p is n bytes long.
Size(p, n) == p \in Seq(Nat) /\ n \in Nat /\ Len(p) = n

LEMMA SizeCat ==
    ASSUME NEW a, NEW b, NEW m, NEW n, Size(a, m), Size(b, n)
    PROVE  Size(a \o b, m + n)
BY Cat DEF Size

LEMMA SizeText ==
    ASSUME NEW s \in Text
    PROVE  Size(s, Len(s)) /\ 3 * Len(s) + 24 < Limit32
<1>1. s \in Seq(0 .. Base - 1)
  BY TextAssumption
<1>2. Len(s) \in Nat /\ s \in [1 .. Len(s) -> 0 .. Base - 1]
  BY <1>1, LenProperties
<1>3. s \in Seq(Nat)
  <2>1. 0 .. Base - 1 \subseteq Nat
    OBVIOUS
  <2>2. s \in [1 .. Len(s) -> Nat]
    BY <1>2, <2>1
  <2> QED BY <1>1, <1>2, <2>2
<1> QED BY <1>2, <1>3, PayloadsFit DEF Size

LEMMA SizeByte == ASSUME NEW n \in Nat PROVE Size(Byte(n), 1)
BY DEF Byte, Size

LEMMA SizeU16 == ASSUME NEW n \in Nat PROVE Size(U16(n), 2)
BY U16Bytes DEF Size

LEMMA SizeU32 == ASSUME NEW n \in Nat PROVE Size(U32(n), 4)
BY U32Bytes DEF Size

LEMMA SizeU64 == ASSUME NEW n \in Nat PROVE Size(U64(n), 8)
<1>1. n \div Limit32 \in Nat
  BY Limits, Division
<1>2. Size(U32(n \div Limit32), 4) /\ Size(U32(n), 4)
  BY <1>1, SizeU32
<1>3. Size(U32(n \div Limit32) \o U32(n), 4 + 4)
  BY <1>2, SizeCat
<1> QED BY <1>3 DEF U64

LEMMA SizeStr == ASSUME NEW s \in Text PROVE Size(Str(s), 2 + Len(s))
<1>1. Size(s, Len(s)) /\ Len(s) \in Nat
  BY SizeText DEF Size
<1>2. Size(U16(Len(s)), 2)
  BY <1>1, SizeU16
<1> QED BY <1>1, <1>2, SizeCat DEF Str

LEMMA SizeNothing == Size(<<>>, 0)
BY Nothing DEF Size

\* What Payload makes of each type of message.
LEMMA PayloadIs ==
    ASSUME NEW m
    PROVE  /\ m.type = MsgType.HELLO => Payload(m) = m.vals[1]
           /\ m.type = MsgType.REGISTER_REQ =>
                Payload(m) = IF m.by = "py" THEN AuthPayload(m.vals[1], m.vals[2], m.vals[3])
                                            ELSE RegisterReq(m.vals[1], m.vals[2], m.vals[3])
           /\ m.type = MsgType.LOGIN_REQ =>
                Payload(m) = IF m.by = "py" THEN AuthPayload(m.vals[1], <<>>, m.vals[2])
                                            ELSE LoginReq(m.vals[1], m.vals[2])
           /\ m.type = MsgType.REGISTER_RESP => Payload(m) = RegisterResp(m.vals[1], m.vals[2])
           /\ m.type = MsgType.LOGIN_RESP =>
                Payload(m) = LoginResp(m.vals[1], m.vals[2], m.vals[3], m.vals[4], m.vals[5])
           /\ m.type = MsgType.ONLINE_LIST_RESP => Payload(m) = OnlineListResp(m.vals)
           /\ m.type = MsgType.FILE_OFFER_REQ =>
                Payload(m) = FileOfferReq(m.vals[1], m.vals[2], m.vals[3], m.vals[4], m.vals[5])
           /\ m.type = MsgType.FILE_OFFER_RESP =>
                Payload(m) = FileOfferResp(m.vals[1], m.vals[2], m.vals[3])
           /\ m.type = MsgType.FILE_ACCEPT_REQ => Payload(m) = FileAcceptReq(m.vals[1], m.vals[2])
           /\ m.type = MsgType.FILE_ACCEPT_RESP => Payload(m) = FileAcceptResp(m.vals[1], m.vals[2])
           /\ m.type = MsgType.FILE_CHUNK => Payload(m) = FileChunk(m.vals[1], m.vals[2], m.vals[3])
           /\ m.type = MsgType.FILE_DONE => Payload(m) = FileDone(m.vals[1], m.vals[2], m.vals[3])
           /\ m.type = MsgType.FILE_RESULT => Payload(m) = FileResult(m.vals[1], m.vals[2], m.vals[3])
BY DEF Payload, MsgType, HelloPayload

\* The messages that requests and replies are made of.
Request(m) ==
    \/ m.type = MsgType.HELLO /\ \E name \in Text : m.vals = <<name>>
    \/ /\ m.type = MsgType.REGISTER_REQ
       /\ \E u, e, p \in Text : m.vals = <<u, e, p>>
    \/ /\ m.type = MsgType.LOGIN_REQ
       /\ \E u, p \in Text : m.vals = <<u, p>>
    \/ /\ m.type = MsgType.FILE_OFFER_REQ
       /\ \E r, f \in Text, size \in BigNums, chunk \in Nums : m.vals = <<0, r, f, size, chunk>>
    \/ /\ m.type = MsgType.FILE_ACCEPT_REQ
       /\ \E i \in BigNums, accept \in BOOLEAN : m.vals = <<i, accept>>
    \/ /\ m.type = MsgType.FILE_CHUNK
       /\ \E i \in BigNums, k \in Nums, data \in Text : m.vals = <<i, k, data>>
    \/ /\ m.type = MsgType.FILE_DONE
       /\ \E i, size \in BigNums, n \in Nums : m.vals = <<i, n, size>>

Reply(m) ==
    \/ /\ m.type = MsgType.REGISTER_RESP
       /\ \E ok \in BOOLEAN, msg \in ShortText : m.vals = <<ok, msg>>
    \/ /\ m.type = MsgType.LOGIN_RESP
       /\ \E ok \in BOOLEAN, t, u, msg \in ShortText, id \in BigNums \cup {0} :
             /\ ~ok => t = <<>> /\ id = 0 /\ u = <<>>
             /\ m.vals = <<ok, t, id, u, msg>>
    \/ /\ m.type = MsgType.ONLINE_LIST_RESP
       /\ \E n \in 0 .. MaxNames : m.vals \in [1 .. n -> ShortText]
    \/ /\ m.type = MsgType.FILE_OFFER_RESP
       /\ \E ok \in BOOLEAN, i \in BigNums, reason \in ShortText :
             (ok => reason = <<>>) /\ m.vals = <<ok, i, reason>>
    \/ /\ m.type = MsgType.FILE_ACCEPT_RESP
       /\ \E ok \in BOOLEAN, reason \in ShortText :
             (ok => reason = <<>>) /\ m.vals = <<ok, reason>>
    \/ /\ m.type = MsgType.FILE_RESULT
       /\ \E i \in BigNums, ok \in BOOLEAN, text \in ShortText : m.vals = <<i, ok, text>>

\* A payload whose length fits in the four bytes of the header.
Carried(p) == p \in Seq(Nat) /\ Len(p) \in Nat /\ Len(p) < Limit32

LEMMA CarriedTexts ==
    ASSUME NEW a \in Text, NEW b \in Text, NEW c \in Text, NEW p, NEW n, Size(p, n),
           n <= Len(a) + Len(b) + Len(c) + 24
    PROVE  Carried(p)
<1>1. PICK x \in Nat, y \in Nat, z \in Nat, l \in Nat :
         x = Len(a) /\ y = Len(b) /\ z = Len(c) /\ l = Limit32
  BY SizeText, Limits DEF Size
<1>2. 3 * x + 24 < l /\ 3 * y + 24 < l /\ 3 * z + 24 < l
  BY <1>1, SizeText
<1>3. n \in Nat /\ n <= x + y + z + 24
  BY <1>1 DEF Size
<1>4. n < l
  BY <1>2, <1>3
<1> QED BY <1>1, <1>4 DEF Carried, Size

LEMMA Shorts == ASSUME NEW s \in ShortText PROVE s \in Text /\ Len(s) < Limit16
BY DEF ShortText, PyFits

LEMMA NumsNat == ASSUME NEW n \in Nums PROVE n \in Nat /\ n < Limit32
BY NumsFit, Limits

LEMMA BigNumsNat == ASSUME NEW n \in BigNums PROVE n \in Nat /\ n < Limit64
BY NumsFit, Limits

LEMMA Flags == ASSUME NEW b \in BOOLEAN
               PROVE  Size(Byte(IF b THEN 1 ELSE 0), 1) /\ Size(Byte(IF b THEN 0 ELSE 1), 1)
<1>1. Size(Byte(0), 1) /\ Size(Byte(1), 1)
  BY SizeByte
<1> QED BY <1>1

LEMMA RegisterSize ==
    ASSUME NEW u \in Text, NEW e \in Text, NEW p \in Text
    PROVE  Carried(RegisterReq(u, e, p)) /\ Carried(AuthPayload(u, e, p))
<1>1. PICK x \in Nat, y \in Nat, z \in Nat : x = Len(u) /\ y = Len(e) /\ z = Len(p)
  BY SizeText DEF Size
<1>2. Size(Str(u), 2 + x) /\ Size(Str(e), 2 + y) /\ Size(Str(p), 2 + z) /\ Size(<<>>, 0)
  BY <1>1, SizeStr, SizeNothing
<1>3. Size(Str(u) \o Str(e) \o Str(p), ((2 + x) + (2 + y)) + (2 + z))
  BY <1>2, SizeCat
<1>4. Size(Str(u) \o <<>> \o Str(p), ((2 + x) + 0) + (2 + z))
  BY <1>2, SizeCat
<1>5. Carried(Str(u) \o Str(e) \o Str(p))
  BY <1>1, <1>3, CarriedTexts
<1>6. Carried(Str(u) \o <<>> \o Str(p))
  BY <1>1, <1>4, CarriedTexts
<1> QED BY <1>5, <1>6 DEF RegisterReq, AuthPayload

LEMMA LoginSize ==
    ASSUME NEW u \in Text, NEW p \in Text
    PROVE  Carried(LoginReq(u, p)) /\ Carried(AuthPayload(u, <<>>, p))
<1>1. PICK x \in Nat, z \in Nat : x = Len(u) /\ z = Len(p)
  BY SizeText DEF Size
<1>2. Size(Str(u), 2 + x) /\ Size(Str(p), 2 + z)
  BY <1>1, SizeStr
<1>3. Size(Str(u) \o Str(p), (2 + x) + (2 + z))
  BY <1>2, SizeCat
<1>4. Carried(Str(u) \o Str(p))
  BY <1>1, <1>3, CarriedTexts
<1>5. <<>> \in Text
  BY TextAssumption
<1> QED BY <1>4, <1>5, RegisterSize DEF LoginReq

LEMMA LoginRespSize ==
    ASSUME NEW ok \in BOOLEAN, NEW t \in Text, NEW u \in Text, NEW msg \in Text, NEW id \in Nat
    PROVE  Carried(LoginResp(ok, t, id, u, msg))
<1>1. PICK x \in Nat, y \in Nat, z \in Nat : x = Len(t) /\ y = Len(u) /\ z = Len(msg)
  BY SizeText DEF Size
<1>2. /\ Size(Str(t), 2 + x) /\ Size(Str(u), 2 + y) /\ Size(Str(msg), 2 + z)
      /\ Size(U64(id), 8) /\ Size(<<>>, 0) /\ Size(Byte(1), 1) /\ Size(Byte(0), 1)
  BY <1>1, SizeStr, SizeNothing, SizeByte, SizeU64
<1>3. Size(Str(t) \o U64(id) \o Str(u), ((2 + x) + 8) + (2 + y))
  BY <1>2, SizeCat
<1>4. Size(Byte(1) \o (Str(t) \o U64(id) \o Str(u)) \o Str(msg),
           (1 + (((2 + x) + 8) + (2 + y))) + (2 + z))
  BY <1>2, <1>3, SizeCat
<1>5. Size(Byte(0) \o <<>> \o Str(msg), (1 + 0) + (2 + z))
  BY <1>2, SizeCat
<1>6. Carried(Byte(1) \o (Str(t) \o U64(id) \o Str(u)) \o Str(msg))
  BY <1>1, <1>4, CarriedTexts
<1>7. Carried(Byte(0) \o <<>> \o Str(msg))
  BY <1>1, <1>5, CarriedTexts
<1> QED BY <1>6, <1>7 DEF LoginResp

\* An online list: n short names.
Names(names, n) ==
    /\ n \in Nat /\ n <= MaxNames
    /\ names \in [1 .. n -> ShortText]

LEMMA NamesFacts ==
    ASSUME NEW names, NEW n, Names(names, n)
    PROVE  /\ n \in Nat /\ n < Limit16 - 1 /\ n < Limit16
           /\ names \in Seq(ShortText) /\ Len(names) = n
           /\ \A k \in 1 .. n : names[k] \in Text /\ Len(names[k]) < Limit16
<1>1. n \in Nat /\ n < Limit16 - 1 /\ n < Limit16
  BY NamesFit, Limits DEF Names
<1>2. names \in Seq(ShortText) /\ Len(names) = n
  BY DEF Names
<1>3. \A k \in 1 .. n : names[k] \in ShortText
  BY DEF Names
<1> QED BY <1>1, <1>2, <1>3, Shorts

\* The loop that writes the first n names: what is written after each turn.
IsOut(names, n, h) ==
    h = [k \in 0 .. n |-> IF k = 0 THEN U16(Len(names)) ELSE h[k - 1] \o Str(names[k])]

LEMMA OutExists ==
    ASSUME NEW names, NEW n \in Nat PROVE \E h : IsOut(names, n, h)
<1> DEFINE T == {k \in Nat : \E h : IsOut(names, k, h)}
<1>1. 0 \in T
  <2>1. PICK z \in Nat : z = 0
    OBVIOUS
  <2>2. PICK h : h = [k \in 0 .. z |-> U16(Len(names))]
    OBVIOUS
  <2>3. IsOut(names, z, h)
    BY <2>1, <2>2 DEF IsOut
  <2> QED BY <2>1, <2>3
<1>2. ASSUME NEW k \in Nat, k \in T PROVE k + 1 \in T
  <2>1. PICK h : IsOut(names, k, h)
    BY <1>2
  <2>2. PICK e : e = h[k] \o Str(names[k + 1])
    OBVIOUS
  <2>3. PICK g : g = [j \in 0 .. k + 1 |-> IF j = k + 1 THEN e ELSE h[j]]
    OBVIOUS
  <2>4. ASSUME NEW j \in 0 .. k + 1
        PROVE  g[j] = IF j = 0 THEN U16(Len(names)) ELSE g[j - 1] \o Str(names[j])
    <3>1. CASE j = k + 1
      <4>1. j # 0 /\ j - 1 = k /\ k # k + 1 /\ k \in 0 .. k + 1
        BY <3>1
      <4>2. g[j] = e /\ g[k] = h[k]
        BY <2>3, <3>1, <4>1
      <4> QED BY <2>2, <3>1, <4>1, <4>2
    <3>2. CASE j # k + 1
      <4>1. j \in 0 .. k /\ g[j] = h[j]
        BY <2>3, <3>2
      <4>2. j # 0 => j - 1 \in 0 .. k + 1 /\ j - 1 # k + 1
        BY <4>1
      <4>3. j # 0 => g[j - 1] = h[j - 1]
        BY <2>3, <4>2
      <4>4. h[j] = IF j = 0 THEN U16(Len(names)) ELSE h[j - 1] \o Str(names[j])
        BY <2>1, <4>1 DEF IsOut
      <4> QED BY <4>1, <4>3, <4>4
    <3> QED BY <3>1, <3>2
  <2>5. g = [j \in 0 .. k + 1 |-> g[j]]
    BY <2>3
  <2>6. IsOut(names, k + 1, g)
    BY <2>4, <2>5 DEF IsOut
  <2> QED BY <2>6
<1>3. n \in T
  <2> HIDE DEF T
  <2> QED BY <1>1, <1>2, Induction
<1> QED BY <1>3

\* The function of the loop is chosen; there is one, so the choice is one.
LEMMA OutIs ==
    ASSUME NEW names, NEW n \in Nat, n = Len(names)
    PROVE  \E h : IsOut(names, n, h) /\ OnlineListResp(names) = h[n]
<1> DEFINE Loop(f) == [k \in 0 .. Len(names) |->
                         IF k = 0 THEN U16(Len(names)) ELSE f[k - 1] \o Str(names[k])]
<1>1. OnlineListResp(names) = (CHOOSE f : f = Loop(f))[Len(names)]
  BY Zenon DEF OnlineListResp
<1>2. \A f : f = Loop(f) <=> IsOut(names, n, f)
  BY DEF IsOut
<1> HIDE DEF Loop
<1>3. PICK g : g = Loop(g)
  BY <1>2, OutExists
<1>4. PICK h : h = CHOOSE f : f = Loop(f)
  OBVIOUS
<1>5. h = Loop(h)
  BY <1>3, <1>4
<1> QED BY <1>1, <1>2, <1>4, <1>5

LEMMA OutSteps ==
    ASSUME NEW names, NEW n \in Nat, NEW h, IsOut(names, n, h)
    PROVE  /\ h[0] = U16(Len(names))
           /\ \A k \in 0 .. n : k + 1 <= n => h[k + 1] = h[k] \o Str(names[k + 1])
<1>1. \A k \in 0 .. n : h[k] = IF k = 0 THEN U16(Len(names)) ELSE h[k - 1] \o Str(names[k])
  BY DEF IsOut
<1>2. h[0] = U16(Len(names))
  BY <1>1
<1>3. ASSUME NEW k \in 0 .. n, k + 1 <= n PROVE h[k + 1] = h[k] \o Str(names[k + 1])
  <2>1. PICK j : j = k + 1
    OBVIOUS
  <2>2. j \in 0 .. n /\ j # 0 /\ j - 1 = k
    BY <1>3, <2>1
  <2>3. h[j] = h[k] \o Str(names[j])
    BY <1>1, <2>2
  <2> QED BY <2>1, <2>3
<1> QED BY <1>2, <1>3

LEMMA NextMultiple ==
    ASSUME NEW j \in Nat, NEW c \in Nat PROVE (j + 1) * c = j * c + c /\ j * c \in Nat
OBVIOUS

\* A name takes at most 65537 bytes.
LEMMA OutSize ==
    ASSUME NEW names, NEW n, Names(names, n), NEW h, IsOut(names, n, h), NEW k \in 0 .. n
    PROVE  \E l : Size(h[k], l) /\ l <= 2 + k * (Limit16 + 1)
<1>0. n \in Nat /\ Len(names) = n
  BY NamesFacts
<1> DEFINE T == {j \in Nat : j <= n => \E l : Size(h[j], l) /\ l <= 2 + j * (Limit16 + 1)}
<1>1. 0 \in T
  <2>1. Size(h[0], 2)
    BY <1>0, OutSteps, SizeU16
  <2>2. 2 <= 2 + 0 * (Limit16 + 1)
    BY Limits
  <2> QED BY <2>1, <2>2
<1>2. ASSUME NEW j \in Nat, j \in T PROVE j + 1 \in T
  <2> SUFFICES ASSUME j + 1 <= n
               PROVE  \E l : Size(h[j + 1], l) /\ l <= 2 + (j + 1) * (Limit16 + 1)
    OBVIOUS
  <2>1. PICK l : Size(h[j], l) /\ l <= 2 + j * (Limit16 + 1)
    BY <1>0, <1>2
  <2>2. PICK s : s = names[j + 1]
    OBVIOUS
  <2>3. s \in Text /\ Len(s) < Limit16
    <3>1. j + 1 \in 1 .. n
      BY <1>0
    <3> QED BY <2>2, <3>1, NamesFacts
  <2>4. PICK x \in Nat : x = Len(s) /\ x < Limit16
    BY <2>3, SizeText DEF Size
  <2>5. Size(Str(s), 2 + x)
    BY <2>3, <2>4, SizeStr
  <2>6. h[j + 1] = h[j] \o Str(s)
    <3>1. j \in 0 .. n
      BY <1>0
    <3> QED BY <1>0, <2>2, <3>1, OutSteps
  <2>7. Size(h[j + 1], l + (2 + x))
    BY <2>1, <2>5, <2>6, SizeCat
  <2>8. l + (2 + x) <= 2 + (j + 1) * (Limit16 + 1)
    <3>1. l \in Nat
      BY <2>1 DEF Size
    <3>2. PICK c \in Nat : c = Limit16 + 1
      BY Limits
    <3>3. (j + 1) * c = j * c + c /\ j * c \in Nat
      BY <3>2, NextMultiple
    <3>4. 2 + x <= c
      BY <2>4, <3>2, Limits
    <3> QED BY <2>1, <3>1, <3>2, <3>3, <3>4
  <2> QED BY <2>7, <2>8
<1>3. k \in T
  <2>1. k \in Nat
    BY <1>0
  <2> HIDE DEF T
  <2> QED BY <1>1, <1>2, <2>1, Induction
<1> QED BY <1>0, <1>3

LEMMA OnlineSize ==
    ASSUME NEW names, NEW n, Names(names, n)
    PROVE  Carried(OnlineListResp(names))
<1>1. n \in Nat /\ Len(names) = n /\ n < Limit16 - 1
  BY NamesFacts
<1>2. PICK h : IsOut(names, n, h) /\ OnlineListResp(names) = h[n]
  BY <1>1, OutIs
<1>3. PICK l : Size(h[n], l) /\ l <= 2 + n * (Limit16 + 1)
  <2>1. n \in 0 .. n
    BY <1>1
  <2> QED BY <1>2, <2>1, OutSize
<1>4. l \in Nat
  BY <1>3 DEF Size
<1>5. 2 + n * (Limit16 + 1) < Limit32
  <2>1. PICK d \in Nat : Limit16 = n + 2 + d
    <3>1. PICK c \in Nat : c = Limit16
      BY Limits
    <3>2. n \in Nat /\ n < c - 1
      BY <1>1, <3>1
    <3>3. c - (n + 2) \in Nat /\ c = n + 2 + (c - (n + 2))
      BY <3>2
    <3> QED BY <3>1, <3>3
  <2>2. Limit16 * Limit16 = n * Limit16 + 2 * Limit16 + d * Limit16
    BY <1>1, <2>1, Limits
  <2>3. n * (Limit16 + 1) = n * Limit16 + n
    BY <1>1, Limits
  <2>4. n * Limit16 \in Nat /\ d * Limit16 \in Nat
    BY <1>1, Limits
  <2> QED BY <1>1, <2>1, <2>2, <2>3, <2>4, Limits DEF Limit32
<1>6. l < Limit32
  <2>1. PICK a : a = 2 + n * (Limit16 + 1)
    OBVIOUS
  <2>2. a \in Int
    BY <1>1, <2>1, Limits
  <2> QED BY <1>3, <1>4, <1>5, <2>1, <2>2, Limits
<1> QED BY <1>2, <1>3, <1>4, <1>6 DEF Carried, Size

LEMMA FileSizes ==
    ASSUME NEW i \in Nat, NEW j \in Nat, NEW n \in Nat, NEW a \in Text, NEW b \in Text,
           NEW ok \in BOOLEAN
    PROVE  /\ Carried(FileOfferReq(n, a, b, i, j))
           /\ Carried(FileAcceptReq(i, ok))
           /\ Carried(FileChunk(i, j, a))
           /\ Carried(FileDone(i, j, n))
<1>1. PICK x \in Nat, y \in Nat : x = Len(a) /\ y = Len(b)
  BY SizeText DEF Size
<1>2. /\ Size(Str(a), 2 + x) /\ Size(Str(b), 2 + y) /\ Size(a, x)
      /\ Size(U64(i), 8) /\ Size(U64(n), 8) /\ Size(U32(j), 4)
      /\ Size(Byte(IF ok THEN 1 ELSE 0), 1)
  BY <1>1, SizeStr, SizeText, SizeU32, SizeU64, Flags
<1>3. Size(U64(n) \o Str(a) \o Str(b), (8 + (2 + x)) + (2 + y))
  BY <1>2, SizeCat
<1>4. Size(U64(n) \o Str(a) \o Str(b) \o U64(i) \o U32(j), (((8 + (2 + x)) + (2 + y)) + 8) + 4)
  BY <1>2, <1>3, SizeCat
<1>5. Size(U64(i) \o Byte(IF ok THEN 1 ELSE 0), 8 + 1)
  BY <1>2, SizeCat
<1>6. Size(U64(i) \o U32(j) \o a, (8 + 4) + x) /\ Size(U64(i) \o U32(j) \o U64(n), (8 + 4) + 8)
  BY <1>2, SizeCat
<1>7. Carried(U64(n) \o Str(a) \o Str(b) \o U64(i) \o U32(j))
  <2>1. (((8 + (2 + x)) + (2 + y)) + 8) + 4 <= Len(a) + Len(b) + Len(a) + 24
    BY <1>1
  <2> QED BY <1>4, <2>1, CarriedTexts
<1>8. Carried(U64(i) \o Byte(IF ok THEN 1 ELSE 0))
  BY <1>1, <1>5, CarriedTexts
<1>9. Carried(U64(i) \o U32(j) \o a) /\ Carried(U64(i) \o U32(j) \o U64(n))
  BY <1>1, <1>6, CarriedTexts
<1> QED BY <1>7, <1>8, <1>9 DEF FileOfferReq, FileAcceptReq, FileChunk, FileDone

LEMMA FileRequestSize ==
    /\ \A n, i, j \in Nat, a, b \in Text : Carried(FileOfferReq(n, a, b, i, j))
    /\ \A i \in Nat, ok \in BOOLEAN : Carried(FileAcceptReq(i, ok))
    /\ \A i, j \in Nat, a \in Text : Carried(FileChunk(i, j, a))
    /\ \A i, j, n \in Nat : Carried(FileDone(i, j, n))
<1>1. <<>> \in Text /\ 0 \in Nat /\ TRUE \in BOOLEAN
  BY TextAssumption
<1>2. ASSUME NEW n \in Nat, NEW i \in Nat, NEW j \in Nat, NEW a \in Text, NEW b \in Text
      PROVE  Carried(FileOfferReq(n, a, b, i, j))
  BY <1>1, FileSizes
<1>3. ASSUME NEW i \in Nat, NEW ok \in BOOLEAN PROVE Carried(FileAcceptReq(i, ok))
  BY <1>1, FileSizes
<1>4. ASSUME NEW i \in Nat, NEW j \in Nat, NEW a \in Text PROVE Carried(FileChunk(i, j, a))
  BY <1>1, FileSizes
<1>5. ASSUME NEW i \in Nat, NEW j \in Nat, NEW n \in Nat PROVE Carried(FileDone(i, j, n))
  BY <1>1, FileSizes
<1> QED BY <1>2, <1>3, <1>4, <1>5

LEMMA ReplySizes ==
    ASSUME NEW i \in Nat, NEW a \in Text, NEW ok \in BOOLEAN
    PROVE  /\ Carried(RegisterResp(ok, a))
           /\ Carried(FileOfferResp(ok, i, a))
           /\ Carried(FileAcceptResp(ok, a))
           /\ Carried(FileResult(i, ok, a))
<1>1. PICK x \in Nat : x = Len(a)
  BY SizeText DEF Size
<1>2. PICK yes, no : yes = Byte(IF ok THEN 1 ELSE 0) /\ no = Byte(IF ok THEN 0 ELSE 1)
  OBVIOUS
<1>3. /\ Size(Str(a), 2 + x) /\ Size(U64(i), 8) /\ Size(<<>>, 0)
      /\ Size(yes, 1) /\ Size(no, 1)
  BY <1>1, <1>2, SizeStr, SizeU64, SizeNothing, Flags
<1>4. /\ Size(yes \o Str(a), 1 + (2 + x)) /\ Size(no \o Str(a), 1 + (2 + x))
      /\ Size(no \o <<>>, 1 + 0)
  BY <1>3, SizeCat
<1>5. /\ Size(no \o U64(i), 1 + 8)
      /\ Size(no \o U64(i) \o Str(a), (1 + 8) + (2 + x)) /\ Size(no \o U64(i) \o <<>>, (1 + 8) + 0)
      /\ Size(U64(i) \o no \o Str(a), (8 + 1) + (2 + x))
  BY <1>3, SizeCat
<1>6. Carried(yes \o Str(a)) /\ Carried(no \o Str(a)) /\ Carried(no \o <<>>)
  BY <1>1, <1>4, CarriedTexts
<1>7. Carried(no \o U64(i) \o Str(a)) /\ Carried(no \o U64(i) \o <<>>)
  BY <1>1, <1>5, CarriedTexts
<1>8. Carried(U64(i) \o no \o Str(a))
  BY <1>1, <1>5, CarriedTexts
<1> QED BY <1>2, <1>6, <1>7, <1>8 DEF RegisterResp, FileOfferResp, FileAcceptResp, FileResult

LEMMA ReplySize ==
    /\ \A ok \in BOOLEAN, a \in Text : Carried(RegisterResp(ok, a))
    /\ \A ok \in BOOLEAN, i \in Nat, a \in Text : Carried(FileOfferResp(ok, i, a))
    /\ \A ok \in BOOLEAN, a \in Text : Carried(FileAcceptResp(ok, a))
    /\ \A i \in Nat, ok \in BOOLEAN, a \in Text : Carried(FileResult(i, ok, a))
<1>1. 0 \in Nat
  OBVIOUS
<1>2. ASSUME NEW ok \in BOOLEAN, NEW a \in Text
      PROVE  Carried(RegisterResp(ok, a)) /\ Carried(FileAcceptResp(ok, a))
  BY <1>1, ReplySizes
<1>3. ASSUME NEW ok \in BOOLEAN, NEW i \in Nat, NEW a \in Text
      PROVE  Carried(FileOfferResp(ok, i, a)) /\ Carried(FileResult(i, ok, a))
  BY ReplySizes
<1> QED BY <1>2, <1>3

\* Every message of the program fits in a frame.
LEMMA RequestCarried ==
    ASSUME NEW m, Request(m) PROVE Carried(Payload(m)) /\ m.type \in Nat
<1>1. CASE m.type = MsgType.HELLO /\ \E name \in Text : m.vals = <<name>>
  <2>1. PICK name \in Text : m.vals = <<name>>
    BY <1>1
  <2>2. Payload(m) = name
    BY <1>1, <2>1, PayloadIs
  <2>3. Carried(name)
    <3>1. Size(name, Len(name)) /\ Len(name) \in Nat
      BY SizeText DEF Size
    <3> QED BY <3>1, CarriedTexts
  <2> QED BY <1>1, <2>2, <2>3 DEF MsgType
<1>2. CASE m.type = MsgType.REGISTER_REQ /\ \E u, e, p \in Text : m.vals = <<u, e, p>>
  <2>1. PICK u \in Text, e \in Text, p \in Text : m.vals = <<u, e, p>>
    BY <1>2
  <2>2. Payload(m) \in {RegisterReq(u, e, p), AuthPayload(u, e, p)}
    BY <1>2, <2>1, PayloadIs
  <2> QED BY <1>2, <2>2, RegisterSize DEF MsgType
<1>3. CASE m.type = MsgType.LOGIN_REQ /\ \E u, p \in Text : m.vals = <<u, p>>
  <2>1. PICK u \in Text, p \in Text : m.vals = <<u, p>>
    BY <1>3
  <2>2. Payload(m) \in {LoginReq(u, p), AuthPayload(u, <<>>, p)}
    BY <1>3, <2>1, PayloadIs
  <2> QED BY <1>3, <2>2, LoginSize DEF MsgType
<1>4. CASE /\ m.type = MsgType.FILE_OFFER_REQ
           /\ \E r, f \in Text, size \in BigNums, chunk \in Nums : m.vals = <<0, r, f, size, chunk>>
  <2>1. PICK r \in Text, f \in Text, size \in BigNums, chunk \in Nums : m.vals = <<0, r, f, size, chunk>>
    BY <1>4
  <2>2. Payload(m) = FileOfferReq(0, r, f, size, chunk)
    BY <1>4, <2>1, PayloadIs
  <2>3. size \in Nat /\ chunk \in Nat /\ 0 \in Nat
    BY NumsNat, BigNumsNat
  <2>4. Carried(FileOfferReq(0, r, f, size, chunk))
    BY <2>3, FileRequestSize
  <2> QED BY <1>4, <2>2, <2>4 DEF MsgType
<1>5. CASE /\ m.type = MsgType.FILE_ACCEPT_REQ
           /\ \E i \in BigNums, accept \in BOOLEAN : m.vals = <<i, accept>>
  <2>1. PICK i \in BigNums, accept \in BOOLEAN : m.vals = <<i, accept>>
    BY <1>5
  <2>2. Payload(m) = FileAcceptReq(i, accept)
    BY <1>5, <2>1, PayloadIs
  <2>3. i \in Nat
    BY NumsNat, BigNumsNat
  <2> QED BY <1>5, <2>2, <2>3, FileRequestSize DEF MsgType
<1>6. CASE m.type = MsgType.FILE_CHUNK /\ \E i \in BigNums, k \in Nums, data \in Text : m.vals = <<i, k, data>>
  <2>1. PICK i \in BigNums, k \in Nums, data \in Text : m.vals = <<i, k, data>>
    BY <1>6
  <2>2. Payload(m) = FileChunk(i, k, data)
    BY <1>6, <2>1, PayloadIs
  <2>3. i \in Nat /\ k \in Nat
    BY NumsNat, BigNumsNat
  <2>4. Carried(FileChunk(i, k, data))
    BY <2>3, FileRequestSize
  <2> QED BY <1>6, <2>2, <2>4 DEF MsgType
<1>7. CASE m.type = MsgType.FILE_DONE /\ \E i, size \in BigNums, n \in Nums : m.vals = <<i, n, size>>
  <2>1. PICK i \in BigNums, n \in Nums, size \in BigNums : m.vals = <<i, n, size>>
    BY <1>7
  <2>2. Payload(m) = FileDone(i, n, size)
    BY <1>7, <2>1, PayloadIs
  <2>3. i \in Nat /\ n \in Nat /\ size \in Nat
    BY NumsNat, BigNumsNat
  <2>4. Carried(FileDone(i, n, size))
    BY <2>3, FileRequestSize
  <2> QED BY <1>7, <2>2, <2>4 DEF MsgType
<1> QED BY <1>1, <1>2, <1>3, <1>4, <1>5, <1>6, <1>7 DEF Request

LEMMA ReplyCarried ==
    ASSUME NEW m, Reply(m) PROVE Carried(Payload(m)) /\ m.type \in Nat
<1>1. CASE /\ m.type = MsgType.REGISTER_RESP
           /\ \E ok \in BOOLEAN, msg \in ShortText : m.vals = <<ok, msg>>
  <2>1. PICK ok \in BOOLEAN, msg \in ShortText : m.vals = <<ok, msg>>
    BY <1>1
  <2>2. Payload(m) = RegisterResp(ok, msg)
    BY <1>1, <2>1, PayloadIs
  <2> QED BY <1>1, <2>2, Shorts, ReplySize DEF MsgType
<1>2. CASE /\ m.type = MsgType.LOGIN_RESP
           /\ \E ok \in BOOLEAN, t, u, msg \in ShortText, id \in BigNums \cup {0} :
                 /\ ~ok => t = <<>> /\ id = 0 /\ u = <<>>
                 /\ m.vals = <<ok, t, id, u, msg>>
  <2>1. PICK ok \in BOOLEAN, t \in ShortText, u \in ShortText, msg \in ShortText,
             id \in BigNums \cup {0} : m.vals = <<ok, t, id, u, msg>>
    BY <1>2
  <2>2. Payload(m) = LoginResp(ok, t, id, u, msg)
    BY <1>2, <2>1, PayloadIs
  <2>3. id \in Nat /\ t \in Text /\ u \in Text /\ msg \in Text
    BY NumsNat, BigNumsNat, Shorts
  <2> QED BY <1>2, <2>2, <2>3, LoginRespSize DEF MsgType
<1>3. CASE /\ m.type = MsgType.ONLINE_LIST_RESP
           /\ \E n \in 0 .. MaxNames : m.vals \in [1 .. n -> ShortText]
  <2>1. PICK n : Names(m.vals, n)
    BY <1>3, NamesFit DEF Names
  <2>2. Payload(m) = OnlineListResp(m.vals)
    BY <1>3, PayloadIs
  <2> QED BY <1>3, <2>1, <2>2, OnlineSize DEF MsgType
<1>6. CASE /\ m.type = MsgType.FILE_OFFER_RESP
           /\ \E ok \in BOOLEAN, i \in BigNums, reason \in ShortText :
                 (ok => reason = <<>>) /\ m.vals = <<ok, i, reason>>
  <2>1. PICK ok \in BOOLEAN, i \in BigNums, reason \in ShortText : m.vals = <<ok, i, reason>>
    BY <1>6
  <2>2. Payload(m) = FileOfferResp(ok, i, reason)
    BY <1>6, <2>1, PayloadIs
  <2>3. i \in Nat /\ reason \in Text
    BY NumsNat, BigNumsNat, Shorts
  <2> QED BY <1>6, <2>2, <2>3, ReplySize DEF MsgType
<1>7. CASE /\ m.type = MsgType.FILE_ACCEPT_RESP
           /\ \E ok \in BOOLEAN, reason \in ShortText :
                 (ok => reason = <<>>) /\ m.vals = <<ok, reason>>
  <2>1. PICK ok \in BOOLEAN, reason \in ShortText : m.vals = <<ok, reason>>
    BY <1>7
  <2>2. Payload(m) = FileAcceptResp(ok, reason)
    BY <1>7, <2>1, PayloadIs
  <2> QED BY <1>7, <2>2, Shorts, ReplySize DEF MsgType
<1>8. CASE /\ m.type = MsgType.FILE_RESULT
           /\ \E i \in BigNums, ok \in BOOLEAN, text \in ShortText : m.vals = <<i, ok, text>>
  <2>1. PICK i \in BigNums, ok \in BOOLEAN, text \in ShortText : m.vals = <<i, ok, text>>
    BY <1>8
  <2>2. Payload(m) = FileResult(i, ok, text)
    BY <1>8, <2>1, PayloadIs
  <2>3. i \in Nat /\ text \in Text
    BY NumsNat, BigNumsNat, Shorts
  <2> QED BY <1>8, <2>2, <2>3, ReplySize DEF MsgType
<1> QED BY <1>1, <1>2, <1>3, <1>6, <1>7, <1>8 DEF Reply

-----------------------------------------------------------------------------
(***************************************************************************)
(* The inductive invariant                                                 *)
(***************************************************************************)

\* The bytes of m that are sent, and their frame.
Sent(m) == SubSeq(Payload(m), 1, Len(Payload(m)) - m.cut)
FrameOf(m) == Frame(m.type, Sent(m))

\* A message that may have been written for the reader r.
Written(r, m) ==
    /\ IF r = "core" THEN Request(m) ELSE Reply(m)
    /\ m.cut \in Nat /\ m.cut <= Len(Payload(m))
    /\ r # "core" => m.cut = 0

IsSeq(s) == \E S : s \in Seq(S)

Queue ==
    /\ IsSeq(pending) /\ Len(pending) \in Nat
    /\ \A k \in 1 .. Len(pending) : Written(reader, pending[k])

\* rest[k]: the bytes of the frames from the k-th message on.
Chain(msgs, rest) ==
    /\ rest \in [1 .. Len(msgs) + 1 -> Seq(Nat)]
    /\ rest[Len(msgs) + 1] = <<>>
    /\ \A k \in 1 .. Len(msgs) : rest[k] = FrameOf(msgs[k]) \o rest[k + 1]

\* The bytes written and not parsed, without a header that has been read.
Left(rest) == IF header = None THEN rest[1] ELSE Sent(pending[1]) \o rest[2]

\* Those bytes are what the gateway has collected, what is on the way, and what
\* was lost when the writer went away.
Placed ==
    \E rest, lost :
        /\ Chain(pending, rest)
        /\ lost \in Seq(Nat) /\ (~eof => lost = <<>>)
        /\ Left(rest) = body \o (stream \o lost)

HeaderRead ==
    header # None =>
        Len(pending) > 0 /\ header = MakeHeader(pending[1].type, Len(Sent(pending[1])))

BodyRead == header = None \/ reader # "gateway" => body = <<>>

Reading == status = "reading" => HeaderRead /\ BodyRead /\ Placed

(***************************************************************************)
(* The parser of a message's type is given exactly the payload that was    *)
(* sent, however TCP groups the bytes and wherever the writer stops        *)
(* (tcp_session.cpp:95-159, core_client.py:117-135).                       *)
(***************************************************************************)
ParsedAsSent ==
    last # <<>> =>
        \E m : /\ Written(reader, m)
               /\ last = <<[msg |-> m, type |-> m.type,
                            result |-> Parse(reader, m.type, Sent(m))]>>

WireInv ==
    /\ TypeOK /\ Queue /\ Reading /\ ParsedAsSent
    /\ status # "bad header"

-----------------------------------------------------------------------------
(***************************************************************************)
(* Frames and the queue of pending messages                                *)
(***************************************************************************)

LEMMA SentFacts ==
    ASSUME NEW r, NEW m, Written(r, m)
    PROVE  /\ Sent(m) \in Seq(Nat) /\ Len(Sent(m)) \in Nat /\ Len(Sent(m)) < Limit32
           /\ Len(Sent(m)) = Len(Payload(m)) - m.cut
           /\ m.type \in Nat
<1>1. Carried(Payload(m)) /\ m.type \in Nat
  BY RequestCarried, ReplyCarried DEF Written
<1>p. PICK p : p = Payload(m)
  OBVIOUS
<1>n. PICK n \in Nat : n = Len(p)
  BY <1>1, <1>p DEF Carried
<1>2. PICK c \in Nat : c = m.cut /\ c <= n
  BY <1>p, <1>n DEF Written
<1>3. PICK k \in Nat : k = n - c
  BY <1>2
<1>4. k <= Len(p) /\ p \in Seq(Nat) /\ n < Limit32
  BY <1>1, <1>p, <1>n, <1>2, <1>3 DEF Carried
<1>5. Splits(p, k, SubSeq(p, 1, k), SubSeq(p, k + 1, Len(p)))
  BY <1>4, Split
<1>6. SubSeq(p, 1, k) \in Seq(Nat) /\ Len(SubSeq(p, 1, k)) = k
  BY <1>5 DEF Splits
<1>7. Sent(m) = SubSeq(p, 1, k)
  BY <1>p, <1>n, <1>2, <1>3 DEF Sent
<1>8. k < Limit32
  BY <1>2, <1>3, <1>4, Limits
<1> QED BY <1>1, <1>p, <1>n, <1>2, <1>3, <1>6, <1>7, <1>8

LEMMA FrameFacts ==
    ASSUME NEW r, NEW m, Written(r, m), NEW h, h = MakeHeader(m.type, Len(Sent(m)))
    PROVE  /\ h \in Seq(Nat) /\ Len(h) = HeaderSize /\ ValidHeader(h)
           /\ HeaderType(h) = m.type /\ PayloadLen(h) = Len(Sent(m))
           /\ FrameOf(m) = h \o Sent(m)
           /\ FrameOf(m) \in Seq(Nat)
<1>s. PICK s : s = Sent(m)
  OBVIOUS
<1>n. PICK n \in Nat, t \in Nat : n = Len(s) /\ t = m.type
  BY <1>s, SentFacts
<1>1. n < Limit32 /\ s \in Seq(Nat)
  BY <1>s, <1>n, SentFacts
<1>2. /\ h \in Seq(Nat) /\ Len(h) = HeaderSize /\ ValidHeader(h)
      /\ HeaderType(h) = t /\ PayloadLen(h) = n
  <2>1. h = MakeHeader(t, n)
    BY <1>s, <1>n
  <2>2. MakeHeader(t, n) \in Seq(Nat) /\ Len(MakeHeader(t, n)) = HeaderSize
    BY <1>1, HeaderFacts
  <2>3. /\ ValidHeader(MakeHeader(t, n)) /\ HeaderType(MakeHeader(t, n)) = t
        /\ PayloadLen(MakeHeader(t, n)) = n
    BY <1>1, HeaderFacts
  <2> QED BY <2>1, <2>2, <2>3
<1>3. FrameOf(m) = h \o s
  BY <1>s, <1>n DEF FrameOf, Frame
<1>4. h \o s \in Seq(Nat)
  BY <1>1, <1>2, Cat
<1> QED BY <1>s, <1>n, <1>2, <1>3, <1>4

LEMMA Appended ==
    ASSUME NEW s, IsSeq(s), Len(s) \in Nat, NEW e
    PROVE  /\ IsSeq(Append(s, e)) /\ Len(Append(s, e)) = Len(s) + 1
           /\ \A k \in 1 .. Len(s) : Append(s, e)[k] = s[k]
           /\ Append(s, e)[Len(s) + 1] = e
<1>1. PICK S : s \in Seq(S)
  BY DEF IsSeq
<1>2. PICK T : T = S \cup {e}
  OBVIOUS
<1>3. PICK n \in Nat : n = Len(s) /\ s \in [1 .. n -> S]
  BY <1>1, LenProperties
<1>4. s \in [1 .. n -> T]
  BY <1>2, <1>3
<1>5. s \in Seq(T) /\ e \in T
  BY <1>1, <1>2, <1>3, <1>4
<1>6. /\ Append(s, e) \in Seq(T) /\ Len(Append(s, e)) = n + 1
      /\ \A k \in 1 .. n : Append(s, e)[k] = s[k]
      /\ Append(s, e)[n + 1] = e
  BY <1>3, <1>5
<1> QED BY <1>3, <1>6 DEF IsSeq

LEMMA Removed ==
    ASSUME NEW s, IsSeq(s), Len(s) \in Nat, Len(s) > 0
    PROVE  /\ IsSeq(Tail(s)) /\ Len(Tail(s)) = Len(s) - 1
           /\ \A k \in 1 .. Len(s) - 1 : Tail(s)[k] = s[k + 1]
           /\ Head(s) = s[1]
<1>1. PICK S : s \in Seq(S)
  BY DEF IsSeq
<1>2. s # <<>>
  BY EmptySeq
<1>3. /\ Tail(s) \in Seq(S) /\ Len(Tail(s)) = Len(s) - 1
      /\ \A k \in 1 .. Len(Tail(s)) : Tail(s)[k] = s[k + 1]
  BY <1>1, <1>2, HeadTailProperties
<1>4. Head(s) = s[1]
  BY <1>1, <1>2
<1> QED BY <1>3, <1>4 DEF IsSeq

-----------------------------------------------------------------------------
(***************************************************************************)
(* The steps                                                               *)
(***************************************************************************)

\* The effect of writing m.
WriteOf(m) ==
    /\ Written(reader, m)
    /\ status = "reading" /\ ~eof /\ frames < MaxFrames
    /\ stream' = stream \o FrameOf(m)
    /\ frames' = frames + 1
    /\ pending' = Append(pending, m)
    /\ UNCHANGED <<reader, eof, header, body, status, last>>

LEMMA WriteIs ==
    ASSUME TypeOK, NEW type, NEW by, NEW vals, NEW cut \in Nat, NEW m,
           m = [type |-> type, by |-> by, vals |-> vals, cut |-> cut],
           IF reader = "core" THEN Request(m) ELSE Reply(m) /\ cut = 0,
           Write(type, by, vals, cut)
    PROVE  WriteOf(m)
<1>1. m.type = type /\ m.cut = cut
  OBVIOUS
<1>2. Written(reader, m)
  BY <1>1 DEF Written, Write
<1>3. frames < MaxFrames
  BY WireBounds DEF TypeOK, Write
<1>4. stream' = stream \o FrameOf(m)
  BY <1>1 DEF Write, FrameOf, Sent
<1> QED BY <1>2, <1>3, <1>4 DEF WriteOf, Write

LEMMA Requests ==
    ASSUME TypeOK, WriteRequest PROVE \E m : WriteOf(m)
<1>0. PICK cut \in Nat :
        \/ \E name \in Text : Write(MsgType.HELLO, "cpp", <<name>>, cut)
        \/ WriteRegister(cut)
        \/ WriteLogin(cut)
        \/ WriteFileRequest(cut)
  BY WireBounds DEF WriteRequest
<1>c. reader = "core"
  BY DEF WriteRequest
<1>w. ASSUME NEW type, NEW by, NEW vals, Write(type, by, vals, cut),
             Request([type |-> type, by |-> by, vals |-> vals, cut |-> cut])
      PROVE  \E m : WriteOf(m)
  BY <1>c, <1>w, WriteIs
<1>1. CASE \E name \in Text : Write(MsgType.HELLO, "cpp", <<name>>, cut)
  BY <1>1, <1>w DEF Request
<1>2. CASE WriteRegister(cut)
  BY <1>2, <1>w DEF WriteRegister, Request
<1>3. CASE WriteLogin(cut)
  BY <1>3, <1>w DEF WriteLogin, Request
<1>4. CASE WriteFileRequest(cut)
  <2>1. CASE \E r, f \in Text, size \in BigNums, chunk \in Nums :
                Write(MsgType.FILE_OFFER_REQ, "cpp", <<0, r, f, size, chunk>>, cut)
    BY <2>1, <1>w DEF Request
  <2>2. CASE \E i \in BigNums, accept \in BOOLEAN :
                Write(MsgType.FILE_ACCEPT_REQ, "cpp", <<i, accept>>, cut)
    BY <2>2, <1>w DEF Request
  <2>3. CASE \E i \in BigNums, k \in Nums, data \in Text :
                Write(MsgType.FILE_CHUNK, "cpp", <<i, k, data>>, cut)
    BY <2>3, <1>w DEF Request
  <2>4. CASE \E i, size \in BigNums, n \in Nums : Write(MsgType.FILE_DONE, "cpp", <<i, n, size>>, cut)
    BY <2>4, <1>w DEF Request
  <2> QED BY <1>4, <2>1, <2>2, <2>3, <2>4 DEF WriteFileRequest
<1> QED BY <1>0, <1>1, <1>2, <1>3, <1>4

LEMMA Replies ==
    ASSUME TypeOK, WriteAuthReply \/ WriteFileReply PROVE \E m : WriteOf(m)
<1>c. reader # "core"
  BY DEF WriteAuthReply, WriteFileReply
<1>e. <<>> \in ShortText
  BY TextAssumption, Limits, EmptySeq DEF ShortText, PyFits
<1>w. ASSUME NEW type, NEW by, NEW vals, Write(type, by, vals, 0),
             Reply([type |-> type, by |-> by, vals |-> vals, cut |-> 0])
      PROVE  \E m : WriteOf(m)
  BY <1>c, <1>w, WriteIs
<1>1. CASE \E ok \in BOOLEAN, msg \in ShortText :
              Write(MsgType.REGISTER_RESP, "cpp", <<ok, msg>>, 0)
  BY <1>1, <1>w DEF Reply
<1>2. CASE \E t, u, msg \in ShortText, id \in BigNums :
              Write(MsgType.LOGIN_RESP, "cpp", <<TRUE, t, id, u, msg>>, 0)
  BY <1>2, <1>w DEF Reply
<1>3. CASE \E msg \in ShortText :
              Write(MsgType.LOGIN_RESP, "cpp", <<FALSE, <<>>, 0, <<>>, msg>>, 0)
  BY <1>3, <1>e, <1>w DEF Reply
<1>4. CASE \E n \in 0 .. MaxNames : \E names \in [1 .. n -> ShortText] :
              Write(MsgType.ONLINE_LIST_RESP, "cpp", names, 0)
  BY <1>4, <1>w DEF Reply
<1>5. CASE \E ok \in BOOLEAN, i \in BigNums, reason \in ShortText :
              /\ ok => reason = <<>>
              /\ Write(MsgType.FILE_OFFER_RESP, "cpp", <<ok, i, reason>>, 0)
  BY <1>5, <1>w DEF Reply
<1>6. CASE \E ok \in BOOLEAN, reason \in ShortText :
              /\ ok => reason = <<>>
              /\ Write(MsgType.FILE_ACCEPT_RESP, "cpp", <<ok, reason>>, 0)
  BY <1>6, <1>w DEF Reply
<1>7. CASE \E i \in BigNums, ok \in BOOLEAN, text \in ShortText :
              Write(MsgType.FILE_RESULT, "cpp", <<i, ok, text>>, 0)
  BY <1>7, <1>w DEF Reply
<1> QED BY <1>1, <1>2, <1>3, <1>4, <1>5, <1>6, <1>7 DEF WriteAuthReply, WriteFileReply

\* A new frame is the last link of the chain.
Longer(msgs, new, n, f) ==
    /\ n \in Nat /\ Len(msgs) = n /\ Len(new) = n + 1
    /\ \A k \in 1 .. n : new[k] = msgs[k] /\ FrameOf(msgs[k]) \in Seq(Nat)
    /\ f \in Seq(Nat) /\ f = FrameOf(new[n + 1])

LEMMA ChainGrows ==
    ASSUME NEW msgs, NEW new, NEW n, NEW f, Longer(msgs, new, n, f),
           NEW rest, Chain(msgs, rest)
    PROVE  \E more : /\ Chain(new, more)
                     /\ \A k \in 1 .. n + 1 : more[k] = rest[k] \o f
<1>a. n \in Nat /\ Len(msgs) = n /\ Len(new) = n + 1 /\ f \in Seq(Nat)
  BY DEF Longer
<1>b. \A k \in 1 .. n : new[k] = msgs[k] /\ FrameOf(msgs[k]) \in Seq(Nat)
  BY DEF Longer
<1>c. f = FrameOf(new[n + 1])
  BY DEF Longer
<1> USE <1>a
<1> DEFINE more == [k \in 1 .. n + 2 |-> IF k <= n + 1 THEN rest[k] \o f ELSE <<>>]
<1>1. rest[n + 1] = <<>>
  BY DEF Chain
<1>2. \A k \in 1 .. n + 1 : rest[k] \in Seq(Nat)
  BY DEF Chain
<1>3. \A k \in 1 .. n : rest[k] = FrameOf(msgs[k]) \o rest[k + 1]
  BY DEF Chain
<1>4. ASSUME NEW k \in 1 .. n + 1 PROVE more[k] = rest[k] \o f
  <2>1. k \in 1 .. n + 2 /\ k <= n + 1
    OBVIOUS
  <2>2. more[k] = IF k <= n + 1 THEN rest[k] \o f ELSE <<>>
    BY <2>1, Zenon
  <2> QED BY <2>1, <2>2
<1>5. more[n + 2] = <<>>
  OBVIOUS
<1>6. \A k \in 1 .. n + 1 : rest[k] \o f \in Seq(Nat)
  BY <1>2, Cat
<1>7. more \in [1 .. n + 2 -> Seq(Nat)]
  BY <1>6, Nothing
<1> HIDE DEF more
<1>8. ASSUME NEW k \in 1 .. n PROVE more[k] = FrameOf(new[k]) \o more[k + 1]
  <2>1. PICK a, b : a = FrameOf(msgs[k]) /\ b = rest[k + 1]
    OBVIOUS
  <2>2. a \in Seq(Nat)
    BY <1>b, <2>1
  <2>3. b \in Seq(Nat)
    BY <1>2, <2>1
  <2>4. (a \o b) \o f = a \o (b \o f)
    BY <2>2, <2>3, Assoc
  <2>5. rest[k] = a \o b
    BY <1>3, <2>1
  <2>6. k \in 1 .. n + 1 /\ k + 1 \in 1 .. n + 1
    OBVIOUS
  <2>7. more[k] = rest[k] \o f /\ more[k + 1] = rest[k + 1] \o f
    BY <1>4, <2>6
  <2>8. new[k] = msgs[k]
    BY <1>b
  <2> QED BY <2>1, <2>4, <2>5, <2>7, <2>8
<1>9. more[n + 1] = FrameOf(new[n + 1]) \o more[n + 2]
  <2>1. <<>> \o f = f /\ f \o <<>> = f
    BY Nothing
  <2>2. n + 1 \in 1 .. n + 1
    OBVIOUS
  <2>3. more[n + 1] = rest[n + 1] \o f
    BY <1>4, <2>2
  <2> QED BY <1>c, <1>1, <1>5, <2>1, <2>3
<1>10. Chain(new, more)
  <2>1. \A k \in 1 .. n + 1 : more[k] = FrameOf(new[k]) \o more[k + 1]
    <3> SUFFICES ASSUME NEW k \in 1 .. n + 1
                 PROVE  more[k] = FrameOf(new[k]) \o more[k + 1]
      OBVIOUS
    <3>1. CASE k = n + 1
      <4>1. k + 1 = n + 2
        BY <3>1
      <4> QED BY <3>1, <4>1, <1>9
    <3>2. CASE k # n + 1
      <4>1. k \in 1 .. n
        BY <3>2
      <4> QED BY <4>1, <1>8
    <3> QED BY <3>1, <3>2
  <2>2. (n + 1) + 1 = n + 2
    OBVIOUS
  <2> QED BY <1>5, <1>7, <2>1, <2>2 DEF Chain
<1> QED BY <1>4, <1>10

\* The first link goes.
Shorter(msgs, new, n) ==
    /\ n \in Nat /\ n > 0 /\ Len(msgs) = n /\ Len(new) = n - 1
    /\ \A k \in 1 .. n - 1 : new[k] = msgs[k + 1]

LEMMA ChainShrinks ==
    ASSUME NEW msgs, NEW new, NEW n, Shorter(msgs, new, n), NEW rest, Chain(msgs, rest)
    PROVE  \E less : Chain(new, less) /\ less[1] = rest[2]
<1>a. n \in Nat /\ n > 0 /\ Len(msgs) = n /\ Len(new) = n - 1
  BY DEF Shorter
<1>b. \A k \in 1 .. n - 1 : new[k] = msgs[k + 1]
  BY DEF Shorter
<1> USE <1>a
<1> DEFINE less == [k \in 1 .. n |-> rest[k + 1]]
<1>1. rest[n + 1] = <<>>
  BY DEF Chain
<1>2. \A k \in 1 .. n + 1 : rest[k] \in Seq(Nat)
  BY DEF Chain
<1>3. \A k \in 1 .. n : rest[k] = FrameOf(msgs[k]) \o rest[k + 1]
  BY DEF Chain
<1>4. \A k \in 1 .. n : less[k] = rest[k + 1]
  OBVIOUS
<1>5. less \in [1 .. n -> Seq(Nat)]
  BY <1>2
<1> HIDE DEF less
<1>6. ASSUME NEW k \in 1 .. n - 1 PROVE less[k] = FrameOf(new[k]) \o less[k + 1]
  <2>1. k \in 1 .. n /\ k + 1 \in 1 .. n
    OBVIOUS
  <2>2. less[k] = rest[k + 1] /\ less[k + 1] = rest[(k + 1) + 1]
    BY <1>4, <2>1
  <2>3. rest[k + 1] = FrameOf(msgs[k + 1]) \o rest[(k + 1) + 1]
    BY <1>3, <2>1
  <2>4. new[k] = msgs[k + 1]
    BY <1>b
  <2> QED BY <2>2, <2>3, <2>4
<1>7. less[n] = <<>> /\ less[1] = rest[2]
  BY <1>1, <1>4
<1>8. (n - 1) + 1 = n
  OBVIOUS
<1>9. Chain(new, less)
  BY <1>5, <1>6, <1>7, <1>8 DEF Chain
<1> QED BY <1>7, <1>9

LEMMA QueueFacts ==
    ASSUME Queue, NEW k \in 1 .. Len(pending)
    PROVE  /\ Written(reader, pending[k])
           /\ Sent(pending[k]) \in Seq(Nat) /\ FrameOf(pending[k]) \in Seq(Nat)
<1>1. PICK m : m = pending[k]
  OBVIOUS
<1>2. Written(reader, m)
  BY <1>1 DEF Queue
<1>3. Sent(m) \in Seq(Nat)
  BY <1>2, SentFacts
<1>4. FrameOf(m) \in Seq(Nat)
  BY <1>2, FrameFacts
<1> QED BY <1>1, <1>2, <1>3, <1>4

LEMMA WriteKeepsPlace ==
    ASSUME WireInv, NEW m, WriteOf(m), NEW n \in Nat, n = Len(pending),
           Len(pending') = n + 1, \A k \in 1 .. n : pending'[k] = pending[k],
           pending'[n + 1] = m
    PROVE  Placed'
<1>1. PICK rest, lost : /\ Chain(pending, rest)
                        /\ lost = <<>>
                        /\ Left(rest) = body \o (stream \o lost)
  BY DEF WireInv, Reading, Placed, WriteOf
<1>2. PICK f : f = FrameOf(m)
  OBVIOUS
<1>3. f \in Seq(Nat)
  BY <1>2, FrameFacts DEF WriteOf
<1>4. \A k \in 1 .. n : FrameOf(pending[k]) \in Seq(Nat)
  BY QueueFacts DEF WireInv
<1>5. PICK more : Chain(pending', more) /\ \A k \in 1 .. n + 1 : more[k] = rest[k] \o f
  <2>1. PICK msgs, new : msgs = pending /\ new = pending'
    OBVIOUS
  <2>2. Longer(msgs, new, n, f) /\ Chain(msgs, rest)
    BY <1>1, <1>2, <1>3, <1>4, <2>1 DEF Longer
  <2>3. \E more : Chain(new, more) /\ \A k \in 1 .. n + 1 : more[k] = rest[k] \o f
    BY <2>2, ChainGrows
  <2> QED BY <2>1, <2>3
<1>6. \A k \in 1 .. n + 1 : rest[k] \in Seq(Nat)
  BY <1>1 DEF Chain
<1>7. stream \in Seq(Nat) /\ body \in Seq(Nat)
  BY DEF WireInv, TypeOK
<1>8. Left(rest) = body \o stream
  BY <1>1, <1>7, Nothing
<1>9. (body \o stream) \o f = body \o (stream \o f)
  BY <1>3, <1>7, Assoc
<1>10. Left(more)' = Left(rest) \o f
  <2>1. CASE header = None
    <3>1. Left(more)' = more[1] /\ Left(rest) = rest[1]
      BY <2>1 DEF Left, WriteOf
    <3>2. 1 \in 1 .. n + 1
      OBVIOUS
    <3>3. more[1] = rest[1] \o f
      BY <1>5, <3>2
    <3> QED BY <3>1, <3>3
  <2>2. CASE header # None
    <3>1. n > 0
      BY <2>2 DEF WireInv, Reading, HeaderRead, WriteOf
    <3>2. PICK s : s = Sent(pending[1])
      OBVIOUS
    <3>3. s \in Seq(Nat)
      <4>1. 1 \in 1 .. Len(pending)
        BY <3>1
      <4> QED BY <3>2, <4>1, QueueFacts DEF WireInv
    <3>4. pending'[1] = pending[1]
      BY <3>1
    <3>5. header' # None
      BY <2>2 DEF WriteOf
    <3>6. Left(more)' = Sent(pending'[1]) \o more[2]
      BY <3>5 DEF Left
    <3>7. Left(rest) = s \o rest[2]
      BY <2>2, <3>2 DEF Left
    <3>8. 2 \in 1 .. n + 1
      BY <3>1
    <3>9. more[2] = rest[2] \o f /\ rest[2] \in Seq(Nat)
      BY <1>5, <1>6, <3>8
    <3>10. (s \o rest[2]) \o f = s \o (rest[2] \o f)
      BY <1>3, <3>3, <3>9, Assoc
    <3> QED BY <3>2, <3>4, <3>6, <3>7, <3>9, <3>10
  <2> QED BY <2>1, <2>2
<1>11. stream' = stream \o f /\ body' = body
  BY <1>2 DEF WriteOf
<1>12. stream \o f \in Seq(Nat)
  BY <1>3, <1>7, Cat
<1>13. Left(more)' = body' \o (stream' \o <<>>)
  <2>1. (stream \o f) \o <<>> = stream \o f
    BY <1>12, Nothing
  <2> QED BY <1>8, <1>9, <1>10, <1>11, <2>1
<1>14. <<>> \in Seq(Nat)
  BY Nothing
<1> QED BY <1>5, <1>13, <1>14 DEF Placed

LEMMA WriteKeeps ==
    ASSUME WireInv, NEW m, WriteOf(m) PROVE WireInv'
<1>1. PICK n \in Nat : n = Len(pending)
  BY DEF WireInv, Queue
<1>2. /\ IsSeq(pending') /\ Len(pending') = n + 1
      /\ \A k \in 1 .. n : pending'[k] = pending[k]
      /\ pending'[n + 1] = m
  BY <1>1, Appended DEF WireInv, Queue, WriteOf
<1>3. Placed'
  BY <1>1, <1>2, WriteKeepsPlace
<1>4. FrameOf(m) \in Seq(Nat)
  BY FrameFacts DEF WriteOf
<1>5. TypeOK'
  <2>1. stream' \in Seq(Nat)
    BY <1>4, Cat DEF WriteOf, WireInv, TypeOK
  <2>2. frames' \in 0 .. MaxFrames /\ n + 1 <= frames'
    BY <1>1, WireBounds DEF WriteOf, WireInv, TypeOK
  <2> QED BY <1>2, <2>1, <2>2 DEF WriteOf, WireInv, TypeOK
<1>6. Queue'
  <2>1. ASSUME NEW k \in 1 .. n + 1 PROVE Written(reader', pending'[k])
    <3>1. CASE k = n + 1
      BY <3>1, <1>2 DEF WriteOf
    <3>2. CASE k # n + 1
      <4>1. k \in 1 .. n
        BY <3>2
      <4>2. Written(reader, pending[k])
        BY <1>1, <4>1 DEF WireInv, Queue
      <4> QED BY <1>2, <4>1, <4>2 DEF WriteOf
    <3> QED BY <3>1, <3>2
  <2> QED BY <1>2, <2>1 DEF Queue
<1>7. HeaderRead'
  <2>1. SUFFICES ASSUME header' # None
                 PROVE  /\ n + 1 > 0
                        /\ header' = MakeHeader(pending'[1].type, Len(Sent(pending'[1])))
    BY <1>2 DEF HeaderRead
  <2>2. n > 0 /\ header = MakeHeader(pending[1].type, Len(Sent(pending[1])))
    BY <1>1, <2>1 DEF WireInv, Reading, HeaderRead, WriteOf
  <2>3. pending'[1] = pending[1]
    BY <1>2, <2>2
  <2> QED BY <2>2, <2>3 DEF WriteOf
<1>8. BodyRead'
  BY DEF WireInv, Reading, BodyRead, WriteOf
<1>9. ParsedAsSent'
  BY DEF WireInv, ParsedAsSent, WriteOf
<1> QED BY <1>3, <1>5, <1>6, <1>7, <1>8, <1>9 DEF WireInv, Reading, WriteOf

LEMMA GoneKeeps ==
    ASSUME WireInv, WriterGone PROVE WireInv'
<1>1. PICK k \in Nat : k <= Len(stream) /\ stream' = SubSeq(stream, 1, Len(stream) - k)
  BY WireBounds DEF WriterGone
<1>2. PICK n \in Nat : n = Len(stream)
  BY LenProperties DEF WireInv, TypeOK
<1>3. PICK j \in Nat : j = n - k /\ j <= n
  BY <1>1, <1>2
<1>4. PICK x : x = SubSeq(stream, j + 1, Len(stream))
  OBVIOUS
<1>5. Splits(stream, j, SubSeq(stream, 1, j), SubSeq(stream, j + 1, Len(stream)))
  <2>1. stream \in Seq(Nat) /\ j <= Len(stream)
    BY <1>2, <1>3 DEF WireInv, TypeOK
  <2> QED BY <2>1, Split
<1>6. stream' = SubSeq(stream, 1, j)
  BY <1>1, <1>2, <1>3
<1>7. stream' \in Seq(Nat) /\ x \in Seq(Nat) /\ stream = stream' \o x
  BY <1>4, <1>5, <1>6 DEF Splits
<1>8. Placed'
  <2>1. PICK rest, lost : /\ Chain(pending, rest)
                          /\ lost = <<>>
                          /\ Left(rest) = body \o (stream \o lost)
    BY DEF WireInv, Reading, Placed, WriterGone
  <2>2. stream \o <<>> = stream
    BY Nothing DEF WireInv, TypeOK
  <2>3. Left(rest)' = Left(rest) /\ body' = body /\ pending' = pending
    BY DEF Left, WriterGone
  <2>4. Left(rest)' = body' \o (stream' \o x)
    BY <1>7, <2>1, <2>2, <2>3
  <2>5. eof'
    BY DEF WriterGone
  <2> QED BY <1>7, <2>1, <2>3, <2>4, <2>5 DEF Placed
<1>9. TypeOK'
  BY <1>7 DEF WireInv, TypeOK, WriterGone
<1> QED BY <1>8, <1>9 DEF WireInv, Queue, Reading, HeaderRead, BodyRead, ParsedAsSent, WriterGone

\* A reader that finds a whole header in the stream finds the one of the first
\* pending message, and leaves the payload.
LEMMA HeaderTaken ==
    ASSUME WireInv, status = "reading", header = None, Len(stream) >= HeaderSize,
           NEW h, h = SubSeq(stream, 1, HeaderSize), NEW d, d = Drop(HeaderSize)
    PROVE  /\ ValidHeader(h) /\ h \in Seq(Nat) /\ Len(h) = HeaderSize
           /\ d \in Seq(Nat)
           /\ Len(pending) > 0
           /\ h = MakeHeader(pending[1].type, Len(Sent(pending[1])))
           /\ \E rest, lost : /\ Chain(pending, rest)
                              /\ lost \in Seq(Nat) /\ (~eof => lost = <<>>)
                              /\ Sent(pending[1]) \o rest[2] = d \o lost
<1>1. PICK rest, lost : /\ Chain(pending, rest)
                        /\ lost \in Seq(Nat) /\ (~eof => lost = <<>>)
                        /\ Left(rest) = body \o (stream \o lost)
  BY DEF WireInv, Reading, Placed
<1>2. PICK n \in Nat, l \in Nat : n = Len(pending) /\ l = Len(stream) /\ stream \in Seq(Nat)
  BY LenProperties DEF WireInv, TypeOK, Queue
<1>3. stream \o lost \in Seq(Nat) /\ Len(stream \o lost) = l + Len(lost) /\ Len(lost) \in Nat
  BY <1>1, <1>2, Cat, LenProperties
<1>4. rest[1] = stream \o lost
  <2>1. body = <<>>
    BY DEF WireInv, Reading, BodyRead
  <2>2. <<>> \o (stream \o lost) = stream \o lost
    BY <1>3, Nothing
  <2> QED BY <1>1, <2>1, <2>2 DEF Left
<1>5. n > 0
  <2>1. SUFFICES ASSUME n = 0 PROVE FALSE
    OBVIOUS
  <2>2. rest[1] = <<>>
    BY <1>1, <1>2, <2>1 DEF Chain
  <2>3. Len(stream \o lost) = 0
    BY <1>4, <2>2, Nothing
  <2> QED BY <1>2, <1>3, <2>3 DEF HeaderSize
<1>6. PICK m, s, g : m = pending[1] /\ s = Sent(m) /\ g = MakeHeader(m.type, Len(s))
  OBVIOUS
<1>7. Written(reader, m)
  BY <1>2, <1>5, <1>6 DEF WireInv, Queue
<1>8. s \in Seq(Nat)
  BY <1>6, <1>7, SentFacts
<1>9. g \in Seq(Nat) /\ Len(g) = HeaderSize /\ ValidHeader(g) /\ FrameOf(m) = g \o s
  BY <1>6, <1>7, FrameFacts
<1>10. rest[1] = (g \o s) \o rest[2] /\ rest[2] \in Seq(Nat)
  <2>1. 1 \in 1 .. n /\ 2 \in 1 .. n + 1 /\ 1 + 1 = 2
    BY <1>5
  <2>2. \A k \in 1 .. n : rest[k] = FrameOf(pending[k]) \o rest[k + 1]
    BY <1>1, <1>2 DEF Chain
  <2>3. rest[1] = FrameOf(pending[1]) \o rest[1 + 1]
    BY <2>1, <2>2
  <2>4. rest[2] \in Seq(Nat)
    BY <1>1, <1>2, <2>1 DEF Chain
  <2> QED BY <1>6, <1>9, <2>1, <2>3, <2>4
<1>11. (g \o s) \o rest[2] = g \o (s \o rest[2])
  BY <1>8, <1>9, <1>10, Assoc
<1>12. s \o rest[2] \in Seq(Nat)
  BY <1>8, <1>10, Cat
<1>13. g \o (s \o rest[2]) = stream \o lost /\ Len(g) <= Len(stream)
  BY <1>2, <1>4, <1>9, <1>10, <1>11 DEF HeaderSize
<1>14. PICK t : t = s \o rest[2]
  OBVIOUS
<1>15. Takes(stream, lost, g, t)
  <2>1. g \in Seq(Nat) /\ t \in Seq(Nat) /\ stream \in Seq(Nat) /\ lost \in Seq(Nat)
    BY <1>1, <1>2, <1>9, <1>12, <1>14
  <2>2. g \o t = stream \o lost /\ Len(g) <= Len(stream)
    BY <1>13, <1>14
  <2> QED BY <2>1, <2>2, Front
<1>16. h = g /\ d \in Seq(Nat) /\ d \o lost = t
  BY <1>9, <1>15 DEF Drop, Takes
<1> QED BY <1>1, <1>2, <1>5, <1>6, <1>9, <1>14, <1>16

\* The rest of the stream behind k bytes.
LEMMA DropFacts ==
    ASSUME stream \in Seq(Nat), NEW k \in Nat, k <= Len(stream)
    PROVE  Splits(stream, k, SubSeq(stream, 1, k), Drop(k))
BY Split DEF Drop

LEMMA HeaderKeeps ==
    ASSUME WireInv, ReadHeader \/ RecvHeader PROVE WireInv'
<1>0. status = "reading" /\ header = None
  BY DEF ReadHeader, RecvHeader
<1>u. UNCHANGED <<reader, eof, body, frames, pending, last>>
  BY DEF ReadHeader, RecvHeader
<1>1. CASE /\ Len(stream) >= HeaderSize
           /\ ValidHeader(SubSeq(stream, 1, HeaderSize))
           /\ header' = SubSeq(stream, 1, HeaderSize)
           /\ stream' = Drop(HeaderSize) /\ status' = status
  <2>1. PICK h, d : h = SubSeq(stream, 1, HeaderSize) /\ d = Drop(HeaderSize)
    OBVIOUS
  <2>2. /\ ValidHeader(h) /\ h \in Seq(Nat) /\ Len(h) = HeaderSize
        /\ d \in Seq(Nat)
        /\ Len(pending) > 0
        /\ h = MakeHeader(pending[1].type, Len(Sent(pending[1])))
    BY <1>0, <1>1, <2>1, HeaderTaken
  <2>3. PICK rest, lost : /\ Chain(pending, rest)
                          /\ lost \in Seq(Nat) /\ (~eof => lost = <<>>)
                          /\ Sent(pending[1]) \o rest[2] = d \o lost
    BY <1>0, <1>1, <2>1, HeaderTaken
  <2>4. header' = h /\ stream' = d /\ header' # None
    BY <1>1, <2>1, <2>2, Nothing DEF None, HeaderSize
  <2>5. TypeOK'
    BY <1>1, <1>u, <2>2, <2>4 DEF WireInv, TypeOK
  <2>6. body' = <<>>
    BY <1>0, <1>u DEF WireInv, Reading, BodyRead
  <2>7. Left(rest)' = body' \o (stream' \o lost)
    <3>1. Left(rest)' = d \o lost
      BY <1>u, <2>3, <2>4 DEF Left
    <3>2. <<>> \o (d \o lost) = d \o lost
      BY <2>2, <2>3, Cat, Nothing
    <3> QED BY <2>4, <2>6, <3>1, <3>2
  <2>8. Placed'
    BY <1>u, <2>3, <2>7 DEF Placed
  <2>9. HeaderRead' /\ BodyRead'
    BY <1>u, <2>2, <2>4, <2>6 DEF HeaderRead, BodyRead
  <2>10. Queue' /\ ParsedAsSent'
    BY <1>u DEF WireInv, Queue, ParsedAsSent
  <2> QED BY <1>0, <1>1, <2>5, <2>8, <2>9, <2>10 DEF WireInv, Reading
<1>2. CASE /\ status' \in {"short header", "too large"} /\ header' = header
           /\ \E k \in Nat : k <= Len(stream) /\ stream' = Drop(k)
  <2>1. stream' \in Seq(Nat)
    BY <1>2, DropFacts DEF WireInv, TypeOK, Splits
  <2>2. TypeOK'
    BY <1>2, <1>u, <2>1 DEF WireInv, TypeOK, Statuses
  <2>3. Queue' /\ ParsedAsSent'
    BY <1>u DEF WireInv, Queue, ParsedAsSent
  <2> QED BY <1>2, <2>2, <2>3 DEF WireInv, Reading
<1>3. ASSUME Len(stream) >= HeaderSize PROVE ValidHeader(SubSeq(stream, 1, HeaderSize))
  BY <1>0, <1>3, HeaderTaken
<1>4. CASE ReadHeader
  <2>1. Len(stream) >= HeaderSize /\ stream' = Drop(HeaderSize)
    BY <1>4 DEF ReadHeader
  <2>2. \/ header' = SubSeq(stream, 1, HeaderSize) /\ status' = status
        \/ status' = "too large" /\ header' = header
    BY <1>3, <1>4, <2>1 DEF ReadHeader
  <2>3. HeaderSize \in Nat /\ HeaderSize <= Len(stream)
    BY <2>1, LenProperties DEF HeaderSize, WireInv, TypeOK
  <2> QED BY <1>1, <1>2, <1>3, <2>1, <2>2, <2>3
<1>5. CASE RecvHeader
  <2>1. PICK k \in Recv(HeaderSize) :
          /\ stream' = Drop(k)
          /\ IF k < HeaderSize THEN status' = "short header" /\ UNCHANGED header
             ELSE IF ValidHeader(SubSeq(stream, 1, k))
                  THEN header' = SubSeq(stream, 1, k) /\ UNCHANGED status
                  ELSE status' = "bad header" /\ UNCHANGED header
    BY <1>5 DEF RecvHeader
  <2>2. Len(stream) \in Nat
    BY LenProperties DEF WireInv, TypeOK
  <2>3. k \in Nat /\ k <= Len(stream) /\ k <= HeaderSize
    BY <2>2 DEF Recv, HeaderSize
  <2>4. CASE k < HeaderSize
    BY <1>2, <2>1, <2>3, <2>4
  <2>5. CASE k = HeaderSize
    <3>1. Len(stream) >= HeaderSize
      BY <2>2, <2>3, <2>5 DEF HeaderSize
    <3>2. ValidHeader(SubSeq(stream, 1, HeaderSize))
      BY <1>3, <3>1
    <3>3. ~(k < HeaderSize)
      BY <2>5 DEF HeaderSize
    <3>4. stream' = Drop(HeaderSize) /\ header' = SubSeq(stream, 1, HeaderSize) /\ status' = status
      BY <2>1, <2>5, <3>2, <3>3
    <3> QED BY <1>1, <3>1, <3>2, <3>4
  <2> QED BY <2>3, <2>4, <2>5 DEF HeaderSize
<1> QED BY <1>4, <1>5

\* The header being read is the one of the first pending message.
LEMMA HeaderIs ==
    ASSUME WireInv, status = "reading", header # None
    PROVE  /\ Len(pending) \in Nat /\ Len(pending) > 0
           /\ Written(reader, pending[1])
           /\ HeaderType(header) = pending[1].type
           /\ PayloadLen(header) = Len(Sent(pending[1]))
           /\ Sent(pending[1]) \in Seq(Nat) /\ Len(Sent(pending[1])) \in Nat
<1>1. Len(pending) \in Nat /\ Len(pending) > 0
  BY DEF WireInv, Queue, Reading, HeaderRead
<1>2. 1 \in 1 .. Len(pending)
  BY <1>1
<1>3. PICK m : m = pending[1]
  OBVIOUS
<1>4. Written(reader, m)
  BY <1>2, <1>3 DEF WireInv, Queue
<1>5. header = MakeHeader(m.type, Len(Sent(m)))
  BY <1>3 DEF WireInv, Reading, HeaderRead
<1>6. HeaderType(header) = m.type /\ PayloadLen(header) = Len(Sent(m))
  BY <1>4, <1>5, FrameFacts
<1>7. Sent(m) \in Seq(Nat) /\ Len(Sent(m)) \in Nat
  BY <1>4, SentFacts
<1> QED BY <1>1, <1>3, <1>4, <1>6, <1>7

\* The message goes from the queue to the parser.
LEMMA ParsedKeeps ==
    ASSUME WireInv, status = "reading", header # None,
           Parsed(Sent(pending[1])), reader' = reader, frames' = frames
    PROVE  /\ Queue' /\ ParsedAsSent' /\ header' = None
           /\ Len(pending') <= frames' /\ Len(last') <= 1
           /\ Shorter(pending, pending', Len(pending))
<1>1. PICK m : m = pending[1]
  OBVIOUS
<1>2. Written(reader, m) /\ HeaderType(header) = m.type
  BY <1>1, HeaderIs
<1>3. PICK n \in Nat : n = Len(pending) /\ n > 0
  BY HeaderIs
<1>4. IsSeq(pending) /\ pending' = Tail(pending)
  BY DEF WireInv, Queue, Parsed
<1>5. /\ IsSeq(pending') /\ Len(pending') = n - 1
      /\ \A k \in 1 .. n - 1 : pending'[k] = pending[k + 1]
  BY <1>3, <1>4, Removed
<1>6. Head(pending) = m
  BY <1>1, <1>3, <1>4, Removed
<1>7. Queue'
  <2>1. ASSUME NEW k \in 1 .. n - 1 PROVE Written(reader', pending'[k])
    <3>1. k + 1 \in 1 .. n
      OBVIOUS
    <3>2. Written(reader, pending[k + 1])
      BY <1>3, <3>1 DEF WireInv, Queue
    <3> QED BY <1>5, <3>2
  <2>2. n - 1 \in Nat
    BY <1>3
  <2> QED BY <1>5, <2>1, <2>2 DEF Queue
<1>8. last' = <<[msg |-> m, type |-> m.type, result |-> Parse(reader, m.type, Sent(m))]>>
  BY <1>1, <1>2, <1>6 DEF Parsed
<1>9. ParsedAsSent'
  BY <1>2, <1>8 DEF ParsedAsSent
<1>10. Len(last') <= 1
  BY <1>8
<1>11. Shorter(pending, pending', Len(pending))
  BY <1>3, <1>5 DEF Shorter
<1>12. Len(pending') <= frames'
  BY <1>3, <1>5 DEF WireInv, TypeOK
<1>13. header' = None
  BY DEF Parsed
<1> QED BY <1>7, <1>9, <1>10, <1>11, <1>12, <1>13

LEMMA BodyKeeps ==
    ASSUME WireInv, ReadBody PROVE WireInv'
<1>0. /\ status = "reading" /\ header # None /\ reader # "gateway"
      /\ UNCHANGED <<reader, eof, body, status, frames>>
  BY DEF ReadBody
<1>1. PICK s : s = Sent(pending[1])
  OBVIOUS
<1>2. s \in Seq(Nat) /\ Len(s) \in Nat /\ PayloadLen(header) = Len(s)
  BY <1>0, <1>1, HeaderIs
<1>3. PICK rest, lost : /\ Chain(pending, rest)
                        /\ lost \in Seq(Nat) /\ (~eof => lost = <<>>)
                        /\ Left(rest) = body \o (stream \o lost)
  BY <1>0 DEF WireInv, Reading, Placed
<1>4. body = <<>> /\ stream \in Seq(Nat)
  BY <1>0 DEF WireInv, Reading, BodyRead, TypeOK
<1>5. rest[2] \in Seq(Nat)
  <2>1. PICK n \in Nat : n = Len(pending) /\ n > 0
    BY <1>0, HeaderIs
  <2>2. 2 \in 1 .. n + 1
    BY <2>1
  <2> QED BY <1>3, <2>1, <2>2 DEF Chain
<1>6. s \o rest[2] = stream \o lost
  <2>1. <<>> \o (stream \o lost) = stream \o lost
    BY <1>3, <1>4, Cat, Nothing
  <2>2. Left(rest) = s \o rest[2]
    BY <1>0, <1>1 DEF Left
  <2> QED BY <1>3, <1>4, <2>1, <2>2
<1>7. Len(s) <= Len(stream)
  BY <1>2, LenProperties, <1>4 DEF ReadBody
<1>8. PICK t : t = rest[2]
  OBVIOUS
<1>9. Takes(stream, lost, s, t)
  <2>1. t \in Seq(Nat) /\ s \o t = stream \o lost
    BY <1>5, <1>6, <1>8
  <2> QED BY <1>2, <1>3, <1>4, <1>7, <2>1, Front
<1>10. SubSeq(stream, 1, Len(s)) = s /\ stream' \in Seq(Nat) /\ stream' \o lost = t
  BY <1>2, <1>9 DEF ReadBody, Drop, Takes
<1>11. Parsed(s)
  BY <1>2, <1>10 DEF ReadBody
<1>12. /\ Queue' /\ ParsedAsSent' /\ header' = None
       /\ Len(pending') <= frames' /\ Len(last') <= 1
       /\ Shorter(pending, pending', Len(pending))
  BY <1>0, <1>1, <1>11, ParsedKeeps
<1>13. PICK less : Chain(pending', less) /\ less[1] = rest[2]
  <2>1. PICK p, q, n : p = pending /\ q = pending' /\ n = Len(pending)
    OBVIOUS
  <2>2. Shorter(p, q, n) /\ Chain(p, rest)
    BY <1>3, <1>12, <2>1
  <2>3. \E less : Chain(q, less) /\ less[1] = rest[2]
    BY <2>2, ChainShrinks
  <2> QED BY <2>1, <2>3
<1>14. Left(less)' = body' \o (stream' \o lost)
  <2>1. Left(less)' = less[1]
    BY <1>12 DEF Left
  <2>2. <<>> \o t = t
    BY <1>5, <1>8, Nothing
  <2> QED BY <1>0, <1>4, <1>8, <1>10, <1>13, <2>1, <2>2
<1>15. Placed'
  BY <1>0, <1>3, <1>13, <1>14 DEF Placed
<1>16. HeaderRead' /\ BodyRead'
  BY <1>0, <1>4, <1>12 DEF HeaderRead, BodyRead
<1>17. TypeOK'
  BY <1>0, <1>10, <1>12, Nothing DEF WireInv, TypeOK, None
<1> QED BY <1>0, <1>12, <1>15, <1>16, <1>17 DEF WireInv, Reading

LEMMA RecvKeeps ==
    ASSUME WireInv, RecvPayload PROVE WireInv'
<1>0. /\ status = "reading" /\ header # None /\ reader = "gateway"
      /\ UNCHANGED <<reader, eof, header, frames, pending, last>>
  BY DEF RecvPayload
<1>1. stream \in Seq(Nat) /\ body \in Seq(Nat) /\ Len(stream) \in Nat /\ Len(body) \in Nat
  BY LenProperties DEF WireInv, TypeOK
<1>2. PICK k \in Recv(PayloadLen(header) - Len(body)) :
         /\ body' = body \o SubSeq(stream, 1, k)
         /\ stream' = Drop(k)
         /\ status' = IF k = 0 THEN "short payload" ELSE status
  BY DEF RecvPayload
<1>3. k \in Nat /\ k <= Len(stream)
  BY <1>0, <1>1, HeaderIs DEF Recv
<1>4. PICK x : x = SubSeq(stream, 1, k)
  OBVIOUS
<1>5. Splits(stream, k, x, stream')
  BY <1>1, <1>2, <1>3, <1>4, DropFacts
<1>6. x \in Seq(Nat) /\ stream' \in Seq(Nat) /\ stream = x \o stream'
  BY <1>5 DEF Splits
<1>7. body' = body \o x /\ body' \in Seq(Nat)
  BY <1>1, <1>2, <1>4, <1>6, Cat
<1>8. TypeOK'
  BY <1>0, <1>2, <1>6, <1>7 DEF WireInv, TypeOK, Statuses
<1>9. Queue' /\ ParsedAsSent'
  BY <1>0 DEF WireInv, Queue, ParsedAsSent
<1>10. Placed'
  <2>1. PICK rest, lost : /\ Chain(pending, rest)
                          /\ lost \in Seq(Nat) /\ (~eof => lost = <<>>)
                          /\ Left(rest) = body \o (stream \o lost)
    BY <1>0 DEF WireInv, Reading, Placed
  <2>2. PICK d : d = stream'
    OBVIOUS
  <2>3. (x \o d) \o lost = x \o (d \o lost) /\ d \o lost \in Seq(Nat)
    <3>1. d \in Seq(Nat)
      BY <1>6, <2>2
    <3>2. (x \o d) \o lost = x \o (d \o lost)
      BY <1>6, <2>1, <3>1, Assoc
    <3> QED BY <2>1, <3>1, <3>2, Cat
  <2>4. PICK w : w = d \o lost
    OBVIOUS
  <2>5. (body \o x) \o w = body \o (x \o w)
    BY <1>1, <1>6, <2>3, <2>4, Assoc
  <2>6. Left(rest)' = Left(rest)
    BY <1>0 DEF Left
  <2>7. Left(rest)' = body' \o (stream' \o lost)
    BY <1>6, <1>7, <2>1, <2>2, <2>3, <2>4, <2>5, <2>6
  <2> QED BY <1>0, <2>1, <2>7 DEF Placed
<1>11. HeaderRead' /\ BodyRead'
  BY <1>0 DEF WireInv, Reading, HeaderRead, BodyRead
<1>12. status' # "bad header"
  BY <1>0, <1>2
<1> QED BY <1>8, <1>9, <1>10, <1>11, <1>12 DEF WireInv, Reading

LEMMA ResponseKeeps ==
    ASSUME WireInv, ParseResponse PROVE WireInv'
<1>0. /\ status = "reading" /\ header # None /\ status' = "done"
      /\ UNCHANGED <<reader, stream, eof, body, frames>>
  BY DEF ParseResponse
<1>1. PICK s : s = Sent(pending[1])
  OBVIOUS
<1>2. s \in Seq(Nat) /\ Len(s) \in Nat /\ Len(body) = Len(s) /\ body \in Seq(Nat)
  BY <1>0, <1>1, HeaderIs DEF ParseResponse, WireInv, TypeOK
<1>3. body = s
  <2>1. PICK rest, lost : /\ Chain(pending, rest)
                          /\ lost \in Seq(Nat)
                          /\ Left(rest) = body \o (stream \o lost)
    BY <1>0 DEF WireInv, Reading, Placed
  <2>2. PICK t, w : t = rest[2] /\ w = stream \o lost
    OBVIOUS
  <2>3. t \in Seq(Nat)
    <3>1. PICK n \in Nat : n = Len(pending) /\ n > 0
      BY <1>0, HeaderIs
    <3>2. 2 \in 1 .. n + 1
      BY <3>1
    <3> QED BY <2>1, <2>2, <3>1, <3>2 DEF Chain
  <2>4. w \in Seq(Nat)
    BY <2>1, <2>2, Cat DEF WireInv, TypeOK
  <2>5. s \o t = body \o w
    BY <1>0, <1>1, <2>1, <2>2 DEF Left
  <2> QED BY <1>2, <2>3, <2>4, <2>5, SameCut
<1>4. Parsed(s)
  BY <1>3 DEF ParseResponse
<1>5. /\ Queue' /\ ParsedAsSent' /\ header' = None
      /\ Len(pending') <= frames' /\ Len(last') <= 1
  BY <1>0, <1>1, <1>4, ParsedKeeps
<1>6. TypeOK'
  BY <1>0, <1>5, Nothing DEF WireInv, TypeOK, Statuses, None
<1> QED BY <1>0, <1>5, <1>6 DEF WireInv, Reading

LEMMA EofKeeps ==
    ASSUME WireInv, ReadEof PROVE WireInv'
<1>1. TypeOK'
  BY DEF WireInv, TypeOK, Statuses, ReadEof
<1>2. Queue' /\ ParsedAsSent'
  BY DEF WireInv, Queue, ParsedAsSent, ReadEof
<1> QED BY <1>1, <1>2 DEF WireInv, Reading, ReadEof

LEMMA WireInitially == ASSUME Init PROVE WireInv
<1>1. TypeOK
  <2>1. <<>> \in Seq(Nat) /\ Len(<<>>) = 0 /\ 0 \in 0 .. MaxFrames
    BY Nothing, WireBounds
  <2>2. eof \in BOOLEAN /\ status \in Statuses /\ reader \in Readers
    BY DEF Init, Statuses
  <2>3. stream \in Seq(Nat) /\ body \in Seq(Nat) /\ header \in Seq(Nat)
    BY <2>1 DEF Init, None
  <2>4. Len(header) \in {0, HeaderSize}
    BY <2>1 DEF Init, None
  <2>5. frames \in 0 .. MaxFrames /\ Len(pending) <= frames /\ Len(last) <= 1
    BY <2>1 DEF Init
  <2> QED BY <2>2, <2>3, <2>4, <2>5 DEF TypeOK
<1>2. Queue
  <2>1. <<>> \in Seq(Nat) /\ Len(<<>>) = 0
    BY Nothing
  <2> QED BY <2>1 DEF Init, Queue, IsSeq
<1>3. Placed
  <2> DEFINE rest == [k \in 1 .. 1 |-> <<>>]
  <2>1. Len(pending) = 0 /\ <<>> \in Seq(Nat)
    BY Nothing DEF Init
  <2>2. rest \in [1 .. 0 + 1 -> Seq(Nat)] /\ rest[1] = <<>>
    BY <2>1
  <2> HIDE DEF rest
  <2>3. Chain(pending, rest)
    BY <2>1, <2>2 DEF Chain
  <2>4. <<>> \o <<>> = <<>>
    BY Nothing
  <2>5. Left(rest) = body \o (stream \o <<>>)
    BY <2>2, <2>4 DEF Left, Init
  <2> QED BY <2>1, <2>3, <2>5 DEF Placed
<1> QED BY <1>1, <1>2, <1>3
        DEF WireInv, Reading, HeaderRead, BodyRead, ParsedAsSent, Init

\* The inductive invariant holds in every reachable state.
LEMMA WireInvariant == Spec => []WireInv
<1>1. Init => WireInv
  BY WireInitially
<1>2. WireInv /\ [Next]_vars => WireInv'
  <2> SUFFICES ASSUME WireInv, [Next]_vars PROVE WireInv'
    OBVIOUS
  <2>t. TypeOK
    BY DEF WireInv
  <2>1. CASE WriteRequest
    BY <2>t, <2>1, Requests, WriteKeeps
  <2>2. CASE WriteAuthReply \/ WriteFileReply
    BY <2>t, <2>2, Replies, WriteKeeps
  <2>3. CASE WriterGone
    BY <2>3, GoneKeeps
  <2>4. CASE ReadHeader \/ RecvHeader
    BY <2>4, HeaderKeeps
  <2>5. CASE ReadBody
    BY <2>5, BodyKeeps
  <2>6. CASE ReadEof
    BY <2>6, EofKeeps
  <2>7. CASE RecvPayload
    BY <2>7, RecvKeeps
  <2>8. CASE ParseResponse
    BY <2>8, ResponseKeeps
  <2>9. CASE UNCHANGED vars
    BY <2>9 DEF WireInv, TypeOK, Queue, Reading, HeaderRead, BodyRead, Placed, Left,
                ParsedAsSent, vars
  <2> QED BY <2>1, <2>2, <2>3, <2>4, <2>5, <2>6, <2>7, <2>8, <2>9 DEF Next
<1> QED BY <1>1, <1>2, PTL DEF Spec

-----------------------------------------------------------------------------
(***************************************************************************)
(* The theorems                                                            *)
(***************************************************************************)

(***************************************************************************)
(* The buffers, the header and the counters of one connection keep their   *)
(* types: a header being read is always whole (tcp_session.cpp:95-131).    *)
(***************************************************************************)
THEOREM WireTypesCorrect == Spec => []TypeOK
<1>1. WireInv => TypeOK
  BY DEF WireInv
<1> QED BY <1>1, WireInvariant, PTL

(***************************************************************************)
(* A reader never loses its place: no header is found bad and each payload *)
(* goes to the parser of the type it was written with, whatever was cut,   *)
(* refused or overflowed before it (message.h:54-71,                       *)
(* tcp_session.cpp:95-159, core_client.py:117-135).                        *)
(***************************************************************************)
THEOREM ReadersKeepTheirPlace == Spec => []InStep
<1>1. ASSUME WireInv PROVE InStep
  <2>1. SUFFICES ASSUME last # <<>> PROVE last[1].type = last[1].msg.type
    BY <1>1 DEF WireInv, InStep
  <2>2. PICK m : last = <<[msg |-> m, type |-> m.type,
                           result |-> Parse(reader, m.type, Sent(m))]>>
    BY <1>1, <2>1 DEF WireInv, ParsedAsSent
  <2> QED BY <2>2
<1> QED BY <1>1, WireInvariant, PTL

(***************************************************************************)
(* The bytes that reach a parser are the payload that was written, for     *)
(* every grouping of the bytes by TCP (tcp_session.cpp:95-159,             *)
(* core_client.py:117-135).                                                *)
(***************************************************************************)
THEOREM PayloadsArriveWhole == Spec => []ParsedAsSent
<1>1. WireInv => ParsedAsSent
  BY DEF WireInv
<1> QED BY <1>1, WireInvariant, PTL

-----------------------------------------------------------------------------
(***************************************************************************)
(* Fields: what a parser's cursor meets in a payload, complete or cut      *)
(***************************************************************************)

\* The bytes b stand in p behind the k-th, as far as p goes.
Field(p, k, b) ==
    /\ p \in Seq(Nat) /\ b \in Seq(Nat) /\ k \in Nat
    /\ \A i \in 1 .. Len(b) : k + i <= Len(p) => p[k + i] = b[i]

LEMMA FieldCat ==
    ASSUME NEW p, NEW k, NEW a, NEW b, NEW m, NEW n, Size(a, m), Size(b, n),
           Field(p, k, a \o b)
    PROVE  Field(p, k, a) /\ Field(p, k + m, b)
<1>1. /\ a \in Seq(Nat) /\ b \in Seq(Nat) /\ m \in Nat /\ n \in Nat
      /\ Len(a) = m /\ Len(b) = n
  BY DEF Size
<1>2. PICK c : c = a \o b
  OBVIOUS
<1>3. Joins(a, b, c)
  <2>1. Joins(a, b, a \o b)
    BY <1>1, Joined
  <2> QED BY <1>2, <2>1
<1>4. /\ Len(c) = m + n
      /\ \A i \in 1 .. m : c[i] = a[i]
      /\ \A i \in 1 .. n : c[m + i] = b[i]
  BY <1>1, <1>3 DEF Joins
<1>5. PICK l \in Nat : l = Len(p) /\ k \in Nat /\ p \in Seq(Nat)
  BY LenProperties DEF Field
<1>6. \A i \in 1 .. m + n : k + i <= l => p[k + i] = c[i]
  BY <1>2, <1>4, <1>5 DEF Field
<1>7. \A i \in 1 .. m : k + i <= l => p[k + i] = a[i]
  BY <1>1, <1>4, <1>5, <1>6
<1>8. ASSUME NEW i \in 1 .. n, (k + m) + i <= l PROVE p[(k + m) + i] = b[i]
  <2>1. m + i \in 1 .. m + n /\ k + (m + i) = (k + m) + i
    BY <1>1, <1>5
  <2>2. p[k + (m + i)] = c[m + i]
    BY <1>6, <1>8, <2>1
  <2> QED BY <1>4, <2>1, <2>2
<1>9. Field(p, k, a)
  BY <1>1, <1>5, <1>7 DEF Field
<1>10. Field(p, k + m, b)
  BY <1>1, <1>5, <1>8 DEF Field
<1> QED BY <1>9, <1>10

\* A payload, perhaps cut, is a field at its own beginning.
LEMMA FieldWhole ==
    ASSUME NEW f \in Seq(Nat), NEW n \in Nat, n <= Len(f), NEW p, p = SubSeq(f, 1, n)
    PROVE  Field(p, 0, f) /\ p \in Seq(Nat) /\ Len(p) = n
<1>1. Splits(f, n, p, SubSeq(f, n + 1, Len(f)))
  BY Split
<1>2. PICK y \in Seq(Nat) : f = p \o y /\ p \in Seq(Nat) /\ Len(p) = n
  BY <1>1 DEF Splits
<1>3. Joins(p, y, f)
  <2>1. Joins(p, y, p \o y)
    BY <1>2, Joined
  <2> QED BY <1>2, <2>1
<1>4. \A i \in 1 .. n : f[i] = p[i]
  BY <1>2, <1>3 DEF Joins
<1>5. Len(f) \in Nat
  BY LenProperties
<1>6. \A i \in 1 .. Len(f) : 0 + i <= Len(p) => p[0 + i] = f[i]
  BY <1>2, <1>4, <1>5
<1> QED BY <1>2, <1>6 DEF Field

LEMMA Field16 ==
    ASSUME NEW p, NEW k, NEW n \in Nat, n < Limit16, Field(p, k, U16(n)), k + 2 <= Len(p)
    PROVE  Num16(p, k + 1) = n
<1>1. Len(U16(n)) = 2
  BY U16Bytes
<1>2. k \in Nat /\ Len(p) \in Nat
  BY LenProperties DEF Field
<1>3. p[k + 1] = U16(n)[1] /\ p[k + 2] = U16(n)[2]
  BY <1>1, <1>2 DEF Field
<1>4. k + 1 \in Nat /\ (k + 1) + 1 = k + 2
  BY <1>2
<1> QED BY <1>3, <1>4, U16At

LEMMA Field32 ==
    ASSUME NEW p, NEW k, NEW n \in Nat, Field(p, k, U32(n)), k + 4 <= Len(p)
    PROVE  Num32(p, k + 1) = n % Limit32
<1>1. Len(U32(n)) = 4
  BY U32Bytes
<1>2. k \in Nat /\ Len(p) \in Nat
  BY LenProperties DEF Field
<1>3. /\ p[k + 1] = U32(n)[1] /\ p[k + 2] = U32(n)[2]
      /\ p[k + 3] = U32(n)[3] /\ p[k + 4] = U32(n)[4]
  BY <1>1, <1>2 DEF Field
<1>4. k + 1 \in Nat /\ (k + 1) + 1 = k + 2 /\ (k + 1) + 2 = k + 3 /\ ((k + 1) + 2) + 1 = k + 4
  BY <1>2
<1> QED BY <1>3, <1>4, U32Number

LEMMA Field64 ==
    ASSUME NEW p, NEW k, NEW n \in Nat, n < Limit64, Field(p, k, U64(n)), k + 8 <= Len(p)
    PROVE  Num64(p, k + 1) = n
<1>1. PICK q \in Nat, y \in Nat : /\ q = n \div Limit32 /\ y = n % Limit32
                                  /\ n = Limit32 * q + y
  BY Limits, Division
<1>2. q % Limit32 = q
  <2>1. q < Limit32
    BY <1>1, Limits, SmallQuotient DEF Limit64
  <2> QED BY <2>1, Limits, SmallRemainder
<1>3. U64(n) = U32(q) \o U32(n) /\ Size(U32(q), 4) /\ Size(U32(n), 4)
  BY <1>1, SizeU32 DEF U64
<1>4. Field(p, k, U32(q)) /\ Field(p, k + 4, U32(n))
  BY <1>3, FieldCat
<1>5. k \in Nat /\ Len(p) \in Nat
  BY LenProperties DEF Field
<1>6. Num32(p, k + 1) = q
  <2>1. k + 4 <= Len(p)
    BY <1>5
  <2> QED BY <1>2, <1>4, <2>1, Field32
<1>7. Num32(p, (k + 4) + 1) = y
  <2>1. (k + 4) + 4 <= Len(p)
    BY <1>5
  <2> QED BY <1>1, <1>4, <2>1, Field32
<1>8. (k + 4) + 1 = (k + 1) + 4
  BY <1>5
<1> QED BY <1>1, <1>6, <1>7, <1>8 DEF Num64

\* The bytes of a field that is there as a whole.
LEMMA FieldText ==
    ASSUME NEW p, NEW k, NEW s, NEW n \in Nat, n = Len(s), Field(p, k, s), k + n <= Len(p)
    PROVE  SubSeq(p, k + 1, k + n) = s
<1>1. p \in Seq(Nat) /\ s \in Seq(Nat) /\ k \in Nat
  BY DEF Field
<1>2. PICK l \in Nat : l = Len(p)
  BY <1>1, LenProperties
<1>3. PICK t : t = SubSeq(p, k + 1, k + n)
  OBVIOUS
<1>4. k + 1 \in Nat /\ k + n \in Nat /\ 0 < k + 1 /\ k + 1 <= (k + n) + 1 /\ k + n <= Len(p)
  BY <1>1
<1>5. PICK i1 \in Nat, i2 \in Nat : i1 = k + 1 /\ i2 = k + n
  BY <1>4
<1>6. /\ t \in Seq(Nat) /\ Len(t) = (i2 + 1) - i1
      /\ \A i \in 1 .. (i2 + 1) - i1 : t[i] = p[(i1 + i) - 1]
  <2>1. 0 < i1 /\ i1 <= i2 + 1 /\ i2 <= Len(p) /\ t = SubSeq(p, i1, i2)
    BY <1>3, <1>4, <1>5
  <2> QED BY <1>1, <2>1, SubSeqFacts
<1>7. Len(t) = n /\ \A i \in 1 .. n : t[i] = p[k + i]
  BY <1>1, <1>5, <1>6
<1>8. \A i \in 1 .. n : p[k + i] = s[i]
  BY <1>1, <1>2 DEF Field
<1>9. t = s
  BY <1>1, <1>6, <1>7, <1>8, SeqEqual
<1> QED BY <1>3, <1>9

-----------------------------------------------------------------------------
(***************************************************************************)
(* The field readers                                                       *)
(***************************************************************************)

\* The cursor r stands behind k bytes of p, has read vs and met no error.
At(r, p, k, vs) ==
    /\ DOMAIN r = {"p", "pos", "vals", "err", "over"}
    /\ r.p = p /\ r.pos = k /\ r.vals = vs
    /\ ~r.err /\ ~r.over

LEMMA StartAt ==
    ASSUME NEW p \in Seq(Nat), NEW min \in Nat
    PROVE  /\ min <= Len(p) => At(Start(p, min), p, 0, <<>>)
           /\ Len(p) < min => Start(p, min).err
<1>1. Len(p) \in Nat
  BY LenProperties
<1>2. ASSUME ~(Len(p) < min) PROVE At(Start(p, min), p, 0, <<>>)
  BY <1>2 DEF At, Start
<1>3. ASSUME Len(p) < min PROVE Start(p, min).err
  BY <1>3 DEF Start
<1>4. min <= Len(p) => ~(Len(p) < min)
  BY <1>1
<1> QED BY <1>2, <1>3, <1>4

\* An error is never taken back.
LEMMA ErrStays ==
    ASSUME NEW r, r.err, NEW w, NEW yes
    PROVE  /\ ReadStr(r).err /\ Checked(r, w).err
           /\ Unchecked(r, w) = r /\ Flag(r, yes) = r /\ Rest(r) = r
BY DEF ReadStr, Checked, Unchecked, Flag, Rest

LEMMA TakenAt ==
    ASSUME NEW r, NEW p, NEW k, NEW vs, At(r, p, k, vs), NEW n, NEW v
    PROVE  At(Taken(r, n, v), p, k + n, Append(vs, v))
BY DEF At, Taken

LEMMA DefaultAt ==
    ASSUME NEW r, NEW p, NEW k, NEW vs, At(r, p, k, vs), NEW v
    PROVE  At(Default(r, v), p, k, Append(vs, v))
BY DEF At, Default

LEMMA FitsAt ==
    ASSUME NEW r, NEW p, NEW k, NEW vs, At(r, p, k, vs), NEW n
    PROVE  Fits(r, n) <=> k + n <= Len(p)
BY DEF Fits, At

LEMMA NumberAt ==
    ASSUME NEW r, NEW p, NEW k, NEW vs, At(r, p, k, vs)
    PROVE  /\ Number(r, 2) = Num16(p, k + 1)
           /\ Number(r, 4) = Num32(p, k + 1)
           /\ Number(r, 8) = Num64(p, k + 1)
BY DEF Number, At

LEMMA SetErr ==
    ASSUME NEW r, NEW p, NEW k, NEW vs, At(r, p, k, vs)
    PROVE  [r EXCEPT !.err = TRUE].err
BY DEF At

\* A string is read when it is there and refused when it is not.
LEMMA StringRead ==
    ASSUME NEW r, NEW p, NEW k, NEW vs, At(r, p, k, vs),
           NEW s \in Text, Len(s) < Limit16, Field(p, k, Str(s)), NEW n, n = Len(s)
    PROVE  /\ k + (2 + n) <= Len(p) =>
                /\ At(ReadStr(r), p, k + (2 + n), Append(vs, s))
                /\ At(OptStr(r), p, k + (2 + n), Append(vs, s))
                /\ At(RawStr(r), p, k + (2 + n), Append(vs, s))
           /\ ~(k + (2 + n) <= Len(p)) => ReadStr(r).err
<1>1. n \in Nat /\ Size(s, n)
  BY SizeText DEF Size
<1>2. k \in Nat /\ Len(p) \in Nat
  BY LenProperties DEF Field
<1>3. Field(p, k, U16(n)) /\ Field(p, k + 2, s)
  <2>1. Str(s) = U16(n) \o s /\ Size(U16(n), 2)
    BY <1>1, SizeU16 DEF Str
  <2> QED BY <1>1, <2>1, FieldCat
<1>5. ~r.err /\ r.p = p /\ r.pos = k
  BY DEF At
<1>6. CASE ~(k + 2 <= Len(p))
  <2>1. ~Fits(r, 2)
    BY <1>6, FitsAt
  <2>2. ReadStr(r) = [r EXCEPT !.err = TRUE]
    BY <2>1 DEF ReadStr
  <2>3. ~(k + (2 + n) <= Len(p))
    BY <1>1, <1>2, <1>6
  <2> QED BY <2>2, <2>3, SetErr
<1>7. CASE k + 2 <= Len(p)
  <2>1. Fits(r, 2)
    BY <1>7, FitsAt
  <2>2. Number(r, 2) = n
    <3>1. Num16(p, k + 1) = n
      BY <1>1, <1>3, <1>7, Field16
    <3> QED BY <3>1, NumberAt
  <2>3. CASE ~(k + (2 + n) <= Len(p))
    <3>1. ~Fits(r, 2 + n)
      BY <2>3, FitsAt
    <3>2. ReadStr(r) = [r EXCEPT !.err = TRUE]
      BY <1>5, <2>1, <2>2, <3>1 DEF ReadStr
    <3> QED BY <2>3, <3>2, SetErr
  <2>4. CASE k + (2 + n) <= Len(p)
    <3>1. Fits(r, 2 + n)
      BY <2>4, FitsAt
    <3>2. /\ ReadStr(r) = Taken(r, 2 + n, Bytes(r, 2, n))
          /\ OptStr(r) = Taken(r, 2 + n, Bytes(r, 2, n))
          /\ RawStr(r) = Taken(r, 2 + n, Bytes(r, 2, n))
      BY <1>5, <2>1, <2>2, <3>1 DEF ReadStr, OptStr, RawStr
    <3>3. Bytes(r, 2, n) = s
      <4>1. SubSeq(p, (k + 2) + 1, (k + 2) + n) = s
        <5>1. (k + 2) + n <= Len(p)
          BY <1>1, <1>2, <2>4
        <5> QED BY <1>1, <1>3, <5>1, FieldText
      <4> QED BY <1>5, <4>1 DEF Bytes
    <3>4. At(Taken(r, 2 + n, s), p, k + (2 + n), Append(vs, s))
      BY TakenAt
    <3> QED BY <2>4, <3>2, <3>3, <3>4
  <2> QED BY <2>3, <2>4
<1> QED BY <1>6, <1>7

\* No string is left at the end of the payload.
LEMMA NoString ==
    ASSUME NEW r, NEW p \in Seq(Nat), NEW vs, At(r, p, Len(p), vs)
    PROVE  ReadStr(r).err
<1>1. ~(Len(p) + 2 <= Len(p))
  BY LenProperties
<1>2. ~Fits(r, 2)
  BY <1>1, FitsAt
<1>3. ReadStr(r) = [r EXCEPT !.err = TRUE]
  BY <1>2 DEF ReadStr
<1> QED BY <1>3, SetErr

\* A string that may be missing: whatever is there, the parser goes on.
LEMMA AnyString ==
    ASSUME NEW r, NEW p, NEW k, NEW vs, At(r, p, k, vs)
    PROVE  \E j, s : At(OptStr(r), p, j, Append(vs, s))
<1>1. \/ OptStr(r) = Default(r, <<>>)
      \/ OptStr(r) = Taken(r, 2, <<>>)
      \/ \E n : OptStr(r) = Taken(r, 2 + n, Bytes(r, 2, n))
  BY DEF OptStr
<1>2. CASE OptStr(r) = Default(r, <<>>)
  BY <1>2, DefaultAt
<1>3. CASE OptStr(r) = Taken(r, 2, <<>>)
  BY <1>3, TakenAt
<1>4. ASSUME NEW n, OptStr(r) = Taken(r, 2 + n, Bytes(r, 2, n))
      PROVE \E j, s : At(OptStr(r), p, j, Append(vs, s))
  BY <1>4, TakenAt
<1> QED BY <1>1, <1>2, <1>3, <1>4

\* A number of eight bytes, and one of four.
LEMMA NumberRead64 ==
    ASSUME NEW r, NEW p, NEW k, NEW vs, At(r, p, k, vs),
           NEW n \in Nat, n < Limit64, Field(p, k, U64(n))
    PROVE  /\ k + 8 <= Len(p) =>
                /\ At(Checked(r, 8), p, k + 8, Append(vs, n))
                /\ At(Unchecked(r, 8), p, k + 8, Append(vs, n))
           /\ ~(k + 8 <= Len(p)) => Checked(r, 8).err /\ Unchecked(r, 8).vals = Append(vs, -1)
<1>1. ~r.err
  BY DEF At
<1>2. CASE k + 8 <= Len(p)
  <2>1. Fits(r, 8)
    BY <1>2, FitsAt
  <2>2. Number(r, 8) = n
    <3>1. Num64(p, k + 1) = n
      BY <1>2, Field64
    <3> QED BY <3>1, NumberAt
  <2>3. Checked(r, 8) = Taken(r, 8, n) /\ Unchecked(r, 8) = Taken(r, 8, n)
    BY <1>1, <2>1, <2>2 DEF Checked, Unchecked
  <2> QED BY <1>2, <2>3, TakenAt
<1>3. CASE ~(k + 8 <= Len(p))
  <2>1. ~Fits(r, 8)
    BY <1>3, FitsAt
  <2>2. Checked(r, 8) = [r EXCEPT !.err = TRUE]
    BY <2>1 DEF Checked
  <2>3. Unchecked(r, 8) = [Taken(r, 8, -1) EXCEPT !.over = TRUE]
    BY <1>1, <2>1 DEF Unchecked
  <2>4. At(Taken(r, 8, -1), p, k + 8, Append(vs, -1))
    BY TakenAt
  <2>5. [Taken(r, 8, -1) EXCEPT !.over = TRUE].vals = Append(vs, -1)
    BY <2>4 DEF At
  <2> QED BY <1>3, <2>2, <2>3, <2>5, SetErr
<1> QED BY <1>2, <1>3

LEMMA NumberRead32 ==
    ASSUME NEW r, NEW p, NEW k, NEW vs, At(r, p, k, vs),
           NEW n \in Nat, n < Limit32, Field(p, k, U32(n))
    PROVE  /\ k + 4 <= Len(p) =>
                /\ At(Checked(r, 4), p, k + 4, Append(vs, n))
                /\ At(Unchecked(r, 4), p, k + 4, Append(vs, n))
           /\ ~(k + 4 <= Len(p)) => Checked(r, 4).err
<1>1. ~r.err
  BY DEF At
<1>2. CASE k + 4 <= Len(p)
  <2>1. Fits(r, 4)
    BY <1>2, FitsAt
  <2>2. Number(r, 4) = n
    <3>1. Num32(p, k + 1) = n % Limit32 /\ n % Limit32 = n
      BY <1>2, Field32, Limits, SmallRemainder
    <3> QED BY <3>1, NumberAt
  <2>3. Checked(r, 4) = Taken(r, 4, n) /\ Unchecked(r, 4) = Taken(r, 4, n)
    BY <1>1, <2>1, <2>2 DEF Checked, Unchecked
  <2> QED BY <1>2, <2>3, TakenAt
<1>3. CASE ~(k + 4 <= Len(p))
  <2>1. ~Fits(r, 4)
    BY <1>3, FitsAt
  <2>2. Checked(r, 4) = [r EXCEPT !.err = TRUE]
    BY <2>1 DEF Checked
  <2> QED BY <1>3, <2>2, SetErr
<1> QED BY <1>2, <1>3

\* A flag: b is the byte of the value ok, in the code of the message.
LEMMA FlagRead ==
    ASSUME NEW r, NEW p, NEW k, NEW vs, At(r, p, k, vs),
           NEW b, Field(p, k, Byte(b)), k + 1 <= Len(p),
           NEW ok \in BOOLEAN, NEW yes, b \in yes <=> ok
    PROVE  At(Flag(r, yes), p, k + 1, Append(vs, ok))
<1>1. ~r.err /\ r.p = p /\ r.pos = k
  BY DEF At
<1>2. p[k + 1] = b
  <2>1. 1 \in 1 .. Len(Byte(b)) /\ Byte(b)[1] = b
    BY DEF Byte
  <2> QED BY <2>1 DEF Field
<1>3. (p[k + 1] \in yes) = ok
  BY <1>2
<1>4. Flag(r, yes) = Taken(r, 1, p[k + 1] \in yes)
  BY <1>1 DEF Flag
<1>5. Flag(r, yes) = Taken(r, 1, ok)
  BY <1>3, <1>4, Zenon
<1> QED BY <1>5, TakenAt

\* The rest of the payload: all of s, or as much of it as there is.
LEMMA RestRead ==
    ASSUME NEW r, NEW p, NEW k, NEW vs, At(r, p, k, vs),
           NEW s, Field(p, k, s), k <= Len(p), Len(p) <= k + Len(s)
    PROVE  \E t : /\ At(Rest(r), p, Len(p), Append(vs, t))
                  /\ IsPrefixOf(t, s)
                  /\ Len(p) = k + Len(s) => t = s
<1>1. p \in Seq(Nat) /\ s \in Seq(Nat) /\ k \in Nat
  BY DEF Field
<1>2. PICK l \in Nat : l = Len(p)
  BY <1>1, LenProperties
<1>3. PICK n \in Nat : n = l - k
  <2>1. l - k \in Nat
    BY <1>1, <1>2
  <2> QED BY <2>1
<1>4. PICK t : t = SubSeq(p, k + 1, k + n)
  OBVIOUS
<1>5. At(Rest(r), p, Len(p), Append(vs, t))
  <2>1. ~r.err /\ r.p = p /\ r.pos = k
    BY DEF At
  <2>2. Rest(r) = Taken(r, n, Bytes(r, 0, n))
    BY <1>2, <1>3, <2>1 DEF Rest
  <2>3. Bytes(r, 0, n) = t
    <3>1. (k + 0) + 1 = k + 1 /\ (k + 0) + n = k + n
      BY <1>1, <1>3
    <3> QED BY <1>4, <2>1, <3>1 DEF Bytes
  <2>4. At(Taken(r, n, t), p, k + n, Append(vs, t))
    BY TakenAt
  <2>5. k + n = Len(p)
    BY <1>1, <1>2, <1>3
  <2> QED BY <2>2, <2>3, <2>4, <2>5
<1>6. PICK z : z = SubSeq(s, 1, n)
  OBVIOUS
<1>7. n <= Len(s) /\ Len(s) \in Nat
  BY <1>1, <1>2, <1>3, LenProperties
<1>8. Len(z) = n /\ z \in Seq(Nat) /\ \A i \in 1 .. n : s[i] = z[i]
  <2>1. Field(z, 0, s) /\ z \in Seq(Nat) /\ Len(z) = n
    BY <1>1, <1>6, <1>7, FieldWhole
  <2>2. \A i \in 1 .. n : z[i] = s[i]
    BY <1>7, <2>1 DEF Field
  <2> QED BY <2>1, <2>2
<1>9. Field(p, k, z)
  <2>1. ASSUME NEW i \in 1 .. Len(z), k + i <= Len(p) PROVE p[k + i] = z[i]
    <3>1. i \in 1 .. n /\ i \in 1 .. Len(s)
      BY <1>7, <1>8
    <3>2. p[k + i] = s[i]
      BY <2>1, <3>1 DEF Field
    <3> QED BY <1>8, <3>1, <3>2
  <2> QED BY <1>1, <1>8, <2>1 DEF Field
<1>10. t = z
  <2>1. k + n <= Len(p)
    BY <1>1, <1>2, <1>3
  <2> QED BY <1>4, <1>8, <1>9, <2>1, FieldText
<1>11. IsPrefixOf(t, s)
  BY <1>6, <1>7, <1>8, <1>10 DEF IsPrefixOf
<1>12. ASSUME Len(p) = k + Len(s) PROVE t = s
  <2>1. n = Len(s)
    BY <1>1, <1>2, <1>3, <1>7, <1>12
  <2> QED BY <1>4, <1>12, <2>1, FieldText
<1> QED BY <1>5, <1>11, <1>12

-----------------------------------------------------------------------------
(***************************************************************************)
(* Parsers: chains of field readers                                        *)
(***************************************************************************)

\* The values read, as tuples.
LEMMA Tuple1 == ASSUME NEW a PROVE Append(<<>>, a) = <<a>>
OBVIOUS

LEMMA TupleEqual ==
    ASSUME NEW S, NEW s \in Seq(S), NEW e \in S, NEW t \in Seq(S),
           Len(t) = Len(s) + 1, \A i \in 1 .. Len(s) : t[i] = s[i], t[Len(s) + 1] = e
    PROVE  Append(s, e) = t
<1>1. PICK u : u = Append(s, e)
  OBVIOUS
<1>2. PICK n \in Nat : n = Len(s)
  BY LenProperties
<1>3. /\ u \in Seq(S) /\ Len(u) = n + 1 /\ u[n + 1] = e
      /\ \A i \in 1 .. n : u[i] = s[i]
  BY <1>1, <1>2, AppendProperties
<1>4. \A i \in 1 .. n + 1 : u[i] = t[i]
  <2>1. ASSUME NEW i \in 1 .. n + 1 PROVE i \in 1 .. n \/ i = n + 1
    BY <1>2
  <2> QED BY <1>2, <1>3, <2>1
<1>5. u = t
  BY <1>2, <1>3, <1>4, SeqEqual
<1> QED BY <1>1, <1>5

LEMMA Tuple2 == ASSUME NEW a, NEW b PROVE Append(<<a>>, b) = <<a, b>>
<1>1. PICK S : S = {a, b}
  OBVIOUS
<1>2. PICK s, t : s = <<a>> /\ t = <<a, b>>
  OBVIOUS
<1>3. s \in Seq(S) /\ t \in Seq(S) /\ b \in S
  BY <1>1, <1>2
<1>4. Len(s) = 1 /\ Len(t) = 1 + 1 /\ t[1 + 1] = b
  BY <1>2
<1>5. \A i \in 1 .. 1 : t[i] = s[i]
  BY <1>2
<1>6. Append(s, b) = t
  BY <1>3, <1>4, <1>5, TupleEqual
<1> QED BY <1>2, <1>6

LEMMA Tuple3 == ASSUME NEW a, NEW b, NEW c PROVE Append(<<a, b>>, c) = <<a, b, c>>
<1>1. PICK S : S = {a, b, c}
  OBVIOUS
<1>2. PICK s, t : s = <<a, b>> /\ t = <<a, b, c>>
  OBVIOUS
<1>3. s \in Seq(S) /\ t \in Seq(S) /\ c \in S
  BY <1>1, <1>2
<1>4. Len(s) = 2 /\ Len(t) = 2 + 1 /\ t[2 + 1] = c
  BY <1>2
<1>5. \A i \in 1 .. 2 : t[i] = s[i]
  BY <1>2
<1>6. Append(s, c) = t
  BY <1>3, <1>4, <1>5, TupleEqual
<1> QED BY <1>2, <1>6

LEMMA Tuple4 ==
    ASSUME NEW a, NEW b, NEW c, NEW d PROVE Append(<<a, b, c>>, d) = <<a, b, c, d>>
<1>1. PICK S : S = {a, b, c, d}
  OBVIOUS
<1>2. PICK s, t : s = <<a, b, c>> /\ t = <<a, b, c, d>>
  OBVIOUS
<1>3. s \in Seq(S) /\ t \in Seq(S) /\ d \in S
  BY <1>1, <1>2
<1>4. Len(s) = 3 /\ Len(t) = 3 + 1 /\ t[3 + 1] = d
  BY <1>2
<1>5. \A i \in 1 .. 3 : t[i] = s[i]
  BY <1>2
<1>6. Append(s, d) = t
  BY <1>3, <1>4, <1>5, TupleEqual
<1> QED BY <1>2, <1>6

LEMMA Tuple5 ==
    ASSUME NEW a, NEW b, NEW c, NEW d, NEW e
    PROVE  Append(<<a, b, c, d>>, e) = <<a, b, c, d, e>>
<1>1. PICK S : S = {a, b, c, d, e}
  OBVIOUS
<1>2. PICK s, t : s = <<a, b, c, d>> /\ t = <<a, b, c, d, e>>
  OBVIOUS
<1>3. s \in Seq(S) /\ t \in Seq(S) /\ e \in S
  BY <1>1, <1>2
<1>4. Len(s) = 4 /\ Len(t) = 4 + 1 /\ t[4 + 1] = e
  BY <1>2
<1>5. \A i \in 1 .. 4 : t[i] = s[i]
  BY <1>2
<1>6. Append(s, e) = t
  BY <1>3, <1>4, <1>5, TupleEqual
<1> QED BY <1>2, <1>6

LEMMA AgreesItself ==
    ASSUME NEW v, IsSeq(v) PROVE Agrees(v, v)
<1>1. PICK S : v \in Seq(S)
  BY DEF IsSeq
<1>2. SubSeq(v, 1, Len(v)) = v
  BY <1>1, SubSeqFull
<1> QED BY <1>2 DEF Agrees

\* Where the fields of a payload begin.
LEMMA Fields2 ==
    ASSUME NEW p, NEW k, NEW a, NEW b, NEW l, NEW m, Size(a, l), Size(b, m),
           Field(p, k, a \o b)
    PROVE  Field(p, k, a) /\ Field(p, k + l, b) /\ Size(a \o b, l + m)
BY FieldCat, SizeCat

LEMMA Fields3 ==
    ASSUME NEW p, NEW k, NEW a, NEW b, NEW c, NEW l, NEW m, NEW n,
           Size(a, l), Size(b, m), Size(c, n), Field(p, k, a \o b \o c)
    PROVE  /\ Field(p, k, a) /\ Field(p, k + l, b) /\ Field(p, k + (l + m), c)
           /\ Size(a \o b \o c, (l + m) + n)
<1>1. Size(a \o b, l + m)
  BY SizeCat
<1>2. Field(p, k, a \o b) /\ Field(p, k + (l + m), c) /\ Size((a \o b) \o c, (l + m) + n)
  BY <1>1, Fields2
<1> QED BY <1>2, Fields2

\* A parser that asks for min bytes at first has come to the field behind k
\* bytes, or it has refused a payload that ends before.
Reads(r, p, min, k, vs) ==
    IF min <= Len(p) /\ k <= Len(p) THEN At(r, p, k, vs) ELSE r.err

LEMMA ReadsStart ==
    ASSUME NEW p \in Seq(Nat), NEW min \in Nat
    PROVE  Reads(Start(p, min), p, min, 0, <<>>)
<1>1. Len(p) \in Nat
  BY LenProperties
<1>2. CASE min <= Len(p)
  BY <1>2, StartAt DEF Reads
<1>3. CASE ~(min <= Len(p))
  <2>1. Len(p) < min
    BY <1>1, <1>3
  <2> QED BY <1>3, <2>1, StartAt DEF Reads
<1> QED BY <1>2, <1>3

LEMMA ReadsStr ==
    ASSUME NEW r, NEW p, NEW min, NEW k, NEW vs, Reads(r, p, min, k, vs),
           NEW s \in Text, Len(s) < Limit16, Field(p, k, Str(s)),
           NEW j, j = k + (2 + Len(s)), NEW ws, ws = Append(vs, s)
    PROVE  Reads(ReadStr(r), p, min, j, ws)
<1>1. Len(s) \in Nat
  BY SizeText DEF Size
<1>2. k \in Nat /\ Len(p) \in Nat
  BY LenProperties DEF Field
<1>3. CASE min <= Len(p) /\ k <= Len(p)
  <2>1. At(r, p, k, vs)
    BY <1>3 DEF Reads
  <2>2. CASE j <= Len(p)
    BY <1>3, <2>1, <2>2, StringRead DEF Reads
  <2>3. CASE ~(j <= Len(p))
    BY <1>3, <2>1, <2>3, StringRead DEF Reads
  <2> QED BY <2>2, <2>3
<1>4. CASE ~(min <= Len(p) /\ k <= Len(p))
  <2>1. ReadStr(r).err
    BY <1>4, ErrStays DEF Reads
  <2>2. ~(min <= Len(p) /\ j <= Len(p))
    BY <1>1, <1>2, <1>4
  <2> QED BY <2>1, <2>2 DEF Reads
<1> QED BY <1>3, <1>4

LEMMA Reads64 ==
    ASSUME NEW r, NEW p, NEW min, NEW k, NEW vs, Reads(r, p, min, k, vs),
           NEW n \in Nat, n < Limit64, Field(p, k, U64(n)),
           NEW j, j = k + 8, NEW ws, ws = Append(vs, n)
    PROVE  Reads(Checked(r, 8), p, min, j, ws)
<1>1. k \in Nat /\ Len(p) \in Nat
  BY LenProperties DEF Field
<1>2. CASE min <= Len(p) /\ k <= Len(p)
  <2>1. At(r, p, k, vs)
    BY <1>2 DEF Reads
  <2>2. CASE j <= Len(p)
    BY <1>2, <2>1, <2>2, NumberRead64 DEF Reads
  <2>3. CASE ~(j <= Len(p))
    BY <1>2, <2>1, <2>3, NumberRead64 DEF Reads
  <2> QED BY <2>2, <2>3
<1>3. CASE ~(min <= Len(p) /\ k <= Len(p))
  <2>1. Checked(r, 8).err
    BY <1>3, ErrStays DEF Reads
  <2>2. ~(min <= Len(p) /\ j <= Len(p))
    BY <1>1, <1>3
  <2> QED BY <2>1, <2>2 DEF Reads
<1> QED BY <1>2, <1>3

LEMMA Reads32 ==
    ASSUME NEW r, NEW p, NEW min, NEW k, NEW vs, Reads(r, p, min, k, vs),
           NEW n \in Nat, n < Limit32, Field(p, k, U32(n)),
           NEW j, j = k + 4, NEW ws, ws = Append(vs, n)
    PROVE  Reads(Checked(r, 4), p, min, j, ws)
<1>1. k \in Nat /\ Len(p) \in Nat
  BY LenProperties DEF Field
<1>2. CASE min <= Len(p) /\ k <= Len(p)
  <2>1. At(r, p, k, vs)
    BY <1>2 DEF Reads
  <2>2. CASE j <= Len(p)
    BY <1>2, <2>1, <2>2, NumberRead32 DEF Reads
  <2>3. CASE ~(j <= Len(p))
    BY <1>2, <2>1, <2>3, NumberRead32 DEF Reads
  <2> QED BY <2>2, <2>3
<1>3. CASE ~(min <= Len(p) /\ k <= Len(p))
  <2>1. Checked(r, 4).err
    BY <1>3, ErrStays DEF Reads
  <2>2. ~(min <= Len(p) /\ j <= Len(p))
    BY <1>1, <1>3
  <2> QED BY <2>1, <2>2 DEF Reads
<1> QED BY <1>2, <1>3

\* Fields that are not checked are safe within the min bytes.
LEMMA ReadsWithin ==
    ASSUME NEW r, NEW p, NEW min \in Nat, NEW k, NEW vs, Reads(r, p, min, k, vs),
           k \in Nat, Len(p) \in Nat, NEW w \in Nat, NEW j, j = k + w, j <= min,
           NEW q, NEW ws, r.err => q = r,
           j <= Len(p) /\ At(r, p, k, vs) => At(q, p, j, ws)
    PROVE  Reads(q, p, min, j, ws)
<1>1. CASE min <= Len(p)
  <2>1. k <= Len(p) /\ j <= Len(p)
    BY <1>1
  <2>2. At(r, p, k, vs)
    BY <1>1, <2>1 DEF Reads
  <2> QED BY <1>1, <2>1, <2>2 DEF Reads
<1>2. CASE ~(min <= Len(p))
  <2>1. r.err
    BY <1>2 DEF Reads
  <2> QED BY <1>2, <2>1 DEF Reads
<1> QED BY <1>1, <1>2

LEMMA ReadsUnchecked64 ==
    ASSUME NEW r, NEW p, NEW min \in Nat, NEW k, NEW vs, Reads(r, p, min, k, vs),
           NEW n \in Nat, n < Limit64, Field(p, k, U64(n)),
           NEW j, j = k + 8, j <= min, NEW ws, ws = Append(vs, n)
    PROVE  Reads(Unchecked(r, 8), p, min, j, ws)
<1>1. k \in Nat /\ Len(p) \in Nat
  BY LenProperties DEF Field
<1>2. r.err => Unchecked(r, 8) = r
  BY ErrStays
<1>3. j <= Len(p) /\ At(r, p, k, vs) => At(Unchecked(r, 8), p, j, ws)
  BY NumberRead64
<1>4. PICK q : q = Unchecked(r, 8)
  OBVIOUS
<1>5. PICK w \in Nat : w = 8
  OBVIOUS
<1>6. /\ j = k + w
      /\ r.err => q = r
      /\ j <= Len(p) /\ At(r, p, k, vs) => At(q, p, j, ws)
  BY <1>2, <1>3, <1>4, <1>5
<1>7. Reads(q, p, min, j, ws)
  BY <1>1, <1>6, ReadsWithin
<1> QED BY <1>4, <1>7

LEMMA ReadsUnchecked32 ==
    ASSUME NEW r, NEW p, NEW min \in Nat, NEW k, NEW vs, Reads(r, p, min, k, vs),
           NEW n \in Nat, n < Limit32, Field(p, k, U32(n)),
           NEW j, j = k + 4, j <= min, NEW ws, ws = Append(vs, n)
    PROVE  Reads(Unchecked(r, 4), p, min, j, ws)
<1>1. k \in Nat /\ Len(p) \in Nat
  BY LenProperties DEF Field
<1>2. r.err => Unchecked(r, 4) = r
  BY ErrStays
<1>3. j <= Len(p) /\ At(r, p, k, vs) => At(Unchecked(r, 4), p, j, ws)
  BY NumberRead32
<1>4. PICK q : q = Unchecked(r, 4)
  OBVIOUS
<1>5. PICK w \in Nat : w = 4
  OBVIOUS
<1>6. /\ j = k + w
      /\ r.err => q = r
      /\ j <= Len(p) /\ At(r, p, k, vs) => At(q, p, j, ws)
  BY <1>2, <1>3, <1>4, <1>5
<1>7. Reads(q, p, min, j, ws)
  BY <1>1, <1>6, ReadsWithin
<1> QED BY <1>4, <1>7

LEMMA ReadsFlag ==
    ASSUME NEW r, NEW p, NEW min \in Nat, NEW k, NEW vs, Reads(r, p, min, k, vs),
           NEW b, Field(p, k, Byte(b)), NEW ok \in BOOLEAN, NEW yes, b \in yes <=> ok,
           NEW j, j = k + 1, j <= min, NEW ws, ws = Append(vs, ok)
    PROVE  Reads(Flag(r, yes), p, min, j, ws)
<1>1. k \in Nat /\ Len(p) \in Nat
  BY LenProperties DEF Field
<1>2. r.err => Flag(r, yes) = r
  BY ErrStays
<1>3. j <= Len(p) /\ At(r, p, k, vs) => At(Flag(r, yes), p, j, ws)
  BY FlagRead
<1>4. PICK q : q = Flag(r, yes)
  OBVIOUS
<1>5. 1 \in Nat
  OBVIOUS
<1> QED BY <1>1, <1>2, <1>3, <1>4, <1>5, ReadsWithin

\* What comes out in the end: f is the payload, p what was sent of it.
LEMMA ReadsAll ==
    ASSUME NEW r, NEW p, NEW min, NEW n, NEW vs, Reads(r, p, min, n, vs), n \in Nat,
           min \in Nat, min <= n, Len(p) \in Nat
    PROVE  /\ Len(p) = n => At(r, p, n, vs)
           /\ Len(p) < n => r.err
<1>1. CASE Len(p) = n
  BY <1>1 DEF Reads
<1>2. CASE Len(p) < n
  <2>1. ~(n <= Len(p))
    BY <1>2
  <2> QED BY <1>2, <2>1 DEF Reads
<1>3. CASE ~(Len(p) = n) /\ ~(Len(p) < n)
  BY <1>3
<1> QED BY <1>1, <1>2, <1>3

-----------------------------------------------------------------------------
(***************************************************************************)
(* What each parser makes of the requests                                  *)
(***************************************************************************)

\* p is what was sent of the payload f: all of it gives vals, less is refused.
Parses(r, p, f, vals) ==
    /\ Len(p) = Len(f) => \E k : At(r, p, k, vals)
    /\ Len(p) < Len(f) => r.err

LEMMA ParsesAll ==
    ASSUME NEW r, NEW p, NEW f, NEW min \in Nat, NEW n, NEW vals, Size(f, n), min <= n,
           p \in Seq(Nat), Reads(r, p, min, n, vals)
    PROVE  Parses(r, p, f, vals)
<1>1. n \in Nat /\ Len(f) = n /\ Len(p) \in Nat
  BY LenProperties DEF Size
<1>2. (Len(p) = n => At(r, p, n, vals)) /\ (Len(p) < n => r.err)
  BY <1>1, ReadsAll
<1> QED BY <1>1, <1>2 DEF Parses

LEMMA RegisterParsed ==
    ASSUME NEW u \in Text, NEW e \in Text, NEW w \in Text,
           Len(u) < Limit16, Len(e) < Limit16, Len(w) < Limit16,
           NEW p, NEW f, f = Str(u) \o Str(e) \o Str(w), Field(p, 0, f)
    PROVE  Parses(ParseRegisterReq(p), p, f, <<u, e, w>>)
<1>1. PICK a \in Nat, b \in Nat, c \in Nat : a = 2 + Len(u) /\ b = 2 + Len(e) /\ c = 2 + Len(w)
  <2>1. Len(u) \in Nat /\ Len(e) \in Nat /\ Len(w) \in Nat
    BY SizeText DEF Size
  <2>2. 2 + Len(u) \in Nat /\ 2 + Len(e) \in Nat /\ 2 + Len(w) \in Nat
    BY <2>1
  <2> QED BY <2>2
<1>2. Size(Str(u), a) /\ Size(Str(e), b) /\ Size(Str(w), c)
  BY <1>1, SizeStr
<1>3. /\ Field(p, 0, Str(u)) /\ Field(p, 0 + a, Str(e)) /\ Field(p, 0 + (a + b), Str(w))
      /\ Size(f, (a + b) + c)
  BY <1>2, Fields3
<1>4. p \in Seq(Nat)
  BY DEF Field
<1>5. PICK n : n = (a + b) + c
  OBVIOUS
<1>6. 0 + a = a /\ 0 + (a + b) = a + b /\ 6 <= n /\ 6 \in Nat
  <2>1. a >= 2 /\ b >= 2 /\ c >= 2
    <3>1. Len(u) \in Nat /\ Len(e) \in Nat /\ Len(w) \in Nat
      BY SizeText DEF Size
    <3> QED BY <1>1, <3>1
  <2> QED BY <1>5, <2>1
<1>7. PICK m \in Nat : m = 6
  OBVIOUS
<1>8. PICK q : q = Start(p, m)
  OBVIOUS
<1>9. Reads(q, p, m, 0, <<>>)
  BY <1>4, <1>8, ReadsStart
<1>10. Reads(ReadStr(q), p, m, 0 + a, <<u>>)
  BY <1>1, <1>3, <1>9, Tuple1, ReadsStr
<1>11. Reads(ReadStr(ReadStr(q)), p, m, a + b, <<u, e>>)
  <2>1. Reads(ReadStr(q), p, m, a, <<u>>) /\ Field(p, a, Str(e))
    BY <1>3, <1>6, <1>10
  <2> QED BY <1>1, <2>1, Tuple2, ReadsStr
<1>12. Reads(ReadStr(ReadStr(ReadStr(q))), p, m, n, <<u, e, w>>)
  <2>1. Field(p, a + b, Str(w))
    BY <1>3, <1>6
  <2> QED BY <1>1, <1>5, <1>11, <2>1, Tuple3, ReadsStr
<1>13. ParseRegisterReq(p) = ReadStr(ReadStr(ReadStr(q)))
  BY <1>7, <1>8 DEF ParseRegisterReq
<1> QED BY <1>3, <1>4, <1>5, <1>6, <1>7, <1>12, <1>13, ParsesAll

\* Two strings: a login, or a registration in which the email was left out.
LEMMA TwoStrings ==
    ASSUME NEW u \in Text, NEW w \in Text, Len(u) < Limit16, Len(w) < Limit16,
           NEW p, NEW f, f = Str(u) \o Str(w), Field(p, 0, f), NEW min \in Nat
    PROVE  \E n \in Nat : /\ Size(f, n) /\ 4 <= n
                          /\ Reads(ReadStr(ReadStr(Start(p, min))), p, min, n, <<u, w>>)
<1>1. PICK a \in Nat, c \in Nat : a = 2 + Len(u) /\ c = 2 + Len(w) /\ a >= 2 /\ c >= 2
  <2>1. Len(u) \in Nat /\ Len(w) \in Nat
    BY SizeText DEF Size
  <2>2. 2 + Len(u) \in Nat /\ 2 + Len(w) \in Nat /\ 2 + Len(u) >= 2 /\ 2 + Len(w) >= 2
    BY <2>1
  <2> QED BY <2>2
<1>2. Size(Str(u), a) /\ Size(Str(w), c)
  BY <1>1, SizeStr
<1>3. Field(p, 0, Str(u)) /\ Field(p, 0 + a, Str(w)) /\ Size(f, a + c)
  BY <1>2, Fields2
<1>4. p \in Seq(Nat)
  BY DEF Field
<1>5. 0 + a = a /\ a + c \in Nat /\ 4 <= a + c
  BY <1>1
<1>6. PICK q : q = Start(p, min)
  OBVIOUS
<1>7. Reads(q, p, min, 0, <<>>)
  BY <1>4, <1>6, ReadsStart
<1>8. Reads(ReadStr(q), p, min, 0 + a, <<u>>)
  BY <1>1, <1>3, <1>7, Tuple1, ReadsStr
<1>9. Reads(ReadStr(ReadStr(q)), p, min, a + c, <<u, w>>)
  <2>1. Reads(ReadStr(q), p, min, a, <<u>>) /\ Field(p, a, Str(w))
    BY <1>3, <1>5, <1>8
  <2> QED BY <1>1, <2>1, Tuple2, ReadsStr
<1> QED BY <1>3, <1>5, <1>6, <1>9

LEMMA LoginParsed ==
    ASSUME NEW u \in Text, NEW w \in Text, Len(u) < Limit16, Len(w) < Limit16,
           NEW p, NEW f, f = Str(u) \o Str(w), Field(p, 0, f)
    PROVE  Parses(ParseLoginReq(p), p, f, <<u, w>>)
<1>1. PICK m \in Nat : m = 4
  OBVIOUS
<1>2. PICK n \in Nat : /\ Size(f, n) /\ 4 <= n
                       /\ Reads(ReadStr(ReadStr(Start(p, m))), p, m, n, <<u, w>>)
  BY TwoStrings
<1>3. ParseLoginReq(p) = ReadStr(ReadStr(Start(p, m)))
  BY <1>1 DEF ParseLoginReq
<1>4. p \in Seq(Nat)
  BY DEF Field
<1> QED BY <1>1, <1>2, <1>3, <1>4, ParsesAll

\* The third string is missing, whether the payload is complete or not.
LEMMA NoEmailRefused ==
    ASSUME NEW u \in Text, NEW w \in Text, Len(u) < Limit16, Len(w) < Limit16,
           NEW p, NEW f, f = Str(u) \o Str(w), Field(p, 0, f), Len(p) <= Len(f)
    PROVE  ParseRegisterReq(p).err
<1>1. PICK m \in Nat : m = 6
  OBVIOUS
<1>2. PICK q : q = ReadStr(ReadStr(Start(p, m)))
  OBVIOUS
<1>3. PICK n \in Nat : Size(f, n) /\ Reads(q, p, m, n, <<u, w>>)
  BY <1>2, TwoStrings
<1>4. p \in Seq(Nat) /\ Len(p) \in Nat
  BY LenProperties DEF Field
<1>5. ParseRegisterReq(p) = ReadStr(q)
  BY <1>1, <1>2 DEF ParseRegisterReq
<1>6. CASE m <= Len(p) /\ n <= Len(p)
  <2>1. At(q, p, n, <<u, w>>)
    BY <1>3, <1>6 DEF Reads
  <2>2. n = Len(p)
    BY <1>3, <1>4, <1>6 DEF Size
  <2> QED BY <1>4, <1>5, <2>1, <2>2, NoString
<1>7. CASE ~(m <= Len(p) /\ n <= Len(p))
  <2>1. q.err
    BY <1>3, <1>7 DEF Reads
  <2> QED BY <1>5, <2>1, ErrStays
<1> QED BY <1>6, <1>7

LEMMA OfferParsed ==
    ASSUME NEW i \in Nat, NEW s \in Text, NEW t \in Text, NEW j \in Nat, NEW c \in Nat,
           i < Limit64, Len(s) < Limit16, Len(t) < Limit16, j < Limit64, c < Limit32,
           NEW p, NEW f, f = FileOfferReq(i, s, t, j, c), Field(p, 0, f)
    PROVE  Parses(ParseFileOfferReq(p), p, f, <<i, s, t, j, c>>)
<1>1. PICK a \in Nat, b \in Nat : a = 2 + Len(s) /\ b = 2 + Len(t) /\ a >= 2 /\ b >= 2
  <2>1. Len(s) \in Nat /\ Len(t) \in Nat
    BY SizeText DEF Size
  <2>2. 2 + Len(s) \in Nat /\ 2 + Len(t) \in Nat /\ 2 + Len(s) >= 2 /\ 2 + Len(t) >= 2
    BY <2>1
  <2> QED BY <2>2
<1>2. PICK k8 \in Nat, k4 \in Nat, m \in Nat : k8 = 8 /\ k4 = 4 /\ m = 14
  OBVIOUS
<1>3. /\ Size(U64(i), k8) /\ Size(Str(s), a) /\ Size(Str(t), b) /\ Size(U64(j), k8)
      /\ Size(U32(c), k4)
  BY <1>1, <1>2, SizeStr, SizeU64, SizeU32
<1>4. PICK g : g = U64(i) \o Str(s) \o Str(t)
  OBVIOUS
<1>5. f = g \o U64(j) \o U32(c)
  BY <1>4 DEF FileOfferReq
<1>6. Size(g, (k8 + a) + b)
  BY <1>3, <1>4, SizeCat
<1>7. PICK d \in Nat : d = (k8 + a) + b
  <2>1. (k8 + a) + b \in Nat
    BY <1>1, <1>2
  <2> QED BY <2>1
<1>8. /\ Field(p, 0, g) /\ Field(p, 0 + d, U64(j)) /\ Field(p, 0 + (d + k8), U32(c))
      /\ Size(f, (d + k8) + k4)
  <2>1. Size(g, d) /\ Field(p, 0, g \o U64(j) \o U32(c))
    BY <1>5, <1>6, <1>7
  <2>2. /\ Field(p, 0, g) /\ Field(p, 0 + d, U64(j)) /\ Field(p, 0 + (d + k8), U32(c))
        /\ Size(g \o U64(j) \o U32(c), (d + k8) + k4)
    BY <1>3, <2>1, Fields3
  <2> QED BY <1>5, <2>2
<1>9. Field(p, 0, U64(i)) /\ Field(p, 0 + k8, Str(s)) /\ Field(p, 0 + (k8 + a), Str(t))
  BY <1>3, <1>4, <1>8, Fields3
<1>10. p \in Seq(Nat)
  BY DEF Field
<1>11. PICK n : n = (d + k8) + k4
  OBVIOUS
<1>12. /\ 0 + k8 = k8 /\ 0 + (k8 + a) = k8 + a /\ 0 + d = d /\ 0 + (d + k8) = d + k8
       /\ m <= n
  BY <1>1, <1>2, <1>7, <1>11
<1>13. PICK q : q = Start(p, m)
  OBVIOUS
<1>14. Reads(q, p, m, 0, <<>>)
  BY <1>10, <1>13, ReadsStart
<1>15. PICK q1 : q1 = Checked(q, 8)
  OBVIOUS
<1>16. Reads(q1, p, m, k8, <<i>>)
  <2>1. k8 = 0 + 8
    BY <1>2
  <2> QED BY <1>9, <1>14, <1>15, <2>1, Tuple1, Reads64
<1>17. Reads(ReadStr(q1), p, m, k8 + a, <<i, s>>)
  <2>1. Field(p, k8, Str(s))
    BY <1>9, <1>12
  <2> QED BY <1>1, <1>16, <2>1, Tuple2, ReadsStr
<1>18. PICK q3 : q3 = ReadStr(ReadStr(q1))
  OBVIOUS
<1>19. Reads(q3, p, m, d, <<i, s, t>>)
  <2>1. Field(p, k8 + a, Str(t))
    BY <1>9, <1>12
  <2> QED BY <1>1, <1>7, <1>17, <1>18, <2>1, Tuple3, ReadsStr
<1>20. PICK q4 : q4 = Checked(q3, 8)
  OBVIOUS
<1>21. Reads(q4, p, m, d + k8, <<i, s, t, j>>)
  <2>1. Field(p, d, U64(j)) /\ d + k8 = d + 8
    BY <1>2, <1>8, <1>12
  <2> QED BY <1>19, <1>20, <2>1, Tuple4, Reads64
<1>22. Reads(Checked(q4, 4), p, m, n, <<i, s, t, j, c>>)
  <2>1. Field(p, d + k8, U32(c)) /\ n = (d + k8) + 4
    BY <1>2, <1>8, <1>11, <1>12
  <2> QED BY <1>21, <2>1, Tuple5, Reads32
<1>23. ParseFileOfferReq(p) = Checked(q4, 4)
  BY <1>2, <1>13, <1>15, <1>18, <1>20 DEF ParseFileOfferReq
<1> QED BY <1>8, <1>10, <1>11, <1>12, <1>22, <1>23, ParsesAll

LEMMA AcceptParsed ==
    ASSUME NEW i \in Nat, i < Limit64, NEW ok \in BOOLEAN,
           NEW p, NEW f, f = FileAcceptReq(i, ok), Field(p, 0, f)
    PROVE  Parses(ParseFileAcceptReq(p), p, f, <<i, ok>>)
<1>1. PICK k8 \in Nat, k1 \in Nat, m \in Nat : k8 = 8 /\ k1 = 1 /\ m = 9
  OBVIOUS
<1>2. PICK b : b = IF ok THEN 1 ELSE 0
  OBVIOUS
<1>3. Size(U64(i), k8) /\ Size(Byte(b), k1)
  BY <1>1, <1>2, SizeU64, Flags
<1>4. f = U64(i) \o Byte(b)
  BY <1>2 DEF FileAcceptReq
<1>5. Field(p, 0, U64(i)) /\ Field(p, 0 + k8, Byte(b)) /\ Size(f, k8 + k1)
  <2>1. Field(p, 0, U64(i) \o Byte(b))
    BY <1>4
  <2>2. /\ Field(p, 0, U64(i)) /\ Field(p, 0 + k8, Byte(b))
        /\ Size(U64(i) \o Byte(b), k8 + k1)
    BY <1>3, <2>1, Fields2
  <2> QED BY <1>4, <2>2
<1>6. p \in Seq(Nat)
  BY DEF Field
<1>7. k8 = 0 + 8 /\ 0 + k8 = k8 /\ k8 <= m /\ m = k8 + 1 /\ m = k8 + k1 /\ m <= m
  BY <1>1
<1>8. PICK q : q = Start(p, m)
  OBVIOUS
<1>9. Reads(q, p, m, 0, <<>>)
  BY <1>6, <1>8, ReadsStart
<1>10. PICK q1 : q1 = Unchecked(q, 8)
  OBVIOUS
<1>11. Reads(q1, p, m, k8, <<i>>)
  BY <1>5, <1>7, <1>9, <1>10, Tuple1, ReadsUnchecked64
<1>12. Field(p, k8, Byte(b)) /\ (b \in {1} <=> ok)
  BY <1>2, <1>5, <1>7
<1>13. Reads(Flag(q1, {1}), p, m, m, <<i, ok>>)
  BY <1>7, <1>11, <1>12, Tuple2, ReadsFlag
<1>14. ParseFileAcceptReq(p) = Flag(q1, {1})
  BY <1>1, <1>8, <1>10 DEF ParseFileAcceptReq
<1> QED BY <1>5, <1>6, <1>7, <1>13, <1>14, ParsesAll

\* The first two numbers of FILE_CHUNK and FILE_DONE.
LEMMA TwoNumbers ==
    ASSUME NEW i \in Nat, NEW j \in Nat, i < Limit64, j < Limit32, NEW d, NEW l, Size(d, l),
           NEW p, NEW f, f = U64(i) \o U32(j) \o d, Field(p, 0, f),
           NEW min \in Nat, 12 <= min
    PROVE  /\ Reads(Unchecked(Unchecked(Start(p, min), 8), 4), p, min, 12, <<i, j>>)
           /\ Field(p, 12, d) /\ Size(f, 12 + l)
<1>1. PICK k8 \in Nat, k4 \in Nat, t \in Nat : k8 = 8 /\ k4 = 4 /\ t = 12
  OBVIOUS
<1>2. Size(U64(i), k8) /\ Size(U32(j), k4)
  BY <1>1, SizeU64, SizeU32
<1>3. /\ Field(p, 0, U64(i)) /\ Field(p, 0 + k8, U32(j)) /\ Field(p, 0 + (k8 + k4), d)
      /\ Size(f, (k8 + k4) + l)
  BY <1>2, Fields3
<1>4. /\ k8 = 0 + 8 /\ 0 + k8 = k8 /\ k8 <= min /\ t = k8 + 4 /\ t <= min
      /\ 0 + (k8 + k4) = t /\ k8 + k4 = t
  BY <1>1
<1>5. p \in Seq(Nat)
  BY DEF Field
<1>6. PICK q : q = Start(p, min)
  OBVIOUS
<1>7. Reads(q, p, min, 0, <<>>)
  BY <1>5, <1>6, ReadsStart
<1>8. PICK q1 : q1 = Unchecked(q, 8)
  OBVIOUS
<1>9. Reads(q1, p, min, k8, <<i>>)
  BY <1>3, <1>4, <1>7, <1>8, Tuple1, ReadsUnchecked64
<1>10. Field(p, k8, U32(j)) /\ Field(p, t, d) /\ Size(f, t + l)
  BY <1>3, <1>4
<1>11. Reads(Unchecked(q1, 4), p, min, t, <<i, j>>)
  BY <1>4, <1>9, <1>10, Tuple2, ReadsUnchecked32
<1> QED BY <1>1, <1>6, <1>8, <1>10, <1>11

\* FILE_DONE: file_size is read behind the end when up to four bytes are missing.
LEMMA DoneParsed ==
    ASSUME NEW i \in Nat, NEW j \in Nat, NEW n \in Nat, i < Limit64, j < Limit32, n < Limit64,
           NEW p, NEW f, f = FileDone(i, j, n), Field(p, 0, f), NEW r, r = ParseFileDone(p)
    PROVE  /\ Size(f, 20)
           /\ Len(p) = 20 => \E k : At(r, p, k, <<i, j, n>>)
           /\ Len(p) < 16 => r.err
           /\ 16 <= Len(p) => r.vals[1] = i /\ r.vals[2] = j
<1>1. PICK k8 \in Nat, k12 \in Nat, m \in Nat : k8 = 8 /\ k12 = 12 /\ m = 16
  OBVIOUS
<1>2. f = U64(i) \o U32(j) \o U64(n) /\ Size(U64(n), k8)
  BY <1>1, SizeU64 DEF FileDone
<1>3. PICK q : q = Unchecked(Unchecked(Start(p, m), 8), 4)
  OBVIOUS
<1>4. 12 <= m
  BY <1>1
<1>5. Reads(q, p, m, 12, <<i, j>>) /\ Field(p, 12, U64(n)) /\ Size(f, 12 + k8)
  BY <1>2, <1>3, <1>4, TwoNumbers
<1>6. 12 + k8 = 20
  BY <1>1
<1>7. r = Unchecked(q, 8)
  BY <1>1, <1>3 DEF ParseFileDone
<1>8. Len(p) \in Nat
  BY LenProperties DEF Field
<1>9. CASE 16 <= Len(p)
  <2>1. m <= Len(p) /\ 12 <= Len(p) /\ ~(Len(p) < 16)
    BY <1>1, <1>8, <1>9
  <2>2. At(q, p, 12, <<i, j>>)
    BY <1>5, <2>1 DEF Reads
  <2>3. /\ 12 + 8 <= Len(p) => At(r, p, 12 + 8, <<i, j, n>>)
        /\ ~(12 + 8 <= Len(p)) => r.vals = <<i, j, -1>>
    <3>1. PICK vs, k : vs = <<i, j>> /\ k = 12
      OBVIOUS
    <3>2. At(q, p, k, vs) /\ Field(p, k, U64(n))
      BY <1>5, <2>2, <3>1
    <3>3. /\ k + 8 <= Len(p) => At(r, p, k + 8, Append(vs, n))
          /\ ~(k + 8 <= Len(p)) => r.vals = Append(vs, -1)
      BY <1>7, <3>2, NumberRead64
    <3>4. Append(vs, n) = <<i, j, n>> /\ Append(vs, -1) = <<i, j, -1>>
      BY <3>1, Tuple3
    <3> QED BY <3>1, <3>3, <3>4
  <2>4. Len(p) = 20 => 12 + 8 <= Len(p)
    BY <1>8
  <2>5. r.vals = <<i, j, n>> \/ r.vals = <<i, j, -1>>
    BY <2>3 DEF At
  <2>6. r.vals[1] = i /\ r.vals[2] = j
    BY <2>5
  <2> QED BY <1>5, <1>6, <2>1, <2>3, <2>4, <2>6
<1>10. CASE ~(16 <= Len(p))
  <2>1. ~(m <= Len(p))
    BY <1>1, <1>10
  <2>2. q.err
    BY <1>5, <2>1 DEF Reads
  <2>3. r.err
    BY <1>7, <2>2, ErrStays
  <2>4. Len(p) # 20
    <3>1. PICK l \in Nat : l = Len(p)
      BY <1>8
    <3>2. l # 20
      BY <1>10, <3>1
    <3> QED BY <3>1, <3>2
  <2> QED BY <1>5, <1>6, <1>10, <2>3, <2>4
<1> QED BY <1>9, <1>10

LEMMA ChunkParsed ==
    ASSUME NEW i \in Nat, NEW j \in Nat, i < Limit64, j < Limit32, NEW d \in Text,
           NEW p, NEW f, f = FileChunk(i, j, d), Field(p, 0, f), Len(p) <= Len(f),
           NEW r, r = ParseFileChunk(p)
    PROVE  \/ Len(p) < Len(f) /\ r.err
           \/ \E k, t : /\ At(r, p, k, <<i, j, t>>)
                        /\ IsPrefixOf(t, d)
                        /\ Len(p) = Len(f) => t = d
<1>1. PICK m \in Nat : m = 12
  OBVIOUS
<1>2. PICK l \in Nat : Size(d, l) /\ Len(d) = l
  BY SizeText DEF Size
<1>3. f = U64(i) \o U32(j) \o d
  BY DEF FileChunk
<1>4. PICK q : q = Unchecked(Unchecked(Start(p, m), 8), 4)
  OBVIOUS
<1>5. 12 <= m
  BY <1>1
<1>6. Reads(q, p, m, 12, <<i, j>>) /\ Field(p, 12, d) /\ Size(f, 12 + l)
  BY <1>2, <1>3, <1>4, <1>5, TwoNumbers
<1>7. r = Rest(q)
  BY <1>1, <1>4 DEF ParseFileChunk
<1>8. Len(p) \in Nat /\ Len(f) = 12 + l
  BY <1>6, LenProperties DEF Field, Size
<1>9. CASE m <= Len(p)
  <2>1. At(q, p, 12, <<i, j>>)
    BY <1>1, <1>6, <1>9 DEF Reads
  <2>2. 12 <= Len(p) /\ Len(p) <= 12 + Len(d)
    BY <1>1, <1>2, <1>8, <1>9
  <2>3. PICK t : /\ At(r, p, Len(p), Append(<<i, j>>, t))
                 /\ IsPrefixOf(t, d)
                 /\ Len(p) = 12 + Len(d) => t = d
    BY <1>6, <1>7, <2>1, <2>2, RestRead
  <2>4. Append(<<i, j>>, t) = <<i, j, t>>
    BY Tuple3
  <2> QED BY <1>2, <1>8, <2>3, <2>4
<1>10. CASE ~(m <= Len(p))
  <2>1. q.err
    BY <1>6, <1>10 DEF Reads
  <2>2. Len(p) < Len(f)
    BY <1>1, <1>2, <1>8, <1>10
  <2> QED BY <1>7, <2>1, <2>2, ErrStays
<1> QED BY <1>9, <1>10

LEMMA HelloParsed ==
    ASSUME NEW s \in Text, NEW p, Field(p, 0, s), Len(p) <= Len(s), NEW r, r = ParseHello(p)
    PROVE  \E k, t : /\ At(r, p, k, <<t>>)
                     /\ IsPrefixOf(t, s)
                     /\ Len(p) = Len(s) => t = s
<1>1. Len(s) \in Nat
  BY SizeText DEF Size
<1>2. p \in Seq(Nat) /\ Len(p) \in Nat
  BY LenProperties DEF Field
<1>3. PICK z \in Nat : z = 0
  OBVIOUS
<1>q. PICK q : q = Start(p, z)
  OBVIOUS
<1>4. At(q, p, z, <<>>)
  <2>1. z <= Len(p)
    BY <1>2, <1>3
  <2>2. At(q, p, 0, <<>>)
    BY <1>2, <1>3, <1>q, <2>1, StartAt
  <2> QED BY <1>3, <2>2
<1>5. z <= Len(p) /\ Len(p) <= z + Len(s) /\ z + Len(s) = Len(s)
  BY <1>1, <1>2, <1>3
<1>v. PICK vs : vs = <<>>
  OBVIOUS
<1>6. PICK t : /\ At(Rest(q), p, Len(p), Append(vs, t))
               /\ IsPrefixOf(t, s)
               /\ Len(p) = z + Len(s) => t = s
  <2>1. Field(p, z, s) /\ z <= Len(p) /\ Len(p) <= z + Len(s) /\ At(q, p, z, vs)
    BY <1>3, <1>4, <1>5, <1>v
  <2> QED BY <2>1, RestRead
<1>7. r = Rest(q)
  BY <1>3, <1>q DEF ParseHello
<1>8. Append(vs, t) = <<t>>
  BY <1>v, Tuple1
<1> QED BY <1>5, <1>6, <1>7, <1>8

-----------------------------------------------------------------------------
(***************************************************************************)
(* Requests, complete and cut                                              *)
(***************************************************************************)

\* The parser's result r holds the wanted values.
Clean(r, wanted) == ~r.err /\ ~r.over /\ Agrees(r.vals, wanted)

\* What CutRefused says of the message m and the parser's result r.
CutOk(m, r) ==
    \/ r.err
    \/ /\ m.type = MsgType.HELLO
       /\ IsPrefixOf(r.vals[1], m.vals[1])
    \/ /\ m.type = MsgType.FILE_CHUNK
       /\ r.vals[1] = m.vals[1] /\ r.vals[2] = m.vals[2]
       /\ IsPrefixOf(r.vals[3], m.vals[3]) /\ ~r.over
    \/ /\ m.type = MsgType.FILE_DONE /\ m.cut <= 4
       /\ r.vals[1] = m.vals[1] /\ r.vals[2] = m.vals[2]

\* What is to be shown of a request and the result of its parser.
RequestOk(m, r) ==
    /\ m.cut = 0 => IF NoEmail(m) THEN r.err ELSE Clean(r, m.vals)
    /\ m.cut > 0 => CutOk(m, r)

LEMMA CleanAt ==
    ASSUME NEW r, NEW p, NEW k, NEW vals, At(r, p, k, vals), IsSeq(vals)
    PROVE  Clean(r, vals)
<1>1. Agrees(vals, vals)
  BY AgreesItself
<1>2. ~r.err /\ ~r.over /\ r.vals = vals
  BY DEF At
<1> QED BY <1>1, <1>2 DEF Clean

LEMMA Tuples ==
    ASSUME NEW a, NEW b, NEW c, NEW d, NEW e
    PROVE  /\ IsSeq(<<>>) /\ IsSeq(<<a>>) /\ IsSeq(<<a, b>>) /\ IsSeq(<<a, b, c>>)
           /\ IsSeq(<<a, b, c, d, e>>)
<1>1. PICK S : S = {a, b, c, d, e}
  OBVIOUS
<1>2. /\ <<>> \in Seq(S) /\ <<a>> \in Seq(S) /\ <<a, b>> \in Seq(S) /\ <<a, b, c>> \in Seq(S)
      /\ <<a, b, c, d, e>> \in Seq(S)
  BY <1>1
<1> QED BY <1>2 DEF IsSeq

\* A message that was written for somebody, its payload f and what was sent, p.
SentAs(m, f, p) ==
    /\ m.cut \in Nat /\ Field(p, 0, f) /\ Len(p) \in Nat /\ Len(f) \in Nat
    /\ Len(p) = Len(f) - m.cut

LEMMA SentField ==
    ASSUME NEW m, Request(m) \/ Reply(m), m.cut \in Nat, m.cut <= Len(Payload(m))
    PROVE  SentAs(m, Payload(m), Sent(m))
<1>1. PICK f : f = Payload(m)
  OBVIOUS
<1>2. f \in Seq(Nat) /\ Len(f) \in Nat
  BY <1>1, RequestCarried, ReplyCarried DEF Carried
<1>3. Len(f) - m.cut \in Nat /\ Len(f) - m.cut <= Len(f)
  BY <1>1, <1>2
<1>4. PICK n \in Nat : n = Len(f) - m.cut /\ n <= Len(f)
  BY <1>3
<1>5. PICK p : p = SubSeq(f, 1, n)
  OBVIOUS
<1>6. Field(p, 0, f) /\ Len(p) = n
  <2>1. f \in Seq(Nat) /\ n \in Nat /\ n <= Len(f)
    BY <1>2, <1>4
  <2> QED BY <2>1, <1>5, FieldWhole
<1>7. p = Sent(m)
  BY <1>1, <1>4, <1>5 DEF Sent
<1> QED BY <1>1, <1>2, <1>4, <1>6, <1>7 DEF SentAs

LEMMA ParsesOk ==
    ASSUME NEW m, NEW f, NEW p, NEW r, NEW vals, SentAs(m, f, p), Parses(r, p, f, vals),
           IsSeq(vals), vals = m.vals, ~NoEmail(m)
    PROVE  RequestOk(m, r)
<1>1. CASE m.cut = 0
  <2>1. Len(p) = Len(f)
    BY <1>1 DEF SentAs
  <2>2. PICK k : At(r, p, k, vals)
    BY <2>1 DEF Parses
  <2>3. Clean(r, vals) /\ ~(m.cut > 0)
    BY <1>1, <2>2, CleanAt
  <2> QED BY <2>3 DEF RequestOk
<1>2. CASE ~(m.cut = 0)
  <2>1. Len(p) < Len(f)
    BY <1>2 DEF SentAs
  <2>2. r.err
    BY <2>1 DEF Parses
  <2> QED BY <1>2, <2>2 DEF RequestOk, CutOk
<1> QED BY <1>1, <1>2

LEMMA ParseIs ==
    ASSUME NEW by, NEW p
    PROVE  /\ Parse(by, MsgType.HELLO, p) = ParseHello(p)
           /\ Parse(by, MsgType.REGISTER_REQ, p) = ParseRegisterReq(p)
           /\ Parse(by, MsgType.LOGIN_REQ, p) = ParseLoginReq(p)
           /\ Parse(by, MsgType.REGISTER_RESP, p) =
                IF by = "gateway" THEN PyParseRegisterResp(p) ELSE CppParseRegisterResp(p)
           /\ Parse(by, MsgType.LOGIN_RESP, p) =
                IF by = "gateway" THEN PyParseLoginResp(p) ELSE CppParseLoginResp(p)
           /\ Parse(by, MsgType.ONLINE_LIST_RESP, p) = PyParseOnlineList(p)
           /\ Parse(by, MsgType.FILE_OFFER_REQ, p) = ParseFileOfferReq(p)
           /\ Parse(by, MsgType.FILE_OFFER_RESP, p) = ParseFileOfferResp(p)
           /\ Parse(by, MsgType.FILE_ACCEPT_REQ, p) = ParseFileAcceptReq(p)
           /\ Parse(by, MsgType.FILE_ACCEPT_RESP, p) = ParseFileAcceptResp(p)
           /\ Parse(by, MsgType.FILE_CHUNK, p) = ParseFileChunk(p)
           /\ Parse(by, MsgType.FILE_DONE, p) = ParseFileDone(p)
           /\ Parse(by, MsgType.FILE_RESULT, p) = ParseFileResult(p)
BY DEF Parse, MsgType

LEMMA ShortStrings ==
    ASSUME NEW m, Short(m)
    PROVE  /\ m.type = MsgType.REGISTER_REQ =>
                /\ Len(m.vals[1]) < Limit16 /\ Len(m.vals[2]) < Limit16
                /\ Len(m.vals[3]) < Limit16
           /\ m.type = MsgType.LOGIN_REQ =>
                Len(m.vals[1]) < Limit16 /\ Len(m.vals[2]) < Limit16
           /\ m.type = MsgType.FILE_OFFER_REQ =>
                Len(m.vals[2]) < Limit16 /\ Len(m.vals[3]) < Limit16
<1>1. /\ m.type = MsgType.REGISTER_REQ => Strings(m) = {m.vals[1], m.vals[2], m.vals[3]}
      /\ m.type = MsgType.LOGIN_REQ => Strings(m) = {m.vals[1], m.vals[2]}
      /\ m.type = MsgType.FILE_OFFER_REQ => Strings(m) = {m.vals[2], m.vals[3]}
  BY DEF Strings, MsgType
<1>2. \A s \in Strings(m) : Len(s) < Limit16
  BY DEF Short, PyFits
<1> QED BY <1>1, <1>2

LEMMA RegisterOk ==
    ASSUME NEW m, m.type = MsgType.REGISTER_REQ, NEW u \in Text, NEW e \in Text, NEW w \in Text,
           m.vals = <<u, e, w>>, Short(m), NEW p, SentAs(m, Payload(m), p)
    PROVE  RequestOk(m, ParseRegisterReq(p))
<1>1. m.vals[1] = u /\ m.vals[2] = e /\ m.vals[3] = w
  OBVIOUS
<1>2. Len(u) < Limit16 /\ Len(e) < Limit16 /\ Len(w) < Limit16
  BY <1>1, ShortStrings
<1>3. Payload(m) = IF m.by = "py" THEN AuthPayload(u, e, w) ELSE RegisterReq(u, e, w)
  BY <1>1, PayloadIs
<1>4. CASE NoEmail(m)
  <2>1. m.by = "py" /\ e = <<>>
    BY <1>1, <1>4 DEF NoEmail
  <2>2. Payload(m) = Str(u) \o <<>> \o Str(w)
    BY <1>3, <2>1 DEF AuthPayload
  <2>3. Str(u) \o <<>> = Str(u)
    BY SizeStr, Nothing DEF Size
  <2>4. PICK f : f = Payload(m)
    OBVIOUS
  <2>5. f = Str(u) \o Str(w) /\ Field(p, 0, f) /\ Len(p) <= Len(f)
    BY <2>2, <2>3, <2>4 DEF SentAs
  <2>6. ParseRegisterReq(p).err
    BY <1>2, <2>5, NoEmailRefused
  <2> QED BY <1>4, <2>6 DEF RequestOk, CutOk
<1>5. CASE ~NoEmail(m)
  <2>1. Payload(m) = Str(u) \o Str(e) \o Str(w)
    BY <1>1, <1>3, <1>5 DEF NoEmail, AuthPayload, RegisterReq
  <2>2. PICK f : f = Payload(m)
    OBVIOUS
  <2>3. f = Str(u) \o Str(e) \o Str(w) /\ Field(p, 0, f) /\ SentAs(m, f, p)
    BY <2>1, <2>2 DEF SentAs
  <2>4. Parses(ParseRegisterReq(p), p, f, <<u, e, w>>)
    BY <1>2, <2>3, RegisterParsed
  <2>5. IsSeq(<<u, e, w>>)
    BY Tuples
  <2> QED BY <1>5, <2>3, <2>4, <2>5, ParsesOk
<1> QED BY <1>4, <1>5

LEMMA LoginOk ==
    ASSUME NEW m, m.type = MsgType.LOGIN_REQ, NEW u \in Text, NEW w \in Text,
           m.vals = <<u, w>>, Short(m), NEW p, SentAs(m, Payload(m), p)
    PROVE  RequestOk(m, ParseLoginReq(p))
<1>1. m.vals[1] = u /\ m.vals[2] = w
  OBVIOUS
<1>2. Len(u) < Limit16 /\ Len(w) < Limit16
  BY <1>1, ShortStrings
<1>3. Payload(m) = IF m.by = "py" THEN AuthPayload(u, <<>>, w) ELSE LoginReq(u, w)
  BY <1>1, PayloadIs
<1>4. Str(u) \o <<>> = Str(u)
  BY SizeStr, Nothing DEF Size
<1>5. Payload(m) = Str(u) \o Str(w)
  BY <1>3, <1>4 DEF AuthPayload, LoginReq
<1>6. PICK f : f = Payload(m)
  OBVIOUS
<1>7. f = Str(u) \o Str(w) /\ Field(p, 0, f) /\ SentAs(m, f, p)
  BY <1>5, <1>6 DEF SentAs
<1>8. Parses(ParseLoginReq(p), p, f, <<u, w>>)
  BY <1>2, <1>7, LoginParsed
<1>9. IsSeq(<<u, w>>)
  BY Tuples
<1>e. ~NoEmail(m)
  BY DEF NoEmail, MsgType
<1> QED BY <1>e, <1>7, <1>8, <1>9, ParsesOk

LEMMA OfferOk ==
    ASSUME NEW m, m.type = MsgType.FILE_OFFER_REQ, NEW s \in Text, NEW t \in Text,
           NEW j \in BigNums, NEW c \in Nums,
           m.vals = <<0, s, t, j, c>>, Short(m), NEW p, SentAs(m, Payload(m), p)
    PROVE  RequestOk(m, ParseFileOfferReq(p))
<1>1. PICK i \in Nat : i = 0
  OBVIOUS
<1>2. m.vals = <<i, s, t, j, c>> /\ i < Limit64
  BY <1>1, Limits
<1>3. m.vals[1] = i /\ m.vals[2] = s /\ m.vals[3] = t /\ m.vals[4] = j /\ m.vals[5] = c
  BY <1>2
<1>4. Len(s) < Limit16 /\ Len(t) < Limit16
  BY <1>3, ShortStrings
<1>5. j \in Nat /\ j < Limit64 /\ c \in Nat /\ c < Limit32
  BY NumsNat, BigNumsNat
<1>6. Payload(m) = FileOfferReq(i, s, t, j, c)
  BY <1>3, PayloadIs
<1>7. PICK f : f = Payload(m)
  OBVIOUS
<1>8. f = FileOfferReq(i, s, t, j, c) /\ Field(p, 0, f) /\ SentAs(m, f, p)
  BY <1>6, <1>7 DEF SentAs
<1>9. Parses(ParseFileOfferReq(p), p, f, <<i, s, t, j, c>>)
  BY <1>2, <1>4, <1>5, <1>8, OfferParsed
<1>10. IsSeq(<<i, s, t, j, c>>)
  BY Tuples
<1>e. ~NoEmail(m)
  BY DEF NoEmail, MsgType
<1> QED BY <1>e, <1>2, <1>8, <1>9, <1>10, ParsesOk

LEMMA AcceptOk ==
    ASSUME NEW m, m.type = MsgType.FILE_ACCEPT_REQ, NEW i \in BigNums, NEW ok \in BOOLEAN,
           m.vals = <<i, ok>>, NEW p, SentAs(m, Payload(m), p)
    PROVE  RequestOk(m, ParseFileAcceptReq(p))
<1>1. m.vals[1] = i /\ m.vals[2] = ok
  OBVIOUS
<1>2. i \in Nat /\ i < Limit64
  BY NumsNat, BigNumsNat
<1>3. Payload(m) = FileAcceptReq(i, ok)
  BY <1>1, PayloadIs
<1>4. PICK f : f = Payload(m)
  OBVIOUS
<1>5. f = FileAcceptReq(i, ok) /\ Field(p, 0, f) /\ SentAs(m, f, p)
  BY <1>3, <1>4 DEF SentAs
<1>6. Parses(ParseFileAcceptReq(p), p, f, <<i, ok>>)
  BY <1>2, <1>5, AcceptParsed
<1>7. IsSeq(<<i, ok>>)
  BY Tuples
<1>e. ~NoEmail(m)
  BY DEF NoEmail, MsgType
<1> QED BY <1>e, <1>5, <1>6, <1>7, ParsesOk

LEMMA HelloOk ==
    ASSUME NEW m, m.type = MsgType.HELLO, NEW s \in Text, m.vals = <<s>>,
           NEW p, SentAs(m, Payload(m), p)
    PROVE  RequestOk(m, ParseHello(p))
<1>1. m.vals[1] = s
  OBVIOUS
<1>2. Payload(m) = s
  BY <1>1, PayloadIs
<1>3. Field(p, 0, s) /\ Len(p) <= Len(s) /\ (m.cut = 0 => Len(p) = Len(s))
  BY <1>2 DEF SentAs
<1>4. PICK r : r = ParseHello(p)
  OBVIOUS
<1>5. PICK k, t : At(r, p, k, <<t>>) /\ IsPrefixOf(t, s) /\ (Len(p) = Len(s) => t = s)
  BY <1>3, <1>4, HelloParsed
<1>6. r.vals[1] = t
  BY <1>5 DEF At
<1>7. CutOk(m, r)
  BY <1>1, <1>5, <1>6 DEF CutOk
<1>8. ASSUME m.cut = 0 PROVE Clean(r, m.vals)
  <2>1. At(r, p, k, <<s>>) /\ IsSeq(<<s>>)
    BY <1>3, <1>5, <1>8, Tuples
  <2> QED BY <2>1, CleanAt
<1>9. ~NoEmail(m)
  BY DEF NoEmail, MsgType
<1> QED BY <1>4, <1>7, <1>8, <1>9 DEF RequestOk

LEMMA ChunkOk ==
    ASSUME NEW m, m.type = MsgType.FILE_CHUNK, NEW i \in BigNums, NEW j \in Nums, NEW d \in Text,
           m.vals = <<i, j, d>>, NEW p, SentAs(m, Payload(m), p)
    PROVE  RequestOk(m, ParseFileChunk(p))
<1>1. m.vals[1] = i /\ m.vals[2] = j /\ m.vals[3] = d
  OBVIOUS
<1>2. i \in Nat /\ i < Limit64 /\ j \in Nat /\ j < Limit32
  BY NumsNat, BigNumsNat
<1>3. PICK f : f = Payload(m)
  OBVIOUS
<1>4. f = FileChunk(i, j, d) /\ Field(p, 0, f)
  BY <1>1, <1>3, PayloadIs DEF SentAs
<1>5. /\ Len(p) <= Len(f) /\ (m.cut = 0 => Len(p) = Len(f))
      /\ Len(p) < Len(f) => m.cut # 0
  BY <1>3 DEF SentAs
<1>6. PICK r : r = ParseFileChunk(p)
  OBVIOUS
<1>7. \/ Len(p) < Len(f) /\ r.err
      \/ \E k, t : /\ At(r, p, k, <<i, j, t>>)
                   /\ IsPrefixOf(t, d)
                   /\ Len(p) = Len(f) => t = d
  BY <1>2, <1>4, <1>5, <1>6, ChunkParsed
<1>8. ~NoEmail(m)
  BY DEF NoEmail, MsgType
<1>9. CASE Len(p) < Len(f) /\ r.err
  BY <1>5, <1>6, <1>9 DEF RequestOk, CutOk
<1>10. ASSUME NEW k, NEW t, At(r, p, k, <<i, j, t>>), IsPrefixOf(t, d), Len(p) = Len(f) => t = d
       PROVE  RequestOk(m, r)
  <2>1. r.vals[1] = i /\ r.vals[2] = j /\ r.vals[3] = t /\ ~r.over
    BY <1>10 DEF At
  <2>2. CutOk(m, r)
    BY <1>1, <1>10, <2>1 DEF CutOk
  <2>3. ASSUME m.cut = 0 PROVE Clean(r, m.vals)
    <3>1. At(r, p, k, <<i, j, d>>) /\ IsSeq(<<i, j, d>>)
      BY <1>5, <1>10, <2>3, Tuples
    <3> QED BY <3>1, CleanAt
  <2> QED BY <1>8, <2>2, <2>3 DEF RequestOk
<1> QED BY <1>6, <1>7, <1>9, <1>10

LEMMA DoneOk ==
    ASSUME NEW m, m.type = MsgType.FILE_DONE, NEW i \in BigNums, NEW j \in Nums, NEW n \in BigNums,
           m.vals = <<i, j, n>>, NEW p, SentAs(m, Payload(m), p)
    PROVE  RequestOk(m, ParseFileDone(p))
<1>1. m.vals[1] = i /\ m.vals[2] = j /\ m.vals[3] = n
  OBVIOUS
<1>2. /\ i \in Nat /\ i < Limit64 /\ j \in Nat /\ j < Limit32
      /\ n \in Nat /\ n < Limit64
  BY NumsNat, BigNumsNat
<1>3. PICK f : f = Payload(m)
  OBVIOUS
<1>4. f = FileDone(i, j, n) /\ Field(p, 0, f)
  BY <1>1, <1>3, PayloadIs DEF SentAs
<1>5. PICK r : r = ParseFileDone(p)
  OBVIOUS
<1>6. /\ Size(f, 20)
      /\ Len(p) = 20 => \E k : At(r, p, k, <<i, j, n>>)
      /\ Len(p) < 16 => r.err
      /\ 16 <= Len(p) => r.vals[1] = i /\ r.vals[2] = j
  BY <1>2, <1>4, <1>5, DoneParsed
<1>7. Len(p) = 20 - m.cut /\ m.cut \in Nat
  BY <1>3, <1>6 DEF SentAs, Size
<1>8. CutOk(m, r)
  <2>1. CASE m.cut <= 4
    <3>1. 16 <= Len(p)
      BY <1>7, <2>1
    <3> QED BY <1>1, <1>6, <2>1, <3>1 DEF CutOk
  <2>2. CASE ~(m.cut <= 4)
    <3>1. Len(p) < 16
      BY <1>7, <2>2
    <3> QED BY <1>6, <3>1 DEF CutOk
  <2> QED BY <2>1, <2>2
<1>9. ASSUME m.cut = 0 PROVE Clean(r, m.vals)
  <2>1. Len(p) = 20
    BY <1>7, <1>9
  <2>2. PICK k : At(r, p, k, <<i, j, n>>)
    BY <1>6, <2>1
  <2>3. IsSeq(<<i, j, n>>)
    BY Tuples
  <2> QED BY <2>2, <2>3, CleanAt
<1>10. ~NoEmail(m)
  BY DEF NoEmail, MsgType
<1> QED BY <1>5, <1>8, <1>9, <1>10 DEF RequestOk

LEMMA RequestsOk ==
    ASSUME NEW by, NEW m, Request(m), m.cut \in Nat, m.cut <= Len(Payload(m)), Short(m)
    PROVE  RequestOk(m, Parse(by, m.type, Sent(m)))
<1>1. PICK p : p = Sent(m)
  OBVIOUS
<1>2. SentAs(m, Payload(m), p)
  BY <1>1, SentField
<1>3. CASE m.type = MsgType.HELLO /\ \E s \in Text : m.vals = <<s>>
  <2>1. RequestOk(m, ParseHello(p))
    BY <1>2, <1>3, HelloOk
  <2> QED BY <1>1, <1>3, <2>1, ParseIs
<1>4. CASE m.type = MsgType.REGISTER_REQ /\ \E u, e, w \in Text : m.vals = <<u, e, w>>
  <2>1. RequestOk(m, ParseRegisterReq(p))
    BY <1>2, <1>4, RegisterOk
  <2> QED BY <1>1, <1>4, <2>1, ParseIs
<1>5. CASE m.type = MsgType.LOGIN_REQ /\ \E u, w \in Text : m.vals = <<u, w>>
  <2>1. RequestOk(m, ParseLoginReq(p))
    BY <1>2, <1>5, LoginOk
  <2> QED BY <1>1, <1>5, <2>1, ParseIs
<1>6. CASE /\ m.type = MsgType.FILE_OFFER_REQ
           /\ \E s, t \in Text, j \in BigNums, c \in Nums : m.vals = <<0, s, t, j, c>>
  <2>1. RequestOk(m, ParseFileOfferReq(p))
    BY <1>2, <1>6, OfferOk
  <2> QED BY <1>1, <1>6, <2>1, ParseIs
<1>7. CASE /\ m.type = MsgType.FILE_ACCEPT_REQ
           /\ \E i \in BigNums, ok \in BOOLEAN : m.vals = <<i, ok>>
  <2>1. RequestOk(m, ParseFileAcceptReq(p))
    BY <1>2, <1>7, AcceptOk
  <2> QED BY <1>1, <1>7, <2>1, ParseIs
<1>8. CASE m.type = MsgType.FILE_CHUNK /\ \E i \in BigNums, j \in Nums, d \in Text : m.vals = <<i, j, d>>
  <2>1. RequestOk(m, ParseFileChunk(p))
    BY <1>2, <1>8, ChunkOk
  <2> QED BY <1>1, <1>8, <2>1, ParseIs
<1>9. CASE m.type = MsgType.FILE_DONE /\ \E i, n \in BigNums, j \in Nums : m.vals = <<i, j, n>>
  <2>1. RequestOk(m, ParseFileDone(p))
    BY <1>2, <1>9, DoneOk
  <2> QED BY <1>1, <1>9, <2>1, ParseIs
<1> QED BY <1>3, <1>4, <1>5, <1>6, <1>7, <1>8, <1>9 DEF Request

-----------------------------------------------------------------------------
(***************************************************************************)
(* Replies, which are always complete                                      *)
(***************************************************************************)

LEMMA AtStr ==
    ASSUME NEW r, NEW p, NEW k, NEW vs, At(r, p, k, vs),
           NEW s \in Text, Len(s) < Limit16, Field(p, k, Str(s)),
           NEW j, j = k + (2 + Len(s)), j <= Len(p), NEW ws, ws = Append(vs, s)
    PROVE  At(ReadStr(r), p, j, ws) /\ At(OptStr(r), p, j, ws) /\ At(RawStr(r), p, j, ws)
BY StringRead

LEMMA At64 ==
    ASSUME NEW r, NEW p, NEW k, NEW vs, At(r, p, k, vs),
           NEW n \in Nat, n < Limit64, Field(p, k, U64(n)),
           NEW j, j = k + 8, j <= Len(p), NEW ws, ws = Append(vs, n)
    PROVE  At(Checked(r, 8), p, j, ws) /\ At(Unchecked(r, 8), p, j, ws)
BY NumberRead64

\* The flag that most replies begin with.
LEMMA FirstFlag ==
    ASSUME NEW p \in Seq(Nat), NEW min \in Nat, 1 <= min, min <= Len(p),
           NEW b, Field(p, 0, Byte(b)), NEW ok \in BOOLEAN, NEW yes, b \in yes <=> ok,
           NEW q, q = Flag(Start(p, min), yes)
    PROVE  At(q, p, 1, <<ok>>) /\ (LastFlag(q) <=> ok)
<1>1. Len(p) \in Nat
  BY LenProperties
<1>2. At(Start(p, min), p, 0, <<>>)
  BY StartAt
<1>3. PICK z \in Nat : z = 0
  OBVIOUS
<1>4. At(Start(p, min), p, z, <<>>) /\ Field(p, z, Byte(b)) /\ z + 1 <= Len(p) /\ z + 1 = 1
  BY <1>1, <1>2, <1>3
<1>5. At(q, p, z + 1, Append(<<>>, ok))
  BY <1>4, FlagRead
<1>6. At(q, p, 1, <<ok>>)
  BY <1>4, <1>5, Tuple1
<1>7. ~q.err /\ q.vals = <<ok>>
  BY <1>6 DEF At
<1>8. Len(<<ok>>) = 1 /\ <<ok>>[1] = ok
  OBVIOUS
<1>9. q.vals[Len(q.vals)] = ok
  BY <1>7, <1>8
<1> QED BY <1>6, <1>7, <1>9 DEF LastFlag

LEMMA RegisterRespParsed ==
    ASSUME NEW ok \in BOOLEAN, NEW s \in Text, Len(s) < Limit16,
           NEW p, NEW f, f = RegisterResp(ok, s), Field(p, 0, f), Len(p) = Len(f)
    PROVE  \E k : /\ At(PyParseRegisterResp(p), p, k, <<ok, s>>)
                  /\ At(CppParseRegisterResp(p), p, k, <<ok, s>>)
<1>1. PICK b : b = IF ok THEN 1 ELSE 0
  OBVIOUS
<1>2. PICK k1 \in Nat, m \in Nat, a \in Nat : k1 = 1 /\ m = 3 /\ a = 2 + Len(s) /\ a >= 2
  <2>1. Len(s) \in Nat
    BY SizeText DEF Size
  <2>2. 2 + Len(s) \in Nat /\ 2 + Len(s) >= 2
    BY <2>1
  <2> QED BY <2>2
<1>3. Size(Byte(b), k1) /\ Size(Str(s), a) /\ f = Byte(b) \o Str(s)
  BY <1>1, <1>2, Flags, SizeStr DEF RegisterResp
<1>4. Field(p, 0, Byte(b)) /\ Field(p, 0 + k1, Str(s)) /\ Size(f, k1 + a)
  <2>1. Field(p, 0, Byte(b) \o Str(s))
    BY <1>3
  <2>2. Field(p, 0, Byte(b)) /\ Field(p, 0 + k1, Str(s)) /\ Size(Byte(b) \o Str(s), k1 + a)
    BY <1>3, <2>1, Fields2
  <2> QED BY <1>3, <2>2
<1>5. p \in Seq(Nat) /\ Len(p) = k1 + a
  BY <1>4 DEF Field, Size
<1>6. 0 + k1 = k1 /\ 1 <= m /\ m <= Len(p) /\ k1 + a <= Len(p)
  BY <1>2, <1>5
<1>ys. PICK ys : ys = 1 .. 255
  OBVIOUS
<1>7. PICK q : q = Flag(Start(p, m), ys)
  OBVIOUS
<1>8. b \in ys <=> ok
  BY <1>1, <1>ys
<1>9. At(q, p, 1, <<ok>>)
  BY <1>4, <1>5, <1>6, <1>7, <1>8, FirstFlag
<1>10. At(ReadStr(q), p, k1 + a, <<ok, s>>) /\ At(RawStr(q), p, k1 + a, <<ok, s>>)
  <2>1. At(q, p, k1, <<ok>>) /\ Field(p, k1, Str(s))
    BY <1>2, <1>4, <1>6, <1>9
  <2> QED BY <1>2, <1>6, <2>1, Tuple2, AtStr
<1>11. PyParseRegisterResp(p) = ReadStr(q) /\ CppParseRegisterResp(p) = RawStr(q)
  BY <1>2, <1>7, <1>ys DEF PyParseRegisterResp, CppParseRegisterResp
<1> QED BY <1>10, <1>11

\* LOGIN_RESP of a successful login.  The clients only get the token out of it.
LEMMA LoggedInParsed ==
    ASSUME NEW t \in Text, NEW i \in Nat, NEW u \in Text, NEW s \in Text,
           Len(t) < Limit16, i < Limit64, Len(u) < Limit16, Len(s) < Limit16,
           NEW p, NEW f, f = LoginResp(TRUE, t, i, u, s), Field(p, 0, f), Len(p) = Len(f)
    PROVE  /\ \E k : At(PyParseLoginResp(p), p, k, <<TRUE, t, i, u, s>>)
           /\ \E k, x : At(CppParseLoginResp(p), p, k, <<TRUE, t, x>>)
<1>1. PICK a \in Nat, b \in Nat, c \in Nat :
        /\ a = 2 + Len(t) /\ b = 2 + Len(u) /\ c = 2 + Len(s)
        /\ a >= 2 /\ b >= 2 /\ c >= 2
  <2>1. Len(t) \in Nat /\ Len(u) \in Nat /\ Len(s) \in Nat
    BY SizeText DEF Size
  <2>2. /\ 2 + Len(t) \in Nat /\ 2 + Len(u) \in Nat /\ 2 + Len(s) \in Nat
        /\ 2 + Len(t) >= 2 /\ 2 + Len(u) >= 2 /\ 2 + Len(s) >= 2
    BY <2>1
  <2> QED BY <2>2
<1>2. PICK k1 \in Nat, k8 \in Nat, m \in Nat : k1 = 1 /\ k8 = 8 /\ m = 3
  OBVIOUS
<1>3. /\ Size(Byte(1), k1) /\ Size(Str(t), a) /\ Size(U64(i), k8)
      /\ Size(Str(u), b) /\ Size(Str(s), c)
  BY <1>1, <1>2, SizeByte, SizeU64, SizeStr
<1>4. PICK g : g = Str(t) \o U64(i) \o Str(u)
  OBVIOUS
<1>5. f = Byte(1) \o g \o Str(s)
  BY <1>4 DEF LoginResp
<1>6. PICK d \in Nat : d = (a + k8) + b
  <2>1. (a + k8) + b \in Nat
    BY <1>1, <1>2
  <2> QED BY <2>1
<1>7. Size(g, d)
  BY <1>3, <1>4, <1>6, SizeCat
<1>8. /\ Field(p, 0, Byte(1)) /\ Field(p, 0 + k1, g) /\ Field(p, 0 + (k1 + d), Str(s))
      /\ Size(f, (k1 + d) + c)
  <2>1. Field(p, 0, Byte(1) \o g \o Str(s))
    BY <1>5
  <2>2. /\ Field(p, 0, Byte(1)) /\ Field(p, 0 + k1, g) /\ Field(p, 0 + (k1 + d), Str(s))
        /\ Size(Byte(1) \o g \o Str(s), (k1 + d) + c)
    BY <1>3, <1>7, <2>1, Fields3
  <2> QED BY <1>5, <2>2
<1>9. p \in Seq(Nat) /\ Len(p) = (k1 + d) + c
  BY <1>8 DEF Field, Size
<1>10. PICK j1 \in Nat, j2 \in Nat, j3 \in Nat, l \in Nat :
         j1 = k1 + a /\ j2 = j1 + 8 /\ j3 = j2 + b /\ l = j3 + c
  OBVIOUS
<1>n. /\ 0 + k1 = k1 /\ k1 + (a + k8) = j2 /\ 0 + (k1 + d) = j3 /\ (k1 + d) + c = l
      /\ 1 <= m
  BY <1>2, <1>6, <1>10
<1>o. Len(p) = l
  BY <1>9, <1>n
<1>l. m <= Len(p) /\ j1 <= Len(p) /\ j2 <= Len(p) /\ j3 <= Len(p) /\ l <= Len(p)
  <2>1. b >= 2 /\ c >= 2
    BY <1>1
  <2>2. m <= l /\ j1 <= l /\ j2 <= l /\ j3 <= l /\ l <= l
    BY <1>2, <1>10, <2>1
  <2> QED BY <1>o, <2>2
<1>11. Field(p, k1, Str(t)) /\ Field(p, j1, U64(i)) /\ Field(p, j2, Str(u))
  <2>1. Field(p, k1, Str(t) \o U64(i) \o Str(u))
    BY <1>4, <1>8, <1>n
  <2>2. /\ Field(p, k1, Str(t)) /\ Field(p, k1 + a, U64(i))
        /\ Field(p, k1 + (a + k8), Str(u))
    BY <1>3, <2>1, Fields3
  <2> QED BY <1>10, <1>n, <2>2
<1>ys. PICK ys : ys = 1 .. 255
  OBVIOUS
<1>12. PICK q : q = Flag(Start(p, m), ys)
  OBVIOUS
<1>15. PICK yes \in BOOLEAN : yes = TRUE
  OBVIOUS
<1>13. PICK one : one = 1 /\ (one \in ys <=> yes)
  BY <1>15, <1>ys
<1>14. At(q, p, 1, <<yes>>) /\ LastFlag(q)
  <2>1. Field(p, 0, Byte(one))
    BY <1>8, <1>13
  <2>2. At(q, p, 1, <<yes>>) /\ (LastFlag(q) <=> yes)
    BY <1>9, <1>l, <1>n, <1>12, <1>13, <2>1, FirstFlag
  <2> QED BY <1>15, <2>2
<1>16. At(q, p, k1, <<yes>>)
  BY <1>2, <1>14
<1>17. At(ReadStr(q), p, j1, <<yes, t>>) /\ At(OptStr(q), p, j1, <<yes, t>>)
  BY <1>1, <1>10, <1>l, <1>11, <1>16, Tuple2, AtStr
<1>18. At(Checked(ReadStr(q), 8), p, j2, <<yes, t, i>>)
  <2>1. PICK vs, ws : vs = <<yes, t>> /\ ws = <<yes, t, i>>
    OBVIOUS
  <2>2. ws = Append(vs, i) /\ At(ReadStr(q), p, j1, vs)
    BY <1>17, <2>1, Tuple3
  <2>3. At(Checked(ReadStr(q), 8), p, j2, ws)
    BY <1>10, <1>l, <1>11, <2>2, At64
  <2> QED BY <2>1, <2>3
<1>19. PICK q3 : q3 = Checked(ReadStr(q), 8)
  OBVIOUS
<1>20. At(ReadStr(q3), p, j3, <<yes, t, i, u>>)
  <2>1. PICK vs, ws : vs = <<yes, t, i>> /\ ws = <<yes, t, i, u>>
    OBVIOUS
  <2>2. ws = Append(vs, u) /\ At(q3, p, j2, vs) /\ j3 = j2 + (2 + Len(u))
    BY <1>1, <1>10, <1>18, <1>19, <2>1, Tuple4
  <2>3. At(ReadStr(q3), p, j3, ws)
    BY <1>l, <1>11, <2>2, AtStr
  <2> QED BY <2>1, <2>3
<1>21. At(ReadStr(ReadStr(q3)), p, l, <<yes, t, i, u, s>>)
  <2>1. Field(p, j3, Str(s))
    BY <1>8, <1>n
  <2>2. PICK vs, ws : vs = <<yes, t, i, u>> /\ ws = <<yes, t, i, u, s>>
    OBVIOUS
  <2>3. l = j3 + (2 + Len(s))
    BY <1>1, <1>10
  <2>4. ws = Append(vs, s)
    BY <2>2, Tuple5
  <2>5. At(ReadStr(q3), p, j3, vs)
    BY <1>20, <2>2
  <2>6. At(ReadStr(ReadStr(q3)), p, l, ws)
    BY <1>l, <2>1, <2>3, <2>4, <2>5, AtStr
  <2> QED BY <2>2, <2>6
<1>22. PyParseLoginResp(p) = ReadStr(ReadStr(q3))
  BY <1>2, <1>ys, <1>12, <1>14, <1>19 DEF PyParseLoginResp
<1>23. CppParseLoginResp(p) = OptStr(OptStr(q))
  BY <1>2, <1>ys, <1>12, <1>14 DEF CppParseLoginResp
<1>24. \E k, x : At(CppParseLoginResp(p), p, k, <<yes, t, x>>)
  <2>1. PICK k, x : At(OptStr(OptStr(q)), p, k, Append(<<yes, t>>, x))
    BY <1>17, AnyString
  <2> QED BY <1>23, <2>1, Tuple3
<1>25. \E k : At(PyParseLoginResp(p), p, k, <<yes, t, i, u, s>>)
  BY <1>21, <1>22
<1> QED BY <1>15, <1>24, <1>25

\* A flag that says no, then a string: LOGIN_RESP of a failed login.
LEMMA RefusedParsed ==
    ASSUME NEW s \in Text, Len(s) < Limit16,
           NEW p, NEW f, f = LoginResp(FALSE, <<>>, 0, <<>>, s), Field(p, 0, f), Len(p) = Len(f)
    PROVE  /\ \E k : At(PyParseLoginResp(p), p, k, <<FALSE, <<>>, 0, <<>>, s>>)
           /\ \E k : At(CppParseLoginResp(p), p, k, <<FALSE, <<>>, s>>)
<1>1. PICK k1 \in Nat, m \in Nat, a \in Nat : k1 = 1 /\ m = 3 /\ a = 2 + Len(s) /\ a >= 2
  <2>1. Len(s) \in Nat
    BY SizeText DEF Size
  <2>2. 2 + Len(s) \in Nat /\ 2 + Len(s) >= 2
    BY <2>1
  <2> QED BY <2>2
<1>2. Size(Byte(0), k1) /\ Size(Str(s), a)
  BY <1>1, SizeByte, SizeStr
<1>3. f = Byte(0) \o Str(s)
  <2>1. f = Byte(0) \o <<>> \o Str(s)
    BY DEF LoginResp
  <2>2. Byte(0) \o <<>> = Byte(0)
    BY <1>2, Nothing DEF Size
  <2> QED BY <2>1, <2>2
<1>4. Field(p, 0, Byte(0)) /\ Field(p, 0 + k1, Str(s)) /\ Size(f, k1 + a)
  <2>1. Field(p, 0, Byte(0) \o Str(s))
    BY <1>3
  <2>2. Field(p, 0, Byte(0)) /\ Field(p, 0 + k1, Str(s)) /\ Size(Byte(0) \o Str(s), k1 + a)
    BY <1>2, <2>1, Fields2
  <2> QED BY <1>3, <2>2
<1>5. p \in Seq(Nat) /\ Len(p) = k1 + a
  BY <1>4 DEF Field, Size
<1>6. 0 + k1 = k1 /\ 1 <= m /\ m <= Len(p) /\ k1 + a <= Len(p)
  <2>1. 0 + k1 = k1 /\ 1 <= m /\ m <= k1 + a /\ k1 + a <= k1 + a
    BY <1>1
  <2> QED BY <1>5, <2>1
<1>ys. PICK ys : ys = 1 .. 255
  OBVIOUS
<1>7. PICK q : q = Flag(Start(p, m), ys)
  OBVIOUS
<1>8. PICK no \in BOOLEAN : no = FALSE
  OBVIOUS
<1>9. PICK zero : zero = 0 /\ (zero \in ys <=> no)
  <2>1. ~(0 \in ys)
    BY <1>ys
  <2> QED BY <1>8, <2>1
<1>10. At(q, p, k1, <<no>>) /\ ~LastFlag(q)
  <2>1. Field(p, 0, Byte(zero))
    BY <1>4, <1>9
  <2>2. At(q, p, 1, <<no>>) /\ (LastFlag(q) <=> no)
    BY <1>5, <1>6, <1>7, <1>9, <2>1, FirstFlag
  <2> QED BY <1>1, <1>8, <2>2
<1>11. PICK e : e = <<>>
  OBVIOUS
<1>12. PICK q1 : q1 = Default(q, e)
  OBVIOUS
<1>13. At(q1, p, k1, <<no, e>>)
  BY <1>10, <1>12, Tuple2, DefaultAt
<1>14. PICK q2 : q2 = Default(q1, zero)
  OBVIOUS
<1>15. At(q2, p, k1, <<no, e, zero>>)
  <2>1. PICK vs, ws : vs = <<no, e>> /\ ws = <<no, e, zero>>
    OBVIOUS
  <2>2. ws = Append(vs, zero)
    BY <2>1, Tuple3
  <2>3. At(q1, p, k1, vs)
    BY <1>13, <2>1
  <2>4. At(Default(q1, zero), p, k1, ws)
    BY <2>2, <2>3, DefaultAt
  <2> QED BY <1>14, <2>1, <2>4
<1>16. PICK q3 : q3 = Default(q2, e)
  OBVIOUS
<1>17. At(q3, p, k1, <<no, e, zero, e>>)
  <2>1. PICK vs, ws : vs = <<no, e, zero>> /\ ws = <<no, e, zero, e>>
    OBVIOUS
  <2>2. ws = Append(vs, e)
    BY <2>1, Tuple4
  <2>3. At(q2, p, k1, vs)
    BY <1>15, <2>1
  <2>4. At(Default(q2, e), p, k1, ws)
    BY <2>2, <2>3, DefaultAt
  <2> QED BY <1>16, <2>1, <2>4
<1>18. Field(p, k1, Str(s))
  BY <1>4, <1>6
<1>19. PICK j : j = k1 + a
  OBVIOUS
<1>20. j = k1 + (2 + Len(s)) /\ j <= Len(p)
  BY <1>1, <1>6, <1>19
<1>21. At(ReadStr(q3), p, j, <<no, e, zero, e, s>>)
  <2>1. PICK vs, ws : vs = <<no, e, zero, e>> /\ ws = <<no, e, zero, e, s>>
    OBVIOUS
  <2>2. ws = Append(vs, s)
    BY <2>1, Tuple5
  <2>3. At(q3, p, k1, vs)
    BY <1>17, <2>1
  <2>4. At(ReadStr(q3), p, j, ws)
    BY <1>18, <1>20, <2>2, <2>3, AtStr
  <2> QED BY <2>1, <2>4
<1>22. At(OptStr(q1), p, j, <<no, e, s>>)
  <2>1. PICK vs, ws : vs = <<no, e>> /\ ws = <<no, e, s>>
    OBVIOUS
  <2>2. ws = Append(vs, s)
    BY <2>1, Tuple3
  <2>3. At(q1, p, k1, vs)
    BY <1>13, <2>1
  <2>4. At(OptStr(q1), p, j, ws)
    BY <1>18, <1>20, <2>2, <2>3, AtStr
  <2> QED BY <2>1, <2>4
<1>23. PyParseLoginResp(p) = ReadStr(q3)
  BY <1>1, <1>ys, <1>7, <1>9, <1>10, <1>11, <1>12, <1>14, <1>16 DEF PyParseLoginResp
<1>24. CppParseLoginResp(p) = OptStr(q1)
  BY <1>1, <1>ys, <1>7, <1>10, <1>11, <1>12 DEF CppParseLoginResp
<1> QED BY <1>8, <1>9, <1>11, <1>21, <1>22, <1>23, <1>24

LEMMA OfferRespParsed ==
    ASSUME NEW ok \in BOOLEAN, NEW i \in Nat, i < Limit64, NEW s \in Text, Len(s) < Limit16,
           ok => s = <<>>,
           NEW p, NEW f, f = FileOfferResp(ok, i, s), Field(p, 0, f), Len(p) = Len(f)
    PROVE  \E k : At(ParseFileOfferResp(p), p, k, <<ok, i, s>>)
<1>1. PICK b : b = IF ok THEN 0 ELSE 1
  OBVIOUS
<1>2. PICK k1 \in Nat, k8 \in Nat, m \in Nat, a \in Nat :
        k1 = 1 /\ k8 = 8 /\ m = 9 /\ a = 2 + Len(s)
  <2>1. Len(s) \in Nat
    BY SizeText DEF Size
  <2>2. 2 + Len(s) \in Nat
    BY <2>1
  <2> QED BY <2>2
<1>3. PICK g : g = IF ok THEN <<>> ELSE Str(s)
  OBVIOUS
<1>4. PICK c \in Nat : c = IF ok THEN 0 ELSE a
  OBVIOUS
<1>5. Size(Byte(b), k1) /\ Size(U64(i), k8) /\ Size(g, c)
  BY <1>1, <1>2, <1>3, <1>4, Flags, SizeU64, SizeStr, SizeNothing
<1>6. f = Byte(b) \o U64(i) \o g
  BY <1>1, <1>3 DEF FileOfferResp
<1>7. /\ Field(p, 0, Byte(b)) /\ Field(p, 0 + k1, U64(i)) /\ Field(p, 0 + (k1 + k8), g)
      /\ Size(f, (k1 + k8) + c)
  <2>1. Field(p, 0, Byte(b) \o U64(i) \o g)
    BY <1>6
  <2>2. /\ Field(p, 0, Byte(b)) /\ Field(p, 0 + k1, U64(i)) /\ Field(p, 0 + (k1 + k8), g)
        /\ Size(Byte(b) \o U64(i) \o g, (k1 + k8) + c)
    BY <1>5, <2>1, Fields3
  <2> QED BY <1>6, <2>2
<1>8. p \in Seq(Nat) /\ Len(p) = (k1 + k8) + c
  BY <1>7 DEF Field, Size
<1>9. /\ 0 + k1 = k1 /\ 0 + (k1 + k8) = m /\ 1 <= m /\ m <= Len(p) /\ m = k1 + 8
      /\ m + c = Len(p)
  BY <1>2, <1>8
<1>10. PICK ys : ys = {0}
  OBVIOUS
<1>11. PICK q : q = Flag(Start(p, m), ys)
  OBVIOUS
<1>12. b \in ys <=> ok
  BY <1>1, <1>10
<1>13. At(q, p, 1, <<ok>>) /\ (LastFlag(q) <=> ok)
  BY <1>7, <1>8, <1>9, <1>11, <1>12, FirstFlag
<1>14. PICK q1 : q1 = Unchecked(q, 8)
  OBVIOUS
<1>15. At(q1, p, m, <<ok, i>>)
  <2>1. At(q, p, k1, <<ok>>) /\ Field(p, k1, U64(i))
    BY <1>2, <1>7, <1>9, <1>13
  <2> QED BY <1>9, <1>14, <2>1, Tuple2, At64
<1>16. ParseFileOfferResp(p) = IF LastFlag(q) THEN Default(q1, <<>>) ELSE OptStr(q1)
  BY <1>2, <1>10, <1>11, <1>14 DEF ParseFileOfferResp
<1>17. CASE ok
  <2>1. ParseFileOfferResp(p) = Default(q1, s)
    BY <1>13, <1>16, <1>17
  <2>2. At(Default(q1, s), p, m, <<ok, i, s>>)
    <3>1. PICK vs, ws : vs = <<ok, i>> /\ ws = <<ok, i, s>>
      OBVIOUS
    <3>2. ws = Append(vs, s)
      BY <3>1, Tuple3
    <3>3. At(q1, p, m, vs)
      BY <1>15, <3>1
    <3>4. At(Default(q1, s), p, m, ws)
      BY <3>2, <3>3, DefaultAt
    <3> QED BY <3>1, <3>4
  <2> QED BY <2>1, <2>2
<1>18. CASE ~ok
  <2>1. ParseFileOfferResp(p) = OptStr(q1)
    BY <1>13, <1>16, <1>18
  <2>2. Field(p, m, Str(s))
    BY <1>3, <1>7, <1>9, <1>18
  <2>3. PICK j : j = m + a
    OBVIOUS
  <2>4. j = m + (2 + Len(s)) /\ j <= Len(p)
    <3>1. c = a /\ m + a \in Nat
      BY <1>2, <1>4, <1>18
    <3> QED BY <1>2, <1>9, <2>3, <3>1
  <2>5. At(OptStr(q1), p, j, <<ok, i, s>>)
    BY <1>15, <2>2, <2>4, Tuple3, AtStr
  <2> QED BY <2>1, <2>5
<1> QED BY <1>17, <1>18

LEMMA AcceptRespParsed ==
    ASSUME NEW ok \in BOOLEAN, NEW s \in Text, Len(s) < Limit16, ok => s = <<>>,
           NEW p, NEW f, f = FileAcceptResp(ok, s), Field(p, 0, f), Len(p) = Len(f)
    PROVE  \E k : At(ParseFileAcceptResp(p), p, k, <<ok, s>>)
<1>1. PICK b : b = IF ok THEN 0 ELSE 1
  OBVIOUS
<1>2. PICK k1 \in Nat, a \in Nat : k1 = 1 /\ a = 2 + Len(s)
  <2>1. Len(s) \in Nat
    BY SizeText DEF Size
  <2>2. 2 + Len(s) \in Nat
    BY <2>1
  <2> QED BY <2>2
<1>3. PICK g : g = IF ok THEN <<>> ELSE Str(s)
  OBVIOUS
<1>4. PICK c \in Nat : c = IF ok THEN 0 ELSE a
  OBVIOUS
<1>5. Size(Byte(b), k1) /\ Size(g, c)
  BY <1>1, <1>2, <1>3, <1>4, Flags, SizeStr, SizeNothing
<1>6. f = Byte(b) \o g
  BY <1>1, <1>3 DEF FileAcceptResp
<1>7. Field(p, 0, Byte(b)) /\ Field(p, 0 + k1, g) /\ Size(f, k1 + c)
  <2>1. Field(p, 0, Byte(b) \o g)
    BY <1>6
  <2>2. Field(p, 0, Byte(b)) /\ Field(p, 0 + k1, g) /\ Size(Byte(b) \o g, k1 + c)
    BY <1>5, <2>1, Fields2
  <2> QED BY <1>6, <2>2
<1>8. p \in Seq(Nat) /\ Len(p) = k1 + c
  BY <1>7 DEF Field, Size
<1>9. 0 + k1 = k1 /\ 1 <= k1 /\ k1 <= Len(p)
  BY <1>2, <1>8
<1>10. PICK ys : ys = {0}
  OBVIOUS
<1>11. PICK q : q = Flag(Start(p, k1), ys)
  OBVIOUS
<1>12. b \in ys <=> ok
  BY <1>1, <1>10
<1>13. At(q, p, 1, <<ok>>) /\ (LastFlag(q) <=> ok)
  BY <1>7, <1>8, <1>9, <1>11, <1>12, FirstFlag
<1>14. At(q, p, k1, <<ok>>)
  BY <1>2, <1>13
<1>15. ParseFileAcceptResp(p) = IF LastFlag(q) THEN Default(q, <<>>) ELSE OptStr(q)
  BY <1>2, <1>10, <1>11 DEF ParseFileAcceptResp
<1>16. CASE ok
  <2>1. ParseFileAcceptResp(p) = Default(q, s)
    BY <1>13, <1>15, <1>16
  <2>2. At(Default(q, s), p, k1, <<ok, s>>)
    BY <1>14, Tuple2, DefaultAt
  <2> QED BY <2>1, <2>2
<1>17. CASE ~ok
  <2>1. ParseFileAcceptResp(p) = OptStr(q)
    BY <1>13, <1>15, <1>17
  <2>2. Field(p, k1, Str(s))
    BY <1>3, <1>7, <1>9, <1>17
  <2>3. PICK j : j = k1 + a
    OBVIOUS
  <2>4. j = k1 + (2 + Len(s)) /\ j <= Len(p)
    <3>1. c = a /\ k1 + a \in Nat
      BY <1>2, <1>4, <1>17
    <3> QED BY <1>2, <1>8, <2>3, <3>1
  <2>5. At(OptStr(q), p, j, <<ok, s>>)
    BY <1>14, <2>2, <2>4, Tuple2, AtStr
  <2> QED BY <2>1, <2>5
<1> QED BY <1>16, <1>17

LEMMA ResultParsed ==
    ASSUME NEW i \in Nat, i < Limit64, NEW ok \in BOOLEAN, NEW s \in Text, Len(s) < Limit16,
           NEW p, NEW f, f = FileResult(i, ok, s), Field(p, 0, f), Len(p) = Len(f)
    PROVE  \E k : At(ParseFileResult(p), p, k, <<i, ok, s>>)
<1>1. PICK b : b = IF ok THEN 0 ELSE 1
  OBVIOUS
<1>2. PICK k1 \in Nat, k8 \in Nat, m \in Nat, a \in Nat :
        k1 = 1 /\ k8 = 8 /\ m = 9 /\ a = 2 + Len(s)
  <2>1. Len(s) \in Nat
    BY SizeText DEF Size
  <2>2. 2 + Len(s) \in Nat
    BY <2>1
  <2> QED BY <2>2
<1>3. Size(U64(i), k8) /\ Size(Byte(b), k1) /\ Size(Str(s), a)
  BY <1>1, <1>2, Flags, SizeU64, SizeStr
<1>4. f = U64(i) \o Byte(b) \o Str(s)
  BY <1>1 DEF FileResult
<1>5. /\ Field(p, 0, U64(i)) /\ Field(p, 0 + k8, Byte(b)) /\ Field(p, 0 + (k8 + k1), Str(s))
      /\ Size(f, (k8 + k1) + a)
  <2>1. Field(p, 0, U64(i) \o Byte(b) \o Str(s))
    BY <1>4
  <2>2. /\ Field(p, 0, U64(i)) /\ Field(p, 0 + k8, Byte(b)) /\ Field(p, 0 + (k8 + k1), Str(s))
        /\ Size(U64(i) \o Byte(b) \o Str(s), (k8 + k1) + a)
    BY <1>3, <2>1, Fields3
  <2> QED BY <1>4, <2>2
<1>6. p \in Seq(Nat) /\ Len(p) = (k8 + k1) + a
  BY <1>5 DEF Field, Size
<1>7. PICK j \in Nat : j = m + a
  OBVIOUS
<1>8. /\ k8 = 0 + 8 /\ 0 + k8 = k8 /\ 0 + (k8 + k1) = m /\ m = k8 + 1 /\ k8 <= m /\ m <= m
      /\ j = (k8 + k1) + a
  BY <1>2, <1>7
<1>9. Len(p) = j /\ m <= Len(p) /\ j <= Len(p)
  <2>1. Len(p) = j
    BY <1>6, <1>8
  <2>2. m <= j /\ j <= j
    BY <1>2, <1>7
  <2> QED BY <2>1, <2>2
<1>10. PICK q : q = Start(p, m)
  OBVIOUS
<1>11. PICK q1 : q1 = Unchecked(q, 8)
  OBVIOUS
<1>12. Reads(q1, p, m, k8, <<i>>)
  <2>1. Reads(q, p, m, 0, <<>>)
    BY <1>6, <1>10, ReadsStart
  <2> QED BY <1>5, <1>8, <1>11, <2>1, Tuple1, ReadsUnchecked64
<1>13. PICK ys : ys = {0}
  OBVIOUS
<1>14. Field(p, k8, Byte(b)) /\ (b \in ys <=> ok)
  BY <1>1, <1>5, <1>8, <1>13
<1>15. Reads(Flag(q1, ys), p, m, m, <<i, ok>>)
  BY <1>8, <1>12, <1>14, Tuple2, ReadsFlag
<1>16. At(Flag(q1, ys), p, m, <<i, ok>>)
  BY <1>9, <1>15 DEF Reads
<1>17. At(OptStr(Flag(q1, ys)), p, j, <<i, ok, s>>)
  <2>1. Field(p, m, Str(s)) /\ j = m + (2 + Len(s))
    BY <1>2, <1>5, <1>7, <1>8
  <2> QED BY <1>9, <1>16, <2>1, Tuple3, AtStr
<1>18. ParseFileResult(p) = OptStr(Flag(q1, ys))
  BY <1>2, <1>10, <1>11, <1>13 DEF ParseFileResult
<1> QED BY <1>17, <1>18

\* The loop over the names, from the cursor c behind their number n.
IsLoop(c, n, g) == g = [k \in 0 .. n |-> IF k = 0 THEN c ELSE ReadStr(g[k - 1])]
NoErr(r) == [r EXCEPT !.err = FALSE]

\* The function of the loop is chosen; there is one, so the choice is one.
LEMMA OnlineLoop ==
    ASSUME NEW p, NEW s, s = Start(p, 2), ~s.err, NEW n, Number(s, 2) = n,
           NEW c, c = [s EXCEPT !.pos = 2], NEW g, IsLoop(c, n, g)
    PROVE  \E h : IsLoop(c, n, h) /\ PyParseOnlineList(p) = NoErr(h[n])
<1> DEFINE count == IF Start(p, 2).err THEN 0 ELSE Number(Start(p, 2), 2)
           Loop(f) == [k \in 0 .. count |->
                         IF k = 0 THEN [Start(p, 2) EXCEPT !.pos = 2] ELSE ReadStr(f[k - 1])]
<1>1. PyParseOnlineList(p) = NoErr((CHOOSE f : f = Loop(f))[count])
  BY Zenon DEF PyParseOnlineList, NoErr
<1>2. count = n
  OBVIOUS
<1>3. \A f : Loop(f) = [k \in 0 .. n |-> IF k = 0 THEN c ELSE ReadStr(f[k - 1])]
  BY <1>2
<1> HIDE DEF Loop, count
<1>4. g = Loop(g)
  BY <1>3 DEF IsLoop
<1>5. PICK h : h = CHOOSE f : f = Loop(f)
  OBVIOUS
<1>6. h = Loop(h)
  BY <1>4, <1>5
<1>7. PyParseOnlineList(p) = NoErr(h[n])
  BY <1>1, <1>2, <1>5
<1>8. IsLoop(c, n, h)
  BY <1>3, <1>6 DEF IsLoop
<1> QED BY <1>7, <1>8

LEMMA LoopExists ==
    ASSUME NEW c, NEW n \in Nat PROVE \E g : IsLoop(c, n, g)
<1> DEFINE T == {k \in Nat : \E g : IsLoop(c, k, g)}
<1>1. 0 \in T
  <2>1. PICK z \in Nat : z = 0
    OBVIOUS
  <2>2. PICK g : g = [k \in 0 .. z |-> c]
    OBVIOUS
  <2>3. IsLoop(c, z, g)
    BY <2>1, <2>2 DEF IsLoop
  <2> QED BY <2>1, <2>3
<1>2. ASSUME NEW k \in Nat, k \in T PROVE k + 1 \in T
  <2>1. PICK h : IsLoop(c, k, h)
    BY <1>2
  <2>2. PICK e : e = ReadStr(h[k])
    OBVIOUS
  <2>3. PICK g : g = [j \in 0 .. k + 1 |-> IF j = k + 1 THEN e ELSE h[j]]
    OBVIOUS
  <2>4. ASSUME NEW j \in 0 .. k + 1
        PROVE  g[j] = IF j = 0 THEN c ELSE ReadStr(g[j - 1])
    <3>1. CASE j = k + 1
      <4>1. j # 0 /\ j - 1 = k /\ k # k + 1 /\ k \in 0 .. k + 1
        BY <3>1
      <4>2. g[j] = e /\ g[k] = h[k]
        BY <2>3, <3>1, <4>1
      <4> QED BY <2>2, <3>1, <4>1, <4>2
    <3>2. CASE j # k + 1
      <4>1. j \in 0 .. k /\ g[j] = h[j]
        BY <2>3, <3>2
      <4>2. j # 0 => j - 1 \in 0 .. k + 1 /\ j - 1 # k + 1
        BY <4>1
      <4>3. j # 0 => g[j - 1] = h[j - 1]
        BY <2>3, <4>2
      <4>4. h[j] = IF j = 0 THEN c ELSE ReadStr(h[j - 1])
        BY <2>1, <4>1 DEF IsLoop
      <4> QED BY <4>1, <4>3, <4>4
    <3> QED BY <3>1, <3>2
  <2>5. g = [j \in 0 .. k + 1 |-> g[j]]
    BY <2>3
  <2>6. IsLoop(c, k + 1, g)
    BY <2>4, <2>5 DEF IsLoop
  <2> QED BY <2>6
<1>3. n \in T
  <2> HIDE DEF T
  <2> QED BY <1>1, <1>2, Induction
<1> QED BY <1>3

LEMMA LoopSteps ==
    ASSUME NEW c, NEW n \in Nat, NEW g, IsLoop(c, n, g)
    PROVE  g[0] = c /\ \A k \in 0 .. n : k + 1 <= n => g[k + 1] = ReadStr(g[k])
<1>1. \A k \in 0 .. n : g[k] = IF k = 0 THEN c ELSE ReadStr(g[k - 1])
  BY DEF IsLoop
<1>2. g[0] = c
  BY <1>1
<1>3. ASSUME NEW k \in 0 .. n, k + 1 <= n PROVE g[k + 1] = ReadStr(g[k])
  <2>1. PICK j : j = k + 1
    OBVIOUS
  <2>2. j \in 0 .. n /\ j # 0 /\ j - 1 = k
    BY <1>3, <2>1
  <2>3. g[j] = ReadStr(g[k])
    BY <1>1, <2>2
  <2> QED BY <2>1, <2>3
<1> QED BY <1>2, <1>3

\* The cursor behind the count.
LEMMA OnlineStart ==
    ASSUME NEW p \in Seq(Nat), NEW n \in Nat, n < Limit16, Field(p, 0, U16(n)), 2 <= Len(p),
           NEW s, s = Start(p, 2)
    PROVE  ~s.err /\ Number(s, 2) = n /\ At([s EXCEPT !.pos = 2], p, 2, <<>>)
<1>1. PICK z \in Nat, two \in Nat : z = 0 /\ two = 2
  OBVIOUS
<1>2. At(s, p, 0, <<>>)
  BY <1>1, StartAt
<1>3. At(s, p, z, <<>>) /\ Field(p, z, U16(n)) /\ z + 2 <= Len(p)
  <2>1. z + 2 = 2
    BY <1>1
  <2> QED BY <1>1, <1>2, <2>1
<1>4. Num16(p, z + 1) = n
  BY <1>3, Field16
<1>5. Number(s, 2) = n
  BY <1>3, <1>4, NumberAt
<1>6. At([s EXCEPT !.pos = 2], p, 2, <<>>)
  BY <1>2 DEF At
<1>7. ~s.err
  BY <1>2 DEF At
<1> QED BY <1>5, <1>6, <1>7

LEMMA NoErrAt ==
    ASSUME NEW r, NEW p, NEW k, NEW vs, At(r, p, k, vs)
    PROVE  At(NoErr(r), p, k, vs)
BY DEF At, NoErr

\* What has been written after each turn of the writer's loop is a prefix of the
\* payload, and the next name follows it.
Prefixed(p, h, k) == Field(p, 0, h[k]) /\ Len(h[k]) \in Nat /\ Len(h[k]) <= Len(p)

LEMMA OutPrefixes ==
    ASSUME NEW names, NEW n, Names(names, n), NEW h, IsOut(names, n, h),
           NEW p, Field(p, 0, h[n]), Len(p) = Len(h[n]), NEW k \in 0 .. n
    PROVE  Prefixed(p, h, k)
<1>0. n \in Nat /\ Len(names) = n
  BY NamesFacts
<1>s. ASSUME NEW j \in 0 .. n PROVE \E l : Size(h[j], l)
  BY OutSize
<1> DEFINE T == {d \in Nat : d <= n => Prefixed(p, h, n - d)}
<1>1. 0 \in T
  <2>1. n - 0 = n /\ n \in 0 .. n
    BY <1>0
  <2>2. PICK l : Size(h[n], l)
    BY <1>s, <2>1
  <2>3. Len(h[n]) \in Nat /\ Len(h[n]) <= Len(p)
    BY <2>2 DEF Size
  <2> QED BY <2>1, <2>3 DEF Prefixed
<1>2. ASSUME NEW d \in Nat, d \in T PROVE d + 1 \in T
  <2> SUFFICES ASSUME d + 1 <= n PROVE Prefixed(p, h, n - (d + 1))
    OBVIOUS
  <2>1. PICK j \in Nat : j = n - (d + 1) /\ j + 1 = n - d /\ j \in 0 .. n /\ j + 1 \in 1 .. n
    <3>1. n - (d + 1) \in Nat /\ (n - (d + 1)) + 1 = n - d
      BY <1>0
    <3>2. n - (d + 1) \in 0 .. n /\ (n - (d + 1)) + 1 \in 1 .. n
      BY <1>0, <3>1
    <3> QED BY <3>1, <3>2
  <2>2. Prefixed(p, h, j + 1)
    BY <1>0, <1>2, <2>1
  <2>3. PICK a, e : a = h[j] /\ e = Str(names[j + 1])
    OBVIOUS
  <2>4. h[j + 1] = a \o e
    <3>1. j + 1 <= n
      BY <1>0, <2>1
    <3> QED BY <1>0, <2>1, <2>3, <3>1, OutSteps
  <2>5. PICK l : Size(a, l)
    BY <1>s, <2>1, <2>3
  <2>6. PICK x : Size(e, x)
    <3>1. names[j + 1] \in Text
      BY <2>1, NamesFacts
    <3> QED BY <2>3, <3>1, SizeStr
  <2>7. Size(a \o e, l + x)
    BY <2>5, <2>6, SizeCat
  <2>8. Field(p, 0, a \o e) /\ Len(a \o e) <= Len(p)
    BY <2>2, <2>4 DEF Prefixed
  <2>9. Field(p, 0, a)
    BY <2>5, <2>6, <2>8, FieldCat
  <2>10. Len(a) \in Nat /\ Len(a) <= Len(p)
    <3>1. l \in Nat /\ x \in Nat /\ Len(a) = l /\ Len(a \o e) = l + x
      BY <2>5, <2>6, <2>7 DEF Size
    <3>2. Len(p) \in Nat
      BY <2>8, LenProperties DEF Field
    <3> QED BY <2>8, <3>1, <3>2
  <2> QED BY <2>1, <2>3, <2>9, <2>10 DEF Prefixed
<1>3. n - k \in T
  <2>1. n - k \in Nat
    BY <1>0
  <2> HIDE DEF T
  <2> QED BY <1>1, <1>2, <2>1, Induction
<1>4. n - k <= n /\ n - (n - k) = k
  BY <1>0
<1> QED BY <1>3, <1>4

LEMMA NameFollows ==
    ASSUME NEW names, NEW n, Names(names, n), NEW h, IsOut(names, n, h),
           NEW p, Field(p, 0, h[n]), Len(p) = Len(h[n])
    PROVE  \A k \in 0 .. n : k + 1 <= n =>
              /\ Field(p, Len(h[k]), Str(names[k + 1]))
              /\ Len(h[k + 1]) = Len(h[k]) + (2 + Len(names[k + 1]))
              /\ Len(h[k + 1]) <= Len(p)
<1> TAKE k \in 0 .. n
<1> HAVE k + 1 <= n
<1>s. PICK s : s = names[k + 1]
  OBVIOUS
<1>0. n \in Nat
  BY NamesFacts
<1>1. k + 1 \in 1 .. n /\ k + 1 \in 0 .. n
  BY <1>0
<1>2. Prefixed(p, h, k + 1)
  BY <1>1, OutPrefixes
<1>3. s \in Text
  BY <1>1, <1>s, NamesFacts
<1>4. PICK a, e : a = h[k] /\ e = Str(s)
  OBVIOUS
<1>5. h[k + 1] = a \o e
  BY <1>0, <1>4, <1>s, OutSteps
<1>6. PICK l \in Nat : Size(a, l) /\ l = Len(a)
  <2>1. PICK l : Size(h[k], l)
    BY OutSize
  <2> QED BY <1>4, <2>1 DEF Size
<1>7. Size(e, 2 + Len(s))
  BY <1>3, <1>4, SizeStr
<1>8. Size(a \o e, l + (2 + Len(s)))
  BY <1>6, <1>7, SizeCat
<1>9. Field(p, 0, a \o e) /\ Len(a \o e) <= Len(p)
  BY <1>2, <1>5 DEF Prefixed
<1>10. Field(p, 0 + l, e)
  BY <1>6, <1>7, <1>9, FieldCat
<1>11. 0 + l = l
  BY <1>6
<1>12. Len(a \o e) = l + (2 + Len(s))
  BY <1>8 DEF Size
<1> QED BY <1>4, <1>5, <1>6, <1>9, <1>10, <1>11, <1>12, <1>s

LEMMA NamesPrefix ==
    ASSUME NEW names, NEW n, Names(names, n), NEW k \in 0 .. n
    PROVE  /\ k + 1 <= n => Append(SubSeq(names, 1, k), names[k + 1]) = SubSeq(names, 1, k + 1)
           /\ SubSeq(names, 1, 0) = <<>>
           /\ SubSeq(names, 1, n) = names
<1>1. n \in Nat /\ names \in Seq(ShortText) /\ Len(names) = n
  BY NamesFacts
<1>2. ASSUME k + 1 <= n
      PROVE  Append(SubSeq(names, 1, k), names[k + 1]) = SubSeq(names, 1, k + 1)
  BY <1>1, <1>2
<1>3. SubSeq(names, 1, 0) = <<>>
  BY <1>1
<1>4. SubSeq(names, 1, n) = names
  BY <1>1
<1> QED BY <1>2, <1>3, <1>4

LEMMA OnlineParsed ==
    ASSUME NEW names, NEW n, Names(names, n),
           NEW p, NEW f, f = OnlineListResp(names), Field(p, 0, f), Len(p) = Len(f)
    PROVE  \E k : At(PyParseOnlineList(p), p, k, names)
<1>0. n \in Nat /\ n < Limit16 /\ Len(names) = n
  BY NamesFacts
<1>1. PICK h : IsOut(names, n, h) /\ f = h[n]
  BY <1>0, OutIs
<1>2. \A k \in 0 .. n : Prefixed(p, h, k)
  BY <1>1, OutPrefixes
<1>3. Field(p, 0, U16(n)) /\ 2 <= Len(p) /\ p \in Seq(Nat) /\ Len(h[0]) = 2
  <2>0. 0 \in 0 .. n
    BY <1>0
  <2>1. h[0] = U16(n) /\ Size(U16(n), 2) /\ 0 \in 0 .. n
    BY <1>0, <1>1, <2>0, OutSteps, SizeU16
  <2>2. Prefixed(p, h, 0)
    BY <1>2, <2>1
  <2> QED BY <2>1, <2>2 DEF Prefixed, Size, Field
<1>4. PICK s : s = Start(p, 2)
  OBVIOUS
<1>5. PICK c : c = [s EXCEPT !.pos = 2]
  OBVIOUS
<1>6. ~s.err /\ Number(s, 2) = n /\ At(c, p, 2, <<>>)
  BY <1>0, <1>3, <1>4, <1>5, OnlineStart
<1>7. \E g : IsLoop(c, n, g)
  BY <1>0, LoopExists
<1>8. PICK g : IsLoop(c, n, g) /\ PyParseOnlineList(p) = NoErr(g[n])
  BY <1>4, <1>5, <1>6, <1>7, OnlineLoop
<1>n. \A k \in 0 .. n : k + 1 <= n =>
         /\ Field(p, Len(h[k]), Str(names[k + 1]))
         /\ Len(h[k + 1]) = Len(h[k]) + (2 + Len(names[k + 1]))
         /\ Len(h[k + 1]) <= Len(p)
  BY <1>1, NameFollows
<1> DEFINE T == {k \in Nat : k <= n => At(g[k], p, Len(h[k]), SubSeq(names, 1, k))}
<1>9. 0 \in T
  <2>0. 0 \in 0 .. n
    BY <1>0
  <2>1. g[0] = c /\ 0 \in 0 .. n
    BY <1>0, <1>8, <2>0, LoopSteps
  <2>2. SubSeq(names, 1, 0) = <<>>
    BY <2>1, NamesPrefix
  <2>3. At(g[0], p, Len(h[0]), SubSeq(names, 1, 0))
    BY <1>3, <1>6, <2>1, <2>2
  <2> QED BY <2>3
<1>10. ASSUME NEW k \in Nat, k \in T PROVE k + 1 \in T
  <2> SUFFICES ASSUME k + 1 <= n
               PROVE  At(g[k + 1], p, Len(h[k + 1]), SubSeq(names, 1, k + 1))
    OBVIOUS
  <2>1. k \in 0 .. n /\ k <= n /\ k + 1 \in 1 .. n
    BY <1>0
  <2>2. At(g[k], p, Len(h[k]), SubSeq(names, 1, k))
    BY <1>10, <2>1
  <2>3. PICK t : t = names[k + 1]
    OBVIOUS
  <2>4. t \in Text /\ Len(t) < Limit16
    BY <2>1, <2>3, NamesFacts
  <2>5. /\ Field(p, Len(h[k]), Str(t))
        /\ Len(h[k + 1]) = Len(h[k]) + (2 + Len(t))
        /\ Len(h[k + 1]) <= Len(p)
    BY <1>n, <2>1, <2>3
  <2>6. SubSeq(names, 1, k + 1) = Append(SubSeq(names, 1, k), t)
    BY <2>1, <2>3, NamesPrefix
  <2>7. At(ReadStr(g[k]), p, Len(h[k + 1]), SubSeq(names, 1, k + 1))
    BY <2>2, <2>4, <2>5, <2>6, AtStr
  <2>8. g[k + 1] = ReadStr(g[k])
    BY <1>0, <1>8, <2>1, LoopSteps
  <2> QED BY <2>7, <2>8
<1>11. n \in T
  <2> HIDE DEF T
  <2> QED BY <1>0, <1>9, <1>10, Induction
<1>12. n <= n /\ n \in 0 .. n
  BY <1>0
<1>13. At(g[n], p, Len(h[n]), names)
  BY <1>11, <1>12, NamesPrefix
<1> QED BY <1>8, <1>13, NoErrAt

\* The values that test_auth is after are the first two.
LEMMA AgreesTwo ==
    ASSUME NEW a, NEW b, NEW c PROVE Agrees(<<a, b, c>>, <<a, b>>)
<1>1. PICK S : S = {a, b, c}
  OBVIOUS
<1>2. PICK s, t, x : s = <<a, b, c>> /\ t = <<a, b>> /\ x = SubSeq(s, 1, 2)
  OBVIOUS
<1>3. /\ s \in Seq(S) /\ t \in Seq(S) /\ Len(s) = 3 /\ Len(t) = 2
      /\ t[1] = s[1] /\ t[2] = s[2]
  BY <1>1, <1>2
<1>4. x \in Seq(S) /\ Len(x) = 2 /\ \A i \in 1 .. 2 : x[i] = s[i]
  <2>1. 1 \in 1 .. Len(s) + 1 /\ 2 \in 1 - 1 .. Len(s) /\ 1 <= 2
    BY <1>3
  <2> QED BY <1>2, <1>3, <2>1, SubSeqProperties
<1>5. \A i \in 1 .. 2 : i = 1 \/ i = 2
  OBVIOUS
<1>6. \A i \in 1 .. 2 : x[i] = t[i]
  BY <1>3, <1>4, <1>5
<1>7. x = t
  BY <1>3, <1>4, <1>6, SeqEqual
<1> QED BY <1>2, <1>3, <1>7 DEF Agrees

\* All of the payload f of m has arrived as p.
Whole(m, f, p) == Field(p, 0, f) /\ Len(p) = Len(f) /\ f = Payload(m)

LEMMA LoginRespOk ==
    ASSUME NEW m, m.type = MsgType.LOGIN_RESP, NEW ok \in BOOLEAN, NEW t \in ShortText,
           NEW u \in ShortText, NEW s \in ShortText, NEW i \in BigNums \cup {0},
           ~ok => t = <<>> /\ i = 0 /\ u = <<>>, m.vals = <<ok, t, i, u, s>>,
           NEW p, NEW f, Whole(m, f, p)
    PROVE  Clean(PyParseLoginResp(p), m.vals) /\ Clean(CppParseLoginResp(p), <<ok, t>>)
<1>1. /\ m.vals[1] = ok /\ m.vals[2] = t /\ m.vals[3] = i /\ m.vals[4] = u
      /\ m.vals[5] = s
  OBVIOUS
<1>2. /\ t \in Text /\ u \in Text /\ s \in Text
      /\ Len(t) < Limit16 /\ Len(u) < Limit16 /\ Len(s) < Limit16
  BY Shorts
<1>3. i \in Nat /\ i < Limit64
  BY NumsNat, BigNumsNat, Limits
<1>4. f = LoginResp(ok, t, i, u, s) /\ Field(p, 0, f) /\ Len(p) = Len(f)
  BY <1>1, PayloadIs DEF Whole
<1>5. /\ \E k : At(PyParseLoginResp(p), p, k, <<ok, t, i, u, s>>)
      /\ \E k, x : At(CppParseLoginResp(p), p, k, <<ok, t, x>>)
  <2>1. CASE ok
    <3>1. ok = TRUE
      BY <2>1
    <3>2. f = LoginResp(TRUE, t, i, u, s)
      BY <1>4, <3>1
    <3>3. /\ \E k : At(PyParseLoginResp(p), p, k, <<TRUE, t, i, u, s>>)
          /\ \E k, x : At(CppParseLoginResp(p), p, k, <<TRUE, t, x>>)
      BY <1>2, <1>3, <1>4, <3>2, LoggedInParsed
    <3> QED BY <3>1, <3>3
  <2>2. CASE ~ok
    <3>1. ok = FALSE /\ t = <<>> /\ i = 0 /\ u = <<>>
      BY <2>2
    <3>2. f = LoginResp(FALSE, <<>>, 0, <<>>, s)
      BY <1>4, <3>1
    <3>3. /\ \E k : At(PyParseLoginResp(p), p, k, <<FALSE, <<>>, 0, <<>>, s>>)
          /\ \E k : At(CppParseLoginResp(p), p, k, <<FALSE, <<>>, s>>)
      BY <1>2, <1>4, <3>2, RefusedParsed
    <3> QED BY <3>1, <3>3
  <2> QED BY <2>1, <2>2
<1>6. Clean(PyParseLoginResp(p), m.vals)
  <2>1. IsSeq(<<ok, t, i, u, s>>)
    BY Tuples
  <2> QED BY <1>5, <2>1, CleanAt
<1>7. Clean(CppParseLoginResp(p), <<ok, t>>)
  <2>1. PICK k, x : At(CppParseLoginResp(p), p, k, <<ok, t, x>>)
    BY <1>5
  <2>2. PICK r : r = CppParseLoginResp(p)
    OBVIOUS
  <2>3. ~r.err /\ ~r.over /\ r.vals = <<ok, t, x>>
    BY <2>1, <2>2 DEF At
  <2>4. Agrees(r.vals, <<ok, t>>)
    BY <2>3, AgreesTwo
  <2> QED BY <2>2, <2>3, <2>4 DEF Clean
<1> QED BY <1>6, <1>7

LEMMA OnlineOk ==
    ASSUME NEW m, m.type = MsgType.ONLINE_LIST_RESP, NEW p, NEW f, Whole(m, f, p),
           NEW n \in 0 .. MaxNames, m.vals \in [1 .. n -> ShortText]
    PROVE  Clean(PyParseOnlineList(p), m.vals)
<1>1. f = OnlineListResp(m.vals) /\ Field(p, 0, f) /\ Len(p) = Len(f)
  BY PayloadIs DEF Whole
<1>2. PICK names : names = m.vals
  OBVIOUS
<1>3. Names(names, n)
  BY <1>2, NamesFit DEF Names
<1>4. \E k : At(PyParseOnlineList(p), p, k, names)
  BY <1>1, <1>2, <1>3, OnlineParsed
<1>5. IsSeq(names)
  BY <1>3, NamesFacts DEF IsSeq
<1> QED BY <1>2, <1>4, <1>5, CleanAt

LEMMA RegisterRespOk ==
    ASSUME NEW m, m.type = MsgType.REGISTER_RESP, NEW ok \in BOOLEAN, NEW s \in ShortText,
           m.vals = <<ok, s>>, NEW p, NEW f, Whole(m, f, p)
    PROVE  Clean(PyParseRegisterResp(p), m.vals) /\ Clean(CppParseRegisterResp(p), m.vals)
<1>1. m.vals[1] = ok /\ m.vals[2] = s
  OBVIOUS
<1>2. s \in Text /\ Len(s) < Limit16
  BY Shorts
<1>3. f = RegisterResp(ok, s) /\ Field(p, 0, f) /\ Len(p) = Len(f)
  BY <1>1, PayloadIs DEF Whole
<1>4. \E k : /\ At(PyParseRegisterResp(p), p, k, <<ok, s>>)
             /\ At(CppParseRegisterResp(p), p, k, <<ok, s>>)
  BY <1>2, <1>3, RegisterRespParsed
<1>5. IsSeq(<<ok, s>>)
  BY Tuples
<1> QED BY <1>4, <1>5, CleanAt

LEMMA OfferRespOk ==
    ASSUME NEW m, m.type = MsgType.FILE_OFFER_RESP, NEW ok \in BOOLEAN, NEW i \in BigNums,
           NEW s \in ShortText, ok => s = <<>>, m.vals = <<ok, i, s>>,
           NEW p, NEW f, Whole(m, f, p)
    PROVE  Clean(ParseFileOfferResp(p), m.vals)
<1>1. m.vals[1] = ok /\ m.vals[2] = i /\ m.vals[3] = s
  OBVIOUS
<1>2. s \in Text /\ Len(s) < Limit16 /\ i \in Nat /\ i < Limit64
  BY Shorts, BigNumsNat
<1>3. f = FileOfferResp(ok, i, s) /\ Field(p, 0, f) /\ Len(p) = Len(f)
  BY <1>1, PayloadIs DEF Whole
<1>4. \E k : At(ParseFileOfferResp(p), p, k, <<ok, i, s>>)
  BY <1>2, <1>3, OfferRespParsed
<1>5. IsSeq(<<ok, i, s>>)
  BY Tuples
<1> QED BY <1>4, <1>5, CleanAt

LEMMA AcceptRespOk ==
    ASSUME NEW m, m.type = MsgType.FILE_ACCEPT_RESP, NEW ok \in BOOLEAN, NEW s \in ShortText,
           ok => s = <<>>, m.vals = <<ok, s>>, NEW p, NEW f, Whole(m, f, p)
    PROVE  Clean(ParseFileAcceptResp(p), m.vals)
<1>1. m.vals[1] = ok /\ m.vals[2] = s
  OBVIOUS
<1>2. s \in Text /\ Len(s) < Limit16
  BY Shorts
<1>3. f = FileAcceptResp(ok, s) /\ Field(p, 0, f) /\ Len(p) = Len(f)
  BY <1>1, PayloadIs DEF Whole
<1>4. \E k : At(ParseFileAcceptResp(p), p, k, <<ok, s>>)
  BY <1>2, <1>3, AcceptRespParsed
<1>5. IsSeq(<<ok, s>>)
  BY Tuples
<1> QED BY <1>4, <1>5, CleanAt

LEMMA ResultOk ==
    ASSUME NEW m, m.type = MsgType.FILE_RESULT, NEW i \in BigNums, NEW ok \in BOOLEAN,
           NEW s \in ShortText, m.vals = <<i, ok, s>>, NEW p, NEW f, Whole(m, f, p)
    PROVE  Clean(ParseFileResult(p), m.vals)
<1>1. m.vals[1] = i /\ m.vals[2] = ok /\ m.vals[3] = s
  OBVIOUS
<1>2. s \in Text /\ Len(s) < Limit16 /\ i \in Nat /\ i < Limit64
  BY Shorts, BigNumsNat
<1>3. f = FileResult(i, ok, s) /\ Field(p, 0, f) /\ Len(p) = Len(f)
  BY <1>1, PayloadIs DEF Whole
<1>4. \E k : At(ParseFileResult(p), p, k, <<i, ok, s>>)
  BY <1>2, <1>3, ResultParsed
<1>5. IsSeq(<<i, ok, s>>)
  BY Tuples
<1> QED BY <1>4, <1>5, CleanAt

LEMMA RepliesOk ==
    ASSUME NEW by, by \in Readers, NEW m, Reply(m), m.cut = 0, NEW wanted,
           wanted = IF by = "client" /\ m.type = MsgType.LOGIN_RESP
                    THEN <<m.vals[1], m.vals[2]>> ELSE m.vals,
           by # "core"
    PROVE  Clean(Parse(by, m.type, Sent(m)), wanted)
<1>1. PICK f, p : f = Payload(m) /\ p = Sent(m)
  OBVIOUS
<1>2. Whole(m, f, p)
  <2>1. Len(Payload(m)) \in Nat
    BY ReplyCarried DEF Carried
  <2>2. SentAs(m, f, p)
    BY <1>1, <2>1, SentField
  <2> QED BY <1>1, <2>2 DEF Whole, SentAs
<1>3. by = "client" \/ by = "gateway"
  BY DEF Readers
<1>4. CASE /\ m.type = MsgType.LOGIN_RESP
           /\ \E ok \in BOOLEAN, t, u, s \in ShortText, i \in BigNums \cup {0} :
                 /\ ~ok => t = <<>> /\ i = 0 /\ u = <<>>
                 /\ m.vals = <<ok, t, i, u, s>>
  <2>1. PICK ok \in BOOLEAN, t \in ShortText, u \in ShortText, s \in ShortText,
             i \in BigNums \cup {0} :
                 /\ ~ok => t = <<>> /\ i = 0 /\ u = <<>>
                 /\ m.vals = <<ok, t, i, u, s>>
    BY <1>4
  <2>2. Clean(PyParseLoginResp(p), m.vals) /\ Clean(CppParseLoginResp(p), <<ok, t>>)
    BY <1>2, <1>4, <2>1, LoginRespOk
  <2>3. <<m.vals[1], m.vals[2]>> = <<ok, t>>
    BY <2>1
  <2>4. Parse(by, m.type, p) = IF by = "gateway" THEN PyParseLoginResp(p)
                                                 ELSE CppParseLoginResp(p)
    BY <1>4, ParseIs
  <2> QED BY <1>1, <1>3, <1>4, <2>2, <2>3, <2>4
<1>5. CASE m.type # MsgType.LOGIN_RESP
  <2>1. wanted = m.vals
    BY <1>5
  <2>2. CASE /\ m.type = MsgType.REGISTER_RESP
             /\ \E ok \in BOOLEAN, s \in ShortText : m.vals = <<ok, s>>
    <3>1. Clean(PyParseRegisterResp(p), m.vals) /\ Clean(CppParseRegisterResp(p), m.vals)
      BY <1>2, <2>2, RegisterRespOk
    <3> QED BY <1>1, <2>1, <2>2, <3>1, ParseIs
  <2>3. CASE /\ m.type = MsgType.ONLINE_LIST_RESP
             /\ \E n \in 0 .. MaxNames : m.vals \in [1 .. n -> ShortText]
    <3>1. Clean(PyParseOnlineList(p), m.vals)
      BY <1>2, <2>3, OnlineOk
    <3> QED BY <1>1, <2>1, <2>3, <3>1, ParseIs
  <2>4. CASE /\ m.type = MsgType.FILE_OFFER_RESP
             /\ \E ok \in BOOLEAN, i \in BigNums, s \in ShortText :
                   (ok => s = <<>>) /\ m.vals = <<ok, i, s>>
    <3>1. Clean(ParseFileOfferResp(p), m.vals)
      BY <1>2, <2>4, OfferRespOk
    <3> QED BY <1>1, <2>1, <2>4, <3>1, ParseIs
  <2>5. CASE /\ m.type = MsgType.FILE_ACCEPT_RESP
             /\ \E ok \in BOOLEAN, s \in ShortText : (ok => s = <<>>) /\ m.vals = <<ok, s>>
    <3>1. Clean(ParseFileAcceptResp(p), m.vals)
      BY <1>2, <2>5, AcceptRespOk
    <3> QED BY <1>1, <2>1, <2>5, <3>1, ParseIs
  <2>6. CASE /\ m.type = MsgType.FILE_RESULT
             /\ \E i \in BigNums, ok \in BOOLEAN, s \in ShortText : m.vals = <<i, ok, s>>
    <3>1. Clean(ParseFileResult(p), m.vals)
      BY <1>2, <2>6, ResultOk
    <3> QED BY <1>1, <2>1, <2>6, <3>1, ParseIs
  <2> QED BY <1>5, <2>2, <2>3, <2>4, <2>5, <2>6 DEF Reply
<1>6. m.type = MsgType.LOGIN_RESP =>
        \E ok \in BOOLEAN, t, u, s \in ShortText, i \in BigNums \cup {0} :
           /\ ~ok => t = <<>> /\ i = 0 /\ u = <<>>
           /\ m.vals = <<ok, t, i, u, s>>
  <2>1. /\ MsgType.LOGIN_RESP # MsgType.REGISTER_RESP
        /\ MsgType.LOGIN_RESP # MsgType.ONLINE_LIST_RESP
        /\ MsgType.LOGIN_RESP # MsgType.FILE_OFFER_RESP
        /\ MsgType.LOGIN_RESP # MsgType.FILE_ACCEPT_RESP
        /\ MsgType.LOGIN_RESP # MsgType.FILE_RESULT
    BY DEF MsgType
  <2> QED BY <2>1 DEF Reply
<1> QED BY <1>4, <1>5, <1>6

-----------------------------------------------------------------------------
(***************************************************************************)
(* What was parsed last                                                    *)
(***************************************************************************)

LEMMA LastParsed ==
    ASSUME WireInv, last # <<>>
    PROVE  /\ Written(reader, last[1].msg)
           /\ last[1].result = Parse(reader, last[1].msg.type, Sent(last[1].msg))
<1>1. PICK m : /\ Written(reader, m)
               /\ last = <<[msg |-> m, type |-> m.type,
                            result |-> Parse(reader, m.type, Sent(m))]>>
  BY DEF WireInv, ParsedAsSent
<1>2. last[1] = [msg |-> m, type |-> m.type, result |-> Parse(reader, m.type, Sent(m))]
  BY <1>1
<1>3. last[1].msg = m /\ last[1].result = Parse(reader, m.type, Sent(m))
  BY <1>2
<1> QED BY <1>1, <1>3

\* The exception for a registration without email is about requests.
LEMMA ReplyTypes ==
    ASSUME NEW m, Reply(m) PROVE ~NoEmail(m)
BY DEF Reply, NoEmail, MsgType

(***************************************************************************)
(* What one program serializes another one reads: the values that went into*)
(* the writer's serializer come out of the reader's parser, for any strings*)
(* below 65536 bytes, any numbers that fit their four or eight bytes and   *)
(* online lists of up to 65534 names, however TCP groups the bytes; and a  *)
(* registration without email is refused (auth_messages.h:24-165,          *)
(* online_messages.h:21-38, file_messages.h:45-378, core_client.py:67-256, *)
(* test_auth.cpp:110-141).                                                 *)
(***************************************************************************)
THEOREM MessagesUnderstood == Spec => []Understood
<1>1. ASSUME WireInv PROVE Understood
  <2> SUFFICES ASSUME last # <<>>, NEW m, m = last[1].msg, NEW r, r = last[1].result,
                      m.cut = 0, Short(m)
               PROVE  IF NoEmail(m) THEN r.err
                      ELSE ~r.err /\ ~r.over /\ Agrees(r.vals, Wanted(m))
    BY DEF Understood
  <2>1. Written(reader, m) /\ r = Parse(reader, m.type, Sent(m))
    BY <1>1, LastParsed
  <2>2. CASE reader = "core"
    <3>1. RequestOk(m, Parse(reader, m.type, Sent(m)))
      BY <2>1, <2>2, RequestsOk DEF Written
    <3>2. Wanted(m) = m.vals
      BY <2>2 DEF Wanted
    <3> QED BY <2>1, <3>1, <3>2 DEF RequestOk, Clean
  <2>3. CASE reader # "core"
    <3>1. Reply(m) /\ reader \in Readers
      BY <1>1, <2>1, <2>3 DEF Written, WireInv, TypeOK
    <3>2. PICK by, wanted : by = reader /\ wanted = Wanted(m)
      OBVIOUS
    <3>3. wanted = IF by = "client" /\ m.type = MsgType.LOGIN_RESP
                   THEN <<m.vals[1], m.vals[2]>> ELSE m.vals
      BY <3>2 DEF Wanted
    <3>4. Clean(Parse(by, m.type, Sent(m)), wanted)
      BY <2>3, <3>1, <3>2, <3>3, RepliesOk
    <3>5. ~NoEmail(m)
      BY <3>1, ReplyTypes
    <3> QED BY <2>1, <3>2, <3>4, <3>5 DEF Clean
  <2> QED BY <2>2, <2>3
<1> QED BY <1>1, WireInvariant, PTL

(***************************************************************************)
(* A request whose payload ends early is refused, or every value its       *)
(* handler uses was sent (auth_messages.h:25-49, file_messages.h:53-88,    *)
(* 190-194, 264-271, 305-310).                                             *)
(***************************************************************************)
THEOREM CutRequestsRefused == Spec => []CutRefused
<1>1. ASSUME WireInv PROVE CutRefused
  <2> SUFFICES ASSUME last # <<>>, NEW m, m = last[1].msg, NEW r, r = last[1].result,
                      m.cut > 0, Short(m)
               PROVE  CutOk(m, r)
    BY DEF CutRefused, CutOk
  <2>1. Written(reader, m) /\ r = Parse(reader, m.type, Sent(m))
    BY <1>1, LastParsed
  <2>2. reader = "core"
    BY <2>1 DEF Written
  <2>3. RequestOk(m, Parse(reader, m.type, Sent(m)))
    BY <2>1, <2>2, RequestsOk DEF Written
  <2> QED BY <2>1, <2>3 DEF RequestOk
<1> QED BY <1>1, WireInvariant, PTL
=============================================================================
