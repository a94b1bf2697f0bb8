------------------------------ MODULE WireProofs ------------------------------
(****************************************************************************)
(* Proofs about Wire: every message is read back as what it means, for      *)
(* every length and number; the bytes between the reader and the writer are *)
(* those of the frames that are there; what is read is what was put in.     *)
(* Weights of digits and MaxNumber are expanded in the lemmas about numbers *)
(* only, and positions in a sequence of bytes in those about sequences.     *)
(****************************************************************************)
EXTENDS Wire, SequenceTheorems, TLAPS
-----------------------------------------------------------------------------
(* Sequences of bytes.                                                      *)

(* Two of them, one after the other. *)
LEMMA Cat ==
    ASSUME NEW q \in Bytes, NEW r \in Bytes
    PROVE  /\ q \o r \in Bytes /\ Len(q \o r) = Len(q) + Len(r)
           /\ Len(q) \in Nat /\ Len(r) \in Nat
           /\ \A i \in 1 .. Len(q) : (q \o r)[i] = q[i]
           /\ \A i \in 1 .. Len(r) : (q \o r)[Len(q) + i] = r[i]
BY ConcatProperties DEF Bytes

(* A part of one. *)
LEMMA PartBytes ==
    ASSUME NEW q \in Bytes, NEW from \in Nat, NEW to \in Nat, from <= to, to <= Len(q)
    PROVE  /\ Part(q, from, to) \in Bytes /\ Len(Part(q, from, to)) = to - from
           /\ \A i \in 1 .. to - from : Part(q, from, to)[i] = q[from + i]
BY DEF Part, Bytes

(* Bytes that agree are equal. *)
LEMMA SameBytes ==
    ASSUME NEW q \in Bytes, NEW r \in Bytes, Len(q) = Len(r), \A i \in 1 .. Len(q) : q[i] = r[i]
    PROVE  q = r
BY SeqEqual DEF Bytes

(* The field b between a and c. *)
LEMMA PartOf ==
    ASSUME NEW a \in Bytes, NEW b \in Bytes, NEW c \in Bytes
    PROVE  Part((a \o b) \o c, Len(a), Len(a) + Len(b)) = b
<1> DEFINE ab == a \o b
           abc == ab \o c
           from == Len(a)
           to == Len(a) + Len(b)
<1>1. /\ ab \in Bytes /\ Len(ab) = Len(a) + Len(b) /\ Len(a) \in Nat /\ Len(b) \in Nat
      /\ \A i \in 1 .. Len(b) : ab[Len(a) + i] = b[i]
  BY Cat
<1>2. /\ abc \in Bytes /\ Len(abc) = Len(ab) + Len(c) /\ Len(c) \in Nat
      /\ \A i \in 1 .. Len(ab) : abc[i] = ab[i]
  BY <1>1, Cat
<1> HIDE DEF ab, abc
<1>3. /\ Part(abc, from, to) \in Bytes /\ Len(Part(abc, from, to)) = Len(b)
      /\ \A i \in 1 .. Len(b) : Part(abc, from, to)[i] = abc[from + i]
  <2>1. from \in Nat /\ to \in Nat /\ from <= to /\ to <= Len(abc) /\ to - from = Len(b)
    <3>1. PICK i \in Nat : i = Len(a)
      BY <1>1
    <3>2. PICK j \in Nat : j = Len(b)
      BY <1>1
    <3>3. PICK k \in Nat : k = Len(c)
      BY <1>2
    <3>4. from = i /\ to = i + j /\ Len(abc) = (i + j) + k
      BY <1>1, <1>2, <3>1, <3>2, <3>3
    <3>5. i <= i + j /\ i + j <= (i + j) + k /\ (i + j) - i = j /\ i + j \in Nat
      BY <3>1, <3>2, <3>3, SMT
    <3> QED BY <3>1, <3>2, <3>4, <3>5
  <2>2. PICK q \in Bytes : q = abc
    BY <1>2
  <2>3. PICK m \in Nat, n \in Nat : m = from /\ n = to
    BY <2>1
  <2>4. /\ Part(q, m, n) \in Bytes /\ Len(Part(q, m, n)) = n - m
        /\ \A i \in 1 .. n - m : Part(q, m, n)[i] = q[m + i]
    <3>1. m <= n /\ n <= Len(q)
      BY <2>1, <2>2, <2>3
    <3> QED BY <3>1, PartBytes
  <2> QED BY <2>1, <2>2, <2>3, <2>4
<1>4. \A i \in 1 .. Len(b) : Part(abc, from, to)[i] = b[i]
  BY <1>1, <1>2, <1>3
<1>5. Part(abc, from, to) = b
  <2> HIDE DEF from, to
  <2> QED BY <1>3, <1>4, SameBytes
<1> QED BY <1>5 DEF abc, ab

(* A field at the start, and one at the end. *)
LEMMA PartFirst ==
    ASSUME NEW b \in Bytes, NEW c \in Bytes
    PROVE  Part(b \o c, 0, Len(b)) = b
<1>1. <<>> \in Bytes /\ 0 = Len(<<>>) /\ Len(b) = Len(<<>>) + Len(b)
  BY DEF Bytes
<1>2. <<>> \o b = b
  BY ConcatEmptySeq DEF Bytes
<1>3. PICK e \in Bytes : e = <<>>
  BY <1>1
<1>4. Part((e \o b) \o c, Len(e), Len(e) + Len(b)) = b
  BY PartOf
<1> QED BY <1>1, <1>2, <1>3, <1>4
LEMMA PartLast ==
    ASSUME NEW a \in Bytes, NEW b \in Bytes
    PROVE  Part(a \o b, Len(a), Len(a) + Len(b)) = b
<1>1. <<>> \in Bytes /\ a \o b \in Bytes
  BY Cat DEF Bytes
<1>2. (a \o b) \o <<>> = a \o b
  BY <1>1, ConcatEmptySeq DEF Bytes
<1>3. PICK e \in Bytes : e = <<>>
  BY <1>1
<1>4. Part((a \o b) \o e, Len(a), Len(a) + Len(b)) = b
  BY PartOf
<1> QED BY <1>1, <1>2, <1>3, <1>4

(* Concatenation associates, and a tail undoes a first byte. *)
LEMMA Assoc ==
    ASSUME NEW a \in Bytes, NEW b \in Bytes, NEW c \in Bytes
    PROVE  (a \o b) \o c = a \o (b \o c)
BY ConcatAssociative DEF Bytes
LEMMA TailOf ==
    ASSUME NEW b \in Byte, NEW q \in Bytes
    PROVE  Tail(<<b>> \o q) = q /\ (<<b>> \o q)[1] = b /\ <<b>> \o q # <<>>
<1>1. <<b>> \in Bytes /\ Len(<<b>>) = 1
  BY DEF Bytes
<1>2. /\ <<b>> \o q \in Bytes /\ Len(<<b>> \o q) = 1 + Len(q) /\ Len(q) \in Nat
      /\ (<<b>> \o q)[1] = b /\ \A i \in 1 .. Len(q) : (<<b>> \o q)[1 + i] = q[i]
  BY <1>1, Cat
<1>3. <<b>> \o q # <<>>
  BY <1>2
<1>4. PICK r \in Bytes : r = <<b>> \o q
  BY <1>2
<1>5. Tail(r) \in Bytes /\ Len(Tail(r)) = Len(q) /\ \A i \in 1 .. Len(q) : Tail(r)[i] = r[1 + i]
  BY <1>2, <1>3, <1>4 DEF Bytes
<1>6. Tail(r) = q
  BY <1>2, <1>4, <1>5, SameBytes
<1> QED BY <1>2, <1>3, <1>4, <1>6

-----------------------------------------------------------------------------
(* Numbers.                                                                 *)

LEMMA MaxNumberNat == MaxNumber \in Nat
BY SMT DEF MaxNumber
LEMMA MaxNumberIs == MaxNumber = 2147483647
BY SMT DEF MaxNumber
LEMMA NumberBound == ASSUME NEW v \in Number PROVE v \in Nat /\ v < 2147483648
<1>1. v \in Nat /\ v <= MaxNumber
  BY MaxNumberNat, SMT DEF Number
<1> QED BY <1>1, MaxNumberIs, SMT
LEMMA IsNumber == ASSUME NEW v \in Nat, v <= MaxNumber PROVE v \in Number
BY MaxNumberNat, SMT DEF Number
LEMMA U16Bound == ASSUME NEW v \in U16 PROVE v \in Nat /\ v <= 65535
BY SMTT(30) DEF U16
LEMMA U16Number == ASSUME NEW v \in U16 PROVE v \in Number
<1>1. v \in Nat /\ v <= MaxNumber
  BY U16Bound, MaxNumberIs, SMT
<1> QED BY <1>1, IsNumber

LEMMA Digits ==
    ASSUME NEW v \in Number
    PROVE  /\ v = (v % 256) + 256 * ((v \div 256) % 256) + 65536 * ((v \div 65536) % 256)
                 + 16777216 * ((v \div 16777216) % 256)
           /\ (v \div 16777216) % 256 <= 127
           /\ v <= 65535 => (v \div 65536) % 256 = 0 /\ (v \div 16777216) % 256 = 0
           /\ v \div 1 = v
<1>1. v \in Nat /\ v < 2147483648
  BY NumberBound
<1>2. v = (v % 256) + 256 * ((v \div 256) % 256) + 65536 * ((v \div 65536) % 256)
            + 16777216 * ((v \div 16777216) % 256)
  BY <1>1, SMT
<1>3. (v \div 16777216) % 256 <= 127
  BY <1>1, SMT
<1>4. v <= 65535 => (v \div 65536) % 256 = 0 /\ (v \div 16777216) % 256 = 0
  BY <1>1, SMT
<1>5. v \div 1 = v
  BY <1>1, SMT
<1> QED BY <1>2, <1>3, <1>4, <1>5, SMT

(* Every digit is a byte. *)
LEMMA DigitByte == ASSUME NEW v \in Number, NEW k \in Nat PROVE Digit(v, k) \in Byte
<1>1. v \in Nat /\ v < 2147483648
  BY NumberBound
<1>2. CASE k > 3
  BY <1>2, SMT DEF Digit, Byte
<1>3. CASE k <= 3
  <2>1. PICK n \in Nat : n = v \div Weight[k + 1]
    <3>1. CASE k = 0
      BY <1>1, <3>1, SMT DEF Weight
    <3>2. CASE k = 1
      BY <1>1, <3>2, SMT DEF Weight
    <3>3. CASE k = 2
      BY <1>1, <3>3, SMT DEF Weight
    <3>4. CASE k = 3
      BY <1>1, <3>4, SMT DEF Weight
    <3> QED BY <1>3, <3>1, <3>2, <3>3, <3>4, SMT
  <2>2. n % 256 \in 0 .. 255
    BY <2>1, SMT
  <2>3. Digit(v, k) = n % 256
    BY <1>3, <2>1, SMT DEF Digit
  <2> QED BY <2>2, <2>3 DEF Byte
<1> QED BY <1>2, <1>3

LEMMA BeBytes ==
    ASSUME NEW v \in Number, NEW width \in Nat
    PROVE  /\ Be(v, width) \in Bytes /\ Len(Be(v, width)) = width
           /\ \A i \in 1 .. width : Be(v, width)[i] = Digit(v, width - i)
<1>1. \A i \in 1 .. width : Digit(v, width - i) \in Byte
  <2> SUFFICES ASSUME NEW i \in 1 .. width PROVE Digit(v, width - i) \in Byte
    OBVIOUS
  <2>1. width - i \in Nat
    OBVIOUS
  <2> QED BY <2>1, DigitByte
<1> QED BY <1>1 DEF Be, Bytes

(* What is written big-endian is read back. *)
LEMMA RoundTrip ==
    ASSUME NEW v \in Number, NEW width \in {2, 4, 8}, width = 2 => v \in U16
    PROVE  FromBe(Be(v, width)) = v
<1> DEFINE b == Be(v, width)
           d(k) == IF k < Len(b) THEN b[Len(b) - k] ELSE 0
<1>1. Len(b) = width /\ \A i \in 1 .. width : b[i] = Digit(v, width - i)
  BY BeBytes
<1>2. /\ Digit(v, 0) = v % 256 /\ Digit(v, 1) = (v \div 256) % 256
      /\ Digit(v, 2) = (v \div 65536) % 256 /\ Digit(v, 3) = (v \div 16777216) % 256
  <2>1. v \div 1 = v
    BY Digits, SMT
  <2> QED BY <2>1, SMT DEF Digit, Weight
<1>3. FromBe(b) = d(0) + 256 * d(1) + 65536 * d(2) + 16777216 * d(3)
  BY SMT DEF FromBe
<1> HIDE DEF b
<1>4. d(0) = v % 256 /\ d(1) = (v \div 256) % 256
  BY <1>1, <1>2, SMT
<1>5. CASE width = 2
  <2>1. d(2) = 0 /\ d(3) = 0
    BY <1>1, <1>5
  <2>2. (v \div 65536) % 256 = 0 /\ (v \div 16777216) % 256 = 0
    <3>1. v <= 65535
      BY <1>5, U16Bound
    <3> QED BY <3>1, Digits, SMT
  <2> QED BY <1>3, <1>4, <2>1, <2>2, Digits, SMT DEF b
<1>6. CASE width # 2
  <2>1. d(2) = (v \div 65536) % 256 /\ d(3) = (v \div 16777216) % 256
    BY <1>1, <1>2, <1>6, SMT
  <2> QED BY <1>3, <1>4, <2>1, Digits, SMT DEF b
<1> QED BY <1>5, <1>6

-----------------------------------------------------------------------------
(* Fields of a message.                                                     *)

(* A part of what lies left, or right, of the seam. *)
LEMMA PartLeft ==
    ASSUME NEW a \in Bytes, NEW b \in Bytes, NEW from \in Nat, NEW to \in Nat,
           from <= to, to <= Len(a)
    PROVE  Part(a \o b, from, to) = Part(a, from, to)
<1>1. PICK q \in Bytes : q = a \o b
  BY Cat
<1>2. Len(q) = Len(a) + Len(b) /\ Len(a) \in Nat /\ Len(b) \in Nat /\ \A i \in 1 .. Len(a) : q[i] = a[i]
  BY <1>1, Cat
<1>3. to <= Len(q)
  BY <1>2
<1>4. /\ Part(q, from, to) \in Bytes /\ Len(Part(q, from, to)) = to - from
      /\ \A i \in 1 .. to - from : Part(q, from, to)[i] = q[from + i]
  BY <1>3, PartBytes
<1>5. /\ Part(a, from, to) \in Bytes /\ Len(Part(a, from, to)) = to - from
      /\ \A i \in 1 .. to - from : Part(a, from, to)[i] = a[from + i]
  BY PartBytes
<1>6. \A i \in 1 .. to - from : Part(q, from, to)[i] = Part(a, from, to)[i]
  <2> SUFFICES ASSUME NEW i \in 1 .. to - from PROVE q[from + i] = a[from + i]
    BY <1>4, <1>5
  <2>1. from + i \in 1 .. Len(a)
    BY <1>2
  <2> QED BY <1>2, <2>1
<1>7. Part(q, from, to) = Part(a, from, to)
  BY <1>4, <1>5, <1>6, SameBytes
<1> QED BY <1>1, <1>7
LEMMA PartRight ==
    ASSUME NEW a \in Bytes, NEW b \in Bytes, NEW i \in Nat, NEW j \in Nat, i <= j, j <= Len(b)
    PROVE  Part(a \o b, Len(a) + i, Len(a) + j) = Part(b, i, j)
<1>1. PICK q \in Bytes : q = a \o b
  BY Cat
<1>2. PICK n \in Nat : n = Len(a)
  BY Cat
<1>3. Len(q) = n + Len(b) /\ Len(b) \in Nat /\ \A k \in 1 .. Len(b) : q[n + k] = b[k]
  BY <1>1, <1>2, Cat
<1>4. PICK from \in Nat, to \in Nat : from = n + i /\ to = n + j
  OBVIOUS
<1>5. /\ Part(q, from, to) \in Bytes /\ Len(Part(q, from, to)) = j - i
      /\ \A k \in 1 .. j - i : Part(q, from, to)[k] = q[from + k]
  <2>1. from <= to /\ to <= Len(q) /\ to - from = j - i
    BY <1>3, <1>4
  <2>2. /\ Part(q, from, to) \in Bytes /\ Len(Part(q, from, to)) = to - from
        /\ \A k \in 1 .. to - from : Part(q, from, to)[k] = q[from + k]
    BY <2>1, PartBytes
  <2> QED BY <2>1, <2>2
<1>6. /\ Part(b, i, j) \in Bytes /\ Len(Part(b, i, j)) = j - i
      /\ \A k \in 1 .. j - i : Part(b, i, j)[k] = b[i + k]
  BY PartBytes
<1>7. \A k \in 1 .. j - i : Part(q, from, to)[k] = Part(b, i, j)[k]
  <2> SUFFICES ASSUME NEW k \in 1 .. j - i PROVE q[from + k] = b[i + k]
    BY <1>5, <1>6
  <2>1. i + k \in 1 .. Len(b) /\ from + k = n + (i + k)
    BY <1>3, <1>4
  <2> QED BY <1>3, <2>1
<1>8. Part(q, from, to) = Part(b, i, j)
  BY <1>5, <1>6, <1>7, SameBytes
<1> QED BY <1>1, <1>2, <1>4, <1>8
LEMMA PartAll ==
    ASSUME NEW b \in Bytes
    PROVE  Part(b, 0, Len(b)) = b
<1>1. PICK z \in Nat, m \in Nat : z = 0 /\ m = Len(b)
  BY DEF Bytes
<1>2. z <= m /\ m <= Len(b) /\ m - z = m
  BY <1>1
<1>3. /\ Part(b, z, m) \in Bytes /\ Len(Part(b, z, m)) = m - z
      /\ \A i \in 1 .. m - z : Part(b, z, m)[i] = b[z + i]
  BY <1>2, PartBytes
<1>4. Part(b, z, m) = b
  BY <1>1, <1>2, <1>3, SameBytes
<1> QED BY <1>1, <1>4

(* The bytes b reach from offset i to offset k. *)
Spans(b, i, k) == b \in Bytes /\ i \in Nat /\ k \in Nat /\ i + Len(b) = k

LEMMA SpansLen ==
    ASSUME NEW b, NEW n, Spans(b, 0, n)
    PROVE  b \in Bytes /\ n \in Nat /\ Len(b) <= n /\ n <= Len(b)
<1>1. PICK k \in Nat : k = Len(b)
  BY DEF Spans, Bytes
<1> QED BY <1>1 DEF Spans
LEMMA SpansAll == ASSUME NEW b \in Bytes PROVE Spans(b, 0, Len(b))
<1>1. PICK k \in Nat : k = Len(b)
  BY DEF Spans, Bytes
<1> QED BY <1>1 DEF Spans
LEMMA SpansAt ==
    ASSUME NEW b, NEW n \in Nat, Spans(b, 0, n), NEW i \in Nat, NEW k \in Nat, k <= i + n, i + n <= k
    PROVE  Spans(b, i, k)
<1>1. PICK l \in Nat : l = Len(b)
  BY DEF Spans, Bytes
<1>2. l = n /\ i + l = k
  BY <1>1 DEF Spans
<1> QED BY <1>1, <1>2 DEF Spans
LEMMA SpansCat ==
    ASSUME NEW a, NEW b, NEW i, NEW j, NEW k, Spans(a, i, j), Spans(b, j, k)
    PROVE  Spans(a \o b, i, k)
<1>1. PICK l \in Nat, n \in Nat : l = Len(a) /\ n = Len(b)
  BY DEF Spans, Bytes
<1>2. a \o b \in Bytes /\ Len(a \o b) = l + n
  BY <1>1, Cat DEF Spans
<1>3. i \in Nat /\ k \in Nat /\ i + (l + n) = k
  BY <1>1 DEF Spans
<1> QED BY <1>2, <1>3 DEF Spans

(* Fields at the start, in the middle and at the end, and all there is. *)
LEMMA FieldFirst ==
    ASSUME NEW b, NEW k, Spans(b, 0, k), NEW c \in Bytes
    PROVE  Part(b \o c, 0, k) = b
<1>1. b \in Bytes /\ Len(b) = k
  BY DEF Spans, Bytes
<1> QED BY <1>1, PartFirst
LEMMA FieldMid ==
    ASSUME NEW a, NEW b, NEW i, NEW k, Spans(a, 0, i), Spans(b, i, k), NEW c \in Bytes
    PROVE  Part((a \o b) \o c, i, k) = b
<1>1. a \in Bytes /\ Len(a) = i /\ b \in Bytes /\ Len(a) + Len(b) = k
  BY DEF Spans, Bytes
<1>2. Part((a \o b) \o c, Len(a), Len(a) + Len(b)) = b
  BY <1>1, PartOf
<1> QED BY <1>1, <1>2
LEMMA FieldLast ==
    ASSUME NEW a, NEW b, NEW i, NEW k, Spans(a, 0, i), Spans(b, i, k)
    PROVE  Part(a \o b, i, k) = b
<1>1. a \in Bytes /\ Len(a) = i /\ b \in Bytes /\ Len(a) + Len(b) = k
  BY DEF Spans, Bytes
<1>2. Part(a \o b, Len(a), Len(a) + Len(b)) = b
  BY <1>1, PartLast
<1> QED BY <1>1, <1>2
LEMMA FieldAll == ASSUME NEW b, NEW k, Spans(b, 0, k) PROVE Part(b, 0, k) = b
<1>1. b \in Bytes /\ Len(b) = k
  BY DEF Spans, Bytes
<1> QED BY <1>1, PartAll
LEMMA FieldLeft ==
    ASSUME NEW a, NEW n, Spans(a, 0, n), NEW b \in Bytes,
           NEW i \in Nat, NEW k \in Nat, i <= k, k <= n
    PROVE  Part(a \o b, i, k) = Part(a, i, k)
<1>1. a \in Bytes /\ k <= Len(a)
  BY SpansLen DEF Bytes
<1> QED BY <1>1, PartLeft
Single(b, x) == x \in Byte /\ b = <<x>>
At(q, k) == q[k]
LEMMA FieldByte ==
    ASSUME NEW a, NEW b, NEW x, NEW i, NEW k, Spans(a, 0, i), Single(b, x), Spans(b, i, k), NEW c \in Bytes
    PROVE  At((a \o b) \o c, k) = x
<1>1. b = <<x>> /\ x \in Byte
  BY DEF Single
<1>2. b \in Bytes /\ b[1] = x /\ 1 \in 1 .. Len(b) /\ Len(b) <= 1
  BY <1>1 DEF Bytes
<1>3. PICK n \in Nat : n = Len(b)
  BY <1>2 DEF Bytes
<1>4. a \in Bytes /\ i \in Nat /\ k \in Nat
  BY DEF Spans
<1>5. PICK l \in Nat : l = Len(a)
  BY <1>4 DEF Bytes
<1>6. l = i /\ l + n = k /\ n = 1
  BY <1>1, <1>2, <1>3, <1>5 DEF Spans
<1>7. PICK d \in Bytes : d = a \o b
  BY <1>2, <1>4, Cat
<1>8. Len(d) = l + n /\ d[l + 1] = b[1]
  BY <1>2, <1>3, <1>4, <1>5, <1>7, Cat
<1>9. k \in 1 .. Len(d) /\ l + 1 = k
  BY <1>6, <1>8
<1>10. (d \o c)[k] = d[k]
  BY <1>9, Cat
<1> QED BY <1>2, <1>7, <1>8, <1>9, <1>10 DEF At

(* The numbers a message holds, one byte, and no byte. *)
LEMMA Be2 == ASSUME NEW v \in U16 PROVE Spans(Be(v, 2), 0, 2) /\ FromBe(Be(v, 2)) = v
<1>1. v \in Number /\ FromBe(Be(v, 2)) = v
  BY U16Number, RoundTrip
<1>2. Be(v, 2) \in Bytes /\ Len(Be(v, 2)) = 2
  BY <1>1, BeBytes
<1> QED BY <1>1, <1>2 DEF Spans
LEMMA Be4 == ASSUME NEW v \in Number PROVE Spans(Be(v, 4), 0, 4) /\ FromBe(Be(v, 4)) = v
<1>1. FromBe(Be(v, 4)) = v
  BY RoundTrip
<1>2. Be(v, 4) \in Bytes /\ Len(Be(v, 4)) = 4
  BY BeBytes
<1> QED BY <1>1, <1>2 DEF Spans
LEMMA Be8 == ASSUME NEW v \in Number PROVE Spans(Be(v, 8), 0, 8) /\ FromBe(Be(v, 8)) = v
<1>1. FromBe(Be(v, 8)) = v
  BY RoundTrip
<1>2. Be(v, 8) \in Bytes /\ Len(Be(v, 8)) = 8
  BY BeBytes
<1> QED BY <1>1, <1>2 DEF Spans
LEMMA OneByte == ASSUME NEW b \in Byte PROVE Spans(<<b>>, 0, 1)
BY DEF Spans, Bytes
LEMMA NoBytes == Spans(<<>>, 0, 0) /\ \A q \in Bytes : q \o <<>> = q
BY ConcatEmptySeq DEF Spans, Bytes

(* The type byte of a message, and what Decode does after it. *)
Types == {"Auth", "AuthOk", "AuthFailed", "OpenTunnel", "TunnelOpened", "CloseTunnel",
          "NewConnection", "Ping", "Pong"}
LEMMA TypeBytes ==
    /\ DOMAIN MsgType = Types
    /\ \A t \in Types : MsgType[t] \in Byte
    /\ \A t, u \in Types : MsgType[t] = MsgType[u] => t = u
BY SMT DEF MsgType, Types, Byte

DecodeAs(type, p) ==
    CASE type = "Auth" -> DecodeAuth(p)
      [] type = "AuthFailed" -> [type |-> type, reason |-> p]
      [] type = "OpenTunnel" -> DecodeOpenTunnel(p)
      [] type \in {"TunnelOpened", "CloseTunnel"} -> DecodeTunnel(type, p)
      [] type = "NewConnection" -> DecodeNewConnection(p)
      [] OTHER -> [type |-> type]

LEMMA DecodesAs ==
    ASSUME NEW t \in Types, NEW p \in Bytes
    PROVE  Decode(<<MsgType[t]>> \o p) = DecodeAs(t, p)
<1>1. PICK b \in Byte : b = MsgType[t]
  BY TypeBytes
<1>2. PICK data : data = <<b>> \o p
  OBVIOUS
<1>3. Tail(data) = p /\ data[1] = b /\ data # <<>>
  BY <1>2, TailOf
<1>4. {u \in DOMAIN MsgType : MsgType[u] = data[1]} = {t}
  BY <1>1, <1>3, TypeBytes
<1>5. (CHOOSE u \in {t} : TRUE) = t
  OBVIOUS
<1>6. Decode(data) = DecodeAs(t, p)
  BY <1>3, <1>4, <1>5, Zenon DEF Decode, DecodeAs
<1> QED BY <1>1, <1>2, <1>6

LEMMA TypedBytes == ASSUME NEW t \in Types, NEW p \in Bytes PROVE <<MsgType[t]>> \o p \in Bytes
<1>1. PICK b \in Byte : b = MsgType[t]
  BY TypeBytes
<1>2. <<b>> \in Bytes
  BY OneByte, SpansLen
<1> QED BY <1>1, <1>2, Cat

-----------------------------------------------------------------------------
(* Every message is read back as what it means.                             *)

Understood(m, o) ==
    /\ Payload(m, o) \in Bytes
    /\ Decode(Payload(m, o)) = Meaning(m, o)
    /\ Meaning(m, o) # Bail

AuthMessage == [type : {"Auth"}, uuid : Bytes, secret : Bytes]
LEMMA AuthUnderstood ==
    ASSUME NEW m \in AuthMessage, Len(m.uuid) \in U16, NEW o \in BOOLEAN
    PROVE  Understood(m, o)
<1>1. PICK u \in Bytes : u = m.uuid
  BY DEF AuthMessage
<1>2. PICK s \in Bytes : s = m.secret
  BY DEF AuthMessage
<1>3. m.type = "Auth" /\ m = [type |-> "Auth", uuid |-> u, secret |-> s]
  BY <1>1, <1>2 DEF AuthMessage
<1>4. PICK n \in U16 : n = Len(u)
  BY <1>1
<1>5. PICK b : b = Be(n, 2)
  OBVIOUS
<1>6. Spans(b, 0, 2) /\ FromBe(b) = n /\ b \in Bytes
  BY <1>5, Be2, SpansLen
<1>7. n \in Nat /\ Spans(u, 0, n)
  BY <1>4, U16Bound, SpansAll
<1>8. PICK k \in Nat : k = 2 + n
  BY <1>7
<1>9. Spans(u, 2, k)
  BY <1>7, <1>8, SpansAt
<1>10. PICK q : q = b \o u
  OBVIOUS
<1>11. Spans(q, 0, k) /\ q \in Bytes
  BY <1>6, <1>9, <1>10, SpansCat, SpansLen
<1>12. PICK p : p = q \o s
  OBVIOUS
<1>13. PICK l \in Nat : l = Len(s)
  BY DEF Bytes
<1>14. PICK e \in Nat : e = k + l
  OBVIOUS
<1>15. Spans(s, k, e)
  <2>1. Spans(s, 0, l)
    BY <1>13, SpansAll
  <2> QED BY <1>14, <2>1, SpansAt
<1>16. Spans(p, 0, e)
  BY <1>11, <1>12, <1>15, SpansCat
<1>17. p \in Bytes /\ Len(p) = e
  BY <1>16 DEF Spans, Bytes
<1>18. Part(p, 0, 2) = b
  <2>1. PICK r \in Bytes : r = u \o s
    BY Cat
  <2>2. p = b \o r
    BY <1>6, <1>10, <1>12, <2>1, Assoc
  <2> QED BY <1>6, <2>2, FieldFirst
<1>19. Part(p, 2, k) = u
  BY <1>6, <1>9, <1>10, <1>12, FieldMid
<1>20. Part(p, k, e) = s
  BY <1>11, <1>12, <1>15, FieldLast
<1>21. DecodeAuth(p) = m
  <2>1. ~(Len(p) < 2 \/ Len(p) < 2 + n)
    BY <1>7, <1>8, <1>14, <1>17
  <2> QED BY <1>3, <1>6, <1>8, <1>17, <1>18, <1>19, <1>20, <2>1, Zenon DEF DecodeAuth
<1>22. Encode(m) = <<MsgType["Auth"]>> \o p
  BY <1>1, <1>2, <1>3, <1>4, <1>5, <1>10, <1>12, Zenon DEF Encode
<1>23. Payload(m, o) = Encode(m) /\ Meaning(m, o) = m
  BY <1>3 DEF Payload, Meaning, LegacyLength
<1>24. Decode(Encode(m)) = m /\ Encode(m) \in Bytes
  <2>1. "Auth" \in Types /\ DecodeAs("Auth", p) = DecodeAuth(p)
    BY DEF Types, DecodeAs
  <2> QED BY <1>17, <1>21, <1>22, <2>1, DecodesAs, TypedBytes
<1>25. m # Bail
  BY <1>3 DEF Bail
<1> QED BY <1>23, <1>24, <1>25 DEF Understood

TunnelMessage == [type : {"TunnelOpened", "CloseTunnel"}, tid : Number]
LEMMA TunnelUnderstood ==
    ASSUME NEW m \in TunnelMessage, NEW o \in BOOLEAN
    PROVE  Understood(m, o)
<1>1. PICK t \in Number, y \in {"TunnelOpened", "CloseTunnel"} : t = m.tid /\ y = m.type
  BY DEF TunnelMessage
<1>2. m = [type |-> y, tid |-> t]
  BY <1>1 DEF TunnelMessage
<1>3. PICK b : b = Be(t, 4)
  OBVIOUS
<1>4. Spans(b, 0, 4) /\ FromBe(b) = t
  BY <1>3, Be4
<1>5. Part(b, 0, 4) = b
  BY <1>4, FieldAll
<1>6. DecodeTunnel(y, b) = m
  <2>1. ~(Len(b) < 4)
    BY <1>4, SpansLen
  <2> QED BY <1>2, <1>4, <1>5, <2>1, Zenon DEF DecodeTunnel
<1>7. Encode(m) = <<MsgType[y]>> \o b
  BY <1>1, <1>3 DEF Encode
<1>8. Payload(m, o) = Encode(m) /\ Meaning(m, o) = m
  BY <1>1 DEF Payload, Meaning, LegacyLength
<1>9. Decode(Encode(m)) = m /\ Encode(m) \in Bytes
  <2>1. y \in Types /\ DecodeAs(y, b) = DecodeTunnel(y, b)
    BY DEF Types, DecodeAs
  <2>2. b \in Bytes
    BY <1>4, SpansLen
  <2> QED BY <1>6, <1>7, <2>1, <2>2, DecodesAs, TypedBytes
<1>10. m # Bail
  BY <1>1 DEF Bail
<1> QED BY <1>8, <1>9, <1>10 DEF Understood

PlainMessage == [type : {"AuthOk", "Ping", "Pong"}] \cup [type : {"AuthFailed"}, reason : Bytes]
LEMMA PlainUnderstood ==
    ASSUME NEW m \in PlainMessage, NEW o \in BOOLEAN
    PROVE  Understood(m, o)
<1>1. PICK p \in Bytes, y \in {"AuthOk", "Ping", "Pong", "AuthFailed"} :
          /\ y = m.type
          /\ y = "AuthFailed" => p = m.reason /\ m = [type |-> y, reason |-> p]
          /\ y # "AuthFailed" => p = <<>> /\ m = [type |-> y]
  <2>1. <<>> \in Bytes
    BY NoBytes, SpansLen
  <2> QED BY <2>1 DEF PlainMessage
<1>2. Encode(m) = <<MsgType[y]>> \o p
  BY <1>1 DEF Encode
<1>3. Payload(m, o) = Encode(m) /\ Meaning(m, o) = m
  BY <1>1 DEF Payload, Meaning, LegacyLength
<1>4. Decode(Encode(m)) = m /\ Encode(m) \in Bytes
  <2>1. y \in Types /\ DecodeAs(y, p) = m
    BY <1>1 DEF Types, DecodeAs
  <2> QED BY <1>2, <2>1, DecodesAs, TypedBytes
<1>5. m # Bail
  BY <1>1 DEF Bail
<1> QED BY <1>3, <1>4, <1>5 DEF Understood

(* What an earlier version leaves out. *)
LEMMA Shortened ==
    ASSUME NEW h, NEW a, NEW n, Spans(h, 0, 1), Spans(a, 1, n), NEW c \in Bytes
    PROVE  Part(h \o (a \o c), 0, n) = h \o a
<1>1. PICK q : q = h \o a
  OBVIOUS
<1>2. Spans(q, 0, n)
  BY <1>1, SpansCat
<1>3. h \o (a \o c) = q \o c
  <2>1. h \in Bytes /\ a \in Bytes
    BY DEF Spans
  <2> QED BY <1>1, <2>1, Assoc
<1> QED BY <1>1, <1>2, <1>3, FieldFirst

LEMMA ProtocolBytes ==
    ASSUME NEW y \in {"tcp", "udp", "both"}
    PROVE  /\ ProtocolByte[y] \in Byte /\ ProtocolByte[y] \in DOMAIN Protocols
           /\ Protocols[ProtocolByte[y]] = y
BY SMT DEF ProtocolByte, Protocols, Byte

OpenMessage == [type : {"OpenTunnel"}, tid : Number, port : U16,
                protocol : {"tcp", "udp", "both"}, db : Number]
LEMMA OpenUnderstood ==
    ASSUME NEW m \in OpenMessage, NEW o \in BOOLEAN
    PROVE  Understood(m, o)
<1>1. PICK t \in Number, v \in U16, y \in {"tcp", "udp", "both"}, d \in Number :
          t = m.tid /\ v = m.port /\ y = m.protocol /\ d = m.db
  BY DEF OpenMessage
<1>2. /\ m.type = "OpenTunnel"
      /\ m = [type |-> "OpenTunnel", tid |-> t, port |-> v, protocol |-> y, db |-> d]
      /\ [m EXCEPT !.db = 0] = [type |-> "OpenTunnel", tid |-> t, port |-> v, protocol |-> y, db |-> 0]
  BY <1>1 DEF OpenMessage
<1>3. PICK a, b, e : a = Be(t, 4) /\ b = Be(v, 2) /\ e = Be(d, 4)
  OBVIOUS
<1>4. /\ Spans(a, 0, 4) /\ FromBe(a) = t /\ a \in Bytes
      /\ Spans(b, 0, 2) /\ FromBe(b) = v /\ b \in Bytes
      /\ Spans(e, 0, 4) /\ FromBe(e) = d /\ e \in Bytes
  BY <1>3, Be2, Be4, SpansLen
<1>5. PICK x \in Byte : x = ProtocolByte[y] /\ x \in DOMAIN Protocols /\ Protocols[x] = y
  BY ProtocolBytes
<1>6. PICK z : z = <<x>>
  OBVIOUS
<1>7. Spans(z, 0, 1) /\ z \in Bytes /\ Single(z, x)
  BY <1>6, OneByte, SpansLen DEF Single
<1>8. Spans(b, 4, 6) /\ Spans(z, 6, 7) /\ Spans(e, 7, 11)
  BY <1>4, <1>7, SpansAt
<1>9. PICK ab : ab = a \o b
  OBVIOUS
<1>10. PICK q : q = ab \o z
  OBVIOUS
<1>11. PICK p : p = q \o e
  OBVIOUS
<1>12. Spans(ab, 0, 6) /\ ab \in Bytes
  BY <1>4, <1>8, <1>9, SpansCat, SpansLen
<1>13. Spans(q, 0, 7) /\ q \in Bytes
  BY <1>8, <1>10, <1>12, SpansCat, SpansLen
<1>14. Spans(p, 0, 11) /\ p \in Bytes
  BY <1>8, <1>11, <1>13, SpansCat, SpansLen
<1>15. Part(q, 0, 4) = a /\ Part(q, 4, 6) = b /\ q[7] = x
  <2>1. Part(q, 0, 4) = Part(ab, 0, 4) /\ Part(ab, 0, 4) = a
    BY <1>4, <1>7, <1>9, <1>10, <1>12, FieldLeft, FieldFirst
  <2>2. Part(q, 4, 6) = b
    BY <1>4, <1>7, <1>8, <1>9, <1>10, FieldMid
  <2>3. At(q, 7) = x
    <3>1. PICK c \in Bytes : c = <<>>
      BY NoBytes, SpansLen
    <3>2. At((ab \o z) \o c, 7) = x
      BY <1>7, <1>8, <1>12, FieldByte
    <3> QED BY <1>10, <1>13, <3>1, <3>2, NoBytes
  <2>4. q[7] = x
    BY <2>3 DEF At
  <2> QED BY <2>1, <2>2, <2>4
<1>16. Part(p, 0, 4) = a /\ Part(p, 4, 6) = b /\ p[7] = x /\ Part(p, 7, 11) = e
  <2>1. Part(p, 0, 4) = Part(q, 0, 4) /\ Part(p, 4, 6) = Part(q, 4, 6)
    BY <1>4, <1>11, <1>13, FieldLeft
  <2>2. p[7] = x
    <3>1. At((ab \o z) \o e, 7) = x
      BY <1>4, <1>7, <1>8, <1>12, FieldByte
    <3>2. At(p, 7) = x
      BY <1>10, <1>11, <3>1
    <3> QED BY <3>2 DEF At
  <2>3. Part(p, 7, 11) = e
    BY <1>8, <1>11, <1>13, FieldLast
  <2> QED BY <1>15, <2>1, <2>2, <2>3
<1>17. DecodeOpenTunnel(p) = m
  <2>1. ~(Len(p) < 7 \/ p[7] \notin DOMAIN Protocols) /\ Len(p) >= 11
    BY <1>5, <1>14, <1>16, SpansLen
  <2> QED BY <1>2, <1>4, <1>5, <1>16, <2>1, Zenon DEF DecodeOpenTunnel
<1>18. DecodeOpenTunnel(q) = [m EXCEPT !.db = 0]
  <2>1. ~(Len(q) < 7 \/ q[7] \notin DOMAIN Protocols) /\ ~(Len(q) >= 11)
    BY <1>5, <1>13, <1>15, SpansLen
  <2> QED BY <1>2, <1>4, <1>5, <1>15, <2>1, Zenon DEF DecodeOpenTunnel
<1>19. Encode(m) = <<MsgType["OpenTunnel"]>> \o (q \o e)
  BY <1>1, <1>2, <1>3, <1>5, <1>6, <1>9, <1>10 DEF Encode
<1>20. /\ Payload(m, TRUE) = <<MsgType["OpenTunnel"]>> \o q
       /\ Payload(m, FALSE) = <<MsgType["OpenTunnel"]>> \o p
  <2>1. Spans(q, 1, 8)
    BY <1>13, SpansAt
  <2>2. "OpenTunnel" \in DOMAIN LegacyLength /\ LegacyLength["OpenTunnel"] = 8 /\ "OpenTunnel" \in Types
    BY DEF LegacyLength, Types
  <2>3. PICK h : h = <<MsgType["OpenTunnel"]>>
    OBVIOUS
  <2>4. Spans(h, 0, 1)
    BY <2>2, <2>3, TypeBytes, OneByte
  <2>5. Part(h \o (q \o e), 0, 8) = h \o q
    BY <1>4, <2>1, <2>4, Shortened
  <2> QED BY <1>2, <1>11, <1>19, <2>2, <2>3, <2>5, Zenon DEF Payload
<1>21. Meaning(m, TRUE) = [m EXCEPT !.db = 0] /\ Meaning(m, FALSE) = m
  BY <1>2, Zenon DEF Meaning
<1>22. "OpenTunnel" \in Types /\ \A r : DecodeAs("OpenTunnel", r) = DecodeOpenTunnel(r)
  BY DEF Types, DecodeAs
<1>23. m # Bail /\ [m EXCEPT !.db = 0] # Bail
  BY <1>2 DEF Bail
<1>24. CASE o = TRUE
  <2>1. Decode(Payload(m, o)) = Meaning(m, o) /\ Payload(m, o) \in Bytes
    BY <1>13, <1>18, <1>20, <1>21, <1>22, <1>24, DecodesAs, TypedBytes
  <2> QED BY <1>21, <1>23, <1>24, <2>1 DEF Understood
<1>25. CASE o = FALSE
  <2>1. Decode(Payload(m, o)) = Meaning(m, o) /\ Payload(m, o) \in Bytes
    BY <1>14, <1>17, <1>20, <1>21, <1>22, <1>25, DecodesAs, TypedBytes
  <2> QED BY <1>21, <1>23, <1>25, <2>1 DEF Understood
<1> QED BY <1>24, <1>25

(* The address of a player. *)
LEMMA IpBytes == ASSUME NEW n \in Nat, NEW ip \in [1 .. n -> Byte] PROVE Spans(ip, 0, n)
<1>1. ip \in Seq(Byte) /\ Len(ip) = n
  OBVIOUS
<1> QED BY <1>1 DEF Spans, Bytes

LEMMA PeerFields ==
    ASSUME NEW q, NEW w, NEW f, NEW x, NEW ip, NEW n, Spans(q, 0, 13), Spans(w, 13, 15),
           Spans(f, 15, 16), Single(f, x), Spans(ip, 16, n)
    PROVE  /\ Spans((w \o f) \o ip, 13, n)
           /\ Part(q \o ((w \o f) \o ip), 13, 15) = w
           /\ At(q \o ((w \o f) \o ip), 16) = x
           /\ Part(q \o ((w \o f) \o ip), 16, n) = ip
<1>1. q \in Bytes /\ w \in Bytes /\ f \in Bytes /\ ip \in Bytes
  BY DEF Spans
<1>2. PICK qw : qw = q \o w
  OBVIOUS
<1>3. PICK qwf : qwf = qw \o f
  OBVIOUS
<1>4. Spans(qw, 0, 15) /\ Spans(qwf, 0, 16)
  BY <1>2, <1>3, SpansCat
<1>5. qw \in Bytes /\ qwf \in Bytes
  BY <1>4, SpansLen
<1>6. PICK fi : fi = f \o ip
  OBVIOUS
<1>7. fi \in Bytes
  BY <1>1, <1>6, Cat
<1>8. Spans((w \o f) \o ip, 13, n)
  <2>1. Spans(w \o f, 13, 16)
    BY SpansCat
  <2> QED BY <2>1, SpansCat
<1>9. PICK p : p = q \o ((w \o f) \o ip)
  OBVIOUS
<1>10. p = qwf \o ip
  <2>1. PICK wf \in Bytes : wf = w \o f
    BY <1>1, Cat
  <2>2. p = (q \o wf) \o ip
    <3>1. (q \o wf) \o ip = q \o (wf \o ip)
      BY <1>1, Assoc, SMTT(30)
    <3> QED BY <1>9, <2>1, <3>1
  <2>3. q \o wf = qwf
    <3>1. (q \o w) \o f = q \o (w \o f)
      BY <1>1, Assoc, SMTT(30)
    <3> QED BY <1>2, <1>3, <2>1, <3>1
  <2> QED BY <2>2, <2>3
<1>11. p = (q \o w) \o fi
  <2>1. PICK a \in Bytes, b \in Bytes, c \in Bytes : a = qw /\ b = f /\ c = ip
    BY <1>1, <1>5
  <2>2. (a \o b) \o c = a \o (b \o c)
    BY Assoc
  <2> QED BY <1>2, <1>3, <1>6, <1>10, <2>1, <2>2
<1>12. Part(p, 13, 15) = w
  BY <1>7, <1>11, FieldMid
<1>13. At(p, 16) = x
  <2>1. At((qw \o f) \o ip, 16) = x
    BY <1>1, <1>4, FieldByte
  <2> QED BY <1>3, <1>10, <2>1
<1>14. Part(p, 16, n) = ip
  BY <1>4, <1>10, FieldLast
<1> QED BY <1>8, <1>9, <1>12, <1>13, <1>14

PeerRead(peer, q) ==
    /\ EncodePeer(peer) \in Bytes
    /\ DecodePeer(q \o EncodePeer(peer)) = peer
LEMMA PeerUnderstood ==
    ASSUME NEW peer \in Peer, NEW q, Spans(q, 0, 13)
    PROVE  PeerRead(peer, q)
<1>1. CASE peer = NoPeer
  <2>1. EncodePeer(peer) = <<>> /\ <<>> \in Bytes /\ q \o <<>> = q
    BY <1>1, NoBytes, SpansLen DEF EncodePeer
  <2>2. ~(Len(q) >= 20) /\ ~(Len(q) >= 32)
    BY SpansLen
  <2>3. DecodePeer(q) = NoPeer
    BY <2>2, Zenon DEF DecodePeer
  <2> QED BY <1>1, <2>1, <2>3 DEF PeerRead
<1>2. ASSUME NEW x \in {4, 6}, NEW n \in {4, 16}, x = 4 <=> n = 4,
             peer \in [family : {x}, port : U16, ip : [1 .. n -> Byte]]
      PROVE  PeerRead(peer, q)
  <2>1. PICK v \in U16 : v = peer.port
    BY <1>2
  <2>2. PICK ip \in [1 .. n -> Byte] : ip = peer.ip
    BY <1>2
  <2>3. peer = [family |-> x, port |-> v, ip |-> ip] /\ peer.family = x /\ peer # NoPeer
    BY <1>2, <2>1, <2>2 DEF NoPeer
  <2>4. PICK w, f : w = Be(v, 2) /\ f = <<x>>
    OBVIOUS
  <2>5. Spans(w, 0, 2) /\ FromBe(w) = v
    BY <2>4, Be2
  <2>6. Spans(f, 0, 1) /\ Single(f, x)
    <3>1. x \in Byte
      BY DEF Byte
    <3> QED BY <2>4, <3>1, OneByte DEF Single
  <2>7. PICK m \in Nat : m = 16 + n
    OBVIOUS
  <2>8. Spans(w, 13, 15) /\ Spans(f, 15, 16) /\ Spans(ip, 16, m)
    <3>1. Spans(ip, 0, n) /\ n \in Nat
      BY IpBytes
    <3> QED BY <2>5, <2>6, <2>7, <3>1, SpansAt
  <2>9. PICK e : e = (w \o f) \o ip
    OBVIOUS
  <2>10. PICK p : p = q \o e
    OBVIOUS
  <2>11. /\ Spans(e, 13, m) /\ Part(p, 13, 15) = w /\ At(p, 16) = x /\ Part(p, 16, m) = ip
    <3>1. /\ Spans((w \o f) \o ip, 13, m)
          /\ Part(q \o ((w \o f) \o ip), 13, 15) = w
          /\ At(q \o ((w \o f) \o ip), 16) = x
          /\ Part(q \o ((w \o f) \o ip), 16, m) = ip
      BY <2>6, <2>8, PeerFields
    <3> QED BY <2>9, <2>10, <3>1
  <2>12. Spans(p, 0, m)
    BY <2>10, <2>11, SpansCat
  <2>13. EncodePeer(peer) = e /\ e \in Bytes
    <3>1. EncodePeer(peer) = e
      BY <2>1, <2>2, <2>3, <2>4, <2>9, Zenon DEF EncodePeer
    <3> QED BY <2>11, <3>1 DEF Spans
  <2>14. p[16] = x
    BY <2>11 DEF At
  <2>15. CASE x = 4
    <3>1. Len(p) >= 20 /\ m = 16 + 4
      BY <1>2, <2>7, <2>12, <2>15, SpansLen
    <3>2. DecodePeer(p) = [family |-> 4, port |-> FromBe(Part(p, 13, 15)), ip |-> Part(p, 16, 16 + 4)]
      BY <2>14, <2>15, <3>1, Zenon DEF DecodePeer
    <3>3. DecodePeer(p) = peer
      BY <2>3, <2>5, <2>11, <2>15, <3>1, <3>2
    <3> QED BY <2>10, <2>13, <3>3 DEF PeerRead
  <2>16. CASE x = 6
    <3>1. Len(p) >= 32 /\ m = 16 + 16
      BY <1>2, <2>7, <2>12, <2>16, SpansLen
    <3>2. 6 # 4
      OBVIOUS
    <3>3. DecodePeer(p) = [family |-> 6, port |-> FromBe(Part(p, 13, 15)), ip |-> Part(p, 16, 16 + 16)]
      BY <2>14, <2>16, <3>1, <3>2, Zenon DEF DecodePeer
    <3>4. DecodePeer(p) = peer
      BY <2>3, <2>5, <2>11, <2>16, <3>1, <3>3
    <3> QED BY <2>10, <2>13, <3>4 DEF PeerRead
  <2> QED BY <2>15, <2>16
<1>3. CASE peer \in [family : {4}, port : U16, ip : [1 .. 4 -> Byte]]
  BY <1>2, <1>3
<1>4. CASE peer \in [family : {6}, port : U16, ip : [1 .. 16 -> Byte]]
  BY <1>2, <1>4
<1> QED BY <1>1, <1>3, <1>4, Zenon DEF Peer

NewMessage == [type : {"NewConnection"}, tid : Number, id : Number, udp : BOOLEAN, peer : Peer]
LEMMA NewUnderstood ==
    ASSUME NEW m \in NewMessage, NEW o \in BOOLEAN
    PROVE  Understood(m, o)
<1>1. PICK t \in Number, i \in Number, u \in BOOLEAN, peer \in Peer :
          t = m.tid /\ i = m.id /\ u = m.udp /\ peer = m.peer
  BY DEF NewMessage
<1>2. /\ m.type = "NewConnection"
      /\ m = [type |-> "NewConnection", tid |-> t, id |-> i, udp |-> u, peer |-> peer]
  BY <1>1 DEF NewMessage
<1>3. [m EXCEPT !.udp = FALSE, !.peer = NoPeer]
        = [type |-> "NewConnection", tid |-> t, id |-> i, udp |-> FALSE, peer |-> NoPeer]
  <2>1. \A r \in NewMessage : \A k :
            [r EXCEPT !.peer = k] = [type |-> r.type, tid |-> r.tid, id |-> r.id, udp |-> r.udp, peer |-> k]
    BY DEF NewMessage
  <2>2. PICK r : r = [m EXCEPT !.udp = FALSE]
    OBVIOUS
  <2>3. r \in NewMessage /\ r.type = "NewConnection" /\ r.tid = t /\ r.id = i /\ r.udp = FALSE
    BY <1>1, <2>2 DEF NewMessage
  <2>4. [r EXCEPT !.peer = NoPeer]
          = [type |-> "NewConnection", tid |-> t, id |-> i, udp |-> FALSE, peer |-> NoPeer]
    BY <2>1, <2>3, Zenon
  <2>5. [m EXCEPT !.udp = FALSE, !.peer = NoPeer] = [[m EXCEPT !.udp = FALSE] EXCEPT !.peer = NoPeer]
    OBVIOUS
  <2> QED BY <2>2, <2>4, <2>5, Zenon
<1>4. PICK a, b : a = Be(t, 4) /\ b = Be(i, 8)
  OBVIOUS
<1>5. /\ Spans(a, 0, 4) /\ FromBe(a) = t /\ a \in Bytes
      /\ Spans(b, 0, 8) /\ FromBe(b) = i /\ b \in Bytes
  BY <1>4, Be4, Be8, SpansLen
<1>6. PICK x \in Byte : x = Bool(u)
  BY DEF Bool, Byte
<1>7. (u <=> x # 0) /\ Bool(u) = x
  BY <1>6 DEF Bool
<1>8. PICK z : z = <<x>>
  OBVIOUS
<1>9. Spans(z, 0, 1) /\ z \in Bytes /\ Single(z, x)
  BY <1>8, OneByte, SpansLen DEF Single
<1>10. Spans(b, 4, 12) /\ Spans(z, 12, 13)
  BY <1>5, <1>9, SpansAt
<1>11. PICK ab : ab = a \o b
  OBVIOUS
<1>12. PICK q : q = ab \o z
  OBVIOUS
<1>13. Spans(ab, 0, 12) /\ ab \in Bytes
  BY <1>5, <1>10, <1>11, SpansCat, SpansLen
<1>14. Spans(q, 0, 13) /\ q \in Bytes
  BY <1>10, <1>12, <1>13, SpansCat, SpansLen
<1>15. PICK e : e = EncodePeer(peer)
  OBVIOUS
<1>16. PICK p : p = q \o e
  OBVIOUS
<1>17. e \in Bytes /\ DecodePeer(p) = peer
  BY <1>14, <1>15, <1>16, PeerUnderstood DEF PeerRead
<1>18. p \in Bytes /\ Len(p) >= 13
  <2>1. p \in Bytes /\ Len(p) = Len(q) + Len(e) /\ Len(e) \in Nat /\ Len(q) \in Nat
    BY <1>14, <1>16, <1>17, Cat
  <2>2. Len(q) >= 13
    BY <1>14, SpansLen
  <2> QED BY <2>1, <2>2
<1>19. Part(ab, 0, 4) = a /\ Part(ab, 4, 12) = b
  <2>1. Part(ab, 0, 4) = a
    BY <1>5, <1>11, FieldFirst
  <2>2. Part(ab, 4, 12) = b
    BY <1>5, <1>10, <1>11, FieldLast
  <2> QED BY <2>1, <2>2
<1>20. Part(p, 0, 4) = a /\ Part(p, 4, 12) = b
  <2>1. Part(q, 0, 4) = Part(ab, 0, 4) /\ Part(q, 4, 12) = Part(ab, 4, 12)
    BY <1>9, <1>12, <1>13, FieldLeft
  <2>2. Part(p, 0, 4) = Part(q, 0, 4) /\ Part(p, 4, 12) = Part(q, 4, 12)
    BY <1>14, <1>16, <1>17, FieldLeft
  <2> QED BY <1>19, <2>1, <2>2
<1>21. p[13] = x
  <2>1. At((ab \o z) \o e, 13) = x
    BY <1>9, <1>10, <1>13, <1>17, FieldByte
  <2>2. At(p, 13) = x
    BY <1>12, <1>16, <2>1
  <2> QED BY <2>2 DEF At
<1>22. DecodeNewConnection(p) = m
  <2>1. ~(Len(p) < 12) /\ (Len(p) > 12 /\ p[13] # 0) = u
    BY <1>7, <1>18, <1>21
  <2> QED BY <1>2, <1>5, <1>17, <1>20, <2>1, Zenon DEF DecodeNewConnection
<1>23. DecodeNewConnection(ab) = [m EXCEPT !.udp = FALSE, !.peer = NoPeer]
  <2>1. /\ ~(Len(ab) < 12) /\ (Len(ab) > 12 /\ ab[13] # 0) = FALSE
        /\ ~(Len(ab) >= 20) /\ ~(Len(ab) >= 32)
    BY <1>13, SpansLen
  <2>2. DecodePeer(ab) = NoPeer
    BY <2>1, Zenon DEF DecodePeer
  <2> QED BY <1>3, <1>5, <1>19, <2>1, <2>2, Zenon DEF DecodeNewConnection
<1>24. PICK ze : ze = z \o e
  OBVIOUS
<1>25. ze \in Bytes /\ p = ab \o ze
  <2>1. (ab \o z) \o e = ab \o (z \o e)
    BY <1>9, <1>13, <1>17, Assoc
  <2> QED BY <1>9, <1>12, <1>16, <1>17, <1>24, <2>1, Cat
<1>26. PICK h : h = <<MsgType["NewConnection"]>>
  OBVIOUS
<1>27. Encode(m) = h \o p
  BY <1>1, <1>2, <1>4, <1>6, <1>8, <1>11, <1>12, <1>15, <1>16, <1>26 DEF Encode
<1>28. /\ Payload(m, TRUE) = h \o ab
       /\ Payload(m, FALSE) = h \o p
  <2>1. Spans(ab, 1, 13)
    BY <1>13, SpansAt
  <2>2. /\ "NewConnection" \in DOMAIN LegacyLength /\ LegacyLength["NewConnection"] = 13
        /\ "NewConnection" \in Types
    BY DEF LegacyLength, Types
  <2>3. Spans(h, 0, 1)
    BY <1>26, <2>2, TypeBytes, OneByte
  <2>4. Part(h \o (ab \o ze), 0, 13) = h \o ab
    BY <1>25, <2>1, <2>3, Shortened
  <2> QED BY <1>2, <1>25, <1>27, <2>2, <2>4, Zenon DEF Payload
<1>29. /\ Meaning(m, TRUE) = [m EXCEPT !.udp = FALSE, !.peer = NoPeer]
       /\ Meaning(m, FALSE) = m
  BY <1>2, Zenon DEF Meaning
<1>30. "NewConnection" \in Types /\ \A r : DecodeAs("NewConnection", r) = DecodeNewConnection(r)
  BY DEF Types, DecodeAs
<1>31. m # Bail /\ [m EXCEPT !.udp = FALSE, !.peer = NoPeer] # Bail
  BY <1>2, <1>3 DEF Bail
<1>32. CASE o = TRUE
  <2>1. Decode(Payload(m, o)) = Meaning(m, o) /\ Payload(m, o) \in Bytes
    BY <1>13, <1>23, <1>26, <1>28, <1>29, <1>30, <1>32, DecodesAs, TypedBytes
  <2> QED BY <1>29, <1>31, <1>32, <2>1 DEF Understood
<1>33. CASE o = FALSE
  <2>1. Decode(Payload(m, o)) = Meaning(m, o) /\ Payload(m, o) \in Bytes
    BY <1>18, <1>22, <1>26, <1>28, <1>29, <1>30, <1>33, DecodesAs, TypedBytes
  <2> QED BY <1>29, <1>31, <1>33, <2>1 DEF Understood
<1> QED BY <1>32, <1>33

(* Every message either program sends is understood by the other, of the    *)
(* same version or of a later one (Message::encode and Message::decode).    *)
THEOREM MessageUnderstood ==
    ASSUME NEW m \in Message, m.type = "Auth" => Len(m.uuid) \in U16, NEW o \in BOOLEAN
    PROVE  Understood(m, o)
<1>1. m \in AuthMessage \/ m \in PlainMessage \/ m \in OpenMessage \/ m \in TunnelMessage
        \/ m \in NewMessage
  BY Zenon DEF Message, AuthMessage, PlainMessage, OpenMessage, TunnelMessage, NewMessage
<1>2. CASE m \in AuthMessage
  <2>1. m.type = "Auth"
    BY <1>2 DEF AuthMessage
  <2> QED BY <1>2, <2>1, AuthUnderstood
<1> QED BY <1>1, <1>2, PlainUnderstood, OpenUnderstood, TunnelUnderstood, NewUnderstood
LEMMA MarkerBytes == Spans(CloseMarker, 0, 4) /\ CloseMarker \in Bytes /\ CloseMarker[1] = 255
<1>1. CloseMarker \in Bytes
  BY DEF CloseMarker, Bytes, Byte
<1>2. Len(CloseMarker) = 4 /\ CloseMarker[1] = 255
  BY DEF CloseMarker
<1> QED BY <1>1, <1>2 DEF Spans
LEMMA PayloadBound == MaxPayload \in Nat /\ \A n \in Nat : n <= MaxPayload => n \in Number
<1>1. MaxPayload \in Nat /\ MaxPayload <= MaxNumber
  BY MaxNumberNat, PayloadAssumption, SMT DEF Number
<1> QED BY <1>1, MaxNumberNat, IsNumber

-----------------------------------------------------------------------------
(* A frame: its header of twelve bytes and its body.                        *)

IsClose(f) == f.type = "StreamClose"
Body(f, o) ==
    IF f.type = "Data" THEN f.payload ELSE IF IsClose(f) THEN <<>> ELSE Payload(f, o)
FrameId(f) == IF f.type \in {"Data", "StreamClose"} THEN f.id ELSE 0
LenBytes(f, o) == IF IsClose(f) THEN CloseMarker ELSE Be(Len(Body(f, o)), 4)
Taken(f, data) ==
    IF FrameId(f) = 0 THEN Decode(data) ELSE [type |-> "Data", id |-> FrameId(f), payload |-> data]

LEMMA MessageTypes == ASSUME NEW m \in Message PROVE m.type \in Types
BY DEF Message, Types
LEMMA StreamId == ASSUME NEW i \in 1 .. MaxNumber PROVE i \in Number /\ i # 0
BY MaxNumberNat, SMT DEF Number
LEMMA ZeroNumber == 0 \in Number
BY MaxNumberNat, SMT DEF Number

FrameShape(f, o) ==
    /\ Body(f, o) \in Bytes /\ Len(Body(f, o)) <= MaxPayload
    /\ FrameId(f) \in Number
    /\ FrameBytes(f, o) = (LenBytes(f, o) \o Be(FrameId(f), 8)) \o Body(f, o)
FrameMeaning(f, o) ==
    IF IsClose(f) THEN Meaning(f, o) = [type |-> "StreamClose", id |-> FrameId(f)]
    ELSE Taken(f, Body(f, o)) = Meaning(f, o) /\ Meaning(f, o) # Bail

LEMMA FrameIs ==
    ASSUME NEW f \in Frames, NEW o \in BOOLEAN
    PROVE  FrameShape(f, o) /\ FrameMeaning(f, o)
<1>1. CASE f \in Message /\ (\A p \in BOOLEAN : Len(Payload(f, p)) <= MaxPayload)
             /\ (f.type = "Auth" => Len(f.uuid) \in U16)
  <2>1. f.type \notin {"Data", "StreamClose"}
    BY <1>1, MessageTypes DEF Types
  <2>2. Understood(f, o)
    BY <1>1, MessageUnderstood
  <2>3. /\ ~IsClose(f) /\ Body(f, o) = Payload(f, o) /\ FrameId(f) = 0
        /\ LenBytes(f, o) = Be(Len(Payload(f, o)), 4)
    BY <2>1, Zenon DEF Body, IsClose, FrameId, LenBytes
  <2>4. FrameBytes(f, o) = (Be(Len(Payload(f, o)), 4) \o Be(0, 8)) \o Payload(f, o)
    BY <2>1, Zenon DEF FrameBytes
  <2>5. FrameShape(f, o)
    BY <1>1, <2>2, <2>3, <2>4, ZeroNumber DEF FrameShape, Understood
  <2>6. FrameMeaning(f, o)
    BY <2>2, <2>3, Zenon DEF FrameMeaning, Understood, Taken
  <2> QED BY <2>5, <2>6
<1>2. CASE f \in Data /\ Len(f.payload) <= MaxPayload
  <2>1. f.type = "Data" /\ f.id \in Number /\ f.id # 0 /\ f.payload \in Bytes
        /\ f = [type |-> "Data", id |-> f.id, payload |-> f.payload]
    <3>1. f.type = "Data" /\ f.id \in 1 .. MaxNumber /\ f.payload \in Bytes
          /\ f = [type |-> "Data", id |-> f.id, payload |-> f.payload]
      BY <1>2 DEF Data
    <3> QED BY <3>1, StreamId
  <2>2. /\ ~IsClose(f) /\ Body(f, o) = f.payload /\ FrameId(f) = f.id
        /\ LenBytes(f, o) = Be(Len(f.payload), 4)
    BY <2>1 DEF Body, IsClose, FrameId, LenBytes
  <2>3. FrameBytes(f, o) = (Be(Len(f.payload), 4) \o Be(f.id, 8)) \o f.payload
    BY <2>1, Zenon DEF FrameBytes
  <2>4. Meaning(f, o) = f /\ f # Bail
    BY <2>1 DEF Meaning, Bail
  <2>5. FrameShape(f, o)
    BY <1>2, <2>1, <2>2, <2>3 DEF FrameShape
  <2>6. FrameMeaning(f, o)
    BY <2>1, <2>2, <2>4, Zenon DEF FrameMeaning, Taken
  <2> QED BY <2>5, <2>6
<1>3. CASE f \in StreamClose
  <2>1. f.type = "StreamClose" /\ f.id \in Number /\ f = [type |-> "StreamClose", id |-> f.id]
    <3>1. f.type = "StreamClose" /\ f.id \in 1 .. MaxNumber /\ f = [type |-> "StreamClose", id |-> f.id]
      BY <1>3 DEF StreamClose
    <3> QED BY <3>1, StreamId
  <2>2. IsClose(f) /\ Body(f, o) = <<>> /\ FrameId(f) = f.id /\ LenBytes(f, o) = CloseMarker
    BY <2>1 DEF Body, IsClose, FrameId, LenBytes
  <2>3. FrameBytes(f, o) = CloseMarker \o Be(f.id, 8)
    BY <2>1 DEF FrameBytes
  <2>4. Meaning(f, o) = f
    BY <2>1 DEF Meaning
  <2>5. CloseMarker \o Be(f.id, 8) \in Bytes
    BY <2>1, Be8, SpansLen, MarkerBytes, Cat
  <2>6. FrameShape(f, o)
    <3>1. <<>> \in Bytes /\ Len(<<>>) <= MaxPayload
      BY NoBytes, SpansLen, PayloadBound
    <3>2. (CloseMarker \o Be(f.id, 8)) \o <<>> = CloseMarker \o Be(f.id, 8)
      BY <2>5, NoBytes
    <3> QED BY <2>1, <2>2, <2>3, <3>1, <3>2 DEF FrameShape
  <2>7. FrameMeaning(f, o)
    BY <2>1, <2>2, <2>4, Zenon DEF FrameMeaning
  <2> QED BY <2>6, <2>7
<1> QED BY <1>1, <1>2, <1>3, FrameAssumption

(* Where the header and the body of a frame lie, and what read_frame makes  *)
(* of the header.                                                           *)
FrameParts(f, o) ==
    /\ FrameBytes(f, o) \in Bytes /\ Body(f, o) \in Bytes
    /\ Len(FrameBytes(f, o)) = 12 + Len(Body(f, o))
    /\ Part(FrameBytes(f, o), 0, 4) = LenBytes(f, o)
    /\ FromBe(Part(FrameBytes(f, o), 4, 12)) = FrameId(f)
    /\ Part(FrameBytes(f, o), 12, 12 + Len(Body(f, o))) = Body(f, o)
HeaderMeans(f, o) ==
    IF IsClose(f) THEN LenBytes(f, o) = CloseMarker /\ Body(f, o) = <<>>
    ELSE /\ LenBytes(f, o) # CloseMarker
         /\ ~(LenBytes(f, o)[1] > 127 \/ FromBe(LenBytes(f, o)) > MaxPayload)
         /\ FromBe(LenBytes(f, o)) = Len(Body(f, o))

LEMMA HeaderIs ==
    ASSUME NEW f \in Frames, NEW o \in BOOLEAN
    PROVE  HeaderMeans(f, o) /\ Spans(LenBytes(f, o), 0, 4)
<1>1. CASE IsClose(f)
  <2>1. LenBytes(f, o) = CloseMarker /\ Body(f, o) = <<>>
    BY <1>1 DEF LenBytes, Body, IsClose
  <2> QED BY <1>1, <2>1, MarkerBytes DEF HeaderMeans
<1>2. CASE ~IsClose(f)
  <2>1. PICK n \in Number : n = Len(Body(f, o)) /\ n <= MaxPayload /\ MaxPayload \in Nat
    <3>1. Body(f, o) \in Bytes /\ Len(Body(f, o)) <= MaxPayload
      BY FrameIs DEF FrameShape
    <3>2. PICK n \in Nat : n = Len(Body(f, o))
      BY <3>1 DEF Bytes
    <3> QED BY <3>1, <3>2, PayloadBound
  <2>2. PICK b : b = Be(n, 4)
    OBVIOUS
  <2>3. LenBytes(f, o) = b
    BY <1>2, <2>1, <2>2, Zenon DEF LenBytes
  <2>4. Spans(b, 0, 4) /\ FromBe(b) = n
    BY <2>2, Be4
  <2>5. b[1] <= 127
    <3>1. b[1] = Digit(n, 4 - 1)
      BY <2>2, BeBytes
    <3>2. Digit(n, 3) = (n \div 16777216) % 256
      BY SMT DEF Digit, Weight
    <3>3. (n \div 16777216) % 256 <= 127
      BY Digits
    <3> QED BY <3>1, <3>2, <3>3, SMT
  <2>6. b[1] \in Nat
    <3>1. b[1] = Digit(n, 4 - 1)
      BY <2>2, BeBytes
    <3>2. Digit(n, 3) \in Byte
      BY DigitByte
    <3> QED BY <3>1, <3>2 DEF Byte
  <2>7. b # CloseMarker /\ ~(b[1] > 127)
    BY <2>5, <2>6, MarkerBytes
  <2>8. n \in Nat /\ ~(n > MaxPayload)
    BY <2>1, NumberBound, SMT
  <2> QED BY <1>2, <2>1, <2>3, <2>4, <2>7, <2>8, Zenon DEF HeaderMeans
<1> QED BY <1>1, <1>2

LEMMA PartsAre == ASSUME NEW f \in Frames, NEW o \in BOOLEAN PROVE FrameParts(f, o)
<1>1. PICK l, i, b : l = LenBytes(f, o) /\ i = Be(FrameId(f), 8) /\ b = Body(f, o)
  OBVIOUS
<1>2. /\ Spans(l, 0, 4) /\ Spans(i, 0, 8) /\ FromBe(i) = FrameId(f) /\ b \in Bytes
      /\ FrameBytes(f, o) = (l \o i) \o b
  BY <1>1, FrameIs, HeaderIs, Be8 DEF FrameShape
<1>3. PICK m \in Nat : m = Len(b)
  BY <1>2 DEF Bytes
<1>4. PICK n \in Nat : n = 12 + m
  OBVIOUS
<1>5. Spans(b, 0, m)
  BY <1>2, <1>3, SpansAll
<1>6. Spans(i, 4, 12) /\ Spans(b, 12, n)
  BY <1>2, <1>4, <1>5, SpansAt
<1>7. PICK li : li = l \o i
  OBVIOUS
<1>8. PICK w : w = li \o b
  OBVIOUS
<1>9. Spans(li, 0, 12)
  BY <1>2, <1>6, <1>7, SpansCat
<1>10. Spans(w, 0, n)
  BY <1>6, <1>8, <1>9, SpansCat
<1>11. l \in Bytes /\ i \in Bytes /\ li \in Bytes /\ w \in Bytes
  BY <1>2, <1>9, <1>10, SpansLen
<1>12. Part(w, 0, 4) = l
  <2>1. Part(li, 0, 4) = l
    BY <1>2, <1>7, <1>11, FieldFirst
  <2>2. Part(w, 0, 4) = Part(li, 0, 4)
    BY <1>2, <1>8, <1>9, FieldLeft
  <2> QED BY <2>1, <2>2
<1>13. Part(w, 4, 12) = i
  BY <1>2, <1>6, <1>7, <1>8, FieldMid
<1>14. Part(w, 12, n) = b
  BY <1>6, <1>8, <1>9, FieldLast
<1>15. Len(w) = n
  BY <1>10 DEF Spans, Bytes
<1>16. FrameBytes(f, o) = w
  BY <1>2, <1>7, <1>8
<1> QED BY <1>1, <1>2, <1>3, <1>4, <1>11, <1>12, <1>13, <1>14, <1>15, <1>16 DEF FrameParts

-----------------------------------------------------------------------------
(* A part of bytes that agree, d further on, is the same.                   *)
LEMMA SamePart ==
    ASSUME NEW q \in Bytes, NEW r \in Bytes, NEW d \in Nat, NEW i \in Nat, NEW k \in Nat,
           i <= k, k <= Len(q), d + k <= Len(r), \A j \in 1 .. k : q[j] = r[d + j]
    PROVE  Part(q, i, k) = Part(r, d + i, d + k)
<1>1. PICK m \in Nat, n \in Nat : m = d + i /\ n = d + k
  OBVIOUS
<1>2. /\ Part(q, i, k) \in Bytes /\ Len(Part(q, i, k)) = k - i
      /\ \A j \in 1 .. k - i : Part(q, i, k)[j] = q[i + j]
  BY PartBytes
<1>3. /\ Part(r, m, n) \in Bytes /\ Len(Part(r, m, n)) = n - m
      /\ \A j \in 1 .. n - m : Part(r, m, n)[j] = r[m + j]
  <2>1. m <= n /\ n <= Len(r)
    BY <1>1
  <2> QED BY <2>1, PartBytes
<1>4. n - m = k - i
  BY <1>1
<1>5. ASSUME NEW j \in 1 .. k - i PROVE Part(q, i, k)[j] = Part(r, m, n)[j]
  <2>1. i + j \in 1 .. k /\ d + (i + j) = m + j
    BY <1>1
  <2>2. q[i + j] = r[d + (i + j)]
    BY <2>1
  <2> QED BY <1>2, <1>3, <1>4, <2>1, <2>2
<1>6. Part(q, i, k) = Part(r, m, n)
  BY <1>2, <1>3, <1>4, <1>5, SameBytes
<1> QED BY <1>1, <1>6

-----------------------------------------------------------------------------
(* The inductive invariant.  Byte c[k] of the connection is the last one of *)
(* frame k: what lies between the read position and the writer are the      *)
(* bytes of the frames that are there, and the channel holds the rest.      *)

FB(k) == FrameBytes(sent[k], old)
Pipe == stream \o buf
Written == Len(sent) - Len(chan)

Offsets(c) ==
    /\ c \in [0 .. Len(sent) -> Nat]
    /\ c[0] = 0
    /\ \A k \in 1 .. Len(sent) : c[k] = c[k - 1] + Len(FB(k))
    /\ \A j, k \in 0 .. Len(sent) : j <= k => c[j] <= c[k]
Position(c) == c[Len(got)] + (IF reader = "payload" THEN 12 ELSE 0)
CarriedFrom(c, p, q) ==
    /\ p + Len(q) <= c[Len(sent)]
    /\ \A k \in 1 .. Len(sent) : \A i \in 1 .. Len(q), j \in 1 .. Len(FB(k)) :
          p + i = c[k - 1] + j => q[i] = FB(k)[j]
Carried(c) == CarriedFrom(c, Position(c), Pipe)
Waiting(c) ==
    writer # "end" =>
        /\ Len(chan) <= Len(sent)
        /\ \A i \in 1 .. Len(chan) : chan[i] = sent[Written + i]
        /\ Position(c) + Len(Pipe) = c[Written]

HeaderFits ==
    reader = "payload" =>
        /\ Len(got) < Len(sent)
        /\ LET f == sent[Len(got) + 1] IN
           ~IsClose(f) /\ header = [len |-> Len(Body(f, old)), id |-> FrameId(f)]
Received ==
    /\ Len(got) <= Len(sent)
    /\ \A k \in 1 .. Len(got) : got[k] = Meaning(sent[k], old)
Meanings == {Meaning(f, o) : f \in Frames, o \in BOOLEAN}
Shapes ==
    /\ old \in BOOLEAN
    /\ sent \in Seq(Frames) /\ chan \in Seq(Frames) /\ got \in Seq(Meanings)
    /\ buf \in Bytes /\ stream \in Bytes
    /\ writer \in {"recv", "drain", "flush", "end"}
    /\ reader \in {"header", "payload", "end"}
IInv ==
    /\ Shapes /\ Received /\ HeaderFits
    /\ reader = "end" => writer = "end"
    /\ reader # "end" => \E c : Offsets(c) /\ Carried(c) /\ Waiting(c)

-----------------------------------------------------------------------------
(* What the steps of the writer and of the reader do to the bytes on the    *)
(* way.                                                                     *)

LEMMA FrameIn ==
    ASSUME Shapes, NEW k \in 1 .. Len(sent)
    PROVE  /\ sent[k] \in Frames /\ old \in BOOLEAN
           /\ FB(k) = FrameBytes(sent[k], old) /\ FB(k) \in Bytes /\ Len(FB(k)) \in Nat
<1>1. sent[k] \in Frames /\ old \in BOOLEAN
  BY DEF Shapes
<1>2. FB(k) = FrameBytes(sent[k], old) /\ FB(k) \in Bytes
  BY <1>1, PartsAre DEF FB, FrameParts
<1> QED BY <1>1, <1>2 DEF Bytes

LEMMA OffsetsAt ==
    ASSUME Shapes, NEW c, Offsets(c), NEW k \in 1 .. Len(sent)
    PROVE  /\ c[k - 1] \in Nat /\ c[k] \in Nat /\ Len(FB(k)) \in Nat
           /\ c[k] = c[k - 1] + Len(FB(k)) /\ c[k] <= c[Len(sent)]
<1>1. PICK n \in Nat : n = Len(sent)
  BY DEF Shapes
<1>2. k - 1 \in 0 .. n /\ k \in 0 .. n /\ n \in 0 .. n /\ k <= n
  BY <1>1
<1>3. c[k - 1] \in Nat /\ c[k] \in Nat /\ c[k] <= c[n]
  BY <1>1, <1>2 DEF Offsets
<1>4. c[k] = c[k - 1] + Len(FB(k))
  BY DEF Offsets
<1> QED BY <1>1, <1>3, <1>4, FrameIn
LEMMA OffsetsLess ==
    ASSUME Shapes, NEW c, Offsets(c), NEW k \in 1 .. Len(sent), NEW w \in 1 .. Len(sent), k < w
    PROVE  c[k] <= c[w - 1]
<1>1. PICK n \in Nat : n = Len(sent)
  BY DEF Shapes
<1>2. w - 1 \in 0 .. n /\ k \in 0 .. n /\ k <= w - 1
  BY <1>1
<1> QED BY <1>1, <1>2 DEF Offsets

(* Bytes are read, or lost. *)
LEMMA Fewer ==
    ASSUME NEW c, Offsets(c), NEW p \in Nat, NEW q \in Bytes, CarriedFrom(c, p, q),
           NEW d \in Nat, NEW r \in Bytes, d + Len(r) <= Len(q),
           \A i \in 1 .. Len(r) : r[i] = q[d + i]
    PROVE  CarriedFrom(c, p + d, r)
<1>1. PICK m \in Nat, n \in Nat : m = Len(q) /\ n = Len(r)
  BY DEF Bytes
<1>2. PICK e \in Nat : e = p + d
  OBVIOUS
<1>3. PICK last : last = c[Len(sent)]
  OBVIOUS
<1>4. last \in Nat
  BY <1>3 DEF Offsets, CarriedFrom
<1>5. e + n <= last
  BY <1>1, <1>2, <1>3, <1>4 DEF CarriedFrom
<1>6. ASSUME NEW k \in 1 .. Len(sent), NEW i \in 1 .. n, NEW j \in 1 .. Len(FB(k)), e + i = c[k - 1] + j
      PROVE  r[i] = FB(k)[j]
  <2>1. d + i \in 1 .. m /\ p + (d + i) = e + i
    BY <1>1, <1>2
  <2>2. q[d + i] = FB(k)[j]
    BY <1>1, <1>6, <2>1 DEF CarriedFrom
  <2> QED BY <1>1, <2>2
<1> QED BY <1>1, <1>2, <1>3, <1>5, <1>6 DEF CarriedFrom

(* A frame is written: a byte of frame w is of no other frame. *)
LEMMA OneFrame ==
    ASSUME NEW k \in Nat, NEW w \in Nat, NEW a \in Nat, NEW b \in Nat, NEW l \in Nat, NEW x \in Nat,
           NEW y \in Nat, NEW n \in Nat, NEW j \in 1 .. l, NEW h \in 1 .. n,
           b = a + l, y = x + n, a + j = x + h, k < w => b <= x, w < k => y <= a, k = w => a = x
    PROVE  k = w /\ j = h
<1>1. ~(k < w)
  OBVIOUS
<1>2. ~(w < k)
  OBVIOUS
<1> QED BY <1>1, <1>2
LEMMA More ==
    ASSUME Shapes, NEW c, Offsets(c), NEW p \in Nat, NEW q \in Bytes, CarriedFrom(c, p, q),
           NEW w \in 1 .. Len(sent), p + Len(q) = c[w - 1]
    PROVE  CarriedFrom(c, p, q \o FB(w)) /\ p + Len(q \o FB(w)) = c[w]
<1>1. PICK m \in Nat : m = Len(q)
  BY DEF Bytes
<1>2. PICK g \in Bytes : g = FB(w)
  BY FrameIn
<1>3. PICK n \in Nat : n = Len(g)
  BY DEF Bytes
<1>4. PICK r \in Bytes : r = q \o g
  BY Cat
<1>5. /\ Len(r) = m + n
      /\ \A i \in 1 .. m : r[i] = q[i]
      /\ \A i \in 1 .. n : r[m + i] = g[i]
  BY <1>1, <1>3, <1>4, Cat
<1>6. c[w] = c[w - 1] + n /\ c[w] \in Nat /\ c[w - 1] \in Nat /\ c[w] <= c[Len(sent)]
  BY <1>2, <1>3, OffsetsAt
<1>7. p + (m + n) = c[w]
  BY <1>1, <1>6
<1>8. p + (m + n) <= c[Len(sent)]
  BY <1>6, <1>7
<1>9. ASSUME NEW k \in 1 .. Len(sent), NEW i \in 1 .. m + n, NEW j \in 1 .. Len(FB(k)), p + i = c[k - 1] + j
      PROVE  r[i] = FB(k)[j]
  <2>1. CASE i <= m
    <3>1. q[i] = FB(k)[j]
      BY <1>1, <1>9, <2>1 DEF CarriedFrom
    <3> QED BY <1>5, <2>1, <3>1
  <2>2. CASE i > m
    <3>1. PICK h \in 1 .. n : i = m + h
      <4>1. i - m \in 1 .. n /\ i = m + (i - m)
        BY <2>2
      <4> QED BY <4>1
    <3>2. /\ c[k - 1] \in Nat /\ c[k] \in Nat /\ Len(FB(k)) \in Nat
          /\ c[k] = c[k - 1] + Len(FB(k))
      BY OffsetsAt
    <3>3. PICK a \in Nat : a = c[k - 1]
      BY <3>2
    <3>4. PICK b \in Nat : b = c[k]
      BY <3>2
    <3>5. PICK l \in Nat : l = Len(FB(k))
      BY <3>2
    <3>6. PICK x \in Nat : x = c[w - 1]
      BY <1>6
    <3>7. PICK y \in Nat : y = c[w]
      BY <1>6
    <3>8. b = a + l /\ y = x + n /\ j \in 1 .. l
      BY <1>6, <3>2, <3>3, <3>4, <3>5, <3>6, <3>7
    <3>9. a + j = x + h
      <4>1. p + m = x /\ p + (m + h) = a + j
        BY <1>1, <1>9, <3>1, <3>3, <3>6
      <4> QED BY <4>1
    <3>10. (k < w => b <= x) /\ (w < k => y <= a) /\ (k = w => a = x)
      BY <3>3, <3>4, <3>6, <3>7, OffsetsLess
    <3>11. k \in Nat /\ w \in Nat
      OBVIOUS
    <3>12. k = w /\ j = h
      BY <3>8, <3>9, <3>10, <3>11, OneFrame
    <3>13. r[m + h] = g[h]
      BY <1>5
    <3> QED BY <1>2, <3>1, <3>12, <3>13
  <2> QED BY <2>1, <2>2
<1>10. CarriedFrom(c, p, r)
  BY <1>5, <1>8, <1>9 DEF CarriedFrom
<1> QED BY <1>2, <1>4, <1>5, <1>7, <1>10

(* The reader takes n bytes. *)
LEMMA Reads ==
    ASSUME Shapes, NEW n \in Nat, n <= Len(stream), NEW s, s = Part(stream, n, Len(stream))
    PROVE  /\ s \in Bytes /\ s \o buf \in Bytes /\ Pipe \in Bytes
           /\ n + Len(s \o buf) = Len(Pipe)
           /\ \A i \in 1 .. Len(s \o buf) : (s \o buf)[i] = Pipe[n + i]
           /\ \A i \in 1 .. Len(stream) : Pipe[i] = stream[i]
<1>1. stream \in Bytes /\ buf \in Bytes
  BY DEF Shapes
<1>2. PICK l \in Nat, m \in Nat : l = Len(stream) /\ m = Len(buf)
  BY <1>1 DEF Bytes
<1>3. PICK k \in Nat : k = l - n /\ n + k = l
  <2>1. l - n \in Nat /\ n + (l - n) = l
    BY <1>2
  <2> QED BY <2>1
<1>4. s \in Bytes /\ Len(s) = k /\ \A i \in 1 .. k : s[i] = stream[n + i]
  <2>1. /\ Part(stream, n, l) \in Bytes /\ Len(Part(stream, n, l)) = l - n
        /\ \A i \in 1 .. l - n : Part(stream, n, l)[i] = stream[n + i]
    <3>1. n <= l /\ l <= Len(stream)
      BY <1>2
    <3> QED BY <1>1, <3>1, PartBytes
  <2> QED BY <1>2, <1>3, <2>1
<1>5. PICK r \in Bytes : r = s \o buf
  BY <1>1, <1>4, Cat
<1>6. /\ Len(r) = k + m
      /\ \A i \in 1 .. k : r[i] = s[i]
      /\ \A i \in 1 .. m : r[k + i] = buf[i]
  <2>1. /\ Len(s \o buf) = Len(s) + Len(buf)
        /\ \A i \in 1 .. Len(s) : (s \o buf)[i] = s[i]
        /\ \A i \in 1 .. Len(buf) : (s \o buf)[Len(s) + i] = buf[i]
    BY <1>1, <1>4, Cat
  <2> QED BY <1>2, <1>4, <1>5, <2>1
<1>7. PICK q \in Bytes : q = Pipe
  BY <1>1, Cat DEF Pipe
<1>8. /\ Len(q) = l + m
      /\ \A i \in 1 .. l : q[i] = stream[i]
      /\ \A i \in 1 .. m : q[l + i] = buf[i]
  BY <1>1, <1>2, <1>7, Cat DEF Pipe
<1>9. ASSUME NEW i \in 1 .. k + m PROVE r[i] = q[n + i]
  <2>1. CASE i <= k
    <3>1. n + i \in 1 .. l
      BY <1>3, <2>1
    <3> QED BY <1>4, <1>3, <1>6, <1>8, <2>1, <3>1
  <2>2. CASE i > k
    <3>1. PICK j \in 1 .. m : i = k + j
      BY <2>2
    <3>2. n + i = l + j
      BY <1>3, <3>1
    <3> QED BY <1>6, <1>8, <3>1, <3>2
  <2> QED BY <2>1, <2>2
<1>10. n + Len(r) = Len(q)
  <2>1. n + (k + m) = l + m
    BY <1>3
  <2> QED BY <1>6, <1>8, <2>1
<1>11. \A i \in 1 .. Len(r) : r[i] = q[n + i]
  BY <1>6, <1>9
<1>12. \A i \in 1 .. Len(stream) : q[i] = stream[i]
  BY <1>2, <1>8
<1> QED BY <1>4, <1>5, <1>7, <1>10, <1>11, <1>12

(* Two parts of a sequence make the whole. *)
LEMMA Split ==
    ASSUME NEW q \in Bytes, NEW k \in 1 .. Len(q)
    PROVE  /\ SubSeq(q, 1, k) \in Bytes /\ SubSeq(q, k + 1, Len(q)) \in Bytes
           /\ SubSeq(q, 1, k) \o SubSeq(q, k + 1, Len(q)) = q
<1>1. PICK n \in Nat : n = Len(q)
  BY DEF Bytes
<1>2. PICK m \in Nat : m = n - k /\ k + m = n
  <2>1. n - k \in Nat /\ k + (n - k) = n
    BY <1>1
  <2> QED BY <2>1
<1>3. PICK a : a = SubSeq(q, 1, k)
  OBVIOUS
<1>4. PICK b : b = SubSeq(q, k + 1, Len(q))
  OBVIOUS
<1>5. a \in Bytes /\ Len(a) = k /\ \A i \in 1 .. k : a[i] = q[i]
  BY <1>1, <1>3 DEF Bytes
<1>6. b \in Bytes /\ Len(b) = m /\ \A i \in 1 .. m : b[i] = q[k + i]
  <2>1. Part(q, k, n) \in Bytes /\ Len(Part(q, k, n)) = n - k /\ \A i \in 1 .. n - k : Part(q, k, n)[i] = q[k + i]
    <3>1. k \in Nat /\ k <= n /\ n <= Len(q)
      BY <1>1
    <3> QED BY <3>1, PartBytes
  <2>2. b = Part(q, k, n)
    BY <1>1, <1>4 DEF Part
  <2> QED BY <1>2, <2>1, <2>2
<1>7. PICK r \in Bytes : r = a \o b
  BY <1>5, <1>6, Cat
<1>8. Len(r) = k + m /\ (\A i \in 1 .. k : r[i] = a[i]) /\ (\A i \in 1 .. m : r[k + i] = b[i])
  <2>1. /\ Len(a \o b) = Len(a) + Len(b)
        /\ \A i \in 1 .. Len(a) : (a \o b)[i] = a[i]
        /\ \A i \in 1 .. Len(b) : (a \o b)[Len(a) + i] = b[i]
    BY <1>5, <1>6, Cat
  <2> QED BY <1>5, <1>6, <1>7, <2>1
<1>9. ASSUME NEW i \in 1 .. n PROVE r[i] = q[i]
  <2>1. CASE i <= k
    BY <1>5, <1>8, <2>1
  <2>2. CASE i > k
    <3>1. PICK j \in 1 .. m : i = k + j
      <4>1. i - k \in 1 .. m /\ i = k + (i - k)
        BY <1>2, <2>2
      <4> QED BY <4>1
    <3> QED BY <1>6, <1>8, <3>1
  <2> QED BY <2>1, <2>2
<1>10. r = q
  BY <1>1, <1>2, <1>8, <1>9, SameBytes
<1> QED BY <1>3, <1>4, <1>5, <1>6, <1>7, <1>10

-----------------------------------------------------------------------------
(* Every step keeps the invariant.                                          *)

LEMMA Kept ==
    ASSUME UNCHANGED <<sent, old>>, NEW c, NEW p, NEW q, p = Position(c)', q = Pipe'
    PROVE  /\ Offsets(c)' <=> Offsets(c)
           /\ CarriedFrom(c, p, q) => Carried(c)'
<1>1. \A k : FB(k)' = FB(k)
  BY DEF FB
<1> QED BY <1>1 DEF Offsets, Carried, CarriedFrom

LEMMA Placement ==
    ASSUME Shapes, Received, NEW c, Offsets(c)
    PROVE  Position(c) \in Nat /\ Pipe \in Bytes /\ Len(Pipe) \in Nat
<1>1. Len(got) \in 0 .. Len(sent)
  BY DEF Shapes, Received
<1>2. c[Len(got)] \in Nat
  BY <1>1 DEF Offsets
<1>3. Position(c) \in Nat
  BY <1>2 DEF Position
<1>4. Pipe \in Bytes
  BY Cat DEF Pipe, Shapes
<1> QED BY <1>3, <1>4 DEF Bytes

(* The writer moves on, and bytes leave its buffer. *)
LEMMA MoveKeeps ==
    ASSUME IInv, writer # "end", writer' \in {"recv", "drain", "flush"},
           UNCHANGED <<old, sent, chan, reading>>, Pipe' = Pipe, buf' \in Bytes, stream' \in Bytes
    PROVE  IInv'
<1>1. PICK c : Offsets(c) /\ Carried(c) /\ Waiting(c)
  BY DEF IInv
<1>2. PICK p, q : p = Position(c)' /\ q = Pipe'
  OBVIOUS
<1>3. p = Position(c) /\ q = Pipe
  BY <1>2 DEF Position, reading
<1>4. Offsets(c)' /\ Carried(c)'
  BY <1>1, <1>2, <1>3, Kept DEF Carried
<1>5. Waiting(c)'
  BY <1>1, <1>2, <1>3 DEF Waiting, Written, reading
<1>6. Shapes' /\ Received' /\ HeaderFits'
  BY DEF IInv, Shapes, Received, HeaderFits, reading
<1> QED BY <1>4, <1>5, <1>6 DEF IInv, reading

LEMMA DrainedKeeps == ASSUME IInv, Drained PROVE IInv'
<1>1. Pipe' = Pipe /\ buf' \in Bytes /\ stream' \in Bytes
  BY DEF Drained, Pipe, IInv, Shapes
<1> QED BY <1>1, MoveKeeps DEF Drained

LEMMA FlushKeeps == ASSUME IInv, Flush PROVE IInv'
<1>1. stream \o buf \in Bytes /\ <<>> \in Bytes
  BY Cat, NoBytes, SpansLen DEF IInv, Shapes
<1>2. (stream \o buf) \o <<>> = stream \o buf
  BY <1>1, NoBytes
<1>3. Pipe' = Pipe /\ buf' \in Bytes /\ stream' \in Bytes
  BY <1>1, <1>2 DEF Flush, Pipe
<1> QED BY <1>3, MoveKeeps DEF Flush

LEMMA SendSomeKeeps == ASSUME IInv, SendSome PROVE IInv'
<1>1. PICK k \in DOMAIN buf :
          stream' = stream \o SubSeq(buf, 1, k) /\ buf' = SubSeq(buf, k + 1, Len(buf))
  BY DEF SendSome
<1>2. PICK a, b : a = SubSeq(buf, 1, k) /\ b = SubSeq(buf, k + 1, Len(buf))
  OBVIOUS
<1>3. a \in Bytes /\ b \in Bytes /\ a \o b = buf
  <2>1. buf \in Bytes /\ k \in 1 .. Len(buf)
    BY DEF IInv, Shapes, Bytes
  <2> QED BY <1>2, <2>1, Split
<1>4. stream \in Bytes /\ stream \o a \in Bytes
  BY <1>3, Cat DEF IInv, Shapes
<1>5. (stream \o a) \o b = stream \o (a \o b)
  BY <1>3, <1>4, Assoc
<1>6. Pipe' = Pipe /\ buf' \in Bytes /\ stream' \in Bytes
  BY <1>1, <1>2, <1>3, <1>4, <1>5 DEF Pipe
<1> QED BY <1>6, MoveKeeps DEF SendSome, IInv, Shapes

(* The writer writes the frame at the head of the channel. *)
LEMMA WriteKeeps ==
    ASSUME IInv, WriteFrame, writer # "end", writer' = "drain",
           UNCHANGED <<old, sent, stream, reading>>
    PROVE  IInv'
<1>1. PICK c : Offsets(c) /\ Carried(c) /\ Waiting(c)
  BY DEF IInv
<1>2. PICK n \in Nat, m \in Nat : n = Len(sent) /\ m = Len(chan) /\ m <= n /\ m >= 1
  BY <1>1 DEF IInv, Shapes, Waiting, WriteFrame
<1>3. PICK w \in 1 .. n : w = (n - m) + 1 /\ w - 1 = n - m
  <2>1. (n - m) + 1 \in 1 .. n /\ ((n - m) + 1) - 1 = n - m
    BY <1>2
  <2> QED BY <2>1
<1>4. /\ Head(chan) = chan[1] /\ chan' \in Seq(Frames) /\ Len(chan') = m - 1
      /\ \A i \in 1 .. m - 1 : chan'[i] = chan[i + 1]
  BY <1>2 DEF WriteFrame, IInv, Shapes
<1>5. /\ \A i \in 1 .. m : chan[i] = sent[(n - m) + i]
      /\ Position(c) + Len(Pipe) = c[n - m]
  BY <1>1, <1>2 DEF Waiting, Written
<1>6. Head(chan) = sent[w]
  BY <1>2, <1>3, <1>4, <1>5
<1>7. PICK g : g = FB(w)
  OBVIOUS
<1>8. buf' = buf \o g
  BY <1>6, <1>7 DEF WriteFrame, FB
<1>9. g \in Bytes /\ buf \in Bytes /\ stream \in Bytes /\ buf' \in Bytes
  BY <1>2, <1>7, <1>8, FrameIn, Cat DEF IInv, Shapes
<1>10. PICK p \in Nat, q \in Bytes : p = Position(c) /\ q = Pipe
  BY <1>1, Placement DEF IInv
<1>11. CarriedFrom(c, p, q \o g) /\ p + Len(q \o g) = c[w]
  <2>1. CarriedFrom(c, p, q) /\ p + Len(q) = c[w - 1] /\ w \in 1 .. Len(sent)
    BY <1>1, <1>2, <1>3, <1>5, <1>10 DEF Carried
  <2> QED BY <1>1, <1>7, <2>1, More DEF IInv
<1>12. Pipe' = q \o g
  <2>1. (stream \o buf) \o g = stream \o (buf \o g)
    BY <1>9, Assoc
  <2> QED BY <1>8, <1>10, <2>1 DEF Pipe
<1>13. Position(c)' = p
  BY <1>10 DEF Position, reading
<1>14. Offsets(c)' /\ Carried(c)'
  <2>1. PICK r : r = q \o g
    OBVIOUS
  <2> QED BY <1>1, <1>11, <1>12, <1>13, <2>1, Kept
<1>15. Waiting(c)'
  <2>1. Written' = w /\ Len(chan') <= Len(sent)
    BY <1>2, <1>3, <1>4 DEF Written
  <2>2. \A i \in 1 .. m - 1 : chan'[i] = sent[w + i]
    <3> SUFFICES ASSUME NEW i \in 1 .. m - 1 PROVE chan'[i] = sent[w + i]
      OBVIOUS
    <3>1. i + 1 \in 1 .. m /\ (n - m) + (i + 1) = w + i
      BY <1>3
    <3> QED BY <1>4, <1>5, <3>1
  <2>3. \A i \in 1 .. Len(chan') : chan'[i] = sent[w + i]
    BY <1>4, <2>2
  <2>4. Position(c)' + Len(Pipe') = c[w]
    BY <1>11, <1>12, <1>13
  <2> QED BY <2>1, <2>3, <2>4 DEF Waiting
<1>16. Shapes' /\ Received' /\ HeaderFits'
  BY <1>4, <1>9 DEF IInv, Shapes, Received, HeaderFits, reading
<1> QED BY <1>14, <1>15, <1>16 DEF IInv, reading

LEMMA RecvKeeps == ASSUME IInv, Recv PROVE IInv'
BY WriteKeeps DEF Recv
LEMMA DrainKeeps == ASSUME IInv, Drain PROVE IInv'
BY WriteKeeps DEF Drain

(* The writer ends: what it had not flushed is lost. *)
LEMMA WriterEndsKeeps == ASSUME IInv, WriterEnds PROVE IInv'
<1>1. reader # "end"
  BY DEF IInv, WriterEnds
<1>2. PICK c : Offsets(c) /\ Carried(c) /\ Waiting(c)
  BY <1>1 DEF IInv
<1>3. PICK s \in Bytes : s = stream
  BY DEF IInv, Shapes
<1>4. PICK b \in Bytes : b = buf
  BY DEF IInv, Shapes
<1>5. PICK p \in Nat, q \in Bytes : p = Position(c) /\ q = Pipe
  BY <1>2, Placement DEF IInv
<1>6. Len(s) <= Len(q) /\ \A i \in 1 .. Len(s) : s[i] = q[i]
  BY <1>3, <1>4, <1>5, Cat DEF Pipe
<1>7. CarriedFrom(c, p, s)
  <2>1. PICK z \in Nat : z = 0
    OBVIOUS
  <2>2. /\ z + Len(s) <= Len(q) /\ p + z = p
        /\ \A i \in 1 .. Len(s) : s[i] = q[z + i]
    BY <1>6, <2>1, SMT DEF Bytes
  <2>3. CarriedFrom(c, p, q)
    BY <1>2, <1>5 DEF Carried
  <2>4. CarriedFrom(c, p + z, s)
    BY <1>2, <2>2, <2>3, Fewer
  <2> QED BY <2>2, <2>4
<1>8. Pipe' = s
  BY <1>3, NoBytes DEF WriterEnds, Pipe
<1>9. Position(c)' = p
  BY <1>5 DEF WriterEnds, Position, reading
<1>10. Offsets(c)' /\ Carried(c)'
  BY <1>2, <1>7, <1>8, <1>9, Kept DEF WriterEnds
<1>11. Waiting(c)'
  BY DEF WriterEnds, Waiting
<1>12. Shapes' /\ Received' /\ HeaderFits'
  BY NoBytes, SpansLen DEF WriterEnds, IInv, Shapes, Received, HeaderFits, reading
<1> QED BY <1>10, <1>11, <1>12 DEF IInv, WriterEnds

(* A frame is put into the channel: the connection will be longer. *)
LEMMA PutKeeps == ASSUME IInv, NEW f \in Frames, Put(f) PROVE IInv'
<1>1. reader # "end"
  BY DEF IInv, Put
<1>2. PICK c : Offsets(c) /\ Carried(c) /\ Waiting(c)
  BY <1>1 DEF IInv
<1>3. PICK n \in Nat : n = Len(sent)
  BY DEF IInv, Shapes
<1>4. PICK m \in Nat : m = Len(chan)
  BY DEF IInv, Shapes
<1>5. PICK g \in Nat : g = Len(got)
  BY DEF IInv, Shapes
<1>6. PICK t : t = sent'
  OBVIOUS
<1>7. /\ t \in Seq(Frames) /\ Len(t) = n + 1 /\ t[n + 1] = f
      /\ \A k \in 1 .. n : t[k] = sent[k]
  BY <1>3, <1>6 DEF Put, IInv, Shapes
<1>8. PICK l \in Nat : l = Len(FrameBytes(f, old))
  BY PartsAre DEF FrameParts, IInv, Shapes, Bytes
<1>9. Len(FB(n + 1)') = l /\ \A k \in 1 .. n : FB(k)' = FB(k)
  BY <1>6, <1>7, <1>8 DEF FB, Put
<1>10. /\ \A k \in 0 .. n : c[k] \in Nat
       /\ c[0] = 0
       /\ \A k \in 1 .. n : c[k] = c[k - 1] + Len(FB(k))
       /\ \A j, k \in 0 .. n : j <= k => c[j] <= c[k]
  BY <1>2, <1>3 DEF Offsets
<1>11. PICK last \in Nat : last = c[n]
  BY <1>10
<1>12. PICK d : d = [k \in 0 .. n + 1 |-> IF k <= n THEN c[k] ELSE last + l]
  OBVIOUS
<1>13. d[n + 1] = last + l /\ \A k \in 0 .. n : d[k] = c[k]
  BY <1>12
<1>14. Offsets(d)'
  <2>1. d \in [0 .. n + 1 -> Nat]
    BY <1>10, <1>12
  <2>2. d[0] = 0
    BY <1>10, <1>13
  <2>3. ASSUME NEW k \in 1 .. n + 1 PROVE d[k] = d[k - 1] + Len(FB(k)')
    <3>1. CASE k \in 1 .. n
      <4>1. k \in 0 .. n /\ k - 1 \in 0 .. n
        BY <3>1
      <4> QED BY <1>9, <1>10, <1>13, <3>1, <4>1
    <3>2. CASE k = n + 1
      <4>1. k - 1 = n /\ n \in 0 .. n
        BY <3>2
      <4> QED BY <1>9, <1>11, <1>13, <3>2, <4>1
    <3> QED BY <3>1, <3>2
  <2>4. ASSUME NEW j \in 0 .. n + 1, NEW k \in 0 .. n + 1, j <= k PROVE d[j] <= d[k]
    <3>1. CASE k <= n
      <4>1. k \in 0 .. n /\ j \in 0 .. n
        BY <2>4, <3>1
      <4> QED BY <1>10, <1>13, <2>4, <4>1
    <3>2. CASE k = n + 1 /\ j = n + 1
      BY <1>13, <3>2
    <3>3. CASE k = n + 1 /\ j <= n
      <4>1. j \in 0 .. n /\ n \in 0 .. n /\ j <= n
        BY <3>3
      <4>2. c[j] <= last /\ c[j] \in Nat
        BY <1>10, <1>11, <4>1
      <4> QED BY <1>13, <3>3, <4>1, <4>2
    <3> QED BY <3>1, <3>2, <3>3
  <2>5. Len(sent') = n + 1
    BY <1>6, <1>7
  <2> QED BY <2>1, <2>2, <2>3, <2>4, <2>5 DEF Offsets
<1>15. g \in 0 .. n
  BY <1>3, <1>5 DEF IInv, Received
<1>16. PICK p \in Nat, q \in Bytes : p = Position(c) /\ q = Pipe
  BY <1>2, Placement DEF IInv
<1>17. Position(d)' = p /\ Pipe' = q
  <2>1. Len(got') = g /\ reader' = reader
    BY <1>5 DEF Put, reading
  <2>2. d[g] = c[g]
    BY <1>13, <1>15
  <2> QED BY <1>5, <1>16, <2>1, <2>2 DEF Position, Pipe, Put, writing
<1>18. PICK o \in Nat : o = Len(q)
  BY DEF Bytes
<1>19. /\ p + o <= last
       /\ \A k \in 1 .. n : \A i \in 1 .. o, j \in 1 .. Len(FB(k)) : p + i = c[k - 1] + j => q[i] = FB(k)[j]
  BY <1>2, <1>3, <1>11, <1>16, <1>18 DEF Carried, CarriedFrom
<1>20. Carried(d)'
  <2>1. p + o <= d[n + 1]
    BY <1>13, <1>19
  <2>2. ASSUME NEW k \in 1 .. n + 1, NEW i \in 1 .. o, NEW j \in 1 .. Len(FB(k)'), p + i = d[k - 1] + j
        PROVE  q[i] = FB(k)'[j]
    <3>1. CASE k \in 1 .. n
      <4>1. k - 1 \in 0 .. n
        BY <3>1
      <4>2. FB(k)' = FB(k) /\ d[k - 1] = c[k - 1]
        BY <1>9, <1>13, <3>1, <4>1
      <4> QED BY <1>19, <2>2, <3>1, <4>2
    <3>2. CASE k = n + 1
      <4>1. k - 1 = n /\ n \in 0 .. n
        BY <3>2
      <4>2. d[k - 1] = last
        BY <1>11, <1>13, <4>1
      <4>3. p + i = last + j /\ j \in Nat /\ j >= 1
        BY <2>2, <4>2
      <4> QED BY <1>19, <4>3
    <3> QED BY <3>1, <3>2
  <2>3. Len(sent') = n + 1
    BY <1>6, <1>7
  <2> QED BY <1>17, <1>18, <2>1, <2>2, <2>3 DEF Carried, CarriedFrom
<1>21. /\ m <= n /\ \A i \in 1 .. m : chan[i] = sent[(n - m) + i]
       /\ p + o = c[n - m]
  BY <1>2, <1>3, <1>4, <1>16, <1>18 DEF Waiting, Written, Put
<1>22. PICK a : a = chan'
  OBVIOUS
<1>23. /\ a \in Seq(Frames) /\ Len(a) = m + 1 /\ a[m + 1] = f
       /\ \A i \in 1 .. m : a[i] = chan[i]
  BY <1>4, <1>22 DEF Put, IInv, Shapes
<1>24. Waiting(d)'
  <2>1. PICK w \in 0 .. n : w = n - m
    <3>1. n - m \in 0 .. n
      BY <1>21
    <3> QED BY <3>1
  <2>2. Written' = w /\ Len(a) <= Len(t)
    BY <1>6, <1>7, <1>21, <1>22, <1>23, <2>1 DEF Written
  <2>3. ASSUME NEW i \in 1 .. m + 1 PROVE a[i] = t[w + i]
    <3>1. CASE i \in 1 .. m
      <4>1. w + i \in 1 .. n
        BY <2>1, <3>1
      <4> QED BY <1>7, <1>21, <1>23, <2>1, <3>1, <4>1
    <3>2. CASE i = m + 1
      <4>1. w + i = n + 1
        BY <2>1, <3>2
      <4> QED BY <1>7, <1>23, <3>2, <4>1
    <3> QED BY <3>1, <3>2
  <2>4. p + o = d[w]
    BY <1>13, <1>21, <2>1
  <2> QED BY <1>6, <1>17, <1>18, <1>22, <1>23, <2>2, <2>3, <2>4 DEF Waiting
<1>25. Shapes'
  BY <1>6, <1>7, <1>22, <1>23 DEF Put, IInv, Shapes, writing, reading
<1>26. Received'
  <2>1. Len(got') = g /\ got' = got /\ old' = old
    BY <1>5 DEF Put, reading
  <2>2. ASSUME NEW k \in 1 .. g PROVE got[k] = Meaning(t[k], old)
    <3>1. k \in 1 .. n
      BY <1>15
    <3> QED BY <1>5, <1>7, <3>1 DEF IInv, Received
  <2> QED BY <1>6, <1>7, <1>15, <2>1, <2>2 DEF Received
<1>27. HeaderFits'
  <2>1. got' = got /\ old' = old /\ header' = header /\ reader' = reader
    BY DEF Put, reading
  <2>2. SUFFICES ASSUME reader' = "payload" PROVE HeaderFits'
    BY DEF HeaderFits
  <2>3. g < n /\ ~IsClose(sent[g + 1])
        /\ header = [len |-> Len(Body(sent[g + 1], old)), id |-> FrameId(sent[g + 1])]
    BY <1>3, <1>5, <2>1, <2>2 DEF IInv, HeaderFits
  <2>4. g + 1 \in 1 .. n
    BY <2>3
  <2>5. t[g + 1] = sent[g + 1] /\ g < Len(t)
    BY <1>7, <2>3, <2>4
  <2>6. sent' = t /\ Len(got') = g
    BY <1>5, <1>6, <2>1
  <2>7. PICK h : h = t[g + 1]
    OBVIOUS
  <2>8. ~IsClose(h) /\ header' = [len |-> Len(Body(h, old')), id |-> FrameId(h)]
    BY <2>1, <2>3, <2>5, <2>7
  <2> QED BY <2>5, <2>6, <2>7, <2>8, Zenon DEF HeaderFits
<1> QED BY <1>1, <1>14, <1>20, <1>24, <1>25, <1>26, <1>27 DEF IInv, Put, reading

(* What the reader sees is the next frame. *)
Coming == sent[Len(got) + 1]

LEMMA Ahead ==
    ASSUME Shapes, NEW c, Offsets(c), NEW w \in 1 .. Len(sent), NEW d \in Nat, NEW p \in Nat,
           p = c[w - 1] + d, CarriedFrom(c, p, Pipe), NEW n \in Nat, n <= Len(stream),
           d + n <= Len(FB(w)), NEW i \in Nat, i <= n
    PROVE  Part(stream, i, n) = Part(FB(w), d + i, d + n)
<1>1. PICK s \in Bytes : s = stream
  BY DEF Shapes
<1>2. PICK b \in Bytes : b = buf
  BY DEF Shapes
<1>3. PICK q \in Bytes : q = Pipe
  BY <1>1, <1>2, Cat DEF Pipe
<1>4. PICK r \in Bytes : r = FB(w)
  BY FrameIn
<1>5. PICK l \in Nat, m \in Nat : l = Len(r) /\ m = Len(q)
  BY DEF Bytes
<1>6. PICK x \in Nat : x = c[w - 1]
  BY OffsetsAt
<1>7. n <= Len(q) /\ n <= m
  BY <1>1, <1>2, <1>3, <1>5, Cat DEF Pipe
<1>8. ASSUME NEW j \in 1 .. n PROVE q[j] = r[d + j]
  <2>1. j \in 1 .. Len(q) /\ d + j \in 1 .. Len(r)
    BY <1>4, <1>5, <1>7
  <2>2. p + j = x + (d + j)
    BY <1>6
  <2>3. PICK e \in 1 .. Len(r) : e = d + j
    BY <2>1
  <2>4. \A a \in 1 .. Len(q), e1 \in 1 .. Len(r) : p + a = x + e1 => q[a] = r[e1]
    BY <1>3, <1>4, <1>6 DEF CarriedFrom
  <2>5. p + j = x + e
    BY <2>2, <2>3
  <2>6. q[j] = r[e]
    BY <2>1, <2>4, <2>5
  <2> QED BY <2>3, <2>6
<1>9. Part(q, i, n) = Part(r, d + i, d + n)
  <2>1. d + n <= Len(r)
    BY <1>4
  <2> QED BY <1>7, <1>8, <2>1, SamePart
<1>10. Part(s \o b, i, n) = Part(s, i, n)
  BY <1>1, PartLeft
<1> QED BY <1>1, <1>2, <1>3, <1>4, <1>9, <1>10 DEF Pipe

(* The position the reader is at, and the frame it is at. *)
LEMMA AtFrame ==
    ASSUME Shapes, Received, Len(got) < Len(sent), NEW c, Offsets(c)
    PROVE  /\ Len(got) + 1 \in 1 .. Len(sent) /\ (Len(got) + 1) - 1 = Len(got)
           /\ Coming \in Frames /\ old \in BOOLEAN /\ FB(Len(got) + 1) = FrameBytes(Coming, old)
           /\ c[Len(got)] \in Nat /\ c[Len(got) + 1] = c[Len(got)] + Len(FrameBytes(Coming, old))
<1>1. PICK n \in Nat : n = Len(sent)
  BY DEF Shapes
<1>2. PICK g \in Nat : g = Len(got)
  BY DEF Shapes
<1>3. PICK w \in 1 .. n : w = g + 1 /\ w - 1 = g
  <2>1. g + 1 \in 1 .. n /\ (g + 1) - 1 = g
    BY <1>1, <1>2
  <2> QED BY <2>1
<1>4. w \in 1 .. Len(sent)
  BY <1>1
<1>5. sent[w] \in Frames /\ old \in BOOLEAN /\ FB(w) = FrameBytes(sent[w], old)
  BY <1>4, FrameIn
<1>6. c[w - 1] \in Nat /\ c[w] = c[w - 1] + Len(FB(w))
  BY <1>4, OffsetsAt
<1>7. Coming = sent[w]
  BY <1>2, <1>3 DEF Coming
<1> QED BY <1>2, <1>3, <1>4, <1>5, <1>6, <1>7

LEMMA HeaderRead ==
    ASSUME Shapes, Received, reader = "header", Len(stream) >= 12, NEW c, Offsets(c), Carried(c)
    PROVE  /\ Len(got) < Len(sent)
           /\ Part(stream, 0, 4) = LenBytes(Coming, old)
           /\ FromBe(Part(stream, 4, 12)) = FrameId(Coming)
<1>1. PICK n \in Nat : n = Len(sent)
  BY DEF Shapes
<1>2. PICK g \in Nat : g = Len(got)
  BY DEF Shapes
<1>3. g \in 0 .. n /\ n \in 0 .. n
  BY <1>1, <1>2 DEF Received
<1>4. PICK p \in Nat : p = c[g]
  BY <1>1, <1>3 DEF Offsets
<1>5. PICK last \in Nat : last = c[n]
  BY <1>1, <1>3 DEF Offsets
<1>6. PICK m \in Nat : m = Len(Pipe) /\ m >= 12
  <2>1. stream \in Bytes /\ buf \in Bytes
    BY DEF Shapes
  <2>2. Len(Pipe) = Len(stream) + Len(buf) /\ Len(stream) \in Nat /\ Len(buf) \in Nat
    BY <2>1, Cat DEF Pipe
  <2>3. Len(Pipe) \in Nat /\ Len(Pipe) >= 12
    BY <2>2
  <2> QED BY <2>3
<1>7. Position(c) = p
  BY <1>2, <1>4 DEF Position
<1>8. p + m <= last /\ CarriedFrom(c, p, Pipe)
  BY <1>1, <1>5, <1>6, <1>7 DEF Carried, CarriedFrom
<1>9. g # n
  BY <1>4, <1>5, <1>6, <1>8
<1>10. Len(got) < Len(sent)
  BY <1>1, <1>2, <1>3, <1>9
<1>11. PICK w \in 1 .. Len(sent) : w = g + 1 /\ w - 1 = g
  BY <1>2, <1>10, AtFrame
<1>12. FB(w) = FrameBytes(Coming, old) /\ Coming \in Frames /\ old \in BOOLEAN
  BY <1>2, <1>10, <1>11, AtFrame
<1>13. FrameParts(Coming, old)
  BY <1>12, PartsAre
<1>14. PICK r \in Bytes : r = FB(w)
  BY <1>12, <1>13 DEF FrameParts
<1>15. Len(r) \in Nat /\ Len(r) >= 12
  BY <1>12, <1>13, <1>14 DEF FrameParts, Bytes
<1>16. PICK d \in Nat : d = 0
  OBVIOUS
<1>17. p = c[w - 1] + d
  BY <1>4, <1>11, <1>16
<1>18. ASSUME NEW a \in Nat, NEW b \in Nat, a <= b, b <= 12
       PROVE  Part(stream, a, b) = Part(r, a, b)
  <2>1. b <= Len(stream) /\ d + b <= Len(FB(w))
    <3>1. Len(stream) \in Nat
      BY DEF Shapes, Bytes
    <3>2. d + b <= Len(r) /\ b <= Len(stream)
      BY <1>15, <1>16, <1>18, <3>1
    <3> QED BY <1>14, <3>2, Zenon
  <2>2. Part(stream, a, b) = Part(FB(w), d + a, d + b)
    <3>1. CarriedFrom(c, p, Pipe) /\ a <= b /\ b <= Len(stream) /\ d + b <= Len(FB(w))
      BY <1>8, <1>18, <2>1
    <3> QED BY <1>17, <3>1, Ahead
  <2>3. d + a = a /\ d + b = b
    BY <1>16
  <2> QED BY <1>14, <2>2, <2>3
<1>19. Part(stream, 0, 4) = Part(r, 0, 4) /\ Part(stream, 4, 12) = Part(r, 4, 12)
  <2>1. 0 \in Nat /\ 4 \in Nat /\ 12 \in Nat /\ 0 <= 4 /\ 4 <= 12 /\ 12 <= 12
    OBVIOUS
  <2> QED BY <1>18, <2>1
<1> QED BY <1>10, <1>12, <1>13, <1>14, <1>19 DEF FrameParts

LEMMA BodyRead ==
    ASSUME Shapes, Received, HeaderFits, reader = "payload", Len(stream) >= header.len,
           NEW c, Offsets(c), Carried(c)
    PROVE  /\ Len(got) < Len(sent) /\ header.len \in Nat /\ ~IsClose(Coming)
           /\ header.id = FrameId(Coming) /\ header.len = Len(Body(Coming, old))
           /\ Part(stream, 0, header.len) = Body(Coming, old)
<1>1. /\ Len(got) < Len(sent) /\ ~IsClose(Coming)
      /\ header = [len |-> Len(Body(Coming, old)), id |-> FrameId(Coming)]
  BY Zenon DEF HeaderFits, Coming
<1>2. PICK g \in Nat : g = Len(got)
  BY DEF Shapes
<1>3. PICK w \in 1 .. Len(sent) : w = g + 1 /\ w - 1 = g
  BY <1>1, <1>2, AtFrame
<1>4. FB(w) = FrameBytes(Coming, old) /\ Coming \in Frames /\ old \in BOOLEAN
  BY <1>1, <1>2, <1>3, AtFrame
<1>5. FrameParts(Coming, old)
  BY <1>4, PartsAre
<1>6. PICK n \in Nat : n = Len(Body(Coming, old))
  BY <1>5 DEF FrameParts, Bytes
<1>7. header.len = n /\ header.id = FrameId(Coming)
  BY <1>1, <1>6
<1>8. PICK p \in Nat : p = c[g] + 12
  BY <1>1, <1>2, AtFrame
<1>9. Position(c) = p
  BY <1>2, <1>8 DEF Position
<1>10. CarriedFrom(c, p, Pipe)
  BY <1>9 DEF Carried
<1>11. PICK d \in Nat : d = 12
  OBVIOUS
<1>12. Part(stream, 0, n) = Part(FB(w), d + 0, d + n)
  <2>1. p = c[w - 1] + d
    BY <1>3, <1>8, <1>11
  <2>2. n <= Len(stream)
    BY <1>7 DEF Shapes, Bytes
  <2>3. d + n <= Len(FB(w))
    <3>1. Len(FB(w)) = 12 + n
      BY <1>4, <1>5, <1>6 DEF FrameParts
    <3> QED BY <1>11, <3>1
  <2>4. 0 \in Nat /\ 0 <= n
    OBVIOUS
  <2> QED BY <1>10, <2>1, <2>2, <2>3, <2>4, Ahead
<1>13. Part(FrameBytes(Coming, old), 12, 12 + n) = Body(Coming, old)
  BY <1>5, <1>6 DEF FrameParts
<1>14. d + 0 = 12 /\ d + n = 12 + n
  BY <1>11
<1> QED BY <1>1, <1>4, <1>6, <1>7, <1>12, <1>13, <1>14

(* Bytes are read: the position moves by as many. *)
LEMMA ReadKeeps ==
    ASSUME Shapes, Received, UNCHANGED <<old, sent, chan, writing>>,
           NEW n \in Nat, n <= Len(stream), stream' = Part(stream, n, Len(stream)),
           NEW c, Offsets(c), Carried(c), Waiting(c), Position(c)' = Position(c) + n
    PROVE  stream' \in Bytes /\ Offsets(c)' /\ Carried(c)' /\ Waiting(c)'
<1>1. PICK s : s = stream'
  OBVIOUS
<1>2. s = Part(stream, n, Len(stream))
  BY <1>1
<1>3. PICK p \in Nat, q \in Bytes : p = Position(c) /\ q = Pipe
  BY Placement
<1>4. PICK r : r = s \o buf
  OBVIOUS
<1>5. /\ s \in Bytes /\ r \in Bytes /\ n + Len(r) = Len(q)
      /\ \A i \in 1 .. Len(r) : r[i] = q[n + i]
  <2>1. /\ s \in Bytes /\ s \o buf \in Bytes /\ n + Len(s \o buf) = Len(Pipe)
        /\ \A i \in 1 .. Len(s \o buf) : (s \o buf)[i] = Pipe[n + i]
    BY <1>2, Reads
  <2> QED BY <1>3, <1>4, <2>1, Zenon
<1>6. Pipe' = r
  BY <1>1, <1>4 DEF Pipe, writing
<1>7. CarriedFrom(c, p + n, r)
  <2>1. CarriedFrom(c, p, q) /\ n + Len(r) <= Len(q)
    BY <1>3, <1>5 DEF Carried, Bytes
  <2> QED BY <1>5, <2>1, Fewer
<1>8. Position(c)' = p + n
  BY <1>3
<1>9. Offsets(c)' /\ Carried(c)'
  <2>1. PICK e \in Nat : e = p + n
    OBVIOUS
  <2>2. CarriedFrom(c, e, r) /\ e = Position(c)'
    BY <1>7, <1>8, <2>1
  <2> QED BY <1>6, <2>2, Kept
<1>10. Waiting(c)'
  <2>1. CASE writer = "end"
    BY <2>1 DEF Waiting, writing
  <2>2. CASE writer # "end"
    <3>1. /\ Len(chan) <= Len(sent)
          /\ \A i \in 1 .. Len(chan) : chan[i] = sent[Written + i]
          /\ p + Len(q) = c[Written]
      BY <1>3, <2>2 DEF Waiting
    <3>2. Written' = Written
      BY DEF Written
    <3>3. PICK l \in Nat, m \in Nat : l = Len(r) /\ m = Len(q)
      BY <1>5 DEF Bytes
    <3>4. (p + n) + l = p + m
      BY <1>5, <3>3
    <3>5. Position(c)' + Len(Pipe') = c[Written]
      BY <1>6, <1>8, <3>1, <3>3, <3>4
    <3> QED BY <3>1, <3>2, <3>5 DEF Waiting
  <2> QED BY <2>1, <2>2
<1> QED BY <1>1, <1>5, <1>9, <1>10

(* The frame at the read position is taken. *)
LEMMA TakeKeeps ==
    ASSUME Shapes, Received, Len(got) < Len(sent), UNCHANGED <<old, sent>>,
           got' = Append(got, Meaning(Coming, old))
    PROVE  got' \in Seq(Meanings) /\ Len(got') = Len(got) + 1 /\ Received'
<1>1. PICK g \in Nat, n \in Nat : g = Len(got) /\ n = Len(sent)
  BY DEF Shapes
<1>2. Coming = sent[g + 1]
  BY <1>1 DEF Coming
<1>3. PICK e : e = Meaning(Coming, old)
  OBVIOUS
<1>4. e \in Meanings
  <2>1. g + 1 \in 1 .. n
    BY <1>1
  <2>2. sent[g + 1] \in Frames /\ old \in BOOLEAN
    BY <1>1, <2>1, FrameIn
  <2> QED BY <1>2, <1>3, <2>2 DEF Meanings
<1>5. PICK t : t = got'
  OBVIOUS
<1>6. got \in Seq(Meanings) /\ t = Append(got, e)
  BY <1>3, <1>5 DEF Shapes
<1>7. t \in Seq(Meanings) /\ Len(t) = g + 1 /\ t[g + 1] = e /\ \A k \in 1 .. g : t[k] = got[k]
  BY <1>1, <1>4, <1>6
<1>8. \A k \in 1 .. g : got[k] = Meaning(sent[k], old)
  BY <1>1 DEF Received
<1>9. ASSUME NEW k \in 1 .. g + 1 PROVE t[k] = Meaning(sent[k], old)
  <2>1. CASE k \in 1 .. g
    BY <1>7, <1>8, <2>1
  <2>2. CASE k = g + 1
    BY <1>2, <1>3, <1>7, <2>2
  <2> QED BY <2>1, <2>2
<1>10. g + 1 <= n
  BY <1>1
<1>11. Received'
  BY <1>1, <1>5, <1>7, <1>9, <1>10 DEF Received
<1> QED BY <1>1, <1>5, <1>7, <1>11

LEMMA ReadFailsKeeps == ASSUME IInv, ReadFails PROVE IInv'
<1>1. Shapes' /\ Received'
  BY DEF ReadFails, IInv, Shapes, Received, writing
<1> QED BY <1>1 DEF ReadFails, IInv, HeaderFits, writing

(* The next frame is a StreamClose, or has a body to wait for. *)
LEMMA CloseTaken ==
    ASSUME IInv, ReadHeader, IsClose(Coming)
    PROVE  /\ IInv' /\ reader' = reader /\ Len(got) < Len(sent)
           /\ got' = Append(got, Meaning(Coming, old))
<1>1. PICK c : Offsets(c) /\ Carried(c) /\ Waiting(c)
  BY DEF IInv, ReadHeader
<1>2. Shapes /\ Received /\ reader = "header" /\ Len(stream) >= 12
  BY DEF IInv, ReadHeader
<1>3. /\ Len(got) < Len(sent) /\ Part(stream, 0, 4) = LenBytes(Coming, old)
      /\ FromBe(Part(stream, 4, 12)) = FrameId(Coming)
  BY <1>1, <1>2, HeaderRead
<1>4. Coming \in Frames /\ old \in BOOLEAN
  BY <1>1, <1>2, <1>3, AtFrame
<1>5. HeaderMeans(Coming, old) /\ FrameMeaning(Coming, old) /\ FrameParts(Coming, old)
  BY <1>4, HeaderIs, FrameIs, PartsAre
<1>6. LenBytes(Coming, old) = CloseMarker /\ Body(Coming, old) = <<>>
      /\ Meaning(Coming, old) = [type |-> "StreamClose", id |-> FrameId(Coming)]
  BY <1>5, Zenon DEF HeaderMeans, FrameMeaning
<1>7. got' = Append(got, Meaning(Coming, old)) /\ reader' = reader /\ header' = header
  BY <1>3, <1>6, Zenon DEF ReadHeader
<1>8. UNCHANGED <<old, sent, chan, writing>> /\ stream' = Part(stream, 12, Len(stream))
  BY DEF ReadHeader
<1>9. got' \in Seq(Meanings) /\ Len(got') = Len(got) + 1 /\ Received'
  BY <1>2, <1>3, <1>7, <1>8, TakeKeeps
<1>10. Position(c)' = Position(c) + 12
  <2>1. PICK g \in Nat : g = Len(got)
    BY <1>2 DEF Shapes
  <2>2. Len(FrameBytes(Coming, old)) = 12
    BY <1>5, <1>6 DEF FrameParts
  <2>3. c[g + 1] = c[g] + 12 /\ c[g] \in Nat
    BY <1>1, <1>2, <1>3, <2>1, <2>2, AtFrame
  <2>4. Position(c) = c[g] /\ Position(c)' = c[g + 1]
    BY <1>2, <1>7, <1>9, <2>1, <2>3 DEF Position
  <2> QED BY <2>3, <2>4
<1>11. stream' \in Bytes /\ Offsets(c)' /\ Carried(c)' /\ Waiting(c)'
  <2>1. PICK n \in Nat : n = 12
    OBVIOUS
  <2>2. n <= Len(stream) /\ stream' = Part(stream, n, Len(stream)) /\ Position(c)' = Position(c) + n
    BY <1>2, <1>8, <1>10, <2>1 DEF Shapes, Bytes
  <2> QED BY <1>1, <1>2, <1>8, <2>2, ReadKeeps
<1>12. Shapes'
  BY <1>2, <1>7, <1>8, <1>9, <1>11 DEF Shapes, writing
<1>13. HeaderFits'
  BY <1>2, <1>7 DEF HeaderFits
<1> QED BY <1>2, <1>3, <1>7, <1>9, <1>11, <1>12, <1>13 DEF IInv

LEMMA HeaderTaken ==
    ASSUME IInv, ReadHeader, ~IsClose(Coming)
    PROVE  IInv' /\ got' = got
<1>1. PICK c : Offsets(c) /\ Carried(c) /\ Waiting(c)
  BY DEF IInv, ReadHeader
<1>2. Shapes /\ Received /\ reader = "header" /\ Len(stream) >= 12
  BY DEF IInv, ReadHeader
<1>3. /\ Len(got) < Len(sent) /\ Part(stream, 0, 4) = LenBytes(Coming, old)
      /\ FromBe(Part(stream, 4, 12)) = FrameId(Coming)
  BY <1>1, <1>2, HeaderRead
<1>4. Coming \in Frames /\ old \in BOOLEAN
  BY <1>1, <1>2, <1>3, AtFrame
<1>5. HeaderMeans(Coming, old)
  BY <1>4, HeaderIs
<1>6. /\ LenBytes(Coming, old) # CloseMarker
      /\ ~(LenBytes(Coming, old)[1] > 127 \/ FromBe(LenBytes(Coming, old)) > MaxPayload)
      /\ FromBe(LenBytes(Coming, old)) = Len(Body(Coming, old))
  BY <1>5, Zenon DEF HeaderMeans
<1>7. /\ got' = got /\ reader' = "payload"
      /\ header' = [len |-> Len(Body(Coming, old)), id |-> FrameId(Coming)]
  BY <1>3, <1>6, Zenon DEF ReadHeader
<1>8. UNCHANGED <<old, sent, chan, writing>> /\ stream' = Part(stream, 12, Len(stream))
  BY DEF ReadHeader
<1>9. Position(c)' = Position(c) + 12
  <2>1. PICK g \in Nat : g = Len(got)
    BY <1>2 DEF Shapes
  <2>2. Position(c) = c[g] /\ Position(c)' = c[g] + 12
    <3>1. c[g] \in Nat
      BY <1>1, <1>2, <1>3, <2>1, AtFrame
    <3> QED BY <1>2, <1>7, <2>1, <3>1 DEF Position
  <2> QED BY <2>2
<1>10. stream' \in Bytes /\ Offsets(c)' /\ Carried(c)' /\ Waiting(c)'
  <2>1. PICK n \in Nat : n = 12
    OBVIOUS
  <2>2. n <= Len(stream) /\ stream' = Part(stream, n, Len(stream)) /\ Position(c)' = Position(c) + n
    BY <1>2, <1>8, <1>9, <2>1 DEF Shapes, Bytes
  <2> QED BY <1>1, <1>2, <1>8, <2>2, ReadKeeps
<1>11. Shapes' /\ Received'
  BY <1>2, <1>7, <1>8, <1>10 DEF Shapes, Received, writing
<1>12. HeaderFits'
  BY <1>3, <1>7, <1>8, Zenon DEF HeaderFits, Coming
<1> QED BY <1>7, <1>10, <1>11, <1>12 DEF IInv

LEMMA PayloadTaken ==
    ASSUME IInv, ReadPayload
    PROVE  /\ IInv' /\ reader' = "header" /\ Len(got) < Len(sent)
           /\ got' = Append(got, Meaning(Coming, old))
<1>1. PICK c : Offsets(c) /\ Carried(c) /\ Waiting(c)
  BY DEF IInv, ReadPayload
<1>2. Shapes /\ Received /\ HeaderFits /\ reader = "payload" /\ Len(stream) >= header.len
  BY DEF IInv, ReadPayload
<1>3. /\ Len(got) < Len(sent) /\ header.len \in Nat /\ ~IsClose(Coming)
      /\ header.id = FrameId(Coming) /\ header.len = Len(Body(Coming, old))
      /\ Part(stream, 0, header.len) = Body(Coming, old)
  BY <1>1, <1>2, BodyRead
<1>4. Coming \in Frames /\ old \in BOOLEAN
  BY <1>1, <1>2, <1>3, AtFrame
<1>5. FrameMeaning(Coming, old) /\ FrameParts(Coming, old)
  BY <1>4, FrameIs, PartsAre
<1>6. Taken(Coming, Body(Coming, old)) = Meaning(Coming, old) /\ Meaning(Coming, old) # Bail
  BY <1>3, <1>5, Zenon DEF FrameMeaning
<1>7. (IF header.id = 0 THEN Decode(Part(stream, 0, header.len))
       ELSE [type |-> "Data", id |-> header.id, payload |-> Part(stream, 0, header.len)])
         = Meaning(Coming, old)
  BY <1>3, <1>6, Zenon DEF Taken
<1>8. /\ got' = Append(got, Meaning(Coming, old)) /\ reader' = "header"
      /\ stream' = Part(stream, header.len, Len(stream))
  BY <1>6, <1>7, Zenon DEF ReadPayload
<1>9. UNCHANGED <<old, sent, chan, writing>>
  BY DEF ReadPayload
<1>10. got' \in Seq(Meanings) /\ Len(got') = Len(got) + 1 /\ Received'
  BY <1>2, <1>3, <1>8, <1>9, TakeKeeps
<1>11. PICK n \in Nat : n = header.len
  BY <1>3
<1>12. Position(c)' = Position(c) + n
  <2>1. PICK g \in Nat : g = Len(got)
    BY <1>2 DEF Shapes
  <2>2. Len(FrameBytes(Coming, old)) = 12 + n
    BY <1>3, <1>5, <1>11 DEF FrameParts
  <2>3. c[g + 1] = c[g] + (12 + n) /\ c[g] \in Nat
    BY <1>1, <1>2, <1>3, <2>1, <2>2, AtFrame
  <2>4. Position(c) = c[g] + 12 /\ Position(c)' = c[g + 1]
    BY <1>2, <1>8, <1>10, <2>1, <2>3 DEF Position
  <2> QED BY <2>3, <2>4
<1>13. stream' \in Bytes /\ Offsets(c)' /\ Carried(c)' /\ Waiting(c)'
  <2>1. n <= Len(stream) /\ stream' = Part(stream, n, Len(stream))
    BY <1>2, <1>8, <1>11 DEF Shapes, Bytes
  <2> QED BY <1>1, <1>2, <1>9, <1>12, <2>1, ReadKeeps
<1>14. Shapes'
  BY <1>2, <1>8, <1>9, <1>10, <1>13 DEF Shapes, writing
<1>15. HeaderFits'
  BY <1>8 DEF HeaderFits
<1> QED BY <1>3, <1>8, <1>10, <1>13, <1>14, <1>15 DEF IInv

-----------------------------------------------------------------------------
(* The theorems.                                                            *)

LEMMA Initially == ASSUME Init PROVE IInv
<1>1. PICK z : z = [k \in 0 .. 0 |-> 0]
  OBVIOUS
<1>2. Offsets(z) /\ Carried(z) /\ Waiting(z)
  <2>1. z[0] = 0 /\ z \in [0 .. 0 -> Nat]
    BY <1>1
  <2>2. sent = <<>> /\ got = <<>> /\ chan = <<>> /\ stream = <<>> /\ buf = <<>> /\ reader = "header"
    BY DEF Init
  <2>3. Len(sent) = 0 /\ Len(got) = 0 /\ Len(chan) = 0 /\ Position(z) = 0
    BY <2>1, <2>2 DEF Position
  <2>4. Pipe \in Bytes /\ Len(Pipe) = 0
    <3>1. <<>> \in Bytes /\ Len(<<>>) = 0
      BY NoBytes, SpansLen
    <3>2. Pipe = <<>>
      BY <2>2, <3>1, NoBytes DEF Pipe
    <3> QED BY <3>1, <3>2
  <2>5. Offsets(z)
    BY <2>1, <2>3 DEF Offsets
  <2>6. Carried(z)
    BY <2>1, <2>3, <2>4 DEF Carried, CarriedFrom
  <2>7. Waiting(z)
    BY <2>1, <2>3, <2>4 DEF Waiting, Written
  <2> QED BY <2>5, <2>6, <2>7
<1>3. Shapes
  BY NoBytes, SpansLen DEF Init, Shapes
<1>4. Received /\ HeaderFits
  BY DEF Init, Received, HeaderFits
<1> QED BY <1>2, <1>3, <1>4 DEF Init, IInv

LEMMA HeaderKeeps == ASSUME IInv, ReadHeader PROVE IInv'
BY CloseTaken, HeaderTaken

LEMMA StepKeeps == ASSUME IInv, [Next]_vars PROVE IInv'
<1>1. CASE Next
  BY <1>1, RecvKeeps, DrainKeeps, DrainedKeeps, FlushKeeps, SendSomeKeeps, WriterEndsKeeps, PutKeeps,
     HeaderKeeps, PayloadTaken, ReadFailsKeeps DEF Next, WriterStep, ReaderStep
<1>2. CASE UNCHANGED vars
  <2>1. UNCHANGED <<old, sent, got, chan, writer, drained, buf, stream, reader, header>>
    BY <1>2 DEF vars, writing, reading
  <2>2. Shapes' /\ Received' /\ HeaderFits' /\ (reader = "end" => writer = "end")'
    BY <2>1 DEF IInv, Shapes, Received, HeaderFits
  <2>3. ASSUME NEW c, Offsets(c), Carried(c), Waiting(c) PROVE Offsets(c)' /\ Carried(c)' /\ Waiting(c)'
    <3>1. PICK p, q : p = Position(c)' /\ q = Pipe'
      OBVIOUS
    <3>2. p = Position(c) /\ q = Pipe
      BY <2>1, <3>1 DEF Position, Pipe
    <3>3. Offsets(c)' /\ Carried(c)'
      BY <2>1, <2>3, <3>1, <3>2, Kept DEF Carried
    <3>4. Waiting(c)'
      BY <2>1, <2>3, <3>1, <3>2 DEF Waiting, Written
    <3> QED BY <3>3, <3>4
  <2> QED BY <2>1, <2>2, <2>3 DEF IInv
<1> QED BY <1>1, <1>2

(* What lies between the reader and the writer are the bytes of the frames  *)
(* that are there, and what was read is what was put in (both writer tasks, *)
(* read_frame).                                                             *)
THEOREM Invariance == Spec => []IInv
<1>1. Init => IInv
  BY Initially
<1>2. IInv /\ [Next]_vars => IInv'
  BY StepKeeps
<1> QED BY <1>1, <1>2, PTL DEF Spec

(* read_frame and decode refuse no frame that either program writes, an     *)
(* empty datagram or a message of an earlier version included: the reader   *)
(* gives up only when the writer of the other end is gone.                  *)
THEOREM NoFrameIsRefused == Spec => []NoFrameRefused
<1>1. IInv => NoFrameRefused
  BY DEF IInv, NoFrameRefused
<1> QED BY <1>1, Invariance, PTL

-----------------------------------------------------------------------------
(* The refinement of FrameChannel.                                          *)

Understanding == [k \in DOMAIN sent |-> Meaning(sent[k], old)]

LEMMA PutPuts ==
    ASSUME IInv, NEW f \in Frames, Put(f)
    PROVE  Understanding' = Append(Understanding, Meaning(f, old)) /\ got' = got
<1>1. PICK n \in Nat : n = Len(sent)
  BY DEF IInv, Shapes
<1>2. PICK s, t : s = sent /\ t = sent'
  OBVIOUS
<1>3. /\ s \in Seq(Frames) /\ Len(s) = n /\ DOMAIN s = 1 .. n
      /\ t = Append(s, f) /\ old' = old /\ got' = got
  BY <1>1, <1>2 DEF IInv, Shapes, Put, reading
<1>4. DOMAIN t = 1 .. n + 1 /\ t[n + 1] = f /\ \A k \in 1 .. n : t[k] = s[k]
  <2>1. t \in Seq(Frames) /\ Len(t) = n + 1
    BY <1>3
  <2> QED BY <1>3, <2>1
<1>5. PICK M : M = Meanings
  OBVIOUS
<1>6. \A e \in Frames : Meaning(e, old) \in M
  BY <1>5 DEF IInv, Shapes, Meanings
<1>7. PICK u : u = [k \in 1 .. n |-> Meaning(s[k], old)]
  OBVIOUS
<1>8. u \in Seq(M) /\ Len(u) = n /\ \A k \in 1 .. n : u[k] = Meaning(s[k], old)
  <2>1. \A k \in 1 .. n : Meaning(s[k], old) \in M
    BY <1>3, <1>6
  <2> QED BY <1>7, <2>1
<1>9. PICK e \in M : e = Meaning(f, old)
  BY <1>6
<1>10. PICK v : v = Append(u, e)
  OBVIOUS
<1>11. /\ v \in Seq(M) /\ Len(v) = n + 1 /\ v[n + 1] = e /\ \A k \in 1 .. n : v[k] = u[k]
  BY <1>8, <1>10
<1>12. PICK w : w = [k \in 1 .. n + 1 |-> Meaning(t[k], old)]
  OBVIOUS
<1>13. w = v
  <2>1. ASSUME NEW k \in 1 .. n + 1 PROVE w[k] = v[k]
    <3>1. CASE k \in 1 .. n
      BY <1>4, <1>8, <1>11, <1>12, <3>1
    <3>2. CASE k = n + 1
      BY <1>4, <1>9, <1>11, <1>12, <3>2
    <3> QED BY <3>1, <3>2
  <2>2. DOMAIN v = 1 .. n + 1 /\ v = [k \in DOMAIN v |-> v[k]]
    BY <1>11
  <2> QED BY <1>12, <2>1, <2>2
<1>14. Understanding = u
  BY <1>2, <1>3, <1>7 DEF Understanding
<1>15. Understanding' = w
  BY <1>2, <1>3, <1>4, <1>12 DEF Understanding
<1> QED BY <1>3, <1>9, <1>10, <1>13, <1>14, <1>15

LEMMA TakeTakes ==
    ASSUME IInv, Len(got) < Len(sent), got' = Append(got, Meaning(Coming, old)),
           UNCHANGED <<old, sent>>
    PROVE  /\ Len(got) < Len(Understanding)
           /\ got' = Append(got, Understanding[Len(got) + 1])
           /\ Understanding' = Understanding
<1>1. PICK n \in Nat, g \in Nat : n = Len(sent) /\ g = Len(got) /\ DOMAIN sent = 1 .. n
  BY DEF IInv, Shapes
<1>2. g + 1 \in 1 .. n
  BY <1>1
<1>3. Understanding[g + 1] = Meaning(sent[g + 1], old)
  BY <1>1, <1>2 DEF Understanding
<1>4. Len(Understanding) = n
  BY <1>1 DEF Understanding
<1>5. Understanding' = Understanding
  BY DEF Understanding
<1> QED BY <1>1, <1>3, <1>4, <1>5 DEF Coming

LEMMA InitMaps == ASSUME Init PROVE Channel!Init
<1>1. sent = <<>> /\ got = <<>> /\ DOMAIN sent = {}
  BY DEF Init
<1>2. [k \in DOMAIN sent |-> Meaning(sent[k], old)] = <<>>
  BY <1>1
<1> QED BY <1>1, <1>2 DEF Channel!Init

LEMMA StepMaps ==
    ASSUME IInv, [Next]_vars
    PROVE  [Channel!Next]_<<Understanding, got>>
<1>1. CASE UNCHANGED <<old, sent, got>>
  BY <1>1 DEF Understanding
<1>2. ASSUME NEW f \in Frames, Put(f) PROVE Channel!Next
  <2>1. Understanding' = Append(Understanding, Meaning(f, old)) /\ got' = got
    BY <1>2, PutPuts
  <2>2. Channel!Put(Meaning(f, old))
    BY <2>1 DEF Channel!Put, Understanding
  <2>3. Meaning(f, old) \in {Meaning(e, o) : e \in Frames, o \in BOOLEAN}
    BY DEF IInv, Shapes
  <2> QED BY <2>2, <2>3 DEF Channel!Next
<1>3. ASSUME Len(got) < Len(sent), got' = Append(got, Meaning(Coming, old)), UNCHANGED <<old, sent>>
      PROVE  Channel!Next
  <2>1. /\ Len(got) < Len(Understanding) /\ got' = Append(got, Understanding[Len(got) + 1])
        /\ Understanding' = Understanding
    BY <1>3, TakeTakes
  <2>2. Channel!Take
    BY <2>1 DEF Channel!Take, Understanding
  <2> QED BY <2>2 DEF Channel!Next
<1>4. CASE ReadHeader
  <2>1. UNCHANGED <<old, sent>>
    BY <1>4 DEF ReadHeader
  <2>2. CASE IsClose(Coming)
    BY <1>3, <1>4, <2>1, <2>2, CloseTaken
  <2>3. CASE ~IsClose(Coming)
    BY <1>1, <1>4, <2>1, <2>3, HeaderTaken
  <2> QED BY <2>2, <2>3
<1>5. CASE ReadPayload
  <2>1. UNCHANGED <<old, sent>>
    BY <1>5 DEF ReadPayload
  <2> QED BY <1>3, <1>5, <2>1, PayloadTaken
<1>6. CASE WriterStep \/ SendSome \/ WriterEnds \/ ReadFails
  <2>1. UNCHANGED <<old, sent, got>>
    BY <1>6 DEF WriterStep, Recv, Drain, Drained, Flush, SendSome, WriterEnds, ReadFails, reading
  <2> QED BY <1>1, <2>1
<1>7. CASE UNCHANGED vars
  BY <1>1, <1>7 DEF vars, reading
<1> QED BY <1>2, <1>4, <1>5, <1>6, <1>7 DEF Next, ReaderStep

(* Frames come out of the connection as they were put in, in order, none    *)
(* lost, doubled or made up, for all frames, batches and pieces: the writer *)
(* task, the stream and read_frame implement FrameChannel.                  *)
THEOREM ChannelIsImplemented == Spec => ImplementsChannel
<1>1. Init => Channel!Init
  BY InitMaps
<1>2. IInv /\ [Next]_vars => [Channel!Next]_<<[k \in DOMAIN sent |-> Meaning(sent[k], old)], got>>
  BY StepMaps DEF Understanding
<1> QED BY <1>1, <1>2, Invariance, PTL DEF Spec, ImplementsChannel, Channel!Spec

-----------------------------------------------------------------------------
(* The PROXY header.                                                        *)

FamilyOf(h) == IF h.proto = "TCP4" THEN 4 ELSE 6
Tells(h, peer, local) ==
    IF peer = NoPeer THEN h.proto = "UNKNOWN"
    ELSE /\ h.src = PlayerIp(peer) /\ Len(h.src) = IF FamilyOf(h) = 4 THEN 4 ELSE 16
         /\ h.dst = FamilyOf(h) \/ (FamilyOf(h) = 4 /\ local.family # 4)

LEMMA HeaderTells ==
    ASSUME NEW peer \in Peer, NEW local
    PROVE  Tells(ProxyHeader(peer, local), peer, local)
<1>1. CASE peer = NoPeer
  <2>1. ProxyHeader(peer, local) = Header("UNKNOWN", <<>>, 0)
    BY <1>1, Zenon DEF ProxyHeader
  <2> QED BY <1>1, <2>1 DEF Tells, Header
<1>2. CASE peer \in [family : {4}, port : U16, ip : [1 .. 4 -> Byte]]
  <2>1. peer # NoPeer /\ peer.family = 4 /\ ~IsMapped(peer)
    BY <1>2 DEF NoPeer, IsMapped
  <2>2. PICK ip \in [1 .. 4 -> Byte] : ip = peer.ip
    BY <1>2
  <2>3. Len(ip) = 4
    <3>1. Spans(ip, 0, 4) /\ 4 \in Nat
      BY IpBytes
    <3> QED BY <3>1 DEF Spans
  <2>4. ProxyHeader(peer, local) = Header("TCP4", ip, local.family) /\ PlayerIp(peer) = ip
    BY <2>1, <2>2, Zenon DEF ProxyHeader, PlayerIp
  <2> QED BY <2>1, <2>3, <2>4 DEF Tells, Header, FamilyOf
<1>3. CASE peer \in [family : {6}, port : U16, ip : [1 .. 16 -> Byte]]
  <2>1. peer # NoPeer /\ peer.family = 6 /\ 6 # 4
    BY <1>3 DEF NoPeer
  <2>2. PICK ip \in [1 .. 16 -> Byte] : ip = peer.ip
    BY <1>3
  <2>3. Len(ip) = 16 /\ ip \in Seq(Byte)
    <3>1. Spans(ip, 0, 16) /\ 16 \in Nat
      BY IpBytes
    <3> QED BY <3>1 DEF Spans, Bytes
  <2>4. CASE IsMapped(peer)
    <3>1. PICK v : v = SubSeq(ip, 13, 16)
      OBVIOUS
    <3>2. Len(v) = 4
      BY <2>3, <3>1
    <3>3. PlayerIp(peer) = v
      BY <2>2, <2>4, <3>1 DEF PlayerIp, Part
    <3>4. ProxyHeader(peer, local) = Header("TCP4", v, local.family)
      BY <2>1, <2>4, <3>3, Zenon DEF ProxyHeader
    <3> QED BY <2>1, <3>2, <3>3, <3>4 DEF Tells, Header, FamilyOf
  <2>5. CASE ~IsMapped(peer)
    <3>1. ProxyHeader(peer, local) = Header("TCP6", ip, 6) /\ PlayerIp(peer) = ip
      BY <2>1, <2>2, <2>5, Zenon DEF ProxyHeader, PlayerIp
    <3> QED BY <2>1, <2>3, <3>1 DEF Tells, Header, FamilyOf
  <2> QED BY <2>4, <2>5
<1> QED BY <1>1, <1>2, <1>3, Zenon DEF Peer

LEMMA NewRead ==
    ASSUME IInv, NEW k \in DOMAIN got, got[k].type = "NewConnection"
    PROVE  /\ sent[k].peer \in Peer
           /\ got[k].peer = IF old THEN NoPeer ELSE sent[k].peer
<1>1. k \in 1 .. Len(got) /\ k \in 1 .. Len(sent)
  BY DEF IInv, Shapes, Received
<1>2. PICK m \in Frames : m = sent[k]
  BY <1>1 DEF IInv, Shapes
<1>3. got[k] = Meaning(m, old) /\ old \in BOOLEAN
  BY <1>1, <1>2 DEF IInv, Received, Shapes
<1>4. PICK v : v = got[k]
  OBVIOUS
<1>5. m.type = "NewConnection"
  <2>1. CASE old /\ m.type = "OpenTunnel"
    <3>1. v = [m EXCEPT !.db = 0]
      BY <1>3, <1>4, <2>1, Zenon DEF Meaning
    <3>2. m \in [type : {"OpenTunnel"}, tid : Number, port : U16,
                 protocol : {"tcp", "udp", "both"}, db : Number]
      BY <1>2, <2>1, FrameAssumption DEF Message, Data, StreamClose
    <3>3. v.type = "OpenTunnel"
      BY <3>1, <3>2
    <3> QED BY <1>4, <3>3
  <2>2. CASE old /\ m.type = "NewConnection"
    BY <2>2
  <2>3. CASE ~(old /\ m.type = "OpenTunnel") /\ ~(old /\ m.type = "NewConnection")
    <3>1. v = m
      BY <1>3, <1>4, <2>3, Zenon DEF Meaning
    <3> QED BY <1>4, <3>1
  <2> QED BY <2>1, <2>2, <2>3
<1>6. m \in NewMessage
  BY <1>2, <1>5, FrameAssumption DEF Message, Data, StreamClose, NewMessage
<1>7. CASE old
  <2>1. v = [m EXCEPT !.udp = FALSE, !.peer = NoPeer]
    BY <1>3, <1>4, <1>5, <1>7, Zenon DEF Meaning
  <2>2. v.peer = NoPeer
    BY <1>6, <2>1 DEF NewMessage
  <2> QED BY <1>2, <1>4, <1>6, <1>7, <2>2 DEF NewMessage
<1>8. CASE ~old
  <2>1. v = m
    BY <1>3, <1>4, <1>8, Zenon DEF Meaning
  <2> QED BY <1>2, <1>4, <1>6, <1>8, <2>1 DEF NewMessage
<1> QED BY <1>7, <1>8

(* The PROXY header of every player names the address the tunnel server saw *)
(* (build_proxy_protocol_header), whatever the encoding, the batches and    *)
(* the pieces between them; both its addresses are of one family but for an *)
(* IPv4 player whose local server has another kind of address.              *)
THEOREM HeadersNamePlayers == Spec => []HeaderNamesPlayer
<1>1. ASSUME IInv PROVE HeaderNamesPlayer
  <2> SUFFICES ASSUME NEW k \in DOMAIN got, NEW local \in LocalAddrs,
                      got[k].type = "NewConnection"
               PROVE  LET h == ProxyHeader(got[k].peer, local)
                          family == IF h.proto = "TCP4" THEN 4 ELSE 6
                      IN IF old \/ sent[k].peer = NoPeer THEN h.proto = "UNKNOWN"
                         ELSE /\ h.src = PlayerIp(sent[k].peer) /\ Len(h.src) = IF family = 4 THEN 4 ELSE 16
                              /\ h.dst = family \/ (family = 4 /\ local.family # 4)
    BY Zenon DEF HeaderNamesPlayer
  <2>1. PICK peer : peer = got[k].peer
    OBVIOUS
  <2>2. sent[k].peer \in Peer /\ peer = IF old THEN NoPeer ELSE sent[k].peer
    BY <1>1, <2>1, NewRead
  <2>3. NoPeer \in Peer
    BY Zenon DEF Peer
  <2>4. PICK h : h = ProxyHeader(peer, local)
    OBVIOUS
  <2>5. Tells(h, peer, local)
    BY <2>2, <2>3, <2>4, HeaderTells
  <2> QED BY <2>1, <2>2, <2>4, <2>5 DEF Tells, FamilyOf
<1> QED BY <1>1, Invariance, PTL
=============================================================================
