--------------------------- MODULE ExchangeProofs ---------------------------
(***************************************************************************)
(* Exchange, for payloads, capacities and signatures of any size: nothing  *)
(* outgrows its buffer, what is signed can be read back, what is loaded is *)
(* what the host sent, and decoding keeps every bit.  Before that, Base64  *)
(* there and back: decode undoes encode, for bytes of any length.          *)
(***************************************************************************)
EXTENDS Exchange, WellFoundedInduction, SequenceTheorems, FiniteSetTheorems, TLAPS

-----------------------------------------------------------------------------
(* One character, one group *)

\* Every value of six bits has a character of its own, which is not padding.
LEMMA ValEnc ==
    ASSUME NEW v \in 0..63
    PROVE  Enc(v) \in Alphabet /\ Enc(v) # PAD /\ Enc(v) \in Byte /\ Val(Enc(v)) = v
<1>1. CASE v < 26
  BY <1>1 DEF Enc, Val, Alphabet, PAD, Byte
<1>2. CASE v \in 26..51
  BY <1>2 DEF Enc, Val, Alphabet, PAD, Byte
<1>3. CASE v \in 52..61
  BY <1>3 DEF Enc, Val, Alphabet, PAD, Byte
<1>4. CASE v = 62
  BY <1>4 DEF Enc, Val, Alphabet, PAD, Byte
<1>5. CASE v = 63
  BY <1>5 DEF Enc, Val, Alphabet, PAD, Byte
<1> QED
  BY <1>1, <1>2, <1>3, <1>4, <1>5

\* The first octet of a group, put together from the characters it was spread over.
LEMMA Split0 ==
    ASSUME NEW a \in Byte, NEW b \in Byte
    PROVE  ((a \div 4) * 4 + ((a * 16 + b \div 16) % 64) \div 16) % 256 = a
<1> DEFINE q == a \div 4
           r == a % 4
           s == b \div 16
<1>1. /\ q \in 0..63 /\ r \in 0..3 /\ s \in 0..15 /\ a = 4 * q + r /\ a \in 0..255
  BY DEF Byte
<1> HIDE DEF q, r, s
<1>2. (a * 16 + s) % 64 = 16 * r + s
  BY <1>1
<1>3. (16 * r + s) \div 16 = r
  BY <1>1
<1>4. a % 256 = a
  BY <1>1
<1> QED
  BY <1>1, <1>2, <1>3, <1>4 DEF q, r, s

\* The second octet.
LEMMA Split1 ==
    ASSUME NEW a \in Byte, NEW b \in Byte, NEW c \in Byte
    PROVE  (((a * 16 + b \div 16) % 64) * 16 + ((b * 4 + c \div 64) % 64) \div 4) % 256 = b
<1> DEFINE p == a % 4
           q == b \div 16
           r == b % 16
           s == c \div 64
<1>1. /\ p \in 0..3 /\ q \in 0..15 /\ r \in 0..15 /\ s \in 0..3 /\ b = 16 * q + r /\ b \in 0..255
      /\ a = 4 * (a \div 4) + p /\ a \div 4 \in Nat
  BY DEF Byte
<1> HIDE DEF p, q, r, s
<1>2. (a * 16 + q) % 64 = 16 * p + q
  BY <1>1
<1>3. (b * 4 + s) % 64 = 4 * r + s
  BY <1>1
<1>4. (4 * r + s) \div 4 = r
  BY <1>1
<1>5. (16 * p + q) * 16 + r = 256 * p + b
  BY <1>1
<1>6. (256 * p + b) % 256 = b
  BY <1>1
<1> QED
  BY <1>2, <1>3, <1>4, <1>5, <1>6 DEF q, s

\* The third octet.
LEMMA Split2 ==
    ASSUME NEW b \in Byte, NEW c \in Byte
    PROVE  (((b * 4 + c \div 64) % 64) * 64 + (c % 64)) % 256 = c
<1> DEFINE r == b % 16
           s == c \div 64
           t == c % 64
<1>1. /\ r \in 0..15 /\ s \in 0..3 /\ t \in 0..63 /\ c = 64 * s + t /\ c \in 0..255
      /\ b = 16 * (b \div 16) + r /\ b \div 16 \in Nat
  BY DEF Byte
<1> HIDE DEF r, s, t
<1>2. (b * 4 + s) % 64 = 4 * r + s
  BY <1>1
<1>3. (4 * r + s) * 64 + t = 256 * r + c
  BY <1>1
<1>4. (256 * r + c) % 256 = c
  BY <1>1
<1> QED
  BY <1>2, <1>3, <1>4 DEF s, t

\* The six bits that character k of a group holds.
Sextet(k, a, b, c) ==
    CASE k = 0 -> a \div 4
      [] k = 1 -> (a * 16 + b \div 16) % 64
      [] k = 2 -> (b * 4 + c \div 64) % 64
      [] k = 3 -> c % 64

\* A character of a group is the one for the six bits it holds.
LEMMA SextetRange ==
    ASSUME NEW k \in 0..3, NEW a \in Byte, NEW b \in Byte, NEW c \in Byte
    PROVE  /\ Sextet(k, a, b, c) \in 0..63 /\ Char(k, a, b, c) = Enc(Sextet(k, a, b, c))
           /\ Char(k, a, b, c) \in Byte
<1> SUFFICES Sextet(k, a, b, c) \in 0..63 /\ Char(k, a, b, c) = Enc(Sextet(k, a, b, c))
  BY ValEnc
<1>1. CASE k = 0
  BY <1>1 DEF Sextet, Char, Byte
<1>2. CASE k = 1
  <2>1. a * 16 + b \div 16 \in Nat
    BY DEF Byte
  <2> QED
    BY <1>2, <2>1 DEF Sextet, Char
<1>3. CASE k = 2
  <2>1. b * 4 + c \div 64 \in Nat
    BY DEF Byte
  <2> QED
    BY <1>3, <2>1 DEF Sextet, Char
<1>4. CASE k = 3
  BY <1>4 DEF Sextet, Char, Byte
<1> QED
  BY <1>1, <1>2, <1>3, <1>4

\* The octets of a group are its bytes; an octet reads two characters.
LEMMA GroupRoundTrip ==
    ASSUME NEW a \in Byte, NEW b \in Byte, NEW c \in Byte, NEW x, NEW y
    PROVE  /\ Octet(0, Sextet(0, a, b, c), Sextet(1, a, b, c), x, y) = a
           /\ Octet(1, x, Sextet(1, a, b, c), Sextet(2, a, b, c), y) = b
           /\ Octet(2, x, y, Sextet(2, a, b, c), Sextet(3, a, b, c)) = c
<1>1. Octet(0, Sextet(0, a, b, c), Sextet(1, a, b, c), x, y) = a
  BY Split0 DEF Octet, Sextet
<1>2. Octet(1, x, Sextet(1, a, b, c), Sextet(2, a, b, c), y) = b
  BY Split1 DEF Octet, Sextet
<1>3. Octet(2, x, y, Sextet(2, a, b, c), Sextet(3, a, b, c)) = c
  BY Split2 DEF Octet, Sextet
<1> QED
  BY <1>1, <1>2, <1>3

-----------------------------------------------------------------------------
(* Lengths *)

\* The characters of n bytes that are not padding.
Chars(n) == 4 * (n \div 3) + (IF n % 3 = 0 THEN 0 ELSE (n % 3) + 1)

\* Their number is never one that decode refuses, and gives the number of bytes back.
LEMMA Lengths ==
    ASSUME NEW n \in Nat
    PROVE  /\ Chars(n) \in Nat /\ B64Len(n) \in Nat /\ Chars(n) <= B64Len(n)
           /\ Chars(n) % 4 # 1 /\ DecodedLen(Chars(n)) = n
<1> DEFINE q == n \div 3
           r == n % 3
<1>1. q \in Nat /\ r \in 0..2 /\ n = 3 * q + r
  OBVIOUS
<1> HIDE DEF q, r
<1>2. CASE r = 0
  <2>1. Chars(n) = 4 * q
    BY <1>2 DEF Chars, q, r
  <2>2. B64Len(n) = 4 * q
    BY <1>1, <1>2 DEF B64Len
  <2>3. (4 * q) % 4 = 0 /\ (4 * q) \div 4 = q
    BY <1>1
  <2> QED
    BY <1>1, <1>2, <2>1, <2>2, <2>3 DEF DecodedLen
<1>3. CASE r # 0
  <2>1. Chars(n) = 4 * q + r + 1
    BY <1>1, <1>3 DEF Chars, q, r
  <2>2. B64Len(n) = 4 * q + 4
    BY <1>1, <1>3 DEF B64Len
  <2>3. (4 * q + r + 1) % 4 = r + 1 /\ (4 * q + r + 1) \div 4 = q
    BY <1>1
  <2> QED
    BY <1>1, <1>3, <2>1, <2>2, <2>3 DEF DecodedLen
<1> QED
  BY <1>2, <1>3

\* The characters that byte o is read from are there.
LEMMA ByteIsCovered ==
    ASSUME NEW n \in Nat, NEW o \in 1..n
    PROVE  /\ (o - 1) \div 3 \in Nat /\ (o - 1) % 3 \in 0..2
           /\ o = 3 * ((o - 1) \div 3) + ((o - 1) % 3) + 1
           /\ 4 * ((o - 1) \div 3) + ((o - 1) % 3) + 2 <= Chars(n)
<1> DEFINE q == n \div 3
           r == n % 3
           j == (o - 1) \div 3
           m == (o - 1) % 3
<1>1. /\ q \in Nat /\ r \in 0..2 /\ n = 3 * q + r /\ o <= n
      /\ j \in Nat /\ m \in 0..2 /\ o = 3 * j + m + 1
  OBVIOUS
<1> HIDE DEF q, r, j, m
<1>2. Chars(n) = 4 * q + (IF r = 0 THEN 0 ELSE r + 1)
  BY DEF Chars, q, r
<1>3. 4 * j + m + 2 <= Chars(n)
  <2>1. CASE j < q
    <3>1. 4 * j + m + 2 <= 4 * q
      BY <1>1, <2>1
    <3> QED
      BY <1>1, <1>2, <3>1
  <2>2. CASE j >= q
    <3>1. j = q /\ m + 1 <= r
      BY <1>1, <2>2
    <3> QED
      BY <1>1, <1>2, <3>1
  <2> QED
    BY <1>1, <2>1, <2>2
<1> QED
  BY <1>1, <1>3 DEF j, m

\* Character o of the text holds a bit of some byte iff it is one of the first.
LEMMA CharOrPad ==
    ASSUME NEW n \in Nat, NEW o \in 1..B64Len(n)
    PROVE  3 * ((o - 1) \div 4) + ((o - 1) % 4) > n <=> o > Chars(n)
<1> DEFINE q == n \div 3
           r == n % 3
           g == (o - 1) \div 4
           k == (o - 1) % 4
<1>1. /\ q \in Nat /\ r \in 0..2 /\ n = 3 * q + r
      /\ g \in Nat /\ k \in 0..3 /\ o = 4 * g + k + 1
  BY DEF B64Len
<1>2. o <= 4 * q + (IF r = 0 THEN 0 ELSE 4)
  BY <1>1 DEF B64Len
<1> HIDE DEF q, r, g, k
<1>3. Chars(n) = 4 * q + (IF r = 0 THEN 0 ELSE r + 1)
  BY DEF Chars, q, r
<1>4. 3 * g + k > n <=> o > Chars(n)
  BY <1>1, <1>2, <1>3
<1> QED
  BY <1>4 DEF g, k

-----------------------------------------------------------------------------
(* Texts *)

\* The bytes of group q, zero behind the last one.
At(bytes, i) == IF i \in DOMAIN bytes THEN bytes[i] ELSE 0
SextetAt(bytes, q, k) ==
    Sextet(k, At(bytes, 3 * q + 1), At(bytes, 3 * q + 2), At(bytes, 3 * q + 3))

\* Behind the last byte there are zeros.
LEMMA AtByte ==
    ASSUME NEW bytes \in Seq(Byte), NEW i \in Nat
    PROVE  At(bytes, i) \in Byte
<1>1. CASE i \in 1..Len(bytes)
  <2>1. bytes[i] \in Byte
    BY <1>1
  <2> QED
    BY <1>1, <2>1 DEF At
<1>2. CASE i \notin 1..Len(bytes)
  <2>1. At(bytes, i) = 0
    BY <1>2 DEF At
  <2> QED
    BY <2>1 DEF Byte
<1> QED
  BY <1>1, <1>2

\* The text of some bytes: its characters are those of their groups, then padding.
LEMMA EncodedText ==
    ASSUME NEW bytes \in Seq(Byte)
    PROVE  LET text == Encode(bytes)
               n    == Len(bytes)
           IN  /\ text \in Seq(Byte) /\ Len(text) = B64Len(n)
               /\ \A o \in 1..Chars(n) :
                     LET v == SextetAt(bytes, (o - 1) \div 4, (o - 1) % 4)
                     IN  v \in 0..63 /\ text[o] = Enc(v)
               /\ \A o \in Chars(n) + 1..B64Len(n) : text[o] = PAD
<1> DEFINE text == Encode(bytes)
           n == Len(bytes)
           g(o) == 3 * ((o - 1) \div 4)
           k(o) == (o - 1) % 4
           char(o) == Char(k(o), At(bytes, g(o) + 1), At(bytes, g(o) + 2), At(bytes, g(o) + 3))
<1>1. n \in Nat /\ DOMAIN bytes = 1..n /\ B64Len(n) \in Nat /\ Chars(n) \in Nat
      /\ Chars(n) <= B64Len(n)
  BY Lengths
<1>2. \A i \in Nat : At(bytes, i) \in Byte
  BY AtByte
<1>3. text = [o \in 1..B64Len(n) |-> IF g(o) + k(o) > n THEN PAD ELSE char(o)]
  BY DEF Encode, At
<1>4. ASSUME NEW o \in 1..B64Len(n)
      PROVE  LET v == SextetAt(bytes, (o - 1) \div 4, (o - 1) % 4)
             IN  v \in 0..63 /\ char(o) = Enc(v) /\ char(o) \in Byte
  <2>1. g(o) + 1 \in Nat /\ g(o) + 2 \in Nat /\ g(o) + 3 \in Nat /\ k(o) \in 0..3
    BY <1>1
  <2>2. At(bytes, g(o) + 1) \in Byte /\ At(bytes, g(o) + 2) \in Byte /\ At(bytes, g(o) + 3) \in Byte
    BY <1>2, <2>1
  <2> DEFINE a == At(bytes, g(o) + 1)
             b == At(bytes, g(o) + 2)
             c == At(bytes, g(o) + 3)
  <2>3. char(o) = Char(k(o), a, b, c) /\ SextetAt(bytes, (o - 1) \div 4, (o - 1) % 4) = Sextet(k(o), a, b, c)
    BY DEF SextetAt
  <2> HIDE DEF a, b, c, g, k, char
  <2>4. /\ Sextet(k(o), a, b, c) \in 0..63 /\ Char(k(o), a, b, c) = Enc(Sextet(k(o), a, b, c))
        /\ Char(k(o), a, b, c) \in Byte
    BY <2>1, <2>2, SextetRange DEF a, b, c
  <2> QED
    BY <2>3, <2>4
<1>5. PAD \in Byte
  BY DEF PAD, Byte
<1>6. \A o \in 1..B64Len(n) : g(o) + k(o) > n <=> o > Chars(n)
  BY <1>1, CharOrPad
<1> HIDE DEF g, k, char
<1>7. text \in Seq(Byte) /\ Len(text) = B64Len(n)
  <2>1. \A o \in 1..B64Len(n) : text[o] \in Byte
    BY <1>3, <1>4, <1>5
  <2>2. text \in [1..B64Len(n) -> Byte]
    BY <1>3, <2>1
  <2> HIDE DEF text
  <2> QED
    BY <1>1, <2>2
<1>8. ASSUME NEW o \in 1..Chars(n)
      PROVE  LET v == SextetAt(bytes, (o - 1) \div 4, (o - 1) % 4)
             IN  v \in 0..63 /\ text[o] = Enc(v)
  <2>1. o \in 1..B64Len(n) /\ ~(o > Chars(n))
    BY <1>1
  <2>2. text[o] = char(o)
    BY <1>3, <1>6, <2>1
  <2> QED
    BY <1>4, <2>1, <2>2
<1>9. ASSUME NEW o \in Chars(n) + 1..B64Len(n)
      PROVE  text[o] = PAD
  <2>1. o \in 1..B64Len(n) /\ o > Chars(n)
    BY <1>1
  <2> QED
    BY <1>3, <1>6, <2>1
<1> QED
  BY <1>7, <1>8, <1>9

\* decode strips exactly the padding that encode has added.
LEMMA TrimmedText ==
    ASSUME NEW bytes \in Seq(Byte)
    PROVE  Trimmed(Encode(bytes)) = [o \in 1..Chars(Len(bytes)) |-> Encode(bytes)[o]]
<1> DEFINE text == Encode(bytes)
           n == Chars(Len(bytes))
           I == {i \in 1..Len(text) : text[i] # PAD}
<1>1. /\ text \in Seq(Byte) /\ n \in Nat /\ n <= Len(text)
      /\ \A o \in 1..n : text[o] # PAD
      /\ \A o \in n + 1..Len(text) : text[o] = PAD
  <2>1. Len(bytes) \in Nat
    OBVIOUS
  <2>2. n \in Nat /\ B64Len(Len(bytes)) \in Nat /\ n <= B64Len(Len(bytes))
    BY <2>1, Lengths
  <2> QED
    BY <2>2, EncodedText, ValEnc
<1> HIDE DEF text, n
<1>2. I = 1..n
  BY <1>1
<1>3. (IF I # {} THEN Max(I) ELSE 0) = n
  <2>1. CASE n = 0
    BY <1>2, <2>1
  <2>2. CASE n # 0
    <3>1. n \in I /\ \A y \in I : n >= y
      BY <1>1, <1>2, <2>2
    <3>2. \A x \in I : (\A y \in I : x >= y) => x = n
      BY <1>1, <1>2, <3>1
    <3> QED
      BY <3>1, <3>2 DEF Max
  <2> QED
    BY <2>1, <2>2
<1>4. Trimmed(text) = SubSeq(text, 1, n)
  BY <1>3 DEF Trimmed, SelectLastInSeq
<1>5. SubSeq(text, 1, n) = [o \in 1..n |-> text[o]]
  BY <1>1
<1> QED
  BY <1>4, <1>5 DEF text, n

\* decode undoes encode, for bytes of any length, in a buffer that has room for them
\* and in no smaller one.
THEOREM RoundTrip ==
    ASSUME NEW bytes \in Seq(Byte), NEW capacity \in Nat
    PROVE  /\ Decodes(Encode(bytes), capacity) <=> Len(bytes) <= capacity
           /\ Decode(Encode(bytes)) = bytes
<1> DEFINE n == Len(bytes)
           t == Trimmed(Encode(bytes))
           at(i) == IF i \in DOMAIN t THEN Val(t[i]) ELSE 0
           q(o) == (o - 1) \div 3
           k(o) == (o - 1) % 3
<1>1. n \in Nat /\ DOMAIN bytes = 1..n /\ bytes = [o \in 1..n |-> bytes[o]]
  OBVIOUS
<1>2. Chars(n) \in Nat /\ Chars(n) % 4 # 1 /\ DecodedLen(Chars(n)) = n
  BY <1>1, Lengths
<1>3. /\ DOMAIN t = 1..Chars(n) /\ Len(t) = Chars(n)
      /\ \A o \in 1..Chars(n) : LET v == SextetAt(bytes, (o - 1) \div 4, (o - 1) % 4)
                                IN  v \in 0..63 /\ t[o] = Enc(v)
  BY SMTT(30), <1>2, TrimmedText, EncodedText
<1>4. Decodes(Encode(bytes), capacity) <=> n <= capacity
  <2>1. \A i \in DOMAIN t : t[i] \in Alphabet
    BY <1>3, ValEnc
  <2> QED
    BY <1>2, <1>3, <2>1 DEF Decodes
<1>5. ASSUME NEW j \in Nat, NEW m \in 0..3, 4 * j + m + 1 <= Chars(n)
      PROVE  at(4 * j + m + 1) = SextetAt(bytes, j, m)
  <2> DEFINE o == 4 * j + m + 1
  <2>1. (o - 1) \div 4 = j /\ (o - 1) % 4 = m /\ o \in 1..Chars(n)
    BY <1>2, <1>5
  <2> HIDE DEF o, t, n
  <2>2. SextetAt(bytes, j, m) \in 0..63 /\ t[o] = Enc(SextetAt(bytes, j, m)) /\ o \in DOMAIN t
    BY <1>3, <2>1
  <2>3. Val(t[o]) = SextetAt(bytes, j, m)
    BY <2>2, ValEnc
  <2> QED
    BY <2>2, <2>3 DEF o
<1>6. \A i \in Nat : At(bytes, i) \in Byte
  BY AtByte
<1>7. ASSUME NEW o \in 1..n
      PROVE  LET g == 4 * ((o - 1) \div 3)
             IN  Octet((o - 1) % 3, at(g + 1), at(g + 2), at(g + 3), at(g + 4)) = bytes[o]
  <2> DEFINE j == (o - 1) \div 3
             m == (o - 1) % 3
             a == At(bytes, 3 * j + 1)
             b == At(bytes, 3 * j + 2)
             c == At(bytes, 3 * j + 3)
  <2>1. j \in Nat /\ m \in 0..2 /\ o = 3 * j + m + 1 /\ 4 * j + m + 2 <= Chars(n)
    BY <1>1, ByteIsCovered
  <2>2. bytes[o] = At(bytes, 3 * j + m + 1)
    BY <1>1, <2>1 DEF At
  <2> HIDE DEF j, m, at
  <2>3. a \in Byte /\ b \in Byte /\ c \in Byte
    BY <1>6, <2>1
  <2>4. CASE m = 0
    <3>1. at(4 * j + 1) = SextetAt(bytes, j, 0) /\ at(4 * j + 2) = SextetAt(bytes, j, 1)
      BY <1>2, <1>5, <2>1, <2>4
    <3> QED
      BY <2>1, <2>2, <2>3, <2>4, <3>1, GroupRoundTrip DEF SextetAt, j, m
  <2>5. CASE m = 1
    <3>1. at(4 * j + 2) = SextetAt(bytes, j, 1) /\ at(4 * j + 3) = SextetAt(bytes, j, 2)
      BY <1>2, <1>5, <2>1, <2>5
    <3> QED
      BY <2>1, <2>2, <2>3, <2>5, <3>1, GroupRoundTrip DEF SextetAt, j, m
  <2>6. CASE m = 2
    <3>1. at(4 * j + 3) = SextetAt(bytes, j, 2) /\ at(4 * j + 4) = SextetAt(bytes, j, 3)
      BY <1>2, <1>5, <2>1, <2>6
    <3> QED
      BY <2>1, <2>2, <2>3, <2>6, <3>1, GroupRoundTrip DEF SextetAt, j, m
  <2> QED
    BY <2>1, <2>4, <2>5, <2>6
<1>8. Decode(Encode(bytes)) = bytes
  BY <1>1, <1>2, <1>3, <1>7 DEF Decode
<1> QED
  BY <1>4, <1>8

-----------------------------------------------------------------------------
(* The session's buffers *)

\* The invariant: the types, a PSBT in hand on every screen but the scan, one that
\* parses, and no text before the screen of the result.
EInv ==
    /\ TypeOK
    /\ app = "SignScan" <=> psbt = None
    /\ psbt # None => Parses(psbt)
    /\ app # "SignResult" => signed = None

-----------------------------------------------------------------------------
(* Pieces of a text *)

\* A set of naturals has a least element.
LEMMA LeastNatural ==
    ASSUME NEW I \in SUBSET Nat, I # {}
    PROVE  \E x \in I : \A y \in I : x <= y
<1>1. IsWellFoundedOn(OpToRel(<, Nat), Nat)
  BY NatLessThanWellFounded
<1>2. PICK x \in I : \A y \in I : ~(<<y, x>> \in OpToRel(<, Nat))
  BY <1>1, WFMin
<1>3. \A y \in I : ~(y < x)
  BY <1>2 DEF OpToRel
<1> QED
  BY <1>3

\* Positions have a first and a last one among them.
LEMMA FirstAndLast ==
    ASSUME NEW n \in Nat, NEW I \in SUBSET (1..n), I # {}
    PROVE  Min(I) \in I /\ Max(I) \in I /\ \A i \in I : Min(I) <= i /\ i <= Max(I)
<1>1. \E x \in I : \A y \in I : x <= y
  BY LeastNatural
<1> DEFINE J == {n - i : i \in I}
<1>2. J \in SUBSET Nat /\ J # {}
  <2>1. \A i \in I : i \in Nat /\ n - i \in Nat
    OBVIOUS
  <2> QED
    BY <2>1
<1>3. PICK x \in J : \A y \in J : x <= y
  BY <1>2, LeastNatural
<1>4. PICK i \in I : x = n - i
  BY <1>3
<1>5. ASSUME NEW j \in I PROVE j <= i
  <2>1. n - j \in J
    OBVIOUS
  <2> QED
    BY <1>3, <1>4, <2>1
<1>6. Min(I) \in I /\ \A j \in I : Min(I) <= j
  BY <1>1 DEF Min
<1>7. Max(I) \in I /\ \A j \in I : Max(I) >= j
  BY <1>4, <1>5 DEF Max
<1>8. \A j \in I : Max(I) >= j => j <= Max(I)
  BY <1>7
<1> QED
  BY <1>6, <1>7, <1>8

\* A piece of a text is a text, of the length its ends say.
LEMMA Piece ==
    ASSUME NEW text \in Seq(Byte), NEW m \in Nat \ {0}, NEW n \in 0..Len(text)
    PROVE  /\ SubSeq(text, m, n) \in Seq(Byte)
           /\ Len(SubSeq(text, m, n)) = IF m <= n THEN n - m + 1 ELSE 0
<1>1. \A i \in m..n : text[i] \in Byte
  OBVIOUS
<1> QED
  BY <1>1, SubSeqProperties

\* What str::trim leaves of a text is a text.
LEMMA TrimText ==
    ASSUME NEW text \in Seq(Byte)
    PROVE  Trim(text) \in Seq(Byte)
<1> DEFINE I == {i \in 1..Len(text) : text[i] # NEWLINE}
<1>1. CASE ToSet(text) \subseteq {NEWLINE}
  BY <1>1 DEF Trim
<1>2. CASE ~(ToSet(text) \subseteq {NEWLINE})
  <2>1. PICK i \in 1..Len(text) : text[i] # NEWLINE
    BY <1>2 DEF ToSet
  <2>2. I # {} /\ I \in SUBSET (1..Len(text)) /\ Len(text) \in Nat
    BY <2>1
  <2>3. Trim(text) = SubSeq(text, Min(I), Max(I))
    BY <1>2, <2>2 DEF Trim, SelectInSeq, SelectLastInSeq
  <2> HIDE DEF I
  <2>4. Min(I) \in I /\ Max(I) \in I
    BY <2>2, FirstAndLast
  <2>5. Min(I) \in 1..Len(text) /\ Max(I) \in 1..Len(text)
    BY <2>2, <2>4, Zenon
  <2> DEFINE first == Min(I)
             last == Max(I)
  <2> HIDE DEF first, last
  <2>6. first \in Nat \ {0} /\ last \in 0..Len(text)
    <3>1. first \in 1..Len(text) /\ last \in 1..Len(text)
      BY <2>5 DEF first, last
    <3> QED
      BY <3>1
  <2>7. SubSeq(text, first, last) \in Seq(Byte)
    BY <2>6, Piece
  <2> QED
    BY <2>3, <2>7 DEF first, last
<1> QED
  BY <1>1, <1>2

\* So is what is left when the padding is stripped.
LEMMA TrimmedIsPiece ==
    ASSUME NEW text \in Seq(Byte)
    PROVE  Trimmed(text) \in Seq(Byte)
<1> DEFINE I == {i \in 1..Len(text) : text[i] # PAD}
           last == IF I # {} THEN Max(I) ELSE 0
<1>1. I \in SUBSET (1..Len(text)) /\ Len(text) \in Nat
  OBVIOUS
<1>2. Trimmed(text) = SubSeq(text, 1, last)
  BY DEF Trimmed, SelectLastInSeq
<1> HIDE DEF I
<1>3. last \in 0..Len(text)
  <2>1. CASE I = {}
    BY <1>1, <2>1
  <2>2. CASE I # {}
    <3>1. Max(I) \in I
      BY <1>1, <2>2, FirstAndLast
    <3>2. Max(I) \in 1..Len(text)
      BY <1>1, <3>1, Zenon
    <3>3. last = Max(I)
      BY <2>2
    <3> HIDE DEF last
    <3>4. last \in 1..Len(text)
      BY <3>2, <3>3
    <3> QED
      BY <3>4
  <2> QED
    BY <2>1, <2>2
<1> HIDE DEF last
<1>4. SubSeq(text, 1, last) \in Seq(Byte)
  BY <1>3, Piece
<1> QED
  BY <1>2, <1>4

-----------------------------------------------------------------------------
(* What decode returns *)

\* A character of the alphabet stands for six bits.
LEMMA ValRange ==
    ASSUME NEW c \in Alphabet
    PROVE  Val(c) \in 0..63
  BY DEF Val, Alphabet

\* An octet is a byte.
LEMMA OctetRange ==
    ASSUME NEW k \in 0..2, NEW a \in 0..63, NEW b \in 0..63, NEW c \in 0..63, NEW d \in 0..63
    PROVE  Octet(k, a, b, c, d) \in Byte
<1>1. CASE k = 0
  <2>1. a * 4 + b \div 16 \in Nat
    OBVIOUS
  <2> QED
    BY <1>1, <2>1 DEF Octet, Byte
<1>2. CASE k = 1
  <2>1. b * 16 + c \div 4 \in Nat
    OBVIOUS
  <2> QED
    BY <1>2, <2>1 DEF Octet, Byte
<1>3. CASE k = 2
  <2>1. c * 64 + d \in Nat
    OBVIOUS
  <2> QED
    BY <1>3, <2>1 DEF Octet, Byte
<1> QED
  BY <1>1, <1>2, <1>3

\* An answer of decode fits the output buffer.
LEMMA DecodedBytes ==
    ASSUME NEW text \in Seq(Byte), NEW capacity \in Nat, Decodes(text, capacity)
    PROVE  Decode(text) \in Seq(Byte) /\ Len(Decode(text)) <= capacity
<1> DEFINE t == Trimmed(text)
           n == DecodedLen(Len(t))
           at(i) == IF i \in DOMAIN t THEN Val(t[i]) ELSE 0
           g(o) == 4 * ((o - 1) \div 3)
           octet(o) == Octet((o - 1) % 3, at(g(o) + 1), at(g(o) + 2), at(g(o) + 3), at(g(o) + 4))
<1>1. Len(t) \in Nat
  BY TrimmedIsPiece
<1>2. n \in Nat /\ n <= capacity
  <2>1. n \in Nat
    <3> DEFINE q == Len(t) \div 4
               r == Len(t) % 4
    <3>1. q \in Nat /\ r \in 0..3
      BY <1>1
    <3>2. n = 3 * q + (IF r = 0 THEN 0 ELSE r - 1)
      BY DEF DecodedLen
    <3> HIDE DEF q, r, n
    <3>3. CASE r = 0
      BY <3>1, <3>2, <3>3
    <3>4. CASE r # 0
      BY <3>1, <3>2, <3>4
    <3> QED
      BY <3>3, <3>4
  <2> QED
    BY <2>1 DEF Decodes
<1>3. \A i : at(i) \in 0..63
  BY ValRange DEF Decodes
<1>4. ASSUME NEW o \in 1..n
      PROVE  octet(o) \in Byte
  <2>1. (o - 1) % 3 \in 0..2
    BY <1>2
  <2> HIDE DEF at, g, n
  <2> QED
    BY <1>3, <2>1, OctetRange
<1>5. Decode(text) = [o \in 1..n |-> octet(o)]
  BY DEF Decode
<1> HIDE DEF n, octet
<1> QED
  BY <1>2, <1>4, <1>5

-----------------------------------------------------------------------------
(* What the host writes *)

\* A longer input has no shorter text.
LEMMA LongerText ==
    ASSUME NEW m \in Nat, NEW n \in Nat, m <= n
    PROVE  B64Len(m) <= B64Len(n)
<1>1. (m + 2) \div 3 <= (n + 2) \div 3 /\ (m + 2) \div 3 \in Nat /\ (n + 2) \div 3 \in Nat
  OBVIOUS
<1> QED
  BY <1>1 DEF B64Len

\* Text without padding is a beginning of the text with it.
LEMMA BareLength ==
    ASSUME NEW n \in Nat
    PROVE  (8 * n + 5) \div 6 \in 0..B64Len(n)
<1> DEFINE q == n \div 3
           r == n % 3
<1>1. q \in Nat /\ r \in 0..2 /\ n = 3 * q + r
  OBVIOUS
<1> HIDE DEF q, r
<1>2. (8 * n + 5) \div 6 = 4 * q + (8 * r + 5) \div 6
  BY <1>1
<1>3. B64Len(n) = 4 * (q + (r + 2) \div 3)
  BY <1>1 DEF B64Len
<1>4. (8 * r + 5) \div 6 \in 0..(4 * ((r + 2) \div 3))
  BY <1>1
<1> QED
  BY <1>1, <1>2, <1>3, <1>4

\* Whatever the host writes is a text.
LEMMA Dialects ==
    ASSUME NEW bytes \in Payloads
    PROVE  /\ bytes \in Seq(Byte) /\ Encode(bytes) \in Seq(Byte) /\ Bare(bytes) \in Seq(Byte)
           /\ UrlSafe(Encode(bytes)) \in Seq(Byte) /\ Append(Encode(bytes), NEWLINE) \in Seq(Byte)
           /\ Len(Encode(bytes)) > 4 => Wrapped(Encode(bytes)) \in Seq(Byte)
<1> DEFINE text == Encode(bytes)
<1>1. bytes \in Seq(Byte)
  BY ExchangeAssumption
<1>2. text \in Seq(Byte) /\ Len(text) = B64Len(Len(bytes)) /\ Len(text) \in Nat /\ Len(bytes) \in Nat
  BY <1>1, EncodedText
<1>3. NEWLINE \in Byte /\ 45 \in Byte /\ 95 \in Byte
  BY DEF NEWLINE, Byte
<1> HIDE DEF text
<1>4. SubSeq(text, 1, (8 * Len(bytes) + 5) \div 6) \in Seq(Byte)
  <2>1. (8 * Len(bytes) + 5) \div 6 \in 0..Len(text)
    BY <1>2, BareLength
  <2> QED
    BY <1>2, <2>1, Piece
<1>5. UrlSafe(text) \in Seq(Byte)
  <2>1. \A i \in 1..Len(text) : text[i] \in Byte
    BY <1>2
  <2>2. \A i \in 1..Len(text) :
           (CASE text[i] = 43 -> 45 [] text[i] = 47 -> 95 [] OTHER -> text[i]) \in Byte
    BY <1>3, <2>1
  <2> QED
    BY <1>2, <2>2 DEF UrlSafe
<1>6. Append(text, NEWLINE) \in Seq(Byte)
  BY <1>2, <1>3
<1>7. ASSUME Len(text) > 4
      PROVE  Wrapped(text) \in Seq(Byte)
  <2>1. SubSeq(text, 1, 4) \in Seq(Byte) /\ SubSeq(text, 5, Len(text)) \in Seq(Byte)
    <3>1. 4 \in 0..Len(text) /\ Len(text) \in 0..Len(text)
      BY <1>2, <1>7
    <3> QED
      BY <1>2, <3>1, Piece
  <2>2. <<NEWLINE>> \in Seq(Byte)
    BY <1>3
  <2> QED
    BY <2>1, <2>2 DEF Wrapped
<1> QED
  BY <1>1, <1>2, <1>4, <1>5, <1>6, <1>7 DEF Bare, text

-----------------------------------------------------------------------------
(* What signing writes *)

\* What holds at the start and passes from each number to the next holds up to n.
LEMMA UpTo ==
    ASSUME NEW n \in Nat, NEW P, 1 \in P, \A i \in 2..n : i - 1 \in P => i \in P
    PROVE  \A i \in 1..n : i \in P
<1> DEFINE Bad == {i \in 1..n : i \notin P}
<1>1. ASSUME Bad # {} PROVE FALSE
  <2>1. Bad \in SUBSET Nat
    OBVIOUS
  <2> HIDE DEF Bad
  <2>2. PICK i \in Bad : \A j \in Bad : i <= j
    BY <1>1, <2>1, LeastNatural
  <2>3. i \in 1..n /\ i \notin P
    BY DEF Bad
  <2>4. i \in 2..n /\ i - 1 \in 1..n /\ i - 1 < i
    BY <2>3
  <2>5. i - 1 \in P
    BY <2>2, <2>4 DEF Bad
  <2> QED
    BY <2>3, <2>4, <2>5
<1> QED
  BY <1>1

\* f lists what the first i pieces make together.
Joins(c, n, f) ==
    f = [i \in 1..n |-> IF i = 1 THEN c[i] ELSE f[i - 1] \o c[i]]

\* Pieces can be joined.
LEMMA JoinsExist ==
    ASSUME NEW n \in Nat, NEW c \in [1..n -> Seq(Byte)], n >= 1
    PROVE  \E f : Joins(c, n, f)
<1> DEFINE P == {k \in 1..n : \E f : Joins(c, k, f)}
<1>1. 1 \in P
  <2>1. Joins(c, 1, [i \in 1..1 |-> c[1]])
    BY DEF Joins
  <2> QED
    BY <2>1
<1>2. ASSUME NEW k \in 2..n, k - 1 \in P
      PROVE  k \in P
  <2>1. PICK f : Joins(c, k - 1, f)
    BY <1>2
  <2> DEFINE g == [i \in 1..k |-> IF i = k THEN f[k - 1] \o c[k] ELSE f[i]]
  <2>2. ASSUME NEW i \in 1..k
        PROVE  g[i] = IF i = 1 THEN c[i] ELSE g[i - 1] \o c[i]
    <3>1. CASE i = k
      <4>1. i # 1 /\ k - 1 \in 1..k /\ k - 1 # k
        BY <3>1
      <4> QED
        BY <3>1, <4>1
    <3>2. CASE i # k
      <4>1. i \in 1..(k - 1)
        BY <3>2
      <4>2. f[i] = IF i = 1 THEN c[i] ELSE f[i - 1] \o c[i]
        BY <2>1, <4>1 DEF Joins
      <4>3. i = 1 \/ (i - 1 \in 1..k /\ i - 1 # k)
        BY <4>1
      <4> QED
        BY <3>2, <4>2, <4>3
    <3> QED
      BY <3>1, <3>2
  <2>3. Joins(c, k, g)
    <3>1. g = [i \in 1..k |-> g[i]]
      OBVIOUS
    <3> HIDE DEF g
    <3> QED
      BY <2>2, <3>1 DEF Joins
  <2> QED
    BY <2>3
<1>3. n \in P
  <2> HIDE DEF P
  <2>1. \A i \in 1..n : i \in P
    BY <1>1, <1>2, UpTo
  <2> QED
    BY <2>1
<1> QED
  BY <1>3

\* FlattenSeq joins its pieces one by one.
LEMMA Flattened ==
    ASSUME NEW n \in Nat, NEW c \in [1..n -> Seq(Byte)], n >= 1
    PROVE  \E f : /\ FlattenSeq(c) = f[n] /\ f[1] = c[1]
                  /\ \A i \in 2..n : f[i] = f[i - 1] \o c[i]
<1> DEFINE D(f) == f = [i \in 1..n |-> IF i = 1 THEN c[i] ELSE f[i - 1] \o c[i]]
           f == CHOOSE f : D(f)
<1>1. Len(c) = n
  OBVIOUS
<1>2. D(f)
  <2>1. \E e : D(e)
    BY JoinsExist DEF Joins
  <2> HIDE DEF D
  <2> QED
    BY <2>1
<1>3. FlattenSeq(c) = f[n]
  BY <1>1 DEF FlattenSeq
<1> HIDE DEF f
<1>4. \A i \in 1..n : f[i] = IF i = 1 THEN c[i] ELSE f[i - 1] \o c[i]
  BY <1>2
<1>5. 1 \in 1..n /\ \A i \in 2..n : i \in 1..n /\ i # 1
  OBVIOUS
<1> QED
  BY <1>3, <1>4, <1>5

\* Bytes are numbers.
LEMMA ByteIsNat == \A x \in Byte : x \in Nat
BY DEF Byte

\* Fields are bytes.
LEMMA FieldsAreBytes ==
    ASSUME NEW b \in Seq(Byte), NEW i \in Ends(b)
    PROVE  /\ i \in 4..Len(b)
           /\ \A x \in Fields(b, i) : \E j \in 4..(i - 1) :
                 /\ x = b[j]
                 /\ \A e \in Ends(b) : e < i => e < j
<1>1. i \in 4..Len(b)
  BY DEF Ends
<1>2. ASSUME NEW x \in Fields(b, i)
      PROVE  \E j \in 4..(i - 1) : x = b[j] /\ \A e \in Ends(b) : e < i => e < j
  <2>1. PICK j \in 4..(i - 1) : x = b[j] /\ Ends(b) \cap j..(i - 1) = {}
    BY <1>2 DEF Fields
  <2>2. ASSUME NEW e \in Ends(b), e < i
        PROVE  e < j
    <3>1. e \in Nat /\ e \notin j..(i - 1) /\ i \in Nat /\ j \in Nat
      BY <1>1, <2>1 DEF Ends
    <3> QED
      BY <2>2, <3>1
  <2> QED
    BY <2>1, <2>2
<1> QED
  BY <1>1, <1>2

\* The map of an input is longer than what came by a signature at most.
LEMMA InputMapLength ==
    ASSUME NEW b \in Seq(Byte), NEW i \in Ends(b), NEW e \in 1..(i - 1), e <= 3 \/ e \in Ends(b),
           NEW signs \in BOOLEAN
    PROVE  /\ InputMap(Fields(b, i), signs) \in Seq(Byte)
           /\ Len(InputMap(Fields(b, i), signs)) <= (i - e) + Len(SIG)
<1> DEFINE F == Fields(b, i)
           writes == signs /\ Ours(F) /\ Signable(F)
           u == <<IF UTXO \in F THEN UTXO ELSE NO_UTXO>>
           s == IF writes THEN SIG ELSE Keep(KEY_SIG, F)
           has(x) == IF x \in F THEN 1 ELSE 0
<1>1. SIG \in Seq(Byte) /\ Len(SIG) \in Nat /\ Len(SIG) >= 1
  BY ExchangeAssumption
<1>2. ASSUME NEW x \in Byte
      PROVE  Keep(x, F) \in Seq(Byte) /\ Len(Keep(x, F)) = has(x)
  BY DEF Keep
<1>3. {UTXO, NO_UTXO, KEY, KEY_SIG, END} \subseteq Byte
  BY DEF UTXO, NO_UTXO, KEY, KEY_SIG, END, Byte
<1>4. u \in Seq(Byte) /\ Len(u) = 1 /\ <<END>> \in Seq(Byte) /\ Len(<<END>>) = 1
  BY <1>3
<1>5. s \in Seq(Byte) /\ Len(s) = IF writes THEN Len(SIG) ELSE has(KEY_SIG)
  BY <1>1, <1>2, <1>3
<1>6. Keep(KEY, F) \in Seq(Byte) /\ Len(Keep(KEY, F)) = has(KEY)
  BY <1>2, <1>3
<1>7. InputMap(F, signs) = u \o Keep(KEY, F) \o s \o <<END>>
  BY DEF InputMap
<1>8. /\ InputMap(F, signs) \in Seq(Byte)
      /\ Len(InputMap(F, signs)) = 2 + has(KEY) + IF writes THEN Len(SIG) ELSE has(KEY_SIG)
  <2> DEFINE k == Keep(KEY, F)
             d == <<END>>
  <2>1. u \in Seq(Byte) /\ k \in Seq(Byte) /\ s \in Seq(Byte) /\ d \in Seq(Byte)
    BY <1>4, <1>5, <1>6
  <2> HIDE DEF u, k, s, d
  <2>2. u \o k \o s \o d \in Seq(Byte) /\ Len(u \o k \o s \o d) = Len(u) + Len(k) + Len(s) + Len(d)
    BY <2>1
  <2>3. Len(u) = 1 /\ Len(d) = 1 /\ Len(k) = has(KEY)
        /\ Len(s) = IF writes THEN Len(SIG) ELSE has(KEY_SIG)
    BY <1>4, <1>5, <1>6 DEF k, d
  <2>4. InputMap(F, signs) = u \o k \o s \o d
    BY <1>7 DEF k, d
  <2> DEFINE x == has(KEY)
             y == IF writes THEN Len(SIG) ELSE has(KEY_SIG)
  <2>5. x \in Nat /\ y \in Nat /\ Len(k) = x /\ Len(s) = y
    <3>1. x \in Nat
      OBVIOUS
    <3>2. y \in Nat
      BY <1>1
    <3> QED
      BY <2>3, <3>1, <3>2
  <2> DEFINE w == u \o k \o s \o d
             lu == Len(u)
             lk == Len(k)
             ls == Len(s)
             ld == Len(d)
  <2>6. w \in Seq(Byte) /\ Len(w) = lu + lk + ls + ld /\ lu = 1 /\ lk = x /\ ls = y /\ ld = 1
    BY <2>2, <2>3, <2>5
  <2>7. InputMap(F, signs) = w
    BY <2>4
  <2> HIDE DEF F, writes, has, x, y, w, lu, lk, ls, ld
  <2>8. w \in Seq(Byte) /\ Len(w) = 2 + x + y
    BY <2>5, <2>6
  <2> QED
    BY <2>7, <2>8 DEF x, y
<1>9. \A x \in F : \E j \in (e + 1)..(i - 1) : x = b[j]
  <2>1. ASSUME NEW x \in F
        PROVE  \E j \in (e + 1)..(i - 1) : x = b[j]
    <3>1. PICK j \in 4..(i - 1) : x = b[j] /\ \A d \in Ends(b) : d < i => d < j
      BY FieldsAreBytes
    <3>2. i \in Nat /\ e \in Nat /\ e < i /\ j \in Nat
      BY FieldsAreBytes
    <3>3. e < j
      BY <3>1, <3>2
    <3> QED
      BY <3>1, <3>2, <3>3
  <2> QED
    BY <2>1
<1>10. UTXO # KEY /\ UTXO # KEY_SIG /\ KEY # KEY_SIG
  BY DEF UTXO, KEY, KEY_SIG
<1>11. /\ i \in Nat /\ e \in Nat /\ i - e >= 1
       /\ (UTXO \in F \/ KEY \in F \/ KEY_SIG \in F) => i - e >= 2
       /\ (UTXO \in F /\ KEY \in F) \/ (UTXO \in F /\ KEY_SIG \in F) \/ (KEY \in F /\ KEY_SIG \in F)
             => i - e >= 3
       /\ (UTXO \in F /\ KEY \in F /\ KEY_SIG \in F) => i - e >= 4
  <2>0. i \in Nat /\ e \in Nat /\ i - e >= 1
    BY FieldsAreBytes
  <2>1. ASSUME NEW x \in F
        PROVE  i - e >= 2
    BY <1>9, <2>0
  <2>2. ASSUME NEW x \in F, NEW y \in F, x # y
        PROVE  i - e >= 3
    <3>1. PICK j \in (e + 1)..(i - 1) : x = b[j]
      BY <1>9
    <3>2. PICK k \in (e + 1)..(i - 1) : y = b[k]
      BY <1>9
    <3>3. j # k
      BY <2>2, <3>1, <3>2
    <3> QED
      BY <2>0, <3>3
  <2>3. ASSUME NEW x \in F, NEW y \in F, NEW z \in F, x # y, x # z, y # z
        PROVE  i - e >= 4
    <3>1. PICK j \in (e + 1)..(i - 1) : x = b[j]
      BY <1>9
    <3>2. PICK k \in (e + 1)..(i - 1) : y = b[k]
      BY <1>9
    <3>3. PICK l \in (e + 1)..(i - 1) : z = b[l]
      BY <1>9
    <3>4. j # k /\ j # l /\ k # l
      BY <2>3, <3>1, <3>2, <3>3
    <3> QED
      BY <2>0, <3>4
  <2> HIDE DEF F
  <2> QED
    BY <1>10, <2>0, <2>1, <2>2, <2>3
<1>12. writes => UTXO \in F /\ KEY \in F
  BY DEF Ours, Signable
<1>13. 2 + has(KEY) + (IF writes THEN Len(SIG) ELSE has(KEY_SIG)) <= (i - e) + Len(SIG)
  <2> DEFINE D == i - e
             L == Len(SIG)
  <2>0. D \in Nat /\ L \in Nat /\ L >= 1
    BY <1>1, <1>11
  <2>1. CASE writes
    <3>1. D >= 3
      BY <1>11, <1>12, <2>1
    <3> HIDE DEF F, writes, D, L
    <3> QED
      BY <1>12, <2>0, <2>1, <3>1 DEF D, L
  <2>2. CASE ~writes /\ KEY \in F
    <3>1. D >= 2 /\ (KEY_SIG \in F => D >= 3)
      BY <1>11, <2>2
    <3> HIDE DEF F, writes, D, L
    <3> QED
      BY <2>0, <2>2, <3>1 DEF D, L
  <2>3. CASE ~writes /\ KEY \notin F
    <3>1. D >= 1 /\ (KEY_SIG \in F => D >= 2)
      BY <1>11, <2>3
    <3> HIDE DEF F, writes, D, L
    <3> QED
      BY <2>0, <2>3, <3>1 DEF D, L
  <2> QED
    BY <2>1, <2>2, <2>3
<1> QED
  BY <1>8, <1>13

\* Two sequences of bytes, one after the other.
LEMMA Joined ==
    ASSUME NEW s \in Seq(Byte), NEW t \in Seq(Byte)
    PROVE  s \o t \in Seq(Byte) /\ Len(s \o t) = Len(s) + Len(t)
OBVIOUS

\* The map of an output is no longer than what came.
LEMMA OutputMapLength ==
    ASSUME NEW b \in Seq(Byte), NEW i \in Ends(b), NEW e \in 1..(i - 1), e <= 3 \/ e \in Ends(b)
    PROVE  /\ OutputMap(Fields(b, i)) \in Seq(Byte)
           /\ Len(OutputMap(Fields(b, i))) <= i - e
<1> DEFINE F == Fields(b, i)
           k == Keep(OUT_KEY, F)
           d == <<END>>
<1>1. OUT_KEY \in Byte /\ END \in Byte /\ i \in Nat /\ e \in Nat /\ e <= i - 1
  BY FieldsAreBytes DEF OUT_KEY, END, Byte
<1>2. OutputMap(F) = k \o d /\ d \in Seq(Byte) /\ Len(d) = 1
  BY <1>1 DEF OutputMap
<1>3. CASE OUT_KEY \in F
  <2>1. k = <<OUT_KEY>>
    BY <1>3 DEF Keep
  <2>2. PICK j \in 4..(i - 1) : \A x \in Ends(b) : x < i => x < j
    BY <1>3, FieldsAreBytes
  <2>3. e < j /\ j \in Nat /\ j <= i - 1
    BY <1>1, <2>2
  <2>4. k \in Seq(Byte) /\ Len(k) = 1
    BY <1>1, <2>1
  <2>5. 2 <= i - e
    BY <1>1, <2>3
  <2>6. k \o d \in Seq(Byte) /\ Len(k \o d) = Len(k) + Len(d)
    <3>1. d \in Seq(Byte)
      BY <1>2
    <3> HIDE DEF k, d, F
    <3> QED
      BY <2>4, <3>1, Joined
  <2> HIDE DEF k, d, F
  <2>7. Len(k \o d) = 2
    BY <1>2, <2>4, <2>6
  <2> QED
    BY <1>2, <2>5, <2>6, <2>7 DEF F
<1>4. CASE OUT_KEY \notin F
  <2>1. k = <<>>
    BY <1>4 DEF Keep
  <2>2. k \in Seq(Byte) /\ Len(k) = 0
    BY <2>1
  <2>3. 1 <= i - e
    BY <1>1
  <2>4. k \o d \in Seq(Byte) /\ Len(k \o d) = Len(k) + Len(d)
    <3>1. d \in Seq(Byte)
      BY <1>2
    <3> HIDE DEF k, d, F
    <3> QED
      BY <2>2, <3>1, Joined
  <2> HIDE DEF k, d, F
  <2>5. Len(k \o d) = 1
    BY <1>2, <2>2, <2>4
  <2> QED
    BY <1>2, <2>3, <2>4, <2>5 DEF F
<1> QED
  BY <1>3, <1>4

\* The inputs whose map ends by byte i.
InputsBy(b, i) == {e \in InputEnds(b) : e <= i}

\* They are no more than the transaction has, and each byte that is one counts.
LEMMA InputsCount ==
    ASSUME NEW b \in Seq(Byte), NEW i \in Nat
    PROVE  /\ IsFiniteSet(InputsBy(b, i)) /\ Cardinality(InputsBy(b, i)) \in Nat
           /\ i \in InputEnds(b) /\ i >= 1 =>
                 /\ Cardinality(InputsBy(b, i)) = Cardinality(InputsBy(b, i - 1)) + 1
                 /\ Cardinality(InputsBy(b, i)) <= b[2]
           /\ i \notin InputEnds(b) /\ i >= 1 => InputsBy(b, i) = InputsBy(b, i - 1)
<1>1. /\ InputEnds(b) \subseteq Ends(b) /\ Ends(b) \subseteq 1..Len(b)
      /\ IsFiniteSet(1..Len(b)) /\ InputEnds(b) \subseteq Nat
  <2>1. Len(b) \in Nat
    OBVIOUS
  <2>2. IsFiniteSet(1..Len(b))
    BY <2>1, FS_Interval
  <2> QED
    BY <2>1, <2>2 DEF InputEnds, Ends
<1>2. \A k : IsFiniteSet(InputsBy(b, k))
  BY <1>1, FS_Subset DEF InputsBy
<1>3. \A k : Cardinality(InputsBy(b, k)) \in Nat
  BY <1>2, FS_CardinalityType
<1>4. ASSUME i \in InputEnds(b), i >= 1
      PROVE  /\ Cardinality(InputsBy(b, i)) = Cardinality(InputsBy(b, i - 1)) + 1
             /\ Cardinality(InputsBy(b, i)) <= b[2]
  <2>1. InputsBy(b, i) = InputsBy(b, i - 1) \cup {i} /\ i \notin InputsBy(b, i - 1)
    BY <1>1, <1>4 DEF InputsBy
  <2>2. Cardinality(InputsBy(b, i)) = Cardinality(InputsBy(b, i - 1)) + 1
    BY <1>2, <2>1, FS_AddElement
  <2> DEFINE G == {f \in Ends(b) : f <= i}
  <2>3. InputsBy(b, i) \subseteq G /\ IsFiniteSet(G)
    BY <1>1, FS_Subset DEF InputsBy
  <2>4. Cardinality(InputsBy(b, i)) <= Cardinality(G) /\ Cardinality(G) \in Nat
    BY <2>3, FS_Subset, FS_CardinalityType
  <2>5. Cardinality(G) <= b[2]
    BY <1>4 DEF InputEnds, Place
  <2>6. b[2] \in Int
    <3>1. 2 \in 1..Len(b)
      BY <1>4 DEF InputEnds, Ends
    <3>2. b[2] \in Byte
      BY <3>1
    <3> QED
      BY <3>2, ByteIsNat
  <2> QED
    BY <1>3, <2>2, <2>4, <2>5, <2>6
<1>5. ASSUME i \notin InputEnds(b), i >= 1
      PROVE  InputsBy(b, i) = InputsBy(b, i - 1)
  BY <1>1, <1>5 DEF InputsBy
<1> QED
  BY <1>2, <1>3, <1>4, <1>5

\* What grows by no more than the bytes read since, and by s.
LEMMA Growth ==
    ASSUME NEW p \in Nat, NEW q \in Nat, NEW e \in Nat, NEW i \in Nat, NEW x \in Nat, NEW s \in Nat,
           p <= e + x, q <= (i - e) + s
    PROVE  p + q <= i + (x + s)
OBVIOUS

\* Products grow with their factors.
LEMMA Products ==
    ASSUME NEW s \in Nat, NEW m \in Nat, NEW n \in Nat, m <= n
    PROVE  m * s <= n * s /\ m * s \in Nat /\ n * s \in Nat /\ (m + 1) * s = m * s + s
OBVIOUS

\* The signed PSBT is longer than the one that came by the signatures of its inputs at
\* most, so the buffer for it is large enough (MAX_SIGNED_RAW of psbt.rs).
LEMMA SignedLength ==
    ASSUME NEW b \in Seq(Byte), Parses(b), NEW failed
    PROVE  /\ EncodeSigned(b, failed) \in Seq(Byte) /\ MAX_SIGNED_RAW \in Nat
           /\ Len(b) <= MAX_PSBT_RAW => Len(EncodeSigned(b, failed)) <= MAX_SIGNED_RAW
<1> DEFINE n == Len(b)
           c == Written(b, failed)
           S == Len(SIG)
           K(i) == Cardinality(InputsBy(b, i))
<1>1. /\ n \in Nat /\ n >= 3 /\ S \in Nat /\ MAX_PSBT_RAW \in Nat /\ MAX_INPUTS \in Nat
      /\ b[2] \in Nat /\ b[2] <= MAX_INPUTS /\ \A i \in 1..n : b[i] \in Byte
  <2>1. n \in Nat /\ n >= 3 /\ \A i \in 1..n : b[i] \in Byte
    BY DEF Parses
  <2>2. b[2] \in Nat
    BY <2>1, ByteIsNat
  <2> QED
    BY <2>1, <2>2, ExchangeAssumption DEF Parses
<1>2. ASSUME NEW i \in 1..n, NEW e \in 1..(i - 1), e <= 3 \/ e \in Ends(b), i > 3
      PROVE  /\ c[i] \in Seq(Byte)
             /\ i \in InputEnds(b) => Len(c[i]) <= (i - e) + S
             /\ i \in Ends(b) /\ i \notin InputEnds(b) => Len(c[i]) <= i - e
             /\ i \notin Ends(b) => Len(c[i]) = 0
  <2>1. InputEnds(b) \subseteq Ends(b) /\ OutputEnds(b) \subseteq Ends(b) \ InputEnds(b)
    BY DEF InputEnds, OutputEnds
  <2>2. CASE i \in InputEnds(b)
    <3>1. i \in Ends(b) /\ (i \notin failed) \in BOOLEAN
      BY <2>1, <2>2
    <3>2. c[i] = InputMap(Fields(b, i), i \notin failed)
      BY <1>2, <2>2 DEF Written
    <3>3. c[i] \in Seq(Byte) /\ Len(c[i]) <= (i - e) + S
      <4> HIDE DEF c
      <4> QED
        BY <1>2, <3>1, <3>2, InputMapLength
    <3> QED
      BY <2>2, <3>1, <3>3
  <2>3. CASE i \in OutputEnds(b)
    <3>1. i \in Ends(b) /\ i \notin InputEnds(b)
      BY <2>1, <2>3
    <3>2. c[i] = OutputMap(Fields(b, i))
      BY <1>2, <2>3, <3>1 DEF Written
    <3>3. c[i] \in Seq(Byte) /\ Len(c[i]) <= i - e
      <4> HIDE DEF c
      <4> QED
        BY <1>2, <3>1, <3>2, OutputMapLength
    <3> QED
      BY <3>1, <3>3
  <2>4. CASE i \notin InputEnds(b) /\ i \notin OutputEnds(b)
    <3>1. c[i] = <<>>
      BY <1>2, <2>4 DEF Written
    <3>2. c[i] \in Seq(Byte) /\ Len(c[i]) = 0
      <4> HIDE DEF c
      <4> QED
        BY <3>1
    <3>3. 0 <= i - e
      BY <1>1, <1>2
    <3> QED
      BY <2>4, <3>2, <3>3
  <2> QED
    BY <2>2, <2>3, <2>4
<1>3. ASSUME NEW i \in 1..n, i <= 3
      PROVE  c[i] \in Seq(Byte) /\ Len(c[i]) = 1 /\ c[i] = <<b[i]>>
  <2>1. c[i] = <<b[i]>>
    BY <1>3 DEF Written
  <2>2. b[i] \in Byte
    BY <1>1
  <2> HIDE DEF c
  <2> QED
    BY <2>1, <2>2
<1>4. c \in [1..n -> Seq(Byte)]
  <2>1. c = [i \in 1..n |-> c[i]]
    BY DEF Written
  <2>2. \A i \in 1..n : c[i] \in Seq(Byte)
    <3> HIDE DEF c
    <3>1. ASSUME NEW i \in 1..n
          PROVE  c[i] \in Seq(Byte)
      <4>1. CASE i <= 3
        BY <1>3, <4>1
      <4>2. CASE i > 3
        <5>1. 1 \in 1..(i - 1)
          BY <1>1, <4>2
        <5> QED
          BY <1>2, <4>2, <5>1
      <4> QED
        BY <1>1, <4>1, <4>2
    <3> QED
      BY <3>1
  <2> HIDE DEF c
  <2> QED
    BY <2>1, <2>2
<1>5. PICK f : /\ FlattenSeq(c) = f[n] /\ f[1] = c[1]
               /\ \A i \in 2..n : f[i] = f[i - 1] \o c[i]
  <2> HIDE DEF c, n
  <2>1. n \in Nat /\ n >= 1
    BY <1>1
  <2> QED
    BY <1>4, <2>1, Flattened, Zenon
<1> HIDE DEF c
<1>6. \A i \in 1..n : K(i) \in Nat /\ K(i - 1) \in Nat
  BY InputsCount
<1> DEFINE Bound(i, e) == (e <= 3 \/ e \in Ends(b)) /\ Len(f[i]) <= e + K(i) * S
           Holds(i) == f[i] \in Seq(Byte) /\ K(i) <= b[2] /\ \E e \in 1..i : Bound(i, e)
           P == {i \in 1..n : Holds(i)}
<1>7. 1 \in P
  <2>1. f[1] \in Seq(Byte) /\ Len(f[1]) = 1
    BY <1>1, <1>3, <1>5
  <2>2. K(1) = 0
    <3>1. InputsBy(b, 1) = {}
      BY DEF InputsBy, InputEnds, Ends
    <3> QED
      BY <3>1, FS_EmptySet
  <2>3. Bound(1, 1)
    <3>1. K(1) * S = 0
      <4> HIDE DEF K, S
      <4> QED
        BY <1>1, <2>2
    <3> HIDE DEF K, S
    <3> QED
      BY <2>1, <3>1
  <2>4. K(1) <= b[2] /\ 1 \in 1..1 /\ 1 \in 1..n
    <3> HIDE DEF K
    <3> QED
      BY <1>1, <2>2
  <2> HIDE DEF Bound, K
  <2> QED
    BY <2>1, <2>3, <2>4
<1>8. ASSUME NEW i \in 2..n, i - 1 \in P
      PROVE  i \in P
  <2> DEFINE x == K(i - 1) * S
             y == K(i) * S
  <2>0. Holds(i - 1)
    <3> HIDE DEF Holds
    <3> QED
      BY <1>8
  <2>1. PICK e \in 1..(i - 1) : Bound(i - 1, e)
    <3> HIDE DEF Bound
    <3> QED
      BY <2>0
  <2>2. f[i - 1] \in Seq(Byte) /\ K(i - 1) <= b[2]
    <3> HIDE DEF Bound, K
    <3> QED
      BY <2>0
  <2>3. f[i] \in Seq(Byte) /\ Len(f[i]) = Len(f[i - 1]) + Len(c[i])
        /\ Len(f[i - 1]) \in Nat /\ Len(c[i]) \in Nat
    <3>1. i \in 1..n
      BY <1>1
    <3>2. c[i] \in Seq(Byte)
      BY <1>4, <3>1
    <3>3. f[i] = f[i - 1] \o c[i]
      BY <1>5
    <3> QED
      BY <2>2, <3>2, <3>3
  <2>4. /\ K(i) \in Nat /\ K(i - 1) \in Nat /\ x \in Nat /\ y \in Nat
        /\ K(i) = K(i - 1) => y = x
        /\ K(i) = K(i - 1) + 1 => y = x + S
    <3>1. K(i) \in Nat /\ K(i - 1) \in Nat
      BY <1>1, <1>6
    <3> HIDE DEF K, S
    <3> QED
      BY <1>1, <3>1, Products
  <2>5. i \in Nat /\ i \in 1..n /\ e \in Nat /\ e <= i - 1 /\ i \in 1..i /\ e \in 1..i
    BY <1>1
  <2>6. Len(f[i - 1]) <= e + x /\ (e <= 3 \/ e \in Ends(b))
    BY <2>1
  <2> HIDE DEF x, y
  <2>7. K(i) <= b[2] /\ \E d \in 1..i : (d <= 3 \/ d \in Ends(b)) /\ Len(f[i]) <= d + y
    <3>1. CASE i <= 3
      <4>1. Len(c[i]) = 1 /\ K(i) = K(i - 1)
        <5>1. i \notin InputEnds(b)
          BY <3>1 DEF InputEnds, Ends
        <5> QED
          BY <1>3, <2>5, <3>1, <5>1, InputsCount
      <4>2. y = x
        BY <2>4, <4>1
      <4> HIDE DEF K, S
      <4> QED
        BY <2>2, <2>3, <2>4, <2>5, <2>6, <3>1, <4>1, <4>2
    <3>2. CASE i > 3 /\ i \in InputEnds(b)
      <4>1. Len(c[i]) <= (i - e) + S
        BY <1>2, <2>5, <2>6, <3>2
      <4>2. K(i) = K(i - 1) + 1 /\ K(i) <= b[2]
        BY <2>5, <3>2, InputsCount
      <4>3. i \in Ends(b)
        BY <3>2 DEF InputEnds
      <4>4. y = x + S
        BY <2>4, <4>2
      <4> HIDE DEF K, S
      <4>5. Len(f[i]) <= i + y
        <5>1. S \in Nat
          BY <1>1
        <5>2. Len(f[i - 1]) + Len(c[i]) <= i + (x + S)
          BY <2>3, <2>4, <2>5, <2>6, <4>1, <5>1, Growth
        <5> QED
          BY <2>3, <4>4, <5>2
      <4> QED
        BY <2>5, <4>2, <4>3, <4>5
    <3>3. CASE i > 3 /\ i \in Ends(b) /\ i \notin InputEnds(b)
      <4>1. Len(c[i]) <= i - e
        BY <1>2, <2>5, <2>6, <3>3
      <4>2. K(i) = K(i - 1)
        BY <2>5, <3>3, InputsCount
      <4>3. y = x
        BY <2>4, <4>2
      <4> HIDE DEF K, S
      <4>4. Len(f[i]) <= i + y
        <5>1. Len(c[i]) <= (i - e) + 0
          BY <2>5, <4>1
        <5>2. Len(f[i - 1]) + Len(c[i]) <= i + (x + 0)
          BY <2>3, <2>4, <2>5, <2>6, <5>1, Growth
        <5>3. x + 0 = y
          BY <2>4, <4>3
        <5> QED
          BY <2>3, <5>2, <5>3
      <4> QED
        BY <2>2, <2>5, <3>3, <4>2, <4>4
    <3>4. CASE i > 3 /\ i \notin Ends(b)
      <4>1. Len(c[i]) = 0
        BY <1>2, <2>5, <2>6, <3>4
      <4>2. i \notin InputEnds(b)
        BY <3>4 DEF InputEnds
      <4>3. K(i) = K(i - 1)
        BY <2>5, <4>2, InputsCount
      <4>4. y = x
        BY <2>4, <4>3
      <4> HIDE DEF K, S
      <4>5. Len(f[i]) <= e + y
        BY <2>3, <2>4, <2>5, <2>6, <4>1, <4>4
      <4> QED
        BY <2>2, <2>5, <2>6, <4>3, <4>5
    <3> QED
      BY <2>5, <3>1, <3>2, <3>3, <3>4
  <2>8. Holds(i)
    <3> HIDE DEF K, S
    <3> QED
      BY <2>3, <2>7 DEF y
  <2> HIDE DEF Holds
  <2> QED
    BY <2>5, <2>8
<1>9. n \in P
  <2> HIDE DEF P
  <2>1. \A i \in 1..n : i \in P
    BY <1>1, <1>7, <1>8, UpTo
  <2> QED
    BY <1>1, <2>1
<1>10. EncodeSigned(b, failed) = f[n]
  BY <1>5 DEF EncodeSigned, c
<1>11. K(n) * S <= MAX_INPUTS * S /\ K(n) * S \in Nat /\ MAX_INPUTS * S \in Nat
  <2>1. K(n) \in Nat /\ K(n) <= b[2]
    BY <1>1, <1>6, <1>9
  <2> HIDE DEF K, S
  <2>2. K(n) <= MAX_INPUTS
    BY <1>1, <2>1
  <2> QED
    BY <1>1, <2>1, <2>2, Products
<1>12. f[n] \in Seq(Byte) /\ Len(f[n]) \in Nat /\ Len(f[n]) <= n + K(n) * S
  <2>1. f[n] \in Seq(Byte) /\ \E e \in 1..n : Len(f[n]) <= e + K(n) * S
    BY <1>9
  <2>2. Len(f[n]) \in Nat
    BY <2>1
  <2> HIDE DEF K, S, n
  <2> QED
    BY <1>1, <1>11, <2>1, <2>2
<1>13. MAX_SIGNED_RAW = MAX_PSBT_RAW + MAX_INPUTS * S
  BY DEF MAX_SIGNED_RAW
<1> HIDE DEF K, S
<1> QED
  BY <1>1, <1>10, <1>11, <1>12, <1>13

-----------------------------------------------------------------------------
(* The invariant *)

\* The invariant holds at the start.
LEMMA InitBuffers == Init => EInv
<1>1. <<>> \in Seq(Byte)
  OBVIOUS
<1> QED
  BY <1>1 DEF Init, EInv, TypeOK

\* Every step keeps it.
LEMMA NextBuffers == EInv /\ [Next]_vars => EInv'
<1> SUFFICES ASSUME EInv, [Next]_vars
             PROVE  EInv'
  OBVIOUS
<1>1. ASSUME NEW bytes \in Payloads, Export(bytes)
      PROVE  EInv'
  <2>1. file' \in Seq(Byte) /\ sent' \in Seq(Byte) /\ wrapped' \in BOOLEAN /\ cut' \in BOOLEAN
    BY <1>1, Dialects DEF Export
  <2> QED
    BY <1>1, <2>1 DEF Export, walletVars, EInv, TypeOK
<1>2. ASSUME Truncate
      PROVE  EInv'
  <2>1. Front(file) \in Seq(Byte)
    <3>1. file \in Seq(Byte) /\ file # <<>>
      BY <1>2 DEF Truncate, EInv, TypeOK
    <3>2. Len(file) - 1 \in 0..Len(file)
      BY <3>1
    <3> QED
      BY <3>1, <3>2, Piece DEF Front
  <2> QED
    BY <1>2, <2>1 DEF Truncate, walletVars, EInv, TypeOK
<1>3. ASSUME LoadPsbt
      PROVE  EInv'
  <2> DEFINE text == Trim(file)
             good == Decodes(text, MAX_PSBT_RAW) /\ Parses(Decode(text))
  <2>1. /\ app = "SignScan" /\ app' = IF good THEN "SignReview" ELSE "SignScan"
        /\ psbt' = IF good THEN Decode(text) ELSE psbt
        /\ scanError' = ~good /\ UNCHANGED hostVars /\ signed' = signed
    BY <1>3 DEF LoadPsbt
  <2>2. text \in Seq(Byte) /\ MAX_PSBT_RAW \in Nat
    BY TrimText, ExchangeAssumption DEF EInv, TypeOK
  <2> HIDE DEF text
  <2>3. CASE good
    <3>1. Decode(text) \in Seq(Byte) /\ Len(Decode(text)) <= MAX_PSBT_RAW
      BY <2>2, <2>3, DecodedBytes
    <3>2. psbt' = Decode(text) /\ app' = "SignReview" /\ psbt' # None /\ scanError' = FALSE
      BY <2>1, <2>3, <3>1, ExchangeAssumption
    <3> QED
      BY <2>1, <3>1, <3>2 DEF hostVars, EInv, TypeOK
  <2>4. CASE ~good
    <3>1. psbt' = psbt /\ app' = app /\ scanError' = TRUE
      BY <2>1, <2>4
    <3> QED
      BY <2>1, <3>1 DEF hostVars, EInv, TypeOK
  <2> QED
    BY <2>3, <2>4
<1>4. ASSUME DoSign
      PROVE  EInv'
  <2>1. PICK failed \in SUBSET InputEnds(psbt) : SignWithout(failed)
    BY <1>4 DEF DoSign
  <2>2. psbt \in Seq(Byte) /\ psbt # None /\ Parses(psbt) /\ signed = None
    BY <2>1, ExchangeAssumption DEF SignWithout, EInv, TypeOK
  <2> DEFINE bin == EncodeSigned(psbt, failed)
  <2>3. bin \in Seq(Byte)
    BY <2>2, SignedLength
  <2> HIDE DEF bin
  <2>4. /\ app' = "SignResult" /\ UNCHANGED <<hostVars, psbt, scanError>>
        /\ \/ signed' = None
           \/ signed' = Encode(bin) /\ B64Len(Len(bin)) <= MAX_SIGNED_B64
    BY <2>1, <2>2 DEF SignWithout, bin
  <2>5. Encode(bin) \in Seq(Byte) /\ Len(Encode(bin)) = B64Len(Len(bin))
    BY <2>3, EncodedText
  <2>6. signed' # None => signed' \in Seq(Byte) /\ Len(signed') <= MAX_SIGNED_B64
    BY <2>4, <2>5
  <2> QED
    BY <2>2, <2>4, <2>6 DEF hostVars, EInv, TypeOK
<1>5. ASSUME BackHome
      PROVE  EInv'
  BY <1>5 DEF BackHome, hostVars, EInv, TypeOK
<1>6. ASSUME UNCHANGED vars
      PROVE  EInv'
  BY <1>6 DEF vars, hostVars, walletVars, EInv, TypeOK
<1> QED
  BY <1>1, <1>2, <1>3, <1>4, <1>5, <1>6 DEF Next

\* No buffer of the exchange holds more than its capacity, and there is a PSBT in hand
\* on the screens that show one.
THEOREM BuffersHold == Spec => []EInv
BY InitBuffers, NextBuffers, PTL DEF Spec

\* Every variable has its type, and every buffer its capacity (the types of Exchange).
THEOREM TypeCorrect == Spec => []TypeOK
<1>1. EInv => TypeOK
  BY DEF EInv
<1> QED
  BY <1>1, BuffersHold, PTL

\* Signing leaves a text exactly if sign_psbt accepts, the text always fits, and reading
\* it gives the PSBT that encode_signed writes (do_sign, psbt.rs and base64.rs): for every
\* capacity, number of inputs and length of a signature, whatever the signer fails at.
THEOREM SignedComesBackAlways == Spec => SignedComesBack
<1>1. ASSUME EInv, app = "SignReview", NEW failed \in SUBSET InputEnds(psbt), SignWithout(failed)
      PROVE  IF Accepts(psbt, failed)
             THEN /\ signed' # None /\ Decodes(signed', MAX_SIGNED_RAW)
                  /\ Decode(signed') = EncodeSigned(psbt, failed)
             ELSE signed' = None
  <2> DEFINE bin == EncodeSigned(psbt, failed)
  <2>1. psbt \in Seq(Byte) /\ Len(psbt) <= MAX_PSBT_RAW /\ Parses(psbt) /\ signed = None
    BY <1>1, ExchangeAssumption DEF EInv, TypeOK
  <2>2. bin \in Seq(Byte) /\ Len(bin) <= MAX_SIGNED_RAW /\ MAX_SIGNED_RAW \in Nat
    BY <2>1, SignedLength
  <2> HIDE DEF bin
  <2>3. B64Len(Len(bin)) <= MAX_SIGNED_B64
    BY <2>2, LongerText DEF MAX_SIGNED_B64
  <2>4. signed' = IF Accepts(psbt, failed) THEN Encode(bin) ELSE None
    BY <1>1, <2>1, <2>2, <2>3 DEF SignWithout, bin
  <2>5. Encode(bin) \in Seq(Byte) /\ Encode(bin) # None
    BY <2>2, EncodedText, ExchangeAssumption
  <2>6. Decodes(Encode(bin), MAX_SIGNED_RAW) /\ Decode(Encode(bin)) = bin
    BY <2>2, RoundTrip
  <2> QED
    BY <2>4, <2>5, <2>6 DEF bin
<1> DEFINE ComesBack ==
             app = "SignReview" =>
                \A failed \in SUBSET InputEnds(psbt) :
                   SignWithout(failed) =>
                      IF Accepts(psbt, failed)
                      THEN /\ signed' # None /\ Decodes(signed', MAX_SIGNED_RAW)
                           /\ Decode(signed') = EncodeSigned(psbt, failed)
                      ELSE signed' = None
<1>2. ASSUME EInv, [Next]_vars
      PROVE  [ComesBack]_vars
  BY <1>1, <1>2
<1> QED
  BY <1>2, BuffersHold, PTL DEF Spec, SignedComesBack

-----------------------------------------------------------------------------
(* Reading back what the host wrote *)

\* Character i of a text stands for the six bits that the encoding of these bytes has
\* there, in whichever alphabet.
Spells(text, bytes, i) ==
    text[i] \in Alphabet /\ Val(text[i]) = SextetAt(bytes, (i - 1) \div 4, (i - 1) % 4)

\* As many characters as hold a bit, then padding.
Carries(text, bytes, i) ==
    IF i <= Chars(Len(bytes)) THEN Spells(text, bytes, i) ELSE text[i] = PAD

\* A text, or the beginning of one, in one of the dialects that decode reads.
Reads(text, bytes) ==
    \A i \in 1..Len(text) :
        Carries(text, bytes, i) \/ (i = Len(text) /\ i > 1 /\ text[i] = NEWLINE)

\* A text broken into lines, with characters on the second one.
Broken(text, bytes) ==
    /\ Len(text) >= 6 /\ Chars(Len(bytes)) >= 6
    /\ \A i \in 1..4 : Spells(text, bytes, i)
    /\ text[5] = NEWLINE /\ text[6] \in Alphabet

\* The alphabet has neither the padding nor the newline.
LEMMA AlphabetIsPlain == /\ PAD \notin Alphabet /\ NEWLINE \notin Alphabet /\ PAD # NEWLINE
                         /\ NEWLINE \in Byte /\ PAD \in Byte
BY DEF PAD, NEWLINE, Alphabet, Byte

\* The least and the greatest of a set, once they are known to be there.
LEMMA Extremes ==
    ASSUME NEW I \in SUBSET Nat, NEW a \in I, NEW b \in I, \A i \in I : a <= i /\ i <= b
    PROVE  Min(I) = a /\ Max(I) = b
<1>1. \A x \in I : (\A y \in I : x <= y) => x = a
  OBVIOUS
<1>2. \A x \in I : (\A y \in I : x >= y) => x = b
  OBVIOUS
<1>3. Min(I) = a
  BY <1>1 DEF Min
<1>4. Max(I) = b
  BY <1>2 DEF Max
<1> QED
  BY <1>3, <1>4

\* The end of a text without the newline behind it.
End(text) == IF text[Len(text)] = NEWLINE THEN Len(text) - 1 ELSE Len(text)

\* str::trim takes exactly the newline behind the text.
LEMMA TrimReads ==
    ASSUME NEW text \in Seq(Byte), text # <<>>, NEW bytes \in Seq(Byte), bytes # <<>>,
           Reads(text, bytes)
    PROVE  /\ End(text) \in 1..Len(text)
           /\ Trim(text) = SubSeq(text, 1, End(text))
           /\ \A i \in 1..End(text) : Carries(text, bytes, i)
<1> DEFINE n == Len(text)
           I == {i \in 1..n : text[i] # NEWLINE}
<1>1. n \in Nat /\ n >= 1 /\ Len(bytes) \in Nat
  BY EmptySeq
<1>2. ASSUME NEW i \in 1..n, Carries(text, bytes, i)
      PROVE  text[i] # NEWLINE
  BY <1>2, AlphabetIsPlain DEF Carries, Spells
<1>3. ASSUME NEW i \in 1..n, i # n \/ i = 1 \/ text[i] # NEWLINE
      PROVE  Carries(text, bytes, i)
  BY <1>1, <1>3 DEF Reads
<1>4. 1 \in I
  BY <1>1, <1>2, <1>3
<1>5. End(text) \in 1..n /\ \A i \in 1..End(text) : Carries(text, bytes, i)
  BY <1>1, <1>3, <1>4 DEF End
<1>6. I = 1..End(text)
  <2>1. \A i \in 1..End(text) : i \in I
    BY <1>1, <1>2, <1>5
  <2>2. \A i \in I : i \in 1..End(text)
    BY <1>1 DEF End
  <2> QED
    BY <1>5, <2>1, <2>2
<1>7. Min(I) = 1 /\ Max(I) = End(text)
  <2>1. I \in SUBSET Nat /\ End(text) \in I /\ \A i \in I : 1 <= i /\ i <= End(text)
    BY <1>1, <1>5, <1>6
  <2> HIDE DEF I
  <2> QED
    BY <1>4, <2>1, Extremes
<1>8. Trim(text) = SubSeq(text, Min(I), Max(I))
  <2>1. I # {}
    BY <1>4
  <2>2. ~(ToSet(text) \subseteq {NEWLINE})
    BY <1>4 DEF ToSet
  <2> QED
    BY <2>1, <2>2 DEF Trim, SelectInSeq, SelectLastInSeq
<1> QED
  BY <1>5, <1>7, <1>8

\* A beginning of a text, position by position.
LEMMA Beginning ==
    ASSUME NEW text \in Seq(Byte), NEW n \in 0..Len(text)
    PROVE  LET s == SubSeq(text, 1, n)
           IN  s \in Seq(Byte) /\ Len(s) = n /\ \A i \in 1..n : s[i] = text[i]
BY Piece

\* decode strips exactly the padding.
LEMMA StripReads ==
    ASSUME NEW text \in Seq(Byte), text # <<>>, NEW bytes \in Seq(Byte), bytes # <<>>,
           \A i \in 1..Len(text) : Carries(text, bytes, i)
    PROVE  LET C == Chars(Len(bytes))
               L == IF Len(text) <= C THEN Len(text) ELSE C
           IN  /\ L \in 1..Len(text) /\ L <= C
               /\ Trimmed(text) = SubSeq(text, 1, L)
               /\ \A i \in 1..L : Spells(text, bytes, i)
<1> DEFINE C == Chars(Len(bytes))
           n == Len(text)
           L == IF n <= C THEN n ELSE C
           I == {i \in 1..n : text[i] # PAD}
<1>1. n \in Nat /\ n >= 1 /\ Len(bytes) \in Nat /\ Len(bytes) >= 1
  BY EmptySeq
<1>2. C \in Nat /\ C >= 1
  <2>1. 1 \in 1..Len(bytes)
    BY <1>1
  <2>2. C \in Nat
    BY <1>1, Lengths
  <2> HIDE DEF C
  <2>3. 4 * ((1 - 1) \div 3) + ((1 - 1) % 3) + 2 <= C
    BY <1>1, <2>1, ByteIsCovered DEF C
  <2> QED
    BY <2>2, <2>3
<1> HIDE DEF C
<1>3. L \in 1..n /\ L <= C
  BY <1>1, <1>2
<1>4. \A i \in 1..L : Spells(text, bytes, i)
  BY <1>1, <1>2, <1>3 DEF Carries, C
<1>5. \A i \in 1..n : i <= L \/ text[i] = PAD
  BY <1>1, <1>2 DEF Carries, C
<1>6. \A i \in 1..L : text[i] # PAD
  BY <1>4, AlphabetIsPlain DEF Spells
<1>7. I \in SUBSET Nat /\ L \in I /\ 1 \in I /\ \A i \in I : 1 <= i /\ i <= L
  BY <1>1, <1>3, <1>5, <1>6
<1> HIDE DEF I, L
<1>8. Max(I) = L
  BY <1>7, Extremes
<1>9. Trimmed(text) = SubSeq(text, 1, L)
  BY <1>7, <1>8 DEF Trimmed, SelectLastInSeq, I
<1> QED
  BY <1>3, <1>4, <1>9 DEF C, L

\* The bytes that a number of characters hold, and that number back.
LEMMA HeldBytes ==
    ASSUME NEW n \in Nat, NEW L \in Nat, L <= Chars(n), L % 4 # 1
    PROVE  /\ DecodedLen(L) \in 0..n /\ Chars(DecodedLen(L)) = L
           /\ L = Chars(n) => DecodedLen(L) = n
<1> DEFINE q == n \div 3
           r == n % 3
           p == L \div 4
           s == L % 4
           m == DecodedLen(L)
           d == IF s = 0 THEN 0 ELSE s - 1
<1>1. /\ q \in Nat /\ r \in 0..2 /\ n = 3 * q + r
      /\ p \in Nat /\ s \in {0, 2, 3} /\ L = 4 * p + s
  OBVIOUS
<1>2. Chars(n) = 4 * q + (IF r = 0 THEN 0 ELSE r + 1)
  BY DEF Chars
<1>3. m = 3 * p + d
  BY DEF DecodedLen
<1> HIDE DEF q, r, p, s, m
<1>4. m \in 0..n
  BY <1>1, <1>2, <1>3
<1>5. m \div 3 = p /\ m % 3 = d
  BY <1>1, <1>3
<1>6. Chars(m) = L
  BY <1>1, <1>5 DEF Chars
<1>7. L = Chars(n) => m = n
  BY <1>4, Lengths DEF m
<1> QED
  BY <1>4, <1>6, <1>7 DEF m

\* What decode answers for a text that begins as the encoding of the bytes does: as many
\* of them as its characters hold.
LEMMA DecodeReads ==
    ASSUME NEW text, NEW u \in Seq(Byte), Trimmed(text) = u,
           NEW bytes \in Seq(Byte), Len(u) <= Chars(Len(bytes)),
           \A i \in 1..Len(u) : Spells(u, bytes, i), Len(u) % 4 # 1
    PROVE  Decode(text) = [o \in 1..DecodedLen(Len(u)) |-> bytes[o]]
<1> DEFINE n == Len(bytes)
           L == Len(u)
           len == DecodedLen(L)
           at(i) == IF i \in DOMAIN u THEN Val(u[i]) ELSE 0
<1>1. n \in Nat /\ L \in Nat /\ DOMAIN bytes = 1..n /\ DOMAIN u = 1..L
  OBVIOUS
<1>2. len \in Nat /\ len <= n /\ Chars(len) = L
  <2>1. len \in 0..n /\ Chars(len) = L
    BY <1>1, HeldBytes
  <2> HIDE DEF len
  <2> QED
    BY <1>1, <2>1
<1>3. ASSUME NEW j \in Nat, NEW m \in 0..3, 4 * j + m + 1 <= L
      PROVE  at(4 * j + m + 1) = SextetAt(bytes, j, m)
  <2> DEFINE o == 4 * j + m + 1
  <2>1. (o - 1) \div 4 = j /\ (o - 1) % 4 = m /\ o \in 1..L
    BY <1>1, <1>3
  <2> HIDE DEF o, L
  <2>2. Val(u[o]) = SextetAt(bytes, j, m) /\ o \in DOMAIN u
    BY <1>1, <2>1 DEF Spells, L
  <2> QED
    BY <2>2 DEF o
<1>4. \A i \in Nat : At(bytes, i) \in Byte
  BY AtByte
<1> HIDE DEF n, L, len, at
<1>5. ASSUME NEW o \in 1..len
      PROVE  LET g == 4 * ((o - 1) \div 3)
             IN  Octet((o - 1) % 3, at(g + 1), at(g + 2), at(g + 3), at(g + 4)) = bytes[o]
  <2> DEFINE j == (o - 1) \div 3
             m == (o - 1) % 3
             a == At(bytes, 3 * j + 1)
             b == At(bytes, 3 * j + 2)
             c == At(bytes, 3 * j + 3)
  <2>1. j \in Nat /\ m \in 0..2 /\ o = 3 * j + m + 1 /\ 4 * j + m + 2 <= L
    BY <1>1, <1>2, ByteIsCovered
  <2>2. bytes[o] = At(bytes, 3 * j + m + 1)
    BY <1>1, <1>2, <2>1 DEF At
  <2> HIDE DEF j, m
  <2>3. a \in Byte /\ b \in Byte /\ c \in Byte
    BY <1>4, <2>1
  <2>4. CASE m = 0
    <3>1. at(4 * j + 1) = SextetAt(bytes, j, 0) /\ at(4 * j + 2) = SextetAt(bytes, j, 1)
      BY <1>1, <1>3, <2>1, <2>4
    <3> QED
      BY <2>1, <2>2, <2>3, <2>4, <3>1, GroupRoundTrip DEF SextetAt, j, m
  <2>5. CASE m = 1
    <3>1. at(4 * j + 2) = SextetAt(bytes, j, 1) /\ at(4 * j + 3) = SextetAt(bytes, j, 2)
      BY <1>1, <1>3, <2>1, <2>5
    <3> QED
      BY <2>1, <2>2, <2>3, <2>5, <3>1, GroupRoundTrip DEF SextetAt, j, m
  <2>6. CASE m = 2
    <3>1. at(4 * j + 3) = SextetAt(bytes, j, 2) /\ at(4 * j + 4) = SextetAt(bytes, j, 3)
      BY <1>1, <1>3, <2>1, <2>6
    <3> QED
      BY <2>1, <2>2, <2>3, <2>6, <3>1, GroupRoundTrip DEF SextetAt, j, m
  <2> QED
    BY <2>1, <2>4, <2>5, <2>6
<1>6. Decode(text) = [o \in 1..len |->
                        LET g == 4 * ((o - 1) \div 3)
                        IN  Octet((o - 1) % 3, at(g + 1), at(g + 2), at(g + 3), at(g + 4))]
  BY DEF Decode, at, len, L
<1> QED
  BY <1>5, <1>6 DEF len, L

\* A beginning of some bytes, from what the definition says.
LEMMA PrefixOf ==
    ASSUME NEW bytes \in Seq(Byte), NEW m \in 0..Len(bytes)
    PROVE  LET s == [o \in 1..m |-> bytes[o]]
           IN  /\ s \in Seq(Byte) /\ Len(s) = m /\ IsPrefix(s, bytes)
               /\ m = Len(bytes) => s = bytes
<1> DEFINE s == [o \in 1..m |-> bytes[o]]
<1>1. \A o \in 1..m : bytes[o] \in Byte
  OBVIOUS
<1>2. m \in Nat /\ s \in Seq(Byte) /\ Len(s) = m /\ DOMAIN s = 1..m
  BY <1>1
<1>3. SubSeq(s, 1, m) = s
  BY <1>2
<1>4. SubSeq(bytes, 1, m) = s
  BY <1>2
<1>5. IsPrefix(s, bytes)
  BY <1>2, <1>3, <1>4 DEF IsPrefix
<1>6. m = Len(bytes) => s = bytes
  OBVIOUS
<1> QED
  BY <1>2, <1>5, <1>6

\* The characters of a text that hold bits of the bytes.
Held(text, bytes) ==
    IF End(text) <= Chars(Len(bytes)) THEN End(text) ELSE Chars(Len(bytes))

\* Whoever reads such a text gets a beginning of the bytes: those its characters hold.
LEMMA ReadBack ==
    ASSUME NEW text \in Seq(Byte), text # <<>>, NEW bytes \in Seq(Byte), bytes # <<>>,
           Reads(text, bytes), NEW capacity \in Nat
    PROVE  LET m == DecodedLen(Held(text, bytes))
           IN  /\ Decodes(Trim(text), capacity) <=> Held(text, bytes) % 4 # 1 /\ m <= capacity
               /\ Decodes(Trim(text), capacity) =>
                     m \in 0..Len(bytes) /\ Decode(Trim(text)) = [o \in 1..m |-> bytes[o]]
<1> DEFINE t == Trim(text)
           u == Trimmed(t)
           L == Held(text, bytes)
<1>1. /\ End(text) \in 1..Len(text) /\ t = SubSeq(text, 1, End(text))
      /\ \A i \in 1..End(text) : Carries(text, bytes, i)
  BY TrimReads
<1>2. Len(text) \in Nat /\ Len(bytes) \in Nat
  OBVIOUS
<1> HIDE DEF t
<1>3. t \in Seq(Byte) /\ Len(t) = End(text) /\ \A i \in 1..End(text) : t[i] = text[i]
  BY <1>1, <1>2, Beginning
<1>4. t # <<>>
  BY <1>1, <1>2, <1>3
<1>5. \A i \in 1..Len(t) : Carries(t, bytes, i)
  BY <1>1, <1>3 DEF Carries, Spells
<1>6. /\ L \in 1..Len(t) /\ L <= Chars(Len(bytes))
      /\ u = SubSeq(t, 1, L) /\ \A i \in 1..L : Spells(t, bytes, i)
  BY <1>3, <1>4, <1>5, StripReads DEF Held
<1> HIDE DEF u, L
<1>7. u \in Seq(Byte) /\ Len(u) = L /\ \A i \in 1..L : u[i] = t[i]
  BY <1>1, <1>2, <1>3, <1>6, Beginning
<1>8. \A i \in 1..L : Spells(u, bytes, i)
  BY <1>6, <1>7 DEF Spells
<1>9. \A i \in DOMAIN u : u[i] \in Alphabet
  BY <1>7, <1>8 DEF Spells
<1>10. Decodes(t, capacity) <=> L % 4 # 1 /\ DecodedLen(L) <= capacity
  BY <1>7, <1>9 DEF Decodes, u
<1>11. L % 4 # 1 => Decode(t) = [o \in 1..DecodedLen(L) |-> bytes[o]]
  BY <1>6, <1>7, <1>8, DecodeReads DEF u
<1>12. L % 4 # 1 => DecodedLen(L) \in 0..Len(bytes)
  <2>1. L \in Nat
    BY <1>1, <1>2, <1>3, <1>6
  <2> QED
    BY <1>2, <1>6, <2>1, HeldBytes
<1> QED
  BY <1>10, <1>11, <1>12 DEF t, L

\* A text that still has a second line is refused: the newline in it is no character.
LEMMA BrokenIsRefused ==
    ASSUME NEW text \in Seq(Byte), NEW bytes, Broken(text, bytes), NEW capacity
    PROVE  ~Decodes(Trim(text), capacity)
<1> DEFINE n == Len(text)
           I == {i \in 1..n : text[i] # NEWLINE}
           t == Trim(text)
           J == {i \in 1..Len(t) : t[i] # PAD}
<1>1. n \in Nat /\ n >= 6 /\ text[5] = NEWLINE
  BY DEF Broken
<1>2. 1 \in I /\ 6 \in I /\ I \in SUBSET (1..n) /\ I # {}
  BY <1>1, AlphabetIsPlain DEF Broken, Spells
<1>3. t = SubSeq(text, Min(I), Max(I))
  <2>1. ~(ToSet(text) \subseteq {NEWLINE})
    BY <1>2 DEF ToSet
  <2> QED
    BY <1>2, <2>1 DEF Trim, SelectInSeq, SelectLastInSeq
<1>4. Min(I) = 1 /\ Max(I) \in 6..n
  <2> HIDE DEF I
  <2> DEFINE a == Min(I)
             b == Max(I)
  <2>1. a \in I /\ b \in I /\ \A i \in I : a <= i /\ i <= b
    BY <1>1, <1>2, FirstAndLast
  <2> HIDE DEF a, b
  <2>2. a \in 1..n /\ b \in 1..n /\ a <= 1 /\ 6 <= b
    BY <1>2, <2>1
  <2>3. a = 1 /\ b \in 6..n
    BY <1>1, <2>2
  <2> QED
    BY <2>3 DEF a, b
<1> DEFINE b == Max(I)
<1>5. b \in 6..n /\ t = SubSeq(text, 1, b)
  BY <1>3, <1>4
<1> HIDE DEF I, b, t
<1>6. t \in Seq(Byte) /\ Len(t) = b /\ t[5] = NEWLINE /\ t[6] # PAD
  <2>1. b \in 0..n /\ 5 \in 1..b /\ 6 \in 1..b
    BY <1>1, <1>5
  <2> QED
    BY <1>1, <1>5, <2>1, Beginning, AlphabetIsPlain DEF Broken
<1> DEFINE e == Max(J)
<1>7. e \in 6..b
  <2>1. J \in SUBSET (1..b) /\ 6 \in J /\ b \in Nat
    BY <1>1, <1>5, <1>6
  <2> HIDE DEF J
  <2>2. e \in J /\ 6 <= e
    BY <2>1, FirstAndLast
  <2> HIDE DEF e
  <2>3. e \in 1..b
    BY <2>1, <2>2
  <2> QED
    BY <2>1, <2>2, <2>3
<1>8. Trimmed(t) = SubSeq(t, 1, e)
  <2>1. 6 \in J
    BY <1>5, <1>6
  <2> QED
    BY <2>1 DEF Trimmed, SelectLastInSeq
<1> HIDE DEF e, J
<1>9. 5 \in DOMAIN Trimmed(t) /\ Trimmed(t)[5] = NEWLINE
  <2>1. e \in 0..Len(t) /\ 5 \in 1..e
    BY <1>1, <1>5, <1>6, <1>7
  <2> QED
    BY <1>6, <1>8, <2>1, Beginning
<1> QED
  BY <1>9, AlphabetIsPlain DEF Decodes, t

-----------------------------------------------------------------------------
(* What the file holds *)

\* The history of the file: it is the text of the bytes sent, in some dialect, or a
\* beginning of it; and all of it if it was not cut.
History ==
    IF sent = <<>> THEN file = <<>>
    ELSE /\ sent \in Payloads
         /\ Reads(file, sent) \/ (wrapped /\ Broken(file, sent))
         /\ ~cut => IF wrapped THEN Broken(file, sent)
                    ELSE /\ Reads(file, sent) /\ Len(file) >= Chars(Len(sent))
                         /\ file[Chars(Len(sent))] # NEWLINE

\* How many characters there are at least.
LEMMA ManyChars ==
    ASSUME NEW n \in Nat
    PROVE  Chars(n) \in Nat /\ (n >= 1 => Chars(n) >= 2) /\ (n >= 4 => Chars(n) >= 6)
<1> DEFINE q == n \div 3
           r == n % 3
<1>1. q \in Nat /\ r \in 0..2 /\ n = 3 * q + r
  OBVIOUS
<1>2. Chars(n) = 4 * q + (IF r = 0 THEN 0 ELSE r + 1)
  BY DEF Chars
<1> HIDE DEF q, r
<1> QED
  BY <1>1, <1>2

\* The characters of the encoding say what they should.
LEMMA EncodingSpells ==
    ASSUME NEW bytes \in Seq(Byte), bytes # <<>>
    PROVE  LET text == Encode(bytes)
               C    == Chars(Len(bytes))
           IN  /\ text \in Seq(Byte) /\ Len(text) = B64Len(Len(bytes)) /\ Len(text) \in Nat
               /\ C \in 1..Len(text) /\ C \in Nat
               /\ \A i \in 1..Len(text) : Carries(text, bytes, i)
<1> DEFINE text == Encode(bytes)
           C == Chars(Len(bytes))
<1>1. Len(bytes) \in Nat /\ Len(bytes) >= 1
  BY EmptySeq
<1>2. /\ text \in Seq(Byte) /\ Len(text) = B64Len(Len(bytes))
      /\ \A o \in 1..C : Spells(text, bytes, o)
      /\ \A o \in C + 1..Len(text) : text[o] = PAD
  BY EncodedText, ValEnc DEF Spells
<1>3. C \in Nat /\ C <= Len(text) /\ Len(text) \in Nat
  BY <1>1, <1>2, Lengths
<1>4. C >= 1
  <2>1. C >= 2
    BY <1>1, ManyChars
  <2> HIDE DEF C
  <2> QED
    BY <1>3, <2>1
<1> HIDE DEF C, text
<1>5. \A i \in 1..Len(text) : Carries(text, bytes, i)
  BY <1>2, <1>3 DEF Carries, C
<1> QED
  BY <1>2, <1>3, <1>4, <1>5 DEF C, text

\* As many characters as hold a bit are all that is left without padding.
LEMMA BareChars ==
    ASSUME NEW n \in Nat
    PROVE  (8 * n + 5) \div 6 = Chars(n)
<1> DEFINE q == n \div 3
           r == n % 3
<1>1. q \in Nat /\ r \in 0..2 /\ n = 3 * q + r
  OBVIOUS
<1>2. Chars(n) = 4 * q + (IF r = 0 THEN 0 ELSE r + 1)
  BY DEF Chars
<1> HIDE DEF q, r
<1> QED
  BY <1>1, <1>2

\* The URL-safe alphabet means the same.
LEMMA UrlSafeChar ==
    ASSUME NEW c \in Alphabet
    PROVE  LET u == CASE c = 43 -> 45 [] c = 47 -> 95 [] OTHER -> c
           IN  u \in Alphabet /\ Val(u) = Val(c)
<1>1. CASE c = 43
  BY <1>1 DEF Alphabet, Val
<1>2. CASE c = 47
  BY <1>2 DEF Alphabet, Val
<1>3. CASE c # 43 /\ c # 47
  BY <1>3
<1> QED
  BY <1>1, <1>2, <1>3

\* Every dialect but the broken lines is read; the broken lines are not.
LEMMA DialectsRead ==
    ASSUME NEW bytes \in Payloads, NEW text,
           text \in {Encode(bytes), Bare(bytes), UrlSafe(Encode(bytes)), Append(Encode(bytes), NEWLINE)}
    PROVE  /\ Reads(text, bytes) /\ Len(text) >= Chars(Len(bytes))
           /\ text[Chars(Len(bytes))] # NEWLINE
<1> DEFINE std == Encode(bytes)
           C == Chars(Len(bytes))
           n == Len(std)
<1>1. bytes \in Seq(Byte) /\ bytes # <<>> /\ Len(bytes) \in Nat
  BY ExchangeAssumption
<1>2. /\ std \in Seq(Byte) /\ n \in Nat /\ C \in 1..n /\ C \in Nat
      /\ \A i \in 1..n : Carries(std, bytes, i)
  BY <1>1, EncodingSpells
<1> HIDE DEF std, C
<1>3. \A i \in 1..C : Spells(std, bytes, i)
  BY <1>2 DEF Carries, C
<1>4. std[C] # NEWLINE
  BY <1>2, <1>3, AlphabetIsPlain DEF Spells
<1>5. CASE text = std
  BY <1>2, <1>4, <1>5 DEF Reads, C
<1>6. CASE text = Bare(bytes)
  <2>1. text = SubSeq(std, 1, C)
    BY <1>1, <1>6, BareChars DEF Bare, std, C
  <2>2. Len(text) = C /\ \A i \in 1..C : text[i] = std[i]
    BY <1>2, <2>1, Beginning
  <2>3. \A i \in 1..C : Carries(text, bytes, i)
    BY <1>3, <2>2 DEF Carries, Spells, C
  <2> QED
    BY <1>2, <1>4, <2>2, <2>3 DEF Reads, C
<1>7. CASE text = UrlSafe(std)
  <2>1. DOMAIN text = 1..n /\ Len(text) = n
    BY <1>2, <1>7 DEF UrlSafe
  <2>2. ASSUME NEW i \in 1..n
        PROVE  /\ Carries(text, bytes, i)
               /\ i <= C => text[i] # NEWLINE
    <3>1. text[i] = CASE std[i] = 43 -> 45 [] std[i] = 47 -> 95 [] OTHER -> std[i]
      BY <1>2, <1>7 DEF UrlSafe
    <3>2. CASE i <= C
      <4>1. Spells(std, bytes, i)
        BY <1>3, <3>2
      <4>2. text[i] \in Alphabet /\ Val(text[i]) = Val(std[i])
        BY <3>1, <4>1, UrlSafeChar DEF Spells
      <4> QED
        BY <3>2, <4>1, <4>2, AlphabetIsPlain DEF Carries, Spells, C
    <3>3. CASE ~(i <= C)
      <4>1. std[i] = PAD
        BY <1>2, <3>3 DEF Carries, C
      <4>2. text[i] = PAD
        BY <3>1, <4>1 DEF PAD
      <4> QED
        BY <3>3, <4>2 DEF Carries, C
    <3> QED
      BY <3>2, <3>3
  <2>3. text[C] # NEWLINE
    BY <1>2, <2>2
  <2>4. Reads(text, bytes)
    BY <2>1, <2>2 DEF Reads
  <2>5. Len(text) >= C
    <3>1. C <= n
      BY <1>2
    <3>2. Len(text) = n
      BY <2>1
    <3> QED
      BY <1>2, <3>1, <3>2
  <2> QED
    BY <2>3, <2>4, <2>5 DEF C
<1>8. CASE text = Append(std, NEWLINE)
  <2>1. Len(text) = n + 1 /\ text[n + 1] = NEWLINE /\ \A i \in 1..n : text[i] = std[i]
    BY <1>2, <1>8
  <2>2. \A i \in 1..n : Carries(text, bytes, i)
    BY <1>2, <2>1 DEF Carries, Spells
  <2>3. n + 1 > 1
    BY <1>2
  <2> QED
    BY <1>2, <1>4, <2>1, <2>2, <2>3 DEF Reads, C
<1> QED
  BY <1>5, <1>6, <1>7, <1>8 DEF std

\* Broken into lines, the second one begins with a character.
LEMMA WrappedBreaks ==
    ASSUME NEW bytes \in Payloads, Len(Encode(bytes)) > 4
    PROVE  Broken(Wrapped(Encode(bytes)), bytes)
<1> DEFINE std == Encode(bytes)
           C == Chars(Len(bytes))
           n == Len(std)
           text == Wrapped(std)
<1>1. bytes \in Seq(Byte) /\ bytes # <<>> /\ Len(bytes) \in Nat
  BY ExchangeAssumption
<1>2. /\ std \in Seq(Byte) /\ n = B64Len(Len(bytes)) /\ n \in Nat /\ C \in 1..n /\ C \in Nat
      /\ \A i \in 1..n : Carries(std, bytes, i)
  BY <1>1, EncodingSpells
<1>3. C >= 6
  <2>1. Len(bytes) >= 4
    BY <1>1, <1>2 DEF B64Len
  <2> QED
    BY <1>1, <2>1, ManyChars
<1> HIDE DEF std, C
<1>4. n >= 6
  BY <1>2, <1>3
<1>5. \A i \in 1..6 : Spells(std, bytes, i)
  BY <1>2, <1>3 DEF Carries, C
<1>6. /\ Len(text) = n + 1 /\ text[5] = NEWLINE /\ text[6] = std[5]
      /\ \A i \in 1..4 : text[i] = std[i]
  <2> DEFINE a == SubSeq(std, 1, 4)
             z == SubSeq(std, 5, n)
             front == a \o <<NEWLINE>>
  <2>1. a \in Seq(Byte) /\ Len(a) = 4 /\ \A i \in 1..4 : a[i] = std[i]
    <3>1. 4 \in 0..n
      BY <1>4, <1>2
    <3> QED
      BY <1>2, <3>1, Beginning
  <2>2. z \in Seq(Byte) /\ Len(z) = n - 5 + 1
    <3>1. n \in 0..n /\ 5 <= n
      BY <1>2, <1>4
    <3> QED
      BY <1>2, <3>1, Piece
  <2>3. z[1] = std[5]
    BY <1>2, <1>4
  <2>4. text = front \o z
    BY DEF Wrapped
  <2> HIDE DEF a, z, text
  <2>5. <<NEWLINE>> \in Seq(Byte) /\ Len(<<NEWLINE>>) = 1 /\ <<NEWLINE>>[1] = NEWLINE
    BY AlphabetIsPlain
  <2>6. /\ front \in Seq(Byte) /\ Len(front) = 5 /\ front[5] = NEWLINE
        /\ \A i \in 1..4 : front[i] = std[i]
    <3> DEFINE nl == <<NEWLINE>>
    <3>1. nl \in Seq(Byte) /\ Len(nl) = 1 /\ nl[1] = NEWLINE
      BY <2>5
    <3> HIDE DEF nl
    <3>2. /\ front \in Seq(Byte) /\ Len(front) = Len(a) + Len(nl)
          /\ \A i \in 1..Len(a) + Len(nl) :
                front[i] = IF i <= Len(a) THEN a[i] ELSE nl[i - Len(a)]
      BY <2>1, <3>1, ConcatProperties DEF nl
    <3> QED
      BY <2>1, <3>1, <3>2
  <2> HIDE DEF front
  <2>7. Len(text) = 5 + Len(z) /\ text[6] = z[1] /\ \A i \in 1..5 : text[i] = front[i]
    <3>1. Len(z) \in Nat /\ Len(z) >= 1
      BY <1>2, <1>4, <2>2
    <3>2. /\ Len(text) = Len(front) + Len(z)
          /\ \A i \in 1..Len(front) + Len(z) :
                text[i] = IF i <= Len(front) THEN front[i] ELSE z[i - Len(front)]
      BY <2>2, <2>4, <2>6, ConcatProperties
    <3> QED
      BY <2>6, <3>1, <3>2
  <2> QED
    BY SMTT(30), <1>2, <2>2, <2>3, <2>6, <2>7
<1> QED
  BY <1>2, <1>3, <1>4, <1>5, <1>6 DEF Broken, Spells, std, C

\* A text of the host that loses its end is still the beginning of one, or is cut behind
\* its first line, and then reads as a text again.
LEMMA CutShort ==
    ASSUME NEW text \in Seq(Byte), text # <<>>, NEW bytes \in Seq(Byte)
    PROVE  /\ Reads(text, bytes) => Reads(Front(text), bytes)
           /\ Broken(text, bytes) => Reads(Front(text), bytes) \/ Broken(Front(text), bytes)
<1> DEFINE n == Len(text)
           s == Front(text)
<1>1. n \in Nat /\ n >= 1
  BY EmptySeq
<1>2. Len(s) = n - 1 /\ \A i \in 1..n - 1 : s[i] = text[i]
  <2>1. n - 1 \in 0..n
    BY <1>1
  <2> QED
    BY <1>1, <2>1, Beginning DEF Front
<1> HIDE DEF s
<1>3. ASSUME Reads(text, bytes)
      PROVE  Reads(s, bytes)
  <2>1. ASSUME NEW i \in 1..n - 1
        PROVE  Carries(s, bytes, i)
    <3>1. i \in 1..n /\ i # n
      BY <1>1
    <3>2. Carries(text, bytes, i)
      BY <1>3, <3>1 DEF Reads
    <3> QED
      BY <1>2, <3>2 DEF Carries, Spells
  <2> QED
    BY <1>2, <2>1 DEF Reads
<1>4. ASSUME Broken(text, bytes), n = 6
      PROVE  Reads(s, bytes)
  <2>1. Chars(Len(bytes)) \in Nat
    BY ManyChars
  <2>2. \A i \in 1..4 : Carries(s, bytes, i)
    BY SMTT(30), <1>2, <1>4, <2>1 DEF Broken, Carries, Spells
  <2>3. s[5] = NEWLINE /\ Len(s) = 5
    BY <1>2, <1>4 DEF Broken
  <2>4. \A i \in 1..5 : i \in 1..4 \/ i = 5
    OBVIOUS
  <2> QED
    BY <2>2, <2>3, <2>4 DEF Reads
<1>5. ASSUME Broken(text, bytes), n # 6
      PROVE  Broken(s, bytes)
  <2>1. n >= 7
    <3>1. n >= 6
      BY <1>5 DEF Broken
    <3>2. n # 6 /\ n \in Nat
      BY <1>1, <1>5
    <3> HIDE DEF n
    <3> QED
      BY <3>1, <3>2
  <2>2. Len(s) >= 6 /\ \A i \in 1..6 : s[i] = text[i]
    BY <1>1, <1>2, <2>1
  <2> QED
    BY <1>5, <2>2 DEF Broken, Spells
<1> QED
  BY <1>3, <1>4, <1>5 DEF s

\* The history holds at the start.
LEMMA InitHistory == Init => History
BY DEF Init, History

\* Every step keeps it.
LEMMA NextHistory == EInv /\ History /\ [Next]_vars => History'
<1> SUFFICES ASSUME EInv, History, [Next]_vars
             PROVE  History'
  OBVIOUS
<1>1. ASSUME NEW bytes \in Payloads, Export(bytes)
      PROVE  History'
  <2>1. sent' = bytes /\ cut' = FALSE /\ bytes # <<>>
    BY <1>1, ExchangeAssumption DEF Export
  <2>2. CASE /\ file' \in {Encode(bytes), Bare(bytes), UrlSafe(Encode(bytes)),
                           Append(Encode(bytes), NEWLINE)}
             /\ wrapped' = FALSE
    BY <2>1, <2>2, DialectsRead DEF History
  <2>3. CASE /\ Len(Encode(bytes)) > 4 /\ file' = Wrapped(Encode(bytes))
             /\ wrapped' = TRUE
    BY <2>1, <2>3, WrappedBreaks DEF History
  <2> QED
    BY <1>1, <2>2, <2>3 DEF Export
<1>2. ASSUME Truncate
      PROVE  History'
  <2>1. /\ file \in Seq(Byte) /\ file # <<>> /\ file' = Front(file) /\ cut' = TRUE
        /\ sent' = sent /\ wrapped' = wrapped
    BY <1>2 DEF Truncate, EInv, TypeOK
  <2>2. sent # <<>> /\ sent \in Payloads /\ sent \in Seq(Byte)
    BY <2>1, ExchangeAssumption DEF History
  <2> QED
    BY <2>1, <2>2, CutShort DEF History
<1>3. ASSUME UNCHANGED hostVars
      PROVE  History'
  BY <1>3 DEF hostVars, History
<1> QED
  BY <1>1, <1>2, <1>3 DEF Next, LoadPsbt, DoSign, SignWithout, BackHome, vars

\* The file holds what was sent to it, in every state.
LEMMA FileHoldsWhatWasSent == Spec => [](EInv /\ History)
BY InitBuffers, NextBuffers, InitHistory, NextHistory, PTL DEF Spec

\* What the wallet finds in a file.
Loaded ==
    /\ psbt' # None => IsPrefix(psbt', sent) /\ (cut \/ psbt' = sent)
    /\ ~cut => (psbt' # None <=> Parses(sent) /\ Len(sent) <= MAX_PSBT_RAW /\ ~wrapped)

\* One load.
LEMMA LoadReads == EInv /\ History /\ LoadPsbt => Loaded
<1> SUFFICES ASSUME EInv, History, LoadPsbt
             PROVE  Loaded
  OBVIOUS
<1> DEFINE text == Trim(file)
           good == Decodes(text, MAX_PSBT_RAW) /\ Parses(Decode(text))
           n == Len(sent)
           m == DecodedLen(Held(file, sent))
<1>1. /\ psbt = None /\ file \in Seq(Byte) /\ file # <<>>
      /\ psbt' = IF good THEN Decode(text) ELSE None
  <2>1. app = "SignScan" /\ text # <<>> /\ psbt' = IF good THEN Decode(text) ELSE psbt
    BY DEF LoadPsbt, Readable
  <2>2. psbt = None /\ file \in Seq(Byte)
    BY <2>1 DEF EInv, TypeOK
  <2>3. file # <<>>
    <3> SUFFICES Trim(<<>>) = <<>>
      BY <2>1
    <3>1. DOMAIN <<>> = {} /\ ToSet(<<>>) = {<<>>[i] : i \in DOMAIN <<>>}
      BY DEF ToSet
    <3>2. ToSet(<<>>) \subseteq {NEWLINE}
      BY <3>1
    <3> QED
      BY <3>2 DEF Trim
  <2> QED
    BY <2>1, <2>2, <2>3
<1>2. sent \in Seq(Byte) /\ sent # <<>> /\ n \in Nat /\ MAX_PSBT_RAW \in Nat
  BY <1>1, ExchangeAssumption DEF History
<1>3. good => psbt' # None
  BY <1>1, <1>2, TrimText, DecodedBytes, ExchangeAssumption
<1>4. Broken(file, sent) => ~good
  BY <1>1, BrokenIsRefused
<1>5. CASE ~Reads(file, sent)
  <2>1. wrapped /\ psbt' = None
    BY <1>1, <1>2, <1>4, <1>5 DEF History
  <2> QED
    BY <2>1 DEF Loaded
<1>6. CASE Reads(file, sent)
  <2>1. /\ Decodes(text, MAX_PSBT_RAW) <=> Held(file, sent) % 4 # 1 /\ m <= MAX_PSBT_RAW
        /\ Decodes(text, MAX_PSBT_RAW) => m \in 0..n /\ Decode(text) = [o \in 1..m |-> sent[o]]
    BY <1>1, <1>2, <1>6, ReadBack
  <2>2. psbt' # None => IsPrefix(psbt', sent)
    BY <1>1, <1>2, <2>1, PrefixOf
  <2>3. CASE cut
    BY <2>2, <2>3 DEF Loaded
  <2>4. CASE ~cut /\ wrapped
    <3>1. psbt' = None
      BY <1>1, <1>2, <1>4, <2>4 DEF History
    <3> QED
      BY <2>4, <3>1 DEF Loaded
  <2>5. CASE ~cut /\ ~wrapped
    <3>1. Held(file, sent) = Chars(n)
      <4> DEFINE C == Chars(n)
      <4>1. Len(file) >= C /\ file[C] # NEWLINE /\ C \in Nat /\ Len(file) \in Nat
        BY <1>1, <1>2, <2>5, Lengths DEF History
      <4> HIDE DEF C
      <4>2. End(file) >= C /\ End(file) \in Int
        <5>1. CASE file[Len(file)] = NEWLINE
          <6>1. Len(file) # C
            BY <4>1, <5>1
          <6> QED
            BY <4>1, <5>1, <6>1 DEF End
        <5>2. CASE file[Len(file)] # NEWLINE
          BY <4>1, <5>2 DEF End
        <5> QED
          BY <5>1, <5>2
      <4> QED
        BY <4>1, <4>2 DEF Held, C
    <3>2. Chars(n) % 4 # 1 /\ m = n
      BY <1>2, <3>1, Lengths
    <3>3. Decodes(text, MAX_PSBT_RAW) <=> n <= MAX_PSBT_RAW
      BY <2>1, <3>1, <3>2
    <3>4. Decodes(text, MAX_PSBT_RAW) => Decode(text) = sent
      BY <1>2, <2>1, <3>2, PrefixOf
    <3>5. psbt' # None <=> Parses(sent) /\ n <= MAX_PSBT_RAW
      BY <1>1, <1>3, <3>3, <3>4
    <3>6. psbt' # None => psbt' = sent
      BY <1>1, <3>4
    <3> QED
      BY <2>2, <2>5, <3>5, <3>6 DEF Loaded
  <2> QED
    BY <1>1, <2>3, <2>4, <2>5
<1> QED
  BY <1>5, <1>6

\* A PSBT in hand is what the host exported, to the byte, in every dialect; a file cut
\* short yields a beginning and never other bytes, and a whole one is turned down only
\* if it is no PSBT, too large, or broken into lines (read_psbt_file, load_psbt and
\* base64.rs): for payloads and capacities of any size.
THEOREM LoadIsFaithful == Spec => LoadsWhatWasSent
<1>1. ASSUME EInv, History, [Next]_vars
      PROVE  [LoadPsbt => Loaded]_vars
  BY <1>1, LoadReads
<1>2. (LoadPsbt => Loaded) <=>
         (LoadPsbt =>
             /\ psbt' # None => IsPrefix(psbt', sent) /\ (cut \/ psbt' = sent)
             /\ ~cut => (psbt' # None <=> Parses(sent) /\ Len(sent) <= MAX_PSBT_RAW /\ ~wrapped))
  BY DEF Loaded
<1> QED
  BY <1>1, <1>2, FileHoldsWhatWasSent, PTL DEF Spec, LoadsWhatWasSent

-----------------------------------------------------------------------------
(* Bit for bit *)

\* Where the bits of four characters are in three octets.
Spread(a, b, c, d) ==
    /\ \A k \in 3..8 : Bit(Octet(0, a, b, c, d), k) = Bit(a, k - 2)
    /\ \A k \in 1..2 : Bit(Octet(0, a, b, c, d), k) = Bit(b, k + 4)
    /\ \A k \in 5..8 : Bit(Octet(1, a, b, c, d), k) = Bit(b, k - 4)
    /\ \A k \in 1..4 : Bit(Octet(1, a, b, c, d), k) = Bit(c, k + 2)
    /\ \A k \in 7..8 : Bit(Octet(2, a, b, c, d), k) = Bit(c, k - 6)
    /\ \A k \in 1..6 : Bit(Octet(2, a, b, c, d), k) = Bit(d, k)

\* The shifts of decode put them there.
LEMMA OctetBits ==
    ASSUME NEW a \in 0..63, NEW b \in 0..63, NEW c \in 0..63, NEW d \in 0..63
    PROVE  Spread(a, b, c, d)
<1>1. \A k \in 3..8 : Bit(Octet(0, a, b, c, d), k) = Bit(a, k - 2)
  <2> DEFINE h == b \div 16
  <2>1. h \in 0..3
    OBVIOUS
  <2> DEFINE v == a * 4 + h
  <2>2. Octet(0, a, b, c, d) = v /\ v \in 0..255
    BY <2>1 DEF Octet
  <2>3. Bit(v, 3) = Bit(a, 1)
    BY <2>1 DEF Bit
  <2>4. Bit(v, 4) = Bit(a, 2)
    BY <2>1 DEF Bit
  <2>5. Bit(v, 5) = Bit(a, 3)
    BY <2>1 DEF Bit
  <2>6. Bit(v, 6) = Bit(a, 4)
    BY <2>1 DEF Bit
  <2>7. Bit(v, 7) = Bit(a, 5)
    BY <2>1 DEF Bit
  <2>8. Bit(v, 8) = Bit(a, 6)
    BY <2>1 DEF Bit
  <2> QED
    BY <2>2, <2>3, <2>4, <2>5, <2>6, <2>7, <2>8
<1>2. \A k \in 1..2 : Bit(Octet(0, a, b, c, d), k) = Bit(b, k + 4)
  <2>2. Octet(0, a, b, c, d) = a * 4 + b \div 16
    BY DEF Octet
  <2>3. Bit(a * 4 + b \div 16, 1) = Bit(b, 5)
    BY DEF Bit
  <2>4. Bit(a * 4 + b \div 16, 2) = Bit(b, 6)
    BY DEF Bit
  <2> QED
    BY <2>2, <2>3, <2>4
<1>3. \A k \in 5..8 : Bit(Octet(1, a, b, c, d), k) = Bit(b, k - 4)
  <2> DEFINE h == b % 16
             l == c \div 4
             v == 16 * h + l
  <2>1. h \in 0..15 /\ l \in 0..15 /\ b = 16 * (b \div 16) + h
    OBVIOUS
  <2>2. Octet(1, a, b, c, d) = v
    BY DEF Octet
  <2> HIDE DEF l
  <2>3. Bit(v, 5) = Bit(b, 1)
    BY <2>1 DEF Bit
  <2>4. Bit(v, 6) = Bit(b, 2)
    BY <2>1 DEF Bit
  <2>5. Bit(v, 7) = Bit(b, 3)
    BY <2>1 DEF Bit
  <2>6. Bit(v, 8) = Bit(b, 4)
    BY <2>1 DEF Bit
  <2> QED
    BY <2>2, <2>3, <2>4, <2>5, <2>6
<1>4. \A k \in 1..4 : Bit(Octet(1, a, b, c, d), k) = Bit(c, k + 2)
  <2> DEFINE h == b % 16
             v == 16 * h + c \div 4
  <2>1. h \in 0..15
    OBVIOUS
  <2>2. Octet(1, a, b, c, d) = v
    BY DEF Octet
  <2> HIDE DEF h
  <2>3. Bit(v, 1) = Bit(c, 3)
    BY <2>1 DEF Bit
  <2>4. Bit(v, 2) = Bit(c, 4)
    BY <2>1 DEF Bit
  <2>5. Bit(v, 3) = Bit(c, 5)
    BY <2>1 DEF Bit
  <2>6. Bit(v, 4) = Bit(c, 6)
    BY <2>1 DEF Bit
  <2> QED
    BY <2>2, <2>3, <2>4, <2>5, <2>6
<1>5. \A k \in 7..8 : Bit(Octet(2, a, b, c, d), k) = Bit(c, k - 6)
  <2> DEFINE v == 64 * (c % 4) + d
  <2>1. Octet(2, a, b, c, d) = v
    BY DEF Octet
  <2>2. Bit(v, 7) = Bit(c, 1)
    BY DEF Bit
  <2>3. Bit(v, 8) = Bit(c, 2)
    BY DEF Bit
  <2> QED
    BY <2>1, <2>2, <2>3
<1>6. \A k \in 1..6 : Bit(Octet(2, a, b, c, d), k) = Bit(d, k)
  <2> DEFINE h == c % 4
             v == 64 * h + d
  <2>1. h \in 0..3
    OBVIOUS
  <2>2. Octet(2, a, b, c, d) = v
    BY DEF Octet
  <2> HIDE DEF h
  <2>3. Bit(v, 1) = Bit(d, 1)
    BY <2>1 DEF Bit
  <2>4. Bit(v, 2) = Bit(d, 2)
    BY <2>1 DEF Bit
  <2>5. Bit(v, 3) = Bit(d, 3)
    BY <2>1 DEF Bit
  <2>6. Bit(v, 4) = Bit(d, 4)
    BY <2>1 DEF Bit
  <2>7. Bit(v, 5) = Bit(d, 5)
    BY <2>1 DEF Bit
  <2>8. Bit(v, 6) = Bit(d, 6)
    BY <2>1 DEF Bit
  <2> QED
    BY <2>2, <2>3, <2>4, <2>5, <2>6, <2>7, <2>8
<1> QED
  BY <1>1, <1>2, <1>3, <1>4, <1>5, <1>6 DEF Spread

\* Character k of a group.
Fourth(k, a, b, c, d) == IF k = 0 THEN a ELSE IF k = 1 THEN b ELSE IF k = 2 THEN c ELSE d

\* Bit p of a group, in its octets and in its characters.
SameBit(p, a, b, c, d) ==
    Bit(Octet(p \div 8, a, b, c, d), 8 - (p % 8)) = Bit(Fourth(p \div 6, a, b, c, d), 6 - (p % 6))

\* It is the same bit.
LEMMA GroupBits ==
    ASSUME NEW a \in 0..63, NEW b \in 0..63, NEW c \in 0..63, NEW d \in 0..63, NEW p \in 0..23
    PROVE  SameBit(p, a, b, c, d)
<1> DEFINE m == p \div 8
           k == p \div 6
           u == 8 - (p % 8)
           w == 6 - (p % 6)
<1> SUFFICES Bit(Octet(m, a, b, c, d), u) = Bit(Fourth(k, a, b, c, d), w)
  BY DEF SameBit
<1>0. Spread(a, b, c, d)
  BY OctetBits
<1>1. CASE p \in 0..5
  <2>1. m = 0 /\ k = 0 /\ u \in 3..8 /\ w = u - 2
    BY <1>1
  <2>2. Fourth(k, a, b, c, d) = a
    BY <2>1 DEF Fourth
  <2> HIDE DEF m, k, u, w
  <2>3. Bit(Octet(0, a, b, c, d), u) = Bit(a, w)
    BY <1>0, <2>1 DEF Spread
  <2> QED
    BY <2>1, <2>2, <2>3
<1>2. CASE p \in 6..7
  <2>1. m = 0 /\ k = 1 /\ u \in 1..2 /\ w = u + 4
    BY <1>2
  <2>2. Fourth(k, a, b, c, d) = b
    BY <2>1 DEF Fourth
  <2> HIDE DEF m, k, u, w
  <2>3. Bit(Octet(0, a, b, c, d), u) = Bit(b, w)
    BY <1>0, <2>1 DEF Spread
  <2> QED
    BY <2>1, <2>2, <2>3
<1>3. CASE p \in 8..11
  <2>1. m = 1 /\ k = 1 /\ u \in 5..8 /\ w = u - 4
    BY <1>3
  <2>2. Fourth(k, a, b, c, d) = b
    BY <2>1 DEF Fourth
  <2> HIDE DEF m, k, u, w
  <2>3. Bit(Octet(1, a, b, c, d), u) = Bit(b, w)
    BY <1>0, <2>1 DEF Spread
  <2> QED
    BY <2>1, <2>2, <2>3
<1>4. CASE p \in 12..15
  <2>1. m = 1 /\ k = 2 /\ u \in 1..4 /\ w = u + 2
    BY <1>4
  <2>2. Fourth(k, a, b, c, d) = c
    BY <2>1 DEF Fourth
  <2> HIDE DEF m, k, u, w
  <2>3. Bit(Octet(1, a, b, c, d), u) = Bit(c, w)
    BY <1>0, <2>1 DEF Spread
  <2> QED
    BY <2>1, <2>2, <2>3
<1>5. CASE p \in 16..17
  <2>1. m = 2 /\ k = 2 /\ u \in 7..8 /\ w = u - 6
    BY <1>5
  <2>2. Fourth(k, a, b, c, d) = c
    BY <2>1 DEF Fourth
  <2> HIDE DEF m, k, u, w
  <2>3. Bit(Octet(2, a, b, c, d), u) = Bit(c, w)
    BY <1>0, <2>1 DEF Spread
  <2> QED
    BY <2>1, <2>2, <2>3
<1>6. CASE p \in 18..23
  <2>1. m = 2 /\ k = 3 /\ u \in 1..6 /\ w = u
    BY <1>6
  <2>2. Fourth(k, a, b, c, d) = d
    BY <2>1 DEF Fourth
  <2> HIDE DEF m, k, u, w
  <2>3. Bit(Octet(2, a, b, c, d), u) = Bit(d, w)
    BY <1>0, <2>1 DEF Spread
  <2> QED
    BY <2>1, <2>2, <2>3
<1> QED
  BY <1>1, <1>2, <1>3, <1>4, <1>5, <1>6

\* Where bit i is, in its group, its byte and its character.
LEMMA BitPlaces ==
    ASSUME NEW i \in Nat
    PROVE  LET j == i \div 24
               p == i % 24
           IN  /\ j \in Nat /\ p \in 0..23
               /\ i \div 8 = 3 * j + p \div 8 /\ i % 8 = p % 8 /\ p \div 8 \in 0..2
               /\ i \div 6 = 4 * j + p \div 6 /\ i % 6 = p % 6 /\ p \div 6 \in 0..3
<1> DEFINE j == i \div 24
           p == i % 24
           m == p \div 8
           k == p \div 6
<1>1. j \in Nat /\ p \in 0..23 /\ i = 24 * j + p
  OBVIOUS
<1> HIDE DEF j, p
<1>2. m \in 0..2 /\ p % 8 \in 0..7 /\ p = 8 * m + (p % 8)
  BY <1>1
<1>3. k \in 0..3 /\ p % 6 \in 0..5 /\ p = 6 * k + (p % 6)
  BY <1>1
<1>4. i \div 8 = 3 * j + m /\ i % 8 = p % 8
  BY <1>1, <1>2
<1>5. i \div 6 = 4 * j + k /\ i % 6 = p % 6
  BY <1>1, <1>3
<1> QED
  BY <1>1, <1>2, <1>3, <1>4, <1>5 DEF j, p

\* Less than one character is left over.
LEMMA LeftOver ==
    ASSUME NEW L \in Nat, L % 4 # 1
    PROVE  DecodedLen(L) \in Nat /\ 6 * L - 8 * DecodedLen(L) \in 0..5
<1> DEFINE p == L \div 4
           s == L % 4
<1>1. p \in Nat /\ s \in {0, 2, 3} /\ L = 4 * p + s
  OBVIOUS
<1>2. DecodedLen(L) = 3 * p + (IF s = 0 THEN 0 ELSE s - 1)
  BY DEF DecodedLen
<1> HIDE DEF p, s
<1> QED
  BY <1>1, <1>2

\* Decoding any text is bit for bit.
LEMMA DecodeBits ==
    ASSUME NEW text \in Seq(Byte), NEW capacity, Decodes(text, capacity)
    PROVE  LET bytes  == Decode(text)
               values == [i \in DOMAIN Trimmed(text) |-> Val(text[i])]
           IN  /\ \A i \in 0..8 * Len(bytes) - 1 : BitOf(bytes, i, 8) = BitOf(values, i, 6)
               /\ 6 * Len(values) - 8 * Len(bytes) \in 0..5
<1> DEFINE t == Trimmed(text)
           L == Len(t)
           len == DecodedLen(L)
           bytes == Decode(text)
           values == [i \in DOMAIN t |-> Val(text[i])]
           at(i) == IF i \in DOMAIN t THEN Val(t[i]) ELSE 0
<1>1. t \in Seq(Byte) /\ L \in Nat /\ DOMAIN t = 1..L /\ \A i \in 1..L : t[i] = text[i]
  <2> DEFINE I == {i \in 1..Len(text) : text[i] # PAD}
             last == IF I # {} THEN Max(I) ELSE 0
  <2>1. t = SubSeq(text, 1, last)
    BY DEF Trimmed, SelectLastInSeq
  <2>2. last \in 0..Len(text)
    <3>1. I \in SUBSET (1..Len(text)) /\ Len(text) \in Nat
      OBVIOUS
    <3> HIDE DEF I
    <3>2. CASE I = {}
      BY <3>1, <3>2
    <3>3. CASE I # {}
      <4>1. Max(I) \in I
        BY <3>1, <3>3, FirstAndLast
      <4>2. Max(I) \in 1..Len(text)
        BY <3>1, <4>1, Zenon
      <4>3. last = Max(I)
        BY <3>3
      <4> HIDE DEF last
      <4>4. last \in 1..Len(text)
        BY <4>2, <4>3
      <4> QED
        BY <4>4
    <3> QED
      BY <3>2, <3>3
  <2> HIDE DEF last, t
  <2> QED
    BY <2>1, <2>2, Beginning
<1>2. /\ \A i \in DOMAIN t : t[i] \in Alphabet
      /\ L % 4 # 1
  BY DEF Decodes
<1> HIDE DEF t
<1>3. len \in Nat /\ 6 * L - 8 * len \in 0..5
  BY <1>1, <1>2, LeftOver
<1>4. bytes = [o \in 1..len |->
                 LET g == 4 * ((o - 1) \div 3)
                 IN  Octet((o - 1) % 3, at(g + 1), at(g + 2), at(g + 3), at(g + 4))]
  BY DEF Decode, t
<1>5. \A i : at(i) \in 0..63
  BY <1>2, ValRange
<1>6. \A i \in 1..L : values[i] = at(i)
  BY <1>1
<1>7. Len(values) = L
  BY <1>1
<1> HIDE DEF L, len, bytes, values, at
<1>8. Len(bytes) = len
  BY <1>3, <1>4
<1>9. ASSUME NEW i \in 0..8 * len - 1
      PROVE  BitOf(bytes, i, 8) = BitOf(values, i, 6)
  <2> DEFINE j == i \div 24
             p == i % 24
             m == p \div 8
             k == p \div 6
             o == i \div 8 + 1
             e == i \div 6 + 1
  <2>1. i \in Nat /\ i < 8 * len
    BY <1>3
  <2>2. /\ j \in Nat /\ p \in 0..23 /\ m \in 0..2 /\ k \in 0..3
        /\ o = 3 * j + m + 1 /\ i % 8 = p % 8
        /\ e = 4 * j + k + 1 /\ i % 6 = p % 6
    <3>1. /\ i \div 8 = 3 * j + m /\ i \div 6 = 4 * j + k
          /\ j \in Nat /\ p \in 0..23 /\ m \in 0..2 /\ k \in 0..3
          /\ i % 8 = p % 8 /\ i % 6 = p % 6
      BY <2>1, BitPlaces
    <3> HIDE DEF j, p, m, k
    <3> QED
      BY <3>1
  <2>3. o \in 1..len /\ e \in 1..L
    BY <1>1, <1>3, <2>1
  <2> DEFINE a == at(4 * j + 1)
             b == at(4 * j + 2)
             c == at(4 * j + 3)
             d == at(4 * j + 4)
  <2> HIDE DEF j, o, e
  <2>4. bytes[o] = Octet(m, a, b, c, d)
    <3>1. (o - 1) \div 3 = j /\ (o - 1) % 3 = m
      <4> HIDE DEF m
      <4> QED
        BY <2>2
    <3> HIDE DEF m
    <3> QED
      BY <1>4, <2>3, <3>1
  <2>5. values[e] = Fourth(k, a, b, c, d)
    <3> HIDE DEF k
    <3>1. values[e] = at(4 * j + k + 1)
      BY <1>6, <2>2, <2>3
    <3>2. k = 0 \/ k = 1 \/ k = 2 \/ k = 3
      BY <2>2
    <3> QED
      BY <2>2, <3>1, <3>2 DEF Fourth
  <2>6. Bit(Octet(m, a, b, c, d), 8 - (p % 8)) = Bit(Fourth(k, a, b, c, d), 6 - (p % 6))
    <3>1. a \in 0..63 /\ b \in 0..63 /\ c \in 0..63 /\ d \in 0..63
      BY <1>5
    <3>2. p \in 0..23
      BY <2>2
    <3> HIDE DEF a, b, c, d, p
    <3>3. SameBit(p, a, b, c, d)
      BY <3>1, <3>2, GroupBits
    <3> QED
      BY <3>3 DEF SameBit
  <2>7. Bit(bytes[o], 8 - (i % 8)) = Bit(values[e], 6 - (i % 6))
    <3> HIDE DEF a, b, c, d, p, m, k
    <3> QED
      BY <2>2, <2>4, <2>5, <2>6
  <2> QED
    BY <2>7 DEF BitOf, o, e
<1> QED
  BY <1>3, <1>7, <1>8, <1>9 DEF L, len, bytes, values, t

\* Decoding what is in the folder keeps every bit and drops no character (decode of
\* base64.rs): whatever the text.
THEOREM EveryBitIsKept == Spec => []BitForBit
<1>1. EInv => BitForBit
  BY DecodeBits DEF EInv, TypeOK, BitForBit
<1> QED
  BY <1>1, BuffersHold, PTL
=============================================================================
