------------------------------- MODULE Base64 -------------------------------
(***************************************************************************)
(* The Base64 of wallet-core/src/base64.rs: text and bytes are sequences   *)
(* of numbers below 256, the characters by their ASCII codes.              *)
(***************************************************************************)
EXTENDS Integers, Sequences, SequencesExt

Byte == 0..255
PAD == 61               \* '='

\* b64_len (psbt.rs): the characters that n bytes take.
B64Len(n) == 4 * ((n + 2) \div 3)

\* ENC
Enc(v) ==
    CASE v < 26 -> v + 65
      [] v \in 26..51 -> v + 71
      [] v \in 52..61 -> v - 4
      [] v = 62 -> 43
      [] v = 63 -> 47

\* val: the alphabet, and the two characters the URL-safe one has instead.
Alphabet == (65..90) \cup (97..122) \cup (48..57) \cup {43, 45, 47, 95}
Val(c) ==
    CASE c \in 65..90 -> c - 65
      [] c \in 97..122 -> c - 71
      [] c \in 48..57 -> c + 4
      [] c \in {43, 45} -> 62
      [] c \in {47, 95} -> 63

-----------------------------------------------------------------------------
(* A group: three bytes, four characters.  The shifts of the code drop what  *)
(* leaves the six bits of a character or the eight of a byte.                *)

Char(k, a, b, c) ==
    CASE k = 0 -> Enc(a \div 4)
      [] k = 1 -> Enc((a * 16 + b \div 16) % 64)
      [] k = 2 -> Enc((b * 4 + c \div 64) % 64)
      [] k = 3 -> Enc(c % 64)

Octet(k, a, b, c, d) ==
    CASE k = 0 -> (a * 4 + b \div 16) % 256
      [] k = 1 -> (b * 16 + c \div 4) % 256
      [] k = 2 -> (c * 64 + d) % 256

\* encode: behind the last byte, characters of the last group take zeros for the
\* bytes they lack, and the ones that hold no bit of any byte are padding.
Encode(bytes) ==
    LET at(i) == IF i \in DOMAIN bytes THEN bytes[i] ELSE 0
    IN  [o \in 1..B64Len(Len(bytes)) |->
            LET g == 3 * ((o - 1) \div 4)
                k == (o - 1) % 4
            IN  IF g + k > Len(bytes) THEN PAD ELSE Char(k, at(g + 1), at(g + 2), at(g + 3))]

-----------------------------------------------------------------------------
(* decode *)

\* Mutant: one character of padding is stripped.
TrimmedOnce(text) ==
    IF text # <<>> /\ Last(text) = PAD THEN Front(text) ELSE text
\* The text without its trailing padding.
Trimmed(text) ==
    SubSeq(text, 1, SelectLastInSeq(text, LAMBDA c : c # PAD))

\* The bytes that n characters hold.
DecodedLen(n) == 3 * (n \div 4) + (IF n % 4 = 0 THEN 0 ELSE (n % 4) - 1)

\* Mutant: a character that is left over is dropped in silence.
DecodesLeftover(text, capacity) ==
    LET t == Trimmed(text)
    IN  /\ \A i \in DOMAIN t : t[i] \in Alphabet
        /\ DecodedLen(Len(t)) <= capacity
\* Mutant: the capacity is not looked at.
DecodesUnbounded(text, capacity) ==
    LET t == Trimmed(text)
    IN  /\ \A i \in DOMAIN t : t[i] \in Alphabet
        /\ Len(t) % 4 # 1
\* Whether decode has an answer, for an output buffer of that capacity.
Decodes(text, capacity) ==
    LET t == Trimmed(text)
    IN  /\ \A i \in DOMAIN t : t[i] \in Alphabet
        /\ Len(t) % 4 # 1
        /\ DecodedLen(Len(t)) <= capacity

\* The answer.
Decode(text) ==
    LET t == Trimmed(text)
        at(i) == IF i \in DOMAIN t THEN Val(t[i]) ELSE 0
    IN  [o \in 1..DecodedLen(Len(t)) |->
            LET g == 4 * ((o - 1) \div 3)
            IN  Octet((o - 1) % 3, at(g + 1), at(g + 2), at(g + 3), at(g + 4))]
=============================================================================
