------------------------------ MODULE Mnemonic ------------------------------
(***************************************************************************)
(* The word list and the bits behind the words: the prefix search of a     *)
(* restore and the words shown (wallet-core/src/state/mnemonic.rs), and    *)
(* the way back from words to entropy (indices_to_entropy, derive.rs).     *)
(*                                                                         *)
(* A word is its index in the list, counted from 0; entropy is a sequence  *)
(* of bytes.  The sizes are parameters: 24 words of 11 bits and bytes of 8 *)
(* in the code.                                                            *)
(***************************************************************************)
EXTENDS Integers, Sequences, SequencesExt

CONSTANTS
    WordList,           \* the words in order, each a sequence of letters
    WORDS, WORD_BITS,   \* words of a mnemonic, bits of an index
    BYTE_BITS,
    Checksum(_)         \* first byte of the SHA-256 of an entropy

\* 2^n: the provers have no theory of the operator ^.
TwoTo(n) == LET power[i \in 0..n] == IF i = 0 THEN 1 ELSE 2 * power[i - 1] IN power[n]

Indices == 0..TwoTo(WORD_BITS) - 1
Bytes == 0..TwoTo(BYTE_BITS) - 1
\* The bytes of a mnemonic; the last one is the checksum of the others.
RAW_LEN == (WORDS * WORD_BITS) \div BYTE_BITS
AllEntropies == [1..RAW_LEN - 1 -> Bytes]

ASSUME SizesAssumption ==
    /\ {WORDS, WORD_BITS, BYTE_BITS} \subseteq Nat \ {0}
    /\ (WORDS * WORD_BITS) % BYTE_BITS = 0
ASSUME WordListAssumption == Len(WordList) = TwoTo(WORD_BITS)
ASSUME ChecksumAssumption == \A entropy \in AllEntropies : Checksum(entropy) \in Bytes

-----------------------------------------------------------------------------
(* The prefix search *)

\* How many words the strip has room for.
SUGGESTIONS == 3

\* The first words of the list, in its order, that are in a set.
FirstMatches(chosen) ==
    LET out[i \in 0..Len(WordList)] ==
            IF i = 0 THEN <<>>
            ELSE IF WordList[i] \in chosen /\ Len(out[i - 1]) < SUGGESTIONS
            THEN Append(out[i - 1], i - 1) ELSE out[i - 1]
    IN  out[Len(WordList)]

\* Mutant: a word typed out in full no longer matches itself.
FindLongerMatches(typed) ==
    IF typed = <<>> THEN <<>> ELSE FirstMatches({w \in ToSet(WordList) : IsStrictPrefix(typed, w)})
\* find_matches: nothing is suggested before the first letter.
FindMatches(typed) ==
    IF typed = <<>> THEN <<>> ELSE FirstMatches({w \in ToSet(WordList) : IsPrefix(typed, w)})

-----------------------------------------------------------------------------
(* Bits, most significant first *)

\* n >> k
Shifted(n, k) == LET half[i \in 0..k] == IF i = 0 THEN n ELSE half[i - 1] \div 2 IN half[k]
Bit(n, i, width) == Shifted(n, width - 1 - i) % 2

\* The number whose bits are bits[from], ..., bits[from + width - 1].
Number(bits, from, width) ==
    LET value[i \in 0..width] ==
            IF i = 0 THEN 0 ELSE 2 * value[i - 1] + bits[from + i - 1]
    IN  value[width]

\* The bits of a sequence of numbers of `width` bits, in one row from position 0 on,
\* and the numbers of `width` bits that such a row makes.
Bits(s, width) ==
    [pos \in 0..Len(s) * width - 1 |-> Bit(s[pos \div width + 1], pos % width, width)]
Numbers(bits, n, width) == [k \in 1..n |-> Number(bits, (k - 1) * width, width)]

\* Mutant: the words are packed as if an index had as many bits as a byte.
PackByteWise(indices) == [b \in 1..RAW_LEN |-> indices[b] % TwoTo(BYTE_BITS)]
\* The packing loop of indices_to_entropy: bit `bit` of word `word` goes to
\* position word * WORD_BITS + bit.
Pack(indices) == Numbers(Bits(indices, WORD_BITS), RAW_LEN, BYTE_BITS)

\* indices_to_entropy has an entropy to give only if its checksum is the last byte.
IsMnemonic(indices) == LET raw == Pack(indices) IN Last(raw) = Checksum(Front(raw))
IndicesToEntropy(indices) == Front(Pack(indices))

\* generate_words, by BIP39: the bits of the entropy and of its checksum, cut
\* into words.
GenerateWords(entropy) ==
    Numbers(Bits(Append(entropy, Checksum(entropy)), BYTE_BITS), WORDS, WORD_BITS)
=============================================================================
