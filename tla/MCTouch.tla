------------------------------ MODULE MCTouch -------------------------------
(* A small instance of Touch.  Four words of two bits spelled with A and B,   *)
(* one word a prefix of three, and three of them sharing one more letter;     *)
(* bytes of three bits, so that no word is a byte.                            *)
EXTENDS TouchProperties

MCWordList == <<<<"A", "A">>, <<"A", "B">>, <<"A", "B", "A">>, <<"A", "B", "B">>>>
MCChecksum(entropy) == (5 * entropy[1] + 3) % 8
MCEntropies == {<<2>>, <<5>>}
\* A draw per key: one that moves every digit, one that moves none.
MCDraws == {<<0, 0, 0, 0, 0, 0, 0, 0, 0>>, <<1, 2, 3, 4, 5, 6, 7, 8, 9>>}

\* A point in every area, and one in none, chosen so that only two letters and two
\* keys of the pad are ever hit.
Quiet(p) == PassphraseKeyAt(p) \notin Letters \ {"A", "B"} /\ PinKeyAt(p) \in {None, 0, 9}
Inside(a) == {<<a[1] + 5 * i, a[2] + 5 * j>> : i \in 0..a[3] \div 5 - 1, j \in 0..a[4] \div 5 - 1}
KeyNamed(label) == KeyTable[SelectInSeq(KeyTable, LAMBDA b : b.label = label)].area

MCPoints ==
    {CHOOSE p \in Inside(a) : Quiet(p) :
        a \in {BtnNew, BtnRestore, NavPrev, NavNext, PinDel, PinKey(0), PinKey(9), SdRow(3)}
              \cup {HomeArea(col, row) : col, row \in 0..1}
              \cup {SettingsArea(i) : i \in 0..3} \cup {SuggestArea(i) : i \in 1..3}
              \cup {KeyNamed(k) : k \in {"A", "B", "Space", "Backspace", "Skip", "Confirm"}}}
    \cup {<<799, 0>>}
=============================================================================
