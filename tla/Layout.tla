------------------------------- MODULE Layout -------------------------------
(***************************************************************************)
(* The touch screen: the areas of wallet-core/src/layout.rs, and the hit   *)
(* tests that turn a point into a key or a button (keyboard.rs,            *)
(* state/machine.rs, state/mnemonic.rs, and sd_row_at of the simulator).   *)
(*                                                                         *)
(* A point is <<x, y>>; an area is <<x, y, width, height>>, in pixels.  A  *)
(* hit table is the areas of one screen in the order the code tests them:  *)
(* the first that holds the point wins.                                    *)
(***************************************************************************)
EXTENDS Integers, Sequences, SequencesExt

CONSTANT None           \* Rust's None: the point is in no area of the table

SCREEN_W == 800
SCREEN_H == 480

InRect(p, r) ==
    /\ p[1] >= r[1] /\ p[1] < r[1] + r[3]
    /\ p[2] >= r[2] /\ p[2] < r[2] + r[4]

\* The hit tables are sequences of buttons: what a button is, and its area.
Button(label, area) == [label |-> label, area |-> area]

\* The first button of a table that holds a point, or 0.
HitAt(table, p) == SelectInSeq(table, LAMBDA b : InRect(p, b.area))
Hit(table, p) == LET i == HitAt(table, p) IN IF i = 0 THEN None ELSE table[i].label

\* The x of a row of n areas that is centred on the screen.
Centred(n, w, gap) == (SCREEN_W - (n * w + (n - 1) * gap)) \div 2

-----------------------------------------------------------------------------
(* Welcome, the pages of a mnemonic, Home, Settings, the SD list *)

WelcomeArea(y) == <<Centred(1, 300, 0), y, 300, 60>>
BtnNew == WelcomeArea(170)
BtnRestore == WelcomeArea(270)

NAV_BTN_W == 160
NavArea(x) == <<x, SCREEN_H - 70, NAV_BTN_W, 50>>
NavPrev == NavArea(40)
NavNext == NavArea(SCREEN_W - 40 - NAV_BTN_W)

HOME_BTN_W == 300
HOME_BTN_H == 140
HOME_GAP == 40
HomeArea(col, row) ==
    <<Centred(2, HOME_BTN_W, HOME_GAP) + col * (HOME_BTN_W + HOME_GAP),
      (SCREEN_H - (2 * HOME_BTN_H + HOME_GAP)) \div 2 + row * (HOME_BTN_H + HOME_GAP),
      HOME_BTN_W, HOME_BTN_H>>

SettingsArea(i) == <<Centred(1, 360, 0), 100 + i * 70, 360, 60>>

SIGN_VF_W == 400
SIGN_VF_Y == 70
SD_FILES_MAX == 4
SD_FILE_STEP == 70
SdFileY(row) == SIGN_VF_Y + 8 + row * SD_FILE_STEP
SdRow(row) == <<Centred(1, SIGN_VF_W, 0) + 10, SdFileY(row), SIGN_VF_W - 20, 60>>
SdList == <<SdRow(0)[1], SdFileY(0), SIGN_VF_W - 20, SD_FILE_STEP * SD_FILES_MAX>>

\* Mutant: the gaps between the rows belong to the row above.
SdRowAtGapless(p) ==
    IF InRect(p, SdList) THEN (p[2] - SdFileY(0)) \div SD_FILE_STEP ELSE None
\* The row of the list a point is in, or None; the gaps below the rows are none.
SdRowAt(p) ==
    LET row == (p[2] - SdFileY(0)) \div SD_FILE_STEP
    IN  IF InRect(p, SdList) /\ row < SD_FILES_MAX /\ InRect(p, SdRow(row))
        THEN row ELSE None

-----------------------------------------------------------------------------
(* The keyboard of keyboard.rs *)

ROW0 == <<"Q", "W", "E", "R", "T", "Y", "U", "I", "O", "P">>
ROW1 == <<"A", "S", "D", "F", "G", "H", "J", "K", "L">>
ROW2 == <<"Z", "X", "C", "V", "B", "N", "M">>
KeyRows == <<ROW0, ROW1, ROW2>>
Letters == UNION {ToSet(row) : row \in ToSet(KeyRows)}

KEY_W == 65
KEY_H == 45
KEY_GAP == 5
KEY_STEP == KEY_W + KEY_GAP
RowY(r) == 115 + r * (KEY_H + KEY_GAP)

\* The area of the key at index i of row r, counted from 0.
KeyArea(r, i) ==
    <<Centred(Len(KeyRows[r + 1]), KEY_W, KEY_GAP) + i * KEY_STEP, RowY(r), KEY_W, KEY_H>>
KeyRow(r) == [i \in 1..Len(KeyRows[r + 1]) |-> Button(KeyRows[r + 1][i], KeyArea(r, i - 1))]

SpaceArea(r) == <<200, RowY(r), 280, KEY_H>>
BkspArea(r) == <<510, RowY(r), 250, KEY_H>>

PP_BTN_W == 180
PpArea(x) == <<x, 390, PP_BTN_W, 50>>
PpSkip == PpArea(40)
PpConfirm == PpArea(SCREEN_W - 40 - PP_BTN_W)

\* Mutant: Backspace of the third row is tested before its letters.
KeyTableErasing ==
    KeyRow(0) \o KeyRow(1) \o <<Button("Backspace", BkspArea(2))>> \o KeyRow(2)
    \o <<Button("Space", SpaceArea(3)), Button("Backspace", BkspArea(3)),
         Button("Skip", PpSkip), Button("Confirm", PpConfirm)>>
\* passphrase_key_at: Backspace is on the third row too, behind its letters.
KeyTable ==
    KeyRow(0) \o KeyRow(1) \o KeyRow(2)
    \o <<Button("Backspace", BkspArea(2)), Button("Space", SpaceArea(3)),
         Button("Backspace", BkspArea(3)), Button("Skip", PpSkip),
         Button("Confirm", PpConfirm)>>
PassphraseKeyAt(p) == Hit(KeyTable, p)

-----------------------------------------------------------------------------
(* The PIN pad and the suggestions of a restore *)

PIN_KEYS == 10
PIN_KEY_W == 100
PIN_KEY_H == 80
PIN_KEY_GAP == 20
PIN_ROW0_Y == 140

SwapAt(s, i, j) == [s EXCEPT ![i] = s[j], ![j] = s[i]]

\* Mutant: a key is swapped only with a key before it, never left in place.
ShuffleStrict(draw) ==
    LET n == Len(draw)
        arr[k \in 0..n] ==
            IF k = 0 THEN [i \in 1..n + 1 |-> i - 1]
            ELSE SwapAt(arr[k - 1], n + 2 - k, (draw[n + 1 - k] % (n + 1 - k)) + 1)
    IN  arr[n]
\* shuffle: Fisher-Yates from the last key down, arr[k] being the keys after k swaps;
\* draw[i] is the number that the generator yields for key i.
Shuffle(draw) ==
    LET n == Len(draw)
        arr[k \in 0..n] ==
            IF k = 0 THEN [i \in 1..n + 1 |-> i - 1]
            ELSE SwapAt(arr[k - 1], n + 2 - k, (draw[n + 1 - k] % (n + 2 - k)) + 1)
    IN  arr[n]

\* pin_key_pos
PinKey(pos) ==
    <<Centred(5, PIN_KEY_W, PIN_KEY_GAP) + (pos % 5) * (PIN_KEY_W + PIN_KEY_GAP),
      IF pos \div 5 = 0 THEN PIN_ROW0_Y ELSE PIN_ROW0_Y + PIN_KEY_H + PIN_KEY_GAP,
      PIN_KEY_W, PIN_KEY_H>>
PinPad == [pos \in 0..PIN_KEYS - 1 |-> PinKey(pos)]
PinDel == <<40, 360, 200, 50>>

\* pin_digit_at: the position on the pad that holds a point, or None.
PinKeyAt(p) ==
    IF \E pos \in DOMAIN PinPad : InRect(p, PinPad[pos])
    THEN CHOOSE pos \in DOMAIN PinPad : InRect(p, PinPad[pos]) ELSE None

SUGGEST_W == 200
SUGGEST_GAP == 20
SuggestArea(i) ==
    <<Centred(3, SUGGEST_W, SUGGEST_GAP) + (i - 1) * (SUGGEST_W + SUGGEST_GAP), 78,
      SUGGEST_W, 37>>

\* The suggestion slot, 1 to 3, that holds a point, or None.
SuggestionAt(p) ==
    IF \E i \in 1..3 : InRect(p, SuggestArea(i))
    THEN CHOOSE i \in 1..3 : InRect(p, SuggestArea(i)) ELSE None
=============================================================================
