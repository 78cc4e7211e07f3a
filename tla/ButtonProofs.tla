---------------------------- MODULE ButtonProofs ----------------------------
(***************************************************************************)
(* The buttons of every screen: what is drawn against what a tap does, for *)
(* any word list in alphabetical order and any sizes.  The areas are those *)
(* of layout.rs, so the lemmas about them are arithmetic.                  *)
(***************************************************************************)
EXTENDS TouchProofs, SequenceTheorems

-----------------------------------------------------------------------------
(* Hit tables *)

IsPoint(p) == p[1] \in Int /\ p[2] \in Int

\* The first area that holds the point is hit.
LEMMA FirstIsHit ==
    ASSUME NEW table, Len(table) \in Nat, NEW p, NEW k \in 1..Len(table),
           InRect(p, table[k].area), \A j \in 1..k - 1 : ~InRect(p, table[j].area)
    PROVE  HitAt(table, p) = k
<1> DEFINE hit == HitAt(table, p)
<1>1. k \in Hits(table, p)
  BY DEF Hits
<1>2. hit \in Hits(table, p) /\ \A j \in Hits(table, p) : hit <= j
  BY <1>1, HitsFirst
<1>3. hit \in 1..Len(table) /\ InRect(p, table[hit].area) /\ hit <= k
  BY <1>1, <1>2 DEF Hits
<1> HIDE DEF hit
<1>4. hit \notin 1..k - 1
  BY <1>3
<1>5. hit = k
  BY <1>3, <1>4
<1> QED
  BY <1>5 DEF hit

\* An area that is hit holds the point.
LEMMA HitHolds ==
    ASSUME NEW table, Len(table) \in Nat, NEW p
    PROVE  \/ HitAt(table, p) = 0 /\ \A k \in 1..Len(table) : ~InRect(p, table[k].area)
           \/ HitAt(table, p) \in 1..Len(table) /\ InRect(p, table[HitAt(table, p)].area)
              /\ HitAt(table, p) # 0
BY HitsFirst DEF Hits

-----------------------------------------------------------------------------
(* The keyboard *)

Keys(r) == IF r = 0 THEN 10 ELSE IF r = 1 THEN 9 ELSE 7
KeyX(r) == IF r = 0 THEN 52 ELSE IF r = 1 THEN 87 ELSE 157
Before(r) == IF r = 0 THEN 0 ELSE IF r = 1 THEN 10 ELSE 19

\* The keys of the three rows of letters, in pixels.
LEMMA RowsOfKeys ==
    /\ Len(ROW0) = 10 /\ Len(ROW1) = 9 /\ Len(ROW2) = 7
    /\ \A r \in 0..2 : /\ Len(KeyRows[r + 1]) = Keys(r) /\ Keys(r) \in 1..10
                       /\ \A i \in Int : KeyArea(r, i) = <<KeyX(r) + i * 70, 115 + r * 50, 65, 45>>
<1>1. Len(ROW0) = 10 /\ Len(ROW1) = 9 /\ Len(ROW2) = 7
  BY DEF ROW0, ROW1, ROW2
<1>2. KeyRows[1] = ROW0 /\ KeyRows[2] = ROW1 /\ KeyRows[3] = ROW2
  BY DEF KeyRows
<1>4. /\ Centred(10, KEY_W, KEY_GAP) = 52 /\ Centred(9, KEY_W, KEY_GAP) = 87
      /\ Centred(7, KEY_W, KEY_GAP) = 157
  BY DEF Centred, KEY_W, KEY_GAP, SCREEN_W
<1>5. KEY_STEP = 70 /\ KEY_W = 65 /\ KEY_H = 45 /\ \A r \in 0..2 : RowY(r) = 115 + r * 50
  BY DEF KEY_STEP, KEY_W, KEY_GAP, KEY_H, RowY
<1>6. ASSUME NEW r \in 0..2
      PROVE  /\ Len(KeyRows[r + 1]) = Keys(r) /\ Keys(r) \in 1..10
             /\ Centred(Len(KeyRows[r + 1]), KEY_W, KEY_GAP) = KeyX(r)
  <2>1. CASE r = 0
    <3>1. r + 1 = 1 /\ Keys(r) = 10 /\ KeyX(r) = 52
      BY <2>1 DEF Keys, KeyX
    <3>2. KeyRows[r + 1] = ROW0
      BY <1>2, <3>1
    <3>3. Len(KeyRows[r + 1]) = 10
      BY <1>1, <3>2
    <3> QED
      BY <1>4, <3>1, <3>3
  <2>2. CASE r = 1
    <3>1. r + 1 = 2 /\ Keys(r) = 9 /\ KeyX(r) = 87
      BY <2>2 DEF Keys, KeyX
    <3>2. KeyRows[r + 1] = ROW1
      BY <1>2, <3>1
    <3>3. Len(KeyRows[r + 1]) = 9
      BY <1>1, <3>2
    <3> QED
      BY <1>4, <3>1, <3>3
  <2>3. CASE r = 2
    <3>1. r + 1 = 3 /\ Keys(r) = 7 /\ KeyX(r) = 157
      BY <2>3 DEF Keys, KeyX
    <3>2. KeyRows[r + 1] = ROW2
      BY <1>2, <3>1
    <3>3. Len(KeyRows[r + 1]) = 7
      BY <1>1, <3>2
    <3> QED
      BY <1>4, <3>1, <3>3
  <2> QED
    BY <2>1, <2>2, <2>3
<1>7. ASSUME NEW r \in 0..2, NEW i \in Int
      PROVE  KeyArea(r, i) = <<KeyX(r) + i * 70, 115 + r * 50, 65, 45>>
  BY <1>5, <1>6 DEF KeyArea
<1> QED
  BY <1>1, <1>6, <1>7

IsJoined(w, s, t, V) ==
    /\ w \in Seq(V) /\ Len(w) = Len(s) + Len(t)
    /\ \A i \in 1..Len(s) : w[i] = s[i]
    /\ \A i \in 1..Len(t) : w[Len(s) + i] = t[i]
\* Two sequences in a row.
LEMMA Joined ==
    ASSUME NEW V, NEW s \in Seq(V), NEW t \in Seq(V)
    PROVE  IsJoined(s \o t, s, t, V)
<1>1. s \o t \in Seq(V) /\ Len(s \o t) = Len(s) + Len(t) /\ Len(s) \in Nat /\ Len(t) \in Nat
  OBVIOUS
<1>2. \A i \in 1..Len(s) + Len(t) : (s \o t)[i] = IF i <= Len(s) THEN s[i] ELSE t[i - Len(s)]
  BY ConcatProperties
<1> DEFINE n == Len(s)
           m == Len(t)
<1> HIDE DEF n, m
<1>3. ASSUME NEW i \in 1..n PROVE (s \o t)[i] = s[i]
  <2>1. i \in 1..n + m /\ i <= n
    BY <1>1 DEF n, m
  <2> QED
    BY <1>2, <2>1 DEF n, m
<1>4. ASSUME NEW i \in 1..m PROVE (s \o t)[n + i] = t[i]
  <2> DEFINE j == n + i
  <2>1. j \in 1..n + m /\ ~(j <= n) /\ j - n = i
    BY <1>1 DEF n, m
  <2> HIDE DEF j
  <2>2. (s \o t)[j] = t[i]
    BY <1>2, <2>1 DEF n, m
  <2> QED
    BY <2>2 DEF j
<1> QED
  BY <1>1, <1>3, <1>4 DEF n, m, IsJoined

\* The table of the keys: three rows of letters, then what lies behind them.
LEMMA TableOfKeys ==
    /\ Len(KeyTable) = 31
    /\ \A r \in 0..2 : \A i \in 1..Keys(r) :
           KeyTable[Before(r) + i] = Button(KeyRows[r + 1][i], KeyArea(r, i - 1))
    /\ KeyTable[27] = Button("Backspace", BkspArea(2)) /\ KeyTable[28] = Button("Space", SpaceArea(3))
    /\ KeyTable[29] = Button("Backspace", BkspArea(3)) /\ KeyTable[30] = Button("Skip", PpSkip)
    /\ KeyTable[31] = Button("Confirm", PpConfirm)
<1> DEFINE rest == <<Button("Backspace", BkspArea(2)), Button("Space", SpaceArea(3)),
                     Button("Backspace", BkspArea(3)), Button("Skip", PpSkip),
                     Button("Confirm", PpConfirm)>>
           Key(r, i) == Button(KeyRows[r + 1][i], KeyArea(r, i - 1))
           V == {Key(r, i) : r \in 0..2, i \in 1..10} \cup {rest[i] : i \in 1..5}
<1>1. ASSUME NEW r \in 0..2
      PROVE  /\ KeyRow(r) \in Seq(V) /\ Len(KeyRow(r)) = Keys(r)
             /\ \A i \in 1..Keys(r) : KeyRow(r)[i] = Key(r, i)
  <2>1. KeyRow(r) = [i \in 1..Keys(r) |-> Key(r, i)]
    BY RowsOfKeys DEF KeyRow
  <2>0. Keys(r) \in 1..10
    BY RowsOfKeys
  <2>2. Keys(r) \in Nat /\ \A i \in 1..Keys(r) : i \in 1..10
    BY <2>0
  <2>3. \A i \in 1..Keys(r) : Key(r, i) \in V
    BY <2>2
  <2> HIDE DEF Key, V
  <2>4. KeyRow(r) \in [1..Keys(r) -> V]
    BY <2>1, <2>3
  <2>5. KeyRow(r) \in Seq(V) /\ Len(KeyRow(r)) = Keys(r)
    BY <2>2, <2>4
  <2> QED
    BY <2>1, <2>5
<1>2. rest \in Seq(V) /\ Len(rest) = 5
  BY DEF V
<1>3. /\ rest[1] = Button("Backspace", BkspArea(2)) /\ rest[2] = Button("Space", SpaceArea(3))
      /\ rest[3] = Button("Backspace", BkspArea(3)) /\ rest[4] = Button("Skip", PpSkip)
      /\ rest[5] = Button("Confirm", PpConfirm)
  OBVIOUS
<1>4. Keys(0) = 10 /\ Keys(1) = 9 /\ Keys(2) = 7 /\ Before(0) = 0 /\ Before(1) = 10 /\ Before(2) = 19
  BY DEF Keys, Before
<1>20. \A r \in {0, 1, 2} : r \in 0..2
  OBVIOUS
<1> DEFINE two == KeyRow(0) \o KeyRow(1)
           three == two \o KeyRow(2)
           table == three \o rest
<1>5. KeyTable = table
  BY DEF KeyTable
<1> HIDE DEF V, rest, Key
<1>6. /\ two \in Seq(V) /\ Len(two) = 10 + 9
      /\ \A i \in 1..10 : two[i] = KeyRow(0)[i]
      /\ \A i \in 1..9 : two[10 + i] = KeyRow(1)[i]
  <2>1. KeyRow(0) \in Seq(V) /\ Len(KeyRow(0)) = 10
    BY Zenon, <1>1, <1>4, <1>20
  <2>2. KeyRow(1) \in Seq(V) /\ Len(KeyRow(1)) = 9
    BY Zenon, <1>1, <1>4, <1>20
  <2>3. IsJoined(two, KeyRow(0), KeyRow(1), V)
    BY Zenon, <2>1, <2>2, Joined
  <2> HIDE DEF two
  <2> QED
    BY Zenon, <2>1, <2>2, <2>3 DEF IsJoined
<1> HIDE DEF two
<1>7. /\ three \in Seq(V) /\ Len(three) = 19 + 7
      /\ \A i \in 1..19 : three[i] = two[i]
      /\ \A i \in 1..7 : three[19 + i] = KeyRow(2)[i]
  <2>1. KeyRow(2) \in Seq(V) /\ Len(KeyRow(2)) = 7
    BY Zenon, <1>1, <1>4, <1>20
  <2>2. Len(two) = 19
    BY <1>6
  <2>3. IsJoined(three, two, KeyRow(2), V)
    BY Zenon, <1>6, <2>1, Joined
  <2> HIDE DEF three
  <2> QED
    BY Zenon, <2>1, <2>2, <2>3 DEF IsJoined
<1> HIDE DEF three
<1>8. /\ Len(table) = 26 + 5
      /\ \A i \in 1..26 : table[i] = three[i]
      /\ \A i \in 1..5 : table[26 + i] = rest[i]
  <2>1. Len(three) = 26
    BY <1>7
  <2>3. IsJoined(table, three, rest, V)
    BY Zenon, <1>2, <1>7, Joined
  <2> HIDE DEF table
  <2> QED
    BY Zenon, <1>2, <2>1, <2>3 DEF IsJoined
<1> HIDE DEF table
<1>9. /\ table[27] = rest[1] /\ table[28] = rest[2] /\ table[29] = rest[3] /\ table[30] = rest[4]
      /\ table[31] = rest[5]
  <2>1. /\ table[26 + 1] = rest[1] /\ table[26 + 2] = rest[2] /\ table[26 + 3] = rest[3]
        /\ table[26 + 4] = rest[4] /\ table[26 + 5] = rest[5]
    BY <1>8
  <2> QED
    BY <2>1
<1>10. ASSUME NEW r \in 0..2, NEW i \in 1..Keys(r)
       PROVE  table[Before(r) + i] = KeyRow(r)[i]
  <2>1. CASE r = 0
    <3>1. i \in 1..10 /\ i \in 1..19 /\ i \in 1..26 /\ Before(r) + i = i
      BY <1>4, <2>1
    <3>2. two[i] = KeyRow(0)[i]
      BY <1>6, <3>1
    <3>3. table[i] = two[i]
      BY <1>7, <1>8, <3>1
    <3> QED
      BY <2>1, <3>1, <3>2, <3>3
  <2>2. CASE r = 1
    <3> DEFINE j == 10 + i
    <3>1. i \in 1..9 /\ j \in 1..19 /\ j \in 1..26 /\ Before(r) + i = j
      BY <1>4, <2>2
    <3>2. two[j] = KeyRow(1)[i]
      BY <1>6, <3>1
    <3> HIDE DEF j
    <3> QED
      BY <1>7, <1>8, <2>2, <3>1, <3>2
  <2>3. CASE r = 2
    <3> DEFINE j == 19 + i
    <3>1. i \in 1..7 /\ j \in 1..26 /\ Before(r) + i = j
      BY <1>4, <2>3
    <3>2. three[j] = KeyRow(2)[i]
      BY <1>7, <3>1
    <3> HIDE DEF j
    <3> QED
      BY <1>8, <2>3, <3>1, <3>2
  <2> QED
    BY <2>1, <2>2, <2>3
<1>11. Len(table) = 31
  BY <1>8
<1> QED
  BY <1>1, <1>3, <1>5, <1>9, <1>10, <1>11 DEF Key

\* The places of the table that are letters.
LEMMA PlaceOfLetter ==
    ASSUME NEW k \in 1..26
    PROVE  \E r \in 0..2 : \E i \in 1..Keys(r) : k = Before(r) + i
<1>1. Keys(0) = 10 /\ Keys(1) = 9 /\ Keys(2) = 7 /\ Before(0) = 0 /\ Before(1) = 10 /\ Before(2) = 19
  BY DEF Keys, Before
<1>2. CASE k \in 1..10
  <2>1. 0 \in 0..2 /\ k \in 1..Keys(0) /\ k = Before(0) + k
    BY <1>1, <1>2
  <2> QED
    BY <2>1
<1>3. CASE k \in 11..19
  <2>1. 1 \in 0..2 /\ k - 10 \in 1..Keys(1) /\ k = Before(1) + (k - 10)
    BY <1>1, <1>3
  <2> QED
    BY <2>1
<1>4. CASE k \in 20..26
  <2>1. 2 \in 0..2 /\ k - 19 \in 1..Keys(2) /\ k = Before(2) + (k - 19)
    BY <1>1, <1>4
  <2> QED
    BY <2>1
<1> QED
  BY <1>2, <1>3, <1>4

\* The pixels of the other keys.
LEMMA OtherKeys ==
    /\ BkspArea(2) = <<510, 215, 250, 45>> /\ BkspArea(3) = <<510, 265, 250, 45>>
    /\ SpaceArea(3) = <<200, 265, 280, 45>>
    /\ PpSkip = <<40, 390, 180, 50>> /\ PpConfirm = <<580, 390, 180, 50>>
BY DEF BkspArea, SpaceArea, PpSkip, PpConfirm, PpArea, PP_BTN_W, SCREEN_W, RowY, KEY_H, KEY_GAP

InLetter(p, r, i) ==
    /\ KeyX(r) + (i - 1) * 70 <= p[1] /\ p[1] < KeyX(r) + (i - 1) * 70 + 65
    /\ 115 + r * 50 <= p[2] /\ p[2] < 160 + r * 50
\* What it is to be in a letter.
LEMMA LetterPixels ==
    ASSUME NEW p, IsPoint(p), NEW r \in 0..2, NEW i \in 1..Keys(r)
    PROVE  InRect(p, KeyArea(r, i - 1)) <=> InLetter(p, r, i)
<1>1. i \in Int /\ KeyX(r) \in Int
  BY RowsOfKeys DEF KeyX
<1> DEFINE j == i - 1
<1>2. j \in Int
  BY <1>1
<1> HIDE DEF j
<1>3. KeyArea(r, j) = <<KeyX(r) + j * 70, 115 + r * 50, 65, 45>>
  BY <1>2, RowsOfKeys
<1>4. InRect(p, KeyArea(r, j)) <=> (/\ KeyX(r) + j * 70 <= p[1] /\ p[1] < KeyX(r) + j * 70 + 65
                                   /\ 115 + r * 50 <= p[2] /\ p[2] < 160 + r * 50)
  BY <1>1, <1>2, <1>3 DEF InRect, IsPoint
<1> QED
  BY <1>4 DEF InLetter, j

\* Letters do not overlap, and an area below them has none of their points.
LEMMA LettersApart ==
    ASSUME NEW p, IsPoint(p), NEW r \in 0..2, NEW i \in 1..Keys(r), InLetter(p, r, i)
    PROVE  /\ p[2] \in 115..259
           /\ \A q \in 0..2 : \A k \in 1..Keys(q) : InLetter(p, q, k) => q = r /\ k = i
<1>0. Keys(r) \in 1..10
  BY RowsOfKeys
<1>1. i \in 1..10 /\ KeyX(r) \in Int
  BY <1>0 DEF KeyX
<1>2. ASSUME NEW q \in 0..2, NEW k \in 1..Keys(q), InLetter(p, q, k) PROVE q = r /\ k = i
  <2>1. q = r
    BY <1>2 DEF InLetter, IsPoint
  <2>2. k \in Int
    BY RowsOfKeys
  <2>3. k = i
    BY <1>1, <1>2, <2>1, <2>2 DEF InLetter, IsPoint
  <2> QED
    BY <2>1, <2>3
<1>3. p[2] \in 115..259
  BY DEF InLetter, IsPoint
<1> QED
  BY <1>2, <1>3

\* What a point on the keyboard is taken for.
LEMMA LetterIsHit ==
    ASSUME NEW p, IsPoint(p), NEW r \in 0..2, NEW i \in 1..Keys(r), InRect(p, KeyArea(r, i - 1))
    PROVE  PassphraseKeyAt(p) = KeyRows[r + 1][i]
<1>1. InLetter(p, r, i)
  BY LetterPixels
<1>2. Keys(r) \in 1..10 /\ Before(r) \in {0, 10, 19}
  BY RowsOfKeys DEF Before
<1>3. Before(r) + i \in 1..26
  BY <1>2 DEF Before, Keys
<1> DEFINE k == Before(r) + i
<1>4. KeyTable[k] = Button(KeyRows[r + 1][i], KeyArea(r, i - 1))
  BY TableOfKeys
<1>5. ASSUME NEW j \in 1..k - 1 PROVE ~InRect(p, KeyTable[j].area)
  <2>1. j \in 1..26 /\ j # k
    BY <1>2, <1>3
  <2>2. PICK q \in 0..2 : \E m \in 1..Keys(q) : j = Before(q) + m
    BY <2>1, PlaceOfLetter
  <2>3. PICK m \in 1..Keys(q) : j = Before(q) + m
    BY <2>2
  <2>4. KeyTable[j] = Button(KeyRows[q + 1][m], KeyArea(q, m - 1))
    BY <2>3, TableOfKeys
  <2>5. ~InLetter(p, q, m)
    BY <1>1, <2>1, <2>3, LettersApart
  <2>6. ~InRect(p, KeyArea(q, m - 1))
    BY <2>5, LetterPixels
  <2> QED
    BY <2>4, <2>6 DEF Button
<1>6. Len(KeyTable) = 31 /\ Len(KeyTable) \in Nat /\ k \in 1..Len(KeyTable)
  BY <1>3, TableOfKeys
<1>7. InRect(p, KeyTable[k].area)
  BY <1>4 DEF Button
<1> HIDE DEF k
<1>8. HitAt(KeyTable, p) = k
  BY <1>5, <1>6, <1>7, FirstIsHit
<1>9. k # 0
  BY <1>6
<1> QED
  BY <1>4, <1>8, <1>9 DEF PassphraseKeyAt, Hit, Button

\* No letter holds a point above or below the three rows.
LEMMA OffTheLetters ==
    ASSUME NEW p, IsPoint(p), p[2] \notin 115..259, NEW j \in 1..26
    PROVE  ~InRect(p, KeyTable[j].area)
<1>1. PICK q \in 0..2 : \E m \in 1..Keys(q) : j = Before(q) + m
  BY PlaceOfLetter
<1>2. PICK m \in 1..Keys(q) : j = Before(q) + m
  BY <1>1
<1>3. KeyTable[j] = Button(KeyRows[q + 1][m], KeyArea(q, m - 1))
  BY <1>2, TableOfKeys
<1>4. ~InRect(p, KeyArea(q, m - 1))
  BY LettersApart, LetterPixels
<1> QED
  BY <1>3, <1>4 DEF Button

\* The areas of the table behind the letters.
LEMMA TableEnd ==
    /\ KeyTable[27].area = <<510, 215, 250, 45>> /\ KeyTable[27].label = "Backspace"
    /\ KeyTable[28].area = <<200, 265, 280, 45>> /\ KeyTable[28].label = "Space"
    /\ KeyTable[29].area = <<510, 265, 250, 45>> /\ KeyTable[29].label = "Backspace"
    /\ KeyTable[30].area = <<40, 390, 180, 50>>  /\ KeyTable[30].label = "Skip"
    /\ KeyTable[31].area = <<580, 390, 180, 50>> /\ KeyTable[31].label = "Confirm"
BY TableOfKeys, OtherKeys DEF Button

\* The keys below the letters.
LEMMA LowerKeyIsHit ==
    ASSUME NEW p, IsPoint(p), NEW k \in 28..31, InRect(p, KeyTable[k].area)
    PROVE  PassphraseKeyAt(p) = KeyTable[k].label
<1>1. p[2] >= 265
  BY TableEnd DEF InRect, IsPoint
<1>2. ASSUME NEW j \in 1..k - 1 PROVE ~InRect(p, KeyTable[j].area)
  <2>1. CASE j \in 1..26
    BY <1>1, <2>1, OffTheLetters DEF IsPoint
  <2>2. CASE j \in 27..30
    BY <1>1, <2>2, TableEnd DEF InRect, IsPoint
  <2> QED
    BY <2>1, <2>2
<1>3. Len(KeyTable) = 31 /\ Len(KeyTable) \in Nat /\ k \in 1..Len(KeyTable) /\ k # 0
  BY TableOfKeys
<1>4. HitAt(KeyTable, p) = k
  BY <1>2, <1>3, FirstIsHit
<1> QED
  BY <1>3, <1>4 DEF PassphraseKeyAt, Hit

\* Above the letters there is no key.
LEMMA NoKeyAbove ==
    ASSUME NEW p, IsPoint(p), p[2] < 115
    PROVE  PassphraseKeyAt(p) = None
<1>1. ASSUME NEW j \in 1..31 PROVE ~InRect(p, KeyTable[j].area)
  <2>1. CASE j \in 1..26
    BY <2>1, OffTheLetters DEF IsPoint
  <2>2. CASE j \in 27..31
    BY <2>2, TableEnd DEF InRect, IsPoint
  <2> QED
    BY <2>1, <2>2
<1>2. Len(KeyTable) = 31 /\ Len(KeyTable) \in Nat
  BY TableOfKeys
<1>3. HitAt(KeyTable, p) = 0
  BY <1>1, <1>2, HitHolds
<1> QED
  BY <1>3 DEF PassphraseKeyAt, Hit

\* What any point is taken for.
LEMMA KeyOfPoint ==
    ASSUME NEW p, IsPoint(p)
    PROVE  LET key == PassphraseKeyAt(p)
           IN  \/ key = None
               \/ \E r \in 0..2 : \E i \in 1..Keys(r) :
                      InRect(p, KeyArea(r, i - 1)) /\ key = KeyRows[r + 1][i]
               \/ /\ key = "Backspace" /\ p[2] \in 215..309
                  /\ InRect(p, BkspArea(2)) \/ InRect(p, BkspArea(3))
               \/ key = "Space" /\ InRect(p, SpaceArea(3))
               \/ key = "Skip" /\ InRect(p, PpSkip)
               \/ key = "Confirm" /\ InRect(p, PpConfirm)
<1> DEFINE k == HitAt(KeyTable, p)
<1>1. Len(KeyTable) = 31 /\ Len(KeyTable) \in Nat
  BY TableOfKeys
<1>2. k = 0 \/ (k \in 1..31 /\ k # 0 /\ InRect(p, KeyTable[k].area))
  BY <1>1, HitHolds
<1>3. PassphraseKeyAt(p) = IF k = 0 THEN None ELSE KeyTable[k].label
  BY DEF PassphraseKeyAt, Hit
<1> HIDE DEF k
<1>4. CASE k \in 1..26
  <2>1. PICK q \in 0..2 : \E m \in 1..Keys(q) : k = Before(q) + m
    BY <1>4, PlaceOfLetter
  <2>2. PICK m \in 1..Keys(q) : k = Before(q) + m
    BY <2>1
  <2>3. KeyTable[k] = Button(KeyRows[q + 1][m], KeyArea(q, m - 1))
    BY <2>2, TableOfKeys
  <2>4. InRect(p, KeyArea(q, m - 1)) /\ PassphraseKeyAt(p) = KeyRows[q + 1][m]
    BY <1>2, <1>3, <1>4, <2>3 DEF Button
  <2> QED
    BY <2>4
<1>5. CASE k \in {27, 29}
  <2>1. PassphraseKeyAt(p) = "Backspace"
    BY <1>3, <1>5, TableEnd
  <2>2. p[2] \in 215..309
    BY <1>2, <1>5, TableEnd DEF InRect, IsPoint
  <2>3. InRect(p, BkspArea(2)) \/ InRect(p, BkspArea(3))
    BY <1>2, <1>5, TableEnd, OtherKeys
  <2> QED
    BY <2>1, <2>2, <2>3
<1>6. CASE k = 28
  BY <1>2, <1>3, <1>6, TableEnd, OtherKeys
<1>7. CASE k = 30
  BY <1>2, <1>3, <1>7, TableEnd, OtherKeys
<1>8. CASE k = 31
  BY <1>2, <1>3, <1>8, TableEnd, OtherKeys
<1> QED
  BY <1>2, <1>3, <1>4, <1>5, <1>6, <1>7, <1>8

-----------------------------------------------------------------------------
(* The strip of suggestions *)

\* The slots of the strip, in pixels.
LEMMA Slots == \A i \in 1..3 : SuggestArea(i) = <<80 + (i - 1) * 220, 78, 200, 37>>
BY DEF SuggestArea, Centred, SUGGEST_W, SUGGEST_GAP, SCREEN_W

\* A point is in one slot at most, and no key is there.
LEMMA SlotIsHit ==
    ASSUME NEW p, IsPoint(p), NEW i \in 1..3, InRect(p, SuggestArea(i))
    PROVE  SuggestionAt(p) = i /\ PassphraseKeyAt(p) = None
<1>1. ASSUME NEW j \in 1..3, InRect(p, SuggestArea(j)) PROVE j = i
  BY <1>1, Slots DEF InRect, IsPoint
<1>2. SuggestionAt(p) = CHOOSE j \in 1..3 : InRect(p, SuggestArea(j))
  BY DEF SuggestionAt
<1>3. SuggestionAt(p) = i
  BY <1>1, <1>2
<1>4. p[2] < 115
  BY Slots DEF InRect, IsPoint
<1> QED
  BY <1>3, <1>4, NoKeyAbove

\* Outside of the slots there is no suggestion.
LEMMA SlotOfPoint ==
    ASSUME NEW p
    PROVE  \/ SuggestionAt(p) = None
           \/ SuggestionAt(p) \in 1..3 /\ InRect(p, SuggestArea(SuggestionAt(p)))
BY DEF SuggestionAt

-----------------------------------------------------------------------------
(* The prefix search *)

\* What the strip shows of the first m words.
IsStrip(s, chosen, m) ==
    /\ s \in Strips
    /\ \A k \in 1..Len(s) : s[k] + 1 \in 1..m /\ WordList[s[k] + 1] \in chosen
    /\ \A i \in 1..m : WordList[i] \in chosen =>
           \E k \in 1..Len(s) : s[k] = i - 1 \/ s[k] + 1 < i

\* The strip shows the words that match; a word that matches and is not on it comes
\* after one that is.
LEMMA FirstMatchesAreShown ==
    ASSUME NEW chosen
    PROVE  IsStrip(FirstMatches(chosen), chosen, Len(WordList))
<1> DEFINE n == Len(WordList)
           more(s, i) == IF WordList[i] \in chosen /\ Len(s) < SUGGESTIONS
                         THEN Append(s, i - 1) ELSE s
           D(f) == f = [i \in 0..n |-> IF i = 0 THEN <<>> ELSE more(f[i - 1], i)]
           f == CHOOSE f : D(f)
           after == [i \in 1..n |-> [s \in Strips |-> more(s, i)]]
<1>1. n \in Nat /\ \A i \in 1..n : i - 1 \in Indices
  BY IndicesOfList
<1>2. <<>> \in Strips
  BY DEF Strips, SUGGESTIONS
<1>3. ASSUME NEW i \in 1..n, NEW s \in Strips
      PROVE  /\ more(s, i) \in Strips
             /\ IsStrip(s, chosen, i - 1) => IsStrip(more(s, i), chosen, i)
  <2>1. s \in Seq(Indices) /\ Len(s) \in Nat /\ i - 1 \in Indices
    BY <1>1 DEF Strips
  <2>2. CASE WordList[i] \in chosen /\ Len(s) < SUGGESTIONS
    <3> DEFINE t == Append(s, i - 1)
    <3>1. t \in Seq(Indices) /\ Len(t) = Len(s) + 1 /\ t[Len(s) + 1] = i - 1
          /\ \A k \in 1..Len(s) : t[k] = s[k]
      BY <2>1
    <3>2. Len(t) <= SUGGESTIONS
      BY <2>1, <2>2, <3>1 DEF SUGGESTIONS
    <3>3. more(s, i) = t
      BY <2>2
    <3> HIDE DEF t
    <3>4. t \in Strips
      BY <3>1, <3>2 DEF Strips
    <3>5. ASSUME IsStrip(s, chosen, i - 1) PROVE IsStrip(t, chosen, i)
      <4>1. ASSUME NEW k \in 1..Len(t) PROVE t[k] + 1 \in 1..i /\ WordList[t[k] + 1] \in chosen
        <5>1. CASE k = Len(s) + 1
          <6>1. t[k] + 1 = i
            BY <3>1, <5>1
          <6> QED
            BY <2>2, <6>1
        <5>2. CASE k # Len(s) + 1
          <6>1. k \in 1..Len(s) /\ t[k] = s[k]
            BY <2>1, <3>1, <5>2
          <6>2. s[k] + 1 \in 1..i - 1 /\ WordList[s[k] + 1] \in chosen
            BY <3>5, <6>1 DEF IsStrip
          <6> QED
            BY <6>1, <6>2
        <5> QED
          BY <5>1, <5>2
      <4>2. ASSUME NEW j \in 1..i, WordList[j] \in chosen
            PROVE  \E k \in 1..Len(t) : t[k] = j - 1 \/ t[k] + 1 < j
        <5>1. CASE j = i
          <6>1. Len(s) + 1 \in 1..Len(t) /\ t[Len(s) + 1] = j - 1
            BY <2>1, <3>1, <5>1
          <6> QED
            BY <6>1
        <5>2. CASE j # i
          <6>1. j \in 1..i - 1
            BY <5>2
          <6>2. PICK k \in 1..Len(s) : s[k] = j - 1 \/ s[k] + 1 < j
            BY <3>5, <4>2, <6>1 DEF IsStrip
          <6>3. k \in 1..Len(t) /\ t[k] = s[k]
            BY <2>1, <3>1
          <6> QED
            BY <6>2, <6>3
        <5> QED
          BY <5>1, <5>2
      <4> QED
        BY <3>4, <4>1, <4>2 DEF IsStrip
    <3> QED
      BY <3>3, <3>4, <3>5
  <2>3. CASE WordList[i] \in chosen /\ ~(Len(s) < SUGGESTIONS)
    <3>1. more(s, i) = s
      BY <2>3
    <3>2. ASSUME IsStrip(s, chosen, i - 1) PROVE IsStrip(s, chosen, i)
      <4>1. 1 \in 1..Len(s)
        BY <2>1, <2>3 DEF SUGGESTIONS
      <4>2. \A k \in 1..Len(s) : s[k] + 1 \in 1..i - 1 /\ WordList[s[k] + 1] \in chosen
        BY <3>2 DEF IsStrip
      <4>3. s[1] + 1 < i
        BY <4>1, <4>2
      <4>4. ASSUME NEW j \in 1..i, WordList[j] \in chosen
            PROVE  \E k \in 1..Len(s) : s[k] = j - 1 \/ s[k] + 1 < j
        <5>1. CASE j = i
          BY <4>1, <4>3, <5>1
        <5>2. CASE j # i
          <6>1. j \in 1..i - 1
            BY <5>2
          <6> QED
            BY <3>2, <4>4, <6>1 DEF IsStrip
        <5> QED
          BY <5>1, <5>2
      <4>5. \A k \in 1..Len(s) : s[k] + 1 \in 1..i /\ WordList[s[k] + 1] \in chosen
        BY <4>2
      <4> QED
        BY <4>4, <4>5 DEF IsStrip
    <3> QED
      BY <3>1, <3>2
  <2>4. CASE WordList[i] \notin chosen
    <3>1. more(s, i) = s
      BY <2>4
    <3>2. ASSUME IsStrip(s, chosen, i - 1) PROVE IsStrip(s, chosen, i)
      <4>1. \A k \in 1..Len(s) : s[k] + 1 \in 1..i - 1 /\ WordList[s[k] + 1] \in chosen
        BY <3>2 DEF IsStrip
      <4>2. \A k \in 1..Len(s) : s[k] + 1 \in 1..i /\ WordList[s[k] + 1] \in chosen
        BY <4>1
      <4>3. ASSUME NEW j \in 1..i, WordList[j] \in chosen
            PROVE  \E k \in 1..Len(s) : s[k] = j - 1 \/ s[k] + 1 < j
        <5>1. j # i
          BY <2>4, <4>3
        <5>2. j \in 1..i - 1
          BY <5>1
        <5> QED
          BY <3>2, <4>3, <5>2 DEF IsStrip
      <4> QED
        BY <4>2, <4>3 DEF IsStrip
    <3> QED
      BY <3>1, <3>2
  <2> QED
    BY <2>2, <2>3, <2>4
<1> HIDE DEF n, more
<1>4. PICK g : Iterates(g, n, Strips, <<>>, after)
  <2>1. after \in [1..n -> [Strips -> Strips]]
    BY <1>3
  <2> HIDE DEF after
  <2> QED
    BY <1>1, <1>2, <2>1, Recursion
<1>5. g \in [0..n -> Strips] /\ \A i \in 0..n : g[i] = IF i = 0 THEN <<>> ELSE more(g[i - 1], i)
  <2>1. g \in [0..n -> Strips] /\ g[0] = <<>> /\ \A i \in 1..n : g[i] = after[i][g[i - 1]]
    BY <1>4 DEF Iterates
  <2>2. ASSUME NEW i \in 1..n PROVE g[i] = more(g[i - 1], i)
    <3>1. i - 1 \in 0..n
      BY <1>1
    <3> QED
      BY <2>1, <3>1
  <2> QED
    BY <1>1, <2>1, <2>2
<1>6. D(g)
  BY <1>5
<1>7. D(f)
  <2> HIDE DEF D
  <2> QED
    BY <1>6
<1>8. FirstMatches(chosen) = f[n]
  BY DEF FirstMatches, n, more
<1> HIDE DEF f
<1>9. \A i \in 0..n : f[i] = IF i = 0 THEN <<>> ELSE more(f[i - 1], i)
  BY <1>7
<1> DEFINE P == {i \in 0..n : IsStrip(f[i], chosen, i)}
<1>10. 0 \in P
  <2>1. f[0] = <<>> /\ 0 \in 0..n
    BY <1>1, <1>9
  <2>2. IsStrip(<<>>, chosen, 0)
    BY <1>2 DEF IsStrip
  <2> QED
    BY <2>1, <2>2
<1>11. ASSUME NEW i \in 1..n, i - 1 \in P PROVE i \in P
  <2>1. f[i] = more(f[i - 1], i) /\ IsStrip(f[i - 1], chosen, i - 1) /\ i \in 0..n
    BY <1>1, <1>9, <1>11
  <2>2. f[i - 1] \in Strips
    BY <2>1 DEF IsStrip
  <2>3. IsStrip(f[i], chosen, i)
    BY <1>3, <2>1, <2>2
  <2> QED
    BY <2>1, <2>3
<1>12. n \in P
  <2> HIDE DEF P
  <2> QED
    BY <1>1, <1>10, <1>11, UpTo
<1> QED
  BY <1>8, <1>12 DEF n

-----------------------------------------------------------------------------
(* Spelling *)

\* Every letter has its key.
LEMMA LetterHasKey ==
    ASSUME NEW c \in Letters
    PROVE  \E r \in 0..2 : \E m \in 1..Keys(r) : KeyRows[r + 1][m] = c
<1>1. KeyRows[1] = ROW0 /\ KeyRows[2] = ROW1 /\ KeyRows[3] = ROW2 /\ Len(KeyRows) = 3
  BY DEF KeyRows
<1>2. Len(ROW0) = 10 /\ Len(ROW1) = 9 /\ Len(ROW2) = 7
  BY RowsOfKeys
<1>3. PICK row \in ToSet(KeyRows) : c \in ToSet(row)
  BY DEF Letters
<1>4. row \in {ROW0, ROW1, ROW2}
  <2>1. PICK k \in DOMAIN KeyRows : row = KeyRows[k]
    BY <1>3 DEF ToSet
  <2>2. k \in {1, 2, 3}
    BY <1>1, <2>1 DEF KeyRows
  <2> QED
    BY <1>1, <2>1, <2>2
<1>5. PICK m \in DOMAIN row : row[m] = c
  BY <1>3 DEF ToSet
<1>6. Keys(0) = 10 /\ Keys(1) = 9 /\ Keys(2) = 7 /\ 0 + 1 = 1 /\ 1 + 1 = 2 /\ 2 + 1 = 3
      /\ 0 \in 0..2 /\ 1 \in 0..2 /\ 2 \in 0..2
  BY DEF Keys
<1>7. DOMAIN ROW0 = 1..10 /\ DOMAIN ROW1 = 1..9 /\ DOMAIN ROW2 = 1..7
  BY DEF ROW0, ROW1, ROW2
<1>8. CASE row = ROW0
  <2>1. KeyRows[0 + 1][m] = c /\ m \in 1..Keys(0)
    BY <1>1, <1>5, <1>6, <1>7, <1>8
  <2> QED
    BY <1>6, <2>1
<1>9. CASE row = ROW1
  <2>1. KeyRows[1 + 1][m] = c /\ m \in 1..Keys(1)
    BY <1>1, <1>5, <1>6, <1>7, <1>9
  <2> QED
    BY <1>6, <2>1
<1>10. CASE row = ROW2
  <2>1. KeyRows[2 + 1][m] = c /\ m \in 1..Keys(2)
    BY <1>1, <1>5, <1>6, <1>7, <1>10
  <2> QED
    BY <1>6, <2>1
<1> QED
  BY <1>4, <1>8, <1>9, <1>10

\* A key holds a letter, which is not the name of another key.
LEMMA KeysAreLetters ==
    /\ \A r \in 0..2 : \A m \in 1..Keys(r) : KeyRows[r + 1][m] \in Letters
    /\ Letters \cap {"Space", "Backspace", "Skip", "Confirm"} = {}
<1>1. KeyRows[1] = ROW0 /\ KeyRows[2] = ROW1 /\ KeyRows[3] = ROW2
  BY DEF KeyRows
<1>2. Keys(0) = 10 /\ Keys(1) = 9 /\ Keys(2) = 7
  BY DEF Keys
<1>3. ToSet(ROW0) \subseteq Letters /\ ToSet(ROW1) \subseteq Letters /\ ToSet(ROW2) \subseteq Letters
  <2>1. ROW0 \in ToSet(KeyRows) /\ ROW1 \in ToSet(KeyRows) /\ ROW2 \in ToSet(KeyRows)
    <3>1. 1 \in DOMAIN KeyRows /\ 2 \in DOMAIN KeyRows /\ 3 \in DOMAIN KeyRows
      BY DEF KeyRows
    <3> QED
      BY <1>1, <3>1 DEF ToSet
  <2> QED
    BY <2>1 DEF Letters
<1>4. DOMAIN ROW0 = 1..10 /\ DOMAIN ROW1 = 1..9 /\ DOMAIN ROW2 = 1..7
  BY DEF ROW0, ROW1, ROW2
<1>5. ASSUME NEW r \in 0..2, NEW m \in 1..Keys(r) PROVE KeyRows[r + 1][m] \in Letters
  <2>1. CASE r = 0
    <3>1. m \in DOMAIN ROW0 /\ KeyRows[r + 1] = ROW0
      BY <1>1, <1>2, <1>4, <2>1
    <3> QED
      BY <1>3, <3>1 DEF ToSet
  <2>2. CASE r = 1
    <3>1. m \in DOMAIN ROW1 /\ KeyRows[r + 1] = ROW1
      BY <1>1, <1>2, <1>4, <2>2
    <3> QED
      BY <1>3, <3>1 DEF ToSet
  <2>3. CASE r = 2
    <3>1. m \in DOMAIN ROW2 /\ KeyRows[r + 1] = ROW2
      BY <1>1, <1>2, <1>4, <2>3
    <3> QED
      BY <1>3, <3>1 DEF ToSet
  <2> QED
    BY <2>1, <2>2, <2>3
<1>6. ASSUME NEW c \in Letters PROVE c \notin {"Space", "Backspace", "Skip", "Confirm"}
  <2>1. PICK r \in 0..2 : \E m \in 1..Keys(r) : KeyRows[r + 1][m] = c
    BY LetterHasKey
  <2>2. PICK m \in 1..Keys(r) : KeyRows[r + 1][m] = c
    BY <2>1
  <2>3. /\ \A k \in 1..10 : ROW0[k] \notin {"Space", "Backspace", "Skip", "Confirm"}
        /\ \A k \in 1..9 : ROW1[k] \notin {"Space", "Backspace", "Skip", "Confirm"}
        /\ \A k \in 1..7 : ROW2[k] \notin {"Space", "Backspace", "Skip", "Confirm"}
    BY DEF ROW0, ROW1, ROW2
  <2>4. CASE r = 0
    <3>1. m \in 1..10 /\ KeyRows[r + 1] = ROW0
      BY <1>1, <1>2, <2>4
    <3> QED
      BY <2>2, <2>3, <3>1
  <2>5. CASE r = 1
    <3>1. m \in 1..9 /\ KeyRows[r + 1] = ROW1
      BY <1>1, <1>2, <2>5
    <3> QED
      BY <2>2, <2>3, <3>1
  <2>6. CASE r = 2
    <3>1. m \in 1..7 /\ KeyRows[r + 1] = ROW2
      BY <1>1, <1>2, <2>6
    <3> QED
      BY <2>2, <2>3, <3>1
  <2> QED
    BY <2>4, <2>5, <2>6
<1> QED
  BY <1>5, <1>6

\* A prefix is the whole word, or one letter of it comes next.
LEMMA NextLetter ==
    ASSUME NEW V, NEW t \in Seq(V), NEW w \in Seq(V), IsPrefix(t, w), t # w
    PROVE  /\ Len(t) < Len(w) /\ Len(t) + 1 \in 1..Len(w)
           /\ IsPrefix(Append(t, w[Len(t) + 1]), w)
<1> DEFINE n == Len(t)
           c == w[n + 1]
           u == Append(t, c)
<1>1. n \in Nat /\ Len(w) \in Nat /\ n <= Len(w) /\ \A i \in 1..n : t[i] = w[i]
  <2>1. n <= Len(w) /\ SubSeq(t, 1, n) = SubSeq(w, 1, n) /\ n \in Nat /\ Len(w) \in Nat
    BY DEF IsPrefix
  <2>2. \A i \in 1..n : SubSeq(t, 1, n)[i] = t[i] /\ SubSeq(w, 1, n)[i] = w[i]
    BY <2>1
  <2> QED
    BY <2>1, <2>2
<1>2. n # Len(w)
  <2> SUFFICES ASSUME n = Len(w) PROVE FALSE
    OBVIOUS
  <2>1. t = w
    BY <1>1, SeqEqual
  <2> QED
    BY <2>1
<1>3. n < Len(w) /\ n + 1 \in 1..Len(w)
  BY <1>1, <1>2
<1>4. u \in Seq(V) /\ Len(u) = n + 1 /\ \A i \in 1..n + 1 : u[i] = w[i]
  BY <1>1, <1>3
<1> HIDE DEF u, n
<1>5. SubSeq(u, 1, n + 1) = SubSeq(w, 1, n + 1)
  BY <1>1, <1>3, <1>4
<1> QED
  BY <1>1, <1>3, <1>4, <1>5 DEF IsPrefix, n, u

\* The corner of an area is in it.
LEMMA TopLeft ==
    ASSUME NEW x \in Int, NEW y \in Int, NEW w \in Nat \ {0}, NEW h \in Nat \ {0}, NEW a,
           a = <<x, y, w, h>>
    PROVE  <<x, y>> \in Corners(a) /\ InRect(<<x, y>>, a) /\ IsPoint(<<x, y>>)
<1>1. <<x, y>> \in Corners(a)
  BY DEF Corners
<1> QED
  BY <1>1 DEF InRect, IsPoint

SlotResults(s, i) ==
    LET ws == Append(s.confirmed, FindMatches(s.text)[i])
    IN  IF Len(ws) = WORDS THEN Completed(ws) ELSE {To(RestoreWallet(ws, FALSE))}
\* What happens on a slot that shows a word.
LEMMA SlotTaken ==
    ASSUME NEW s, NEW p, IsPoint(p), NEW i \in 1..3, InRect(p, SuggestArea(i)),
           i \in DOMAIN FindMatches(s.text)
    PROVE  StepRestoreWallet(s, p) = SlotResults(s, i)
<1> DEFINE word == FindMatches(s.text)[i]
<1>1. SuggestionAt(p) = i /\ PassphraseKeyAt(p) = None
  BY SlotIsHit
<1>2. None # "Skip" /\ \A n \in Int : None # n
  BY NoneAssumption
<1>3. TappedSuggestion(p, FindMatches(s.text)) = word
  BY <1>1, <1>2 DEF TappedSuggestion
<1>4. word \in Int
  BY MatchesType DEF Indices
<1> HIDE DEF word
<1>5. word # None
  BY <1>2, <1>4
<1> QED
  BY <1>1, <1>2, <1>3, <1>5 DEF StepRestoreWallet, SlotResults, word

Typed(s, c) == [s EXCEPT !.text = Append(@, c), !.error = FALSE]
Erased(s) == [s EXCEPT !.text = Front(@), !.error = FALSE]

\* What happens off the strip of a restore.
LEMMA RestoreKeys ==
    ASSUME NEW s, NEW p, SuggestionAt(p) = None
    PROVE  LET key  == PassphraseKeyAt(p)
               step == StepRestoreWallet(s, p)
           IN  /\ key \in Letters /\ Len(s.text) < BUF_LEN => step = {To(Typed(s, key))}
               /\ key \in Letters /\ ~(Len(s.text) < BUF_LEN) => step = {To(s)}
               /\ key = "Backspace" /\ s.text # <<>> => step = {To(Erased(s))}
               /\ key = "Backspace" /\ s.text = <<>> => step = {To(s)}
               /\ key = "Skip" => step = {To(Screen("Welcome"))}
               /\ key \in {"Space", "Confirm", None} => step = {To(s)}
<1> DEFINE key == PassphraseKeyAt(p)
           step == StepRestoreWallet(s, p)
<1>1. TappedSuggestion(p, FindMatches(s.text)) = None
  BY DEF TappedSuggestion
<1> HIDE DEF key
<1>2. step = IF key = "Skip" THEN {To(Screen("Welcome"))}
             ELSE IF key \in Letters /\ Len(s.text) < BUF_LEN THEN {To(Typed(s, key))}
             ELSE IF key = "Backspace" /\ s.text # <<>> THEN {To(Erased(s))} ELSE {To(s)}
  BY <1>1 DEF StepRestoreWallet, Typed, Erased, key
<1> HIDE DEF step
<1>3. Letters \cap {"Space", "Backspace", "Skip", "Confirm"} = {} /\ None \notin Letters
      /\ None \notin {"Space", "Backspace", "Skip", "Confirm"}
  BY KeysAreLetters, NoneAssumption
<1>4. /\ key \in Letters /\ Len(s.text) < BUF_LEN => step = {To(Typed(s, key))}
      /\ key \in Letters /\ ~(Len(s.text) < BUF_LEN) => step = {To(s)}
  BY <1>2, <1>3
<1>5. /\ key = "Backspace" /\ s.text # <<>> => step = {To(Erased(s))}
      /\ key = "Backspace" /\ s.text = <<>> => step = {To(s)}
  BY <1>2, <1>3
<1>6. /\ key = "Skip" => step = {To(Screen("Welcome"))}
      /\ key \in {"Space", "Confirm", None} => step = {To(s)}
  BY <1>2, <1>3
<1> QED
  BY <1>4, <1>5, <1>6 DEF key, step

\* What happens on a slot that shows no word.
LEMMA EmptySlotTaken ==
    ASSUME NEW s, NEW p, IsPoint(p), NEW i \in 1..3, InRect(p, SuggestArea(i)),
           i \notin DOMAIN FindMatches(s.text)
    PROVE  StepRestoreWallet(s, p) = {To(s)}
<1>1. SuggestionAt(p) = i /\ PassphraseKeyAt(p) = None
  BY SlotIsHit
<1>2. TappedSuggestion(p, FindMatches(s.text)) = None
  BY <1>1 DEF TappedSuggestion
<1>3. None \notin Letters /\ None \notin {"Space", "Backspace", "Skip", "Confirm"}
  BY NoneAssumption
<1> QED
  BY <1>1, <1>2, <1>3 DEF StepRestoreWallet

\* Below the strip there is no suggestion.
LEMMA BelowTheStrip ==
    ASSUME NEW p, IsPoint(p), p[2] >= 115
    PROVE  SuggestionAt(p) = None
BY SlotOfPoint, Slots DEF InRect, IsPoint

\* What happens on a letter of a restore.
LEMMA LetterTaken ==
    ASSUME NEW s, NEW p, IsPoint(p), NEW k \in 0..2, NEW m \in 1..Keys(k), InRect(p, KeyArea(k, m - 1))
    PROVE  LET c == KeyRows[k + 1][m]
           IN  /\ c \in Letters
               /\ Len(s.text) < BUF_LEN => StepRestoreWallet(s, p) = {To(Typed(s, c))}
               /\ ~(Len(s.text) < BUF_LEN) => StepRestoreWallet(s, p) = {To(s)}
<1> DEFINE c == KeyRows[k + 1][m]
<1>1. PassphraseKeyAt(p) = c /\ c \in Letters
  BY LetterIsHit, KeysAreLetters
<1>2. p[2] \in 115..259
  BY LettersApart, LetterPixels
<1>3. SuggestionAt(p) = None
  BY <1>2, BelowTheStrip
<1> HIDE DEF c
<1> QED
  BY <1>1, <1>3, RestoreKeys DEF c

\* The screen of a restore, and what it draws.
LEMMA OnRestore ==
    ASSUME NEW s, s.at = "RestoreWallet", NEW p
    PROVE  Step(s, p) = StepRestoreWallet(s, p) /\ Drawn(s) = DrawRestore(s)
<1>1. Step(s, p) = StepRestoreWallet(s, p)
  BY DEF Step
<1>2. Drawn(s) = DrawRestore(s)
  BY DEF Drawn
<1> QED
  BY <1>1, <1>2

\* A prefix of a word leads on to it.
LEMMA WordInReach ==
    ASSUME SInv, app.at = "RestoreWallet", NEW i \in DOMAIN WordList, IsPrefix(app.text, WordList[i])
    PROVE  \E b \in Drawn(app) : \E p \in Corners(b.area) : \E r \in Step(app, p) :
               \/ b.label = "word" /\ b.arg = i - 1 /\ r.app.text = <<>>
               \/ b.label = "key" /\ r.app.text = Append(app.text, b.arg)
                  /\ IsPrefix(r.app.text, WordList[i])
<1> DEFINE t == app.text
           w == WordList[i]
           matches == FindMatches(t)
<1>1. i \in 1..Len(WordList) /\ w \in Seq(Letters) /\ Len(w) \in 1..BUF_LEN
  BY SpellingAssumption
<1>2. app \in AppStates
  BY DEF SInv, Fits
<1>3. CASE \E k \in DOMAIN matches : matches[k] = i - 1
  <2>1. PICK k \in DOMAIN matches : matches[k] = i - 1
    BY <1>3
  <2>2. k \in 1..3
    <3>1. matches \in Strips
      BY FirstMatchesType DEF FindMatches, Strips, SUGGESTIONS
    <3> QED
      BY <2>1, <3>1 DEF Strips, SUGGESTIONS
  <2> DEFINE b == Widget("word", matches[k], SuggestArea(k), TRUE)
             p == <<80 + (k - 1) * 220, 78>>
             ws == Append(app.confirmed, matches[k])
  <2>3. b \in Drawn(app)
    BY <2>1, OnRestore DEF DrawRestore
  <2>4. p \in Corners(SuggestArea(k)) /\ InRect(p, SuggestArea(k)) /\ IsPoint(p)
    BY <2>2, Slots, TopLeft
  <2> HIDE DEF p
  <2>5. Step(app, p) = IF Len(ws) = WORDS THEN Completed(ws) ELSE {To(RestoreWallet(ws, FALSE))}
    <3>1. StepRestoreWallet(app, p) = SlotResults(app, k)
      BY Zenon, <2>1, <2>2, <2>4, SlotTaken
    <3> QED
      BY Zenon, <3>1, OnRestore DEF SlotResults
  <2>6. \E r \in Step(app, p) : r.app.text = <<>>
    <3> HIDE DEF ws
    <3>1. /\ To(RestoreWallet(ws, FALSE)).app.text = <<>>
          /\ To(RestoreWallet(<<>>, TRUE)).app.text = <<>>
          /\ Storing(EnterPassphrase, GenerateWords(IndicesToEntropy(ws))).app.text = <<>>
      BY DEF Storing, To, RestoreWallet, EnterPassphrase, Screen
    <3>2. CASE Len(ws) # WORDS
      BY Zenon, <2>5, <3>1, <3>2
    <3>3. CASE Len(ws) = WORDS /\ IsMnemonic(ws)
      <4>1. Step(app, p) = {Storing(EnterPassphrase, GenerateWords(IndicesToEntropy(ws)))}
        BY Zenon, <2>5, <3>3 DEF Completed
      <4> QED
        BY Zenon, <3>1, <4>1
    <3>4. CASE Len(ws) = WORDS /\ ~IsMnemonic(ws)
      <4>1. Step(app, p) = {To(RestoreWallet(<<>>, TRUE))}
        BY Zenon, <2>5, <3>4 DEF Completed
      <4> QED
        BY Zenon, <3>1, <4>1
    <3> QED
      BY <3>2, <3>3, <3>4
  <2>7. b.label = "word" /\ b.arg = i - 1 /\ b.area = SuggestArea(k)
    BY <2>1 DEF Widget
  <2> HIDE DEF b
  <2> QED
    BY <2>3, <2>4, <2>6, <2>7
<1>4. CASE ~\E k \in DOMAIN matches : matches[k] = i - 1
  <2>1. t # w
    <3> SUFFICES ASSUME t = w PROVE FALSE
      OBVIOUS
    <3> DEFINE chosen == {x \in ToSet(WordList) : IsPrefix(t, x)}
    <3>1. t # <<>>
      BY <1>1
    <3>2. matches = FirstMatches(chosen)
      BY <3>1 DEF FindMatches
    <3>3. w \in chosen
      BY <1>1 DEF ToSet
    <3> HIDE DEF chosen, matches
    <3>4. IsStrip(matches, chosen, Len(WordList))
      BY <3>2, FirstMatchesAreShown
    <3>5. PICK k \in 1..Len(matches) : matches[k] = i - 1 \/ matches[k] + 1 < i
      BY <1>1, <3>3, <3>4 DEF IsStrip
    <3>6. matches \in Seq(Indices)
      BY <3>4 DEF IsStrip, Strips
    <3>7. matches[k] + 1 < i
      BY <1>4, <3>5, <3>6 DEF matches
    <3> DEFINE j == matches[k] + 1
    <3>8. j \in 1..Len(WordList) /\ WordList[j] \in chosen
      BY <3>4 DEF IsStrip
    <3>9. IsPrefix(WordList[i], WordList[j])
      BY <3>8 DEF chosen
    <3>10. i <= j
      BY <1>1, <3>8, <3>9, SpellingAssumption
    <3>11. j < i
      BY <3>7
    <3> HIDE DEF j
    <3> QED
      BY <1>1, <3>8, <3>10, <3>11
  <2>2. t \in Seq(Letter) /\ w \in Seq(Letter)
    BY <1>1, <1>2 DEF AppStates, Letter
  <2> DEFINE c == w[Len(t) + 1]
  <2>3. Len(t) < Len(w) /\ Len(t) + 1 \in 1..Len(w) /\ IsPrefix(Append(t, c), w)
    BY <2>1, <2>2, NextLetter
  <2>4. c \in Letters /\ Len(t) < BUF_LEN
    BY <1>1, <2>2, <2>3, Limits
  <2>5. PICK r \in 0..2 : \E m \in 1..Keys(r) : KeyRows[r + 1][m] = c
    BY <2>4, LetterHasKey
  <2>6. PICK m \in 1..Keys(r) : KeyRows[r + 1][m] = c
    BY <2>5
  <2> DEFINE b == Widget("key", c, KeyArea(r, m - 1), TRUE)
             p == <<KeyX(r) + (m - 1) * 70, 115 + r * 50>>
  <2>7. b \in Drawn(app)
    <3>1. Len(KeyRows[r + 1]) = Keys(r)
      BY RowsOfKeys
    <3>2. DOMAIN KeyRow(r) = 1..Keys(r) /\ KeyRow(r)[m] = Button(c, KeyArea(r, m - 1))
      BY <2>6, <3>1 DEF KeyRow
    <3>5. KeyRow(r)[m].label = c /\ KeyRow(r)[m].area = KeyArea(r, m - 1)
      BY <3>2 DEF Button
    <3> DEFINE key(n) == Widget("key", KeyRow(r)[n].label, KeyRow(r)[n].area, TRUE)
    <3>6. b = key(m)
      BY Zenon, <3>5
    <3> HIDE DEF b, c
    <3>3. b \in {Widget("key", KeyRow(r)[n].label, KeyRow(r)[n].area, TRUE) : n \in DOMAIN KeyRow(r)}
      BY Zenon, <3>2, <3>6
    <3>4. b \in DrawKeyboard
      BY <3>3 DEF DrawKeyboard
    <3> QED
      BY <3>4, OnRestore DEF DrawRestore
  <2>8. p \in Corners(KeyArea(r, m - 1)) /\ InRect(p, KeyArea(r, m - 1)) /\ IsPoint(p)
    <3>0. Keys(r) \in 1..10
      BY RowsOfKeys
    <3>1. KeyX(r) \in Int
      BY DEF KeyX
    <3>2. m - 1 \in Int
      BY <3>0
    <3>3. KeyArea(r, m - 1) = <<KeyX(r) + (m - 1) * 70, 115 + r * 50, 65, 45>>
      BY <3>2, RowsOfKeys
    <3>4. KeyX(r) + (m - 1) * 70 \in Int /\ 115 + r * 50 \in Int
      BY <3>1, <3>2
    <3> QED
      BY <3>3, <3>4, TopLeft
  <2> HIDE DEF p
  <2> HIDE DEF c, t
  <2>9. Step(app, p) = {To([app EXCEPT !.text = Append(@, c), !.error = FALSE])}
    <3>1. Len(app.text) < BUF_LEN
      BY <2>4 DEF t
    <3>2. StepRestoreWallet(app, p) = {To(Typed(app, KeyRows[r + 1][m]))}
      BY <2>8, <3>1, LetterTaken
    <3> QED
      BY <2>6, <3>2, OnRestore DEF Typed
  <2>10. To([app EXCEPT !.text = Append(@, c), !.error = FALSE]).app.text = Append(t, c)
    BY <1>2 DEF To, AppStates, t
  <2>11. b.label = "key" /\ b.arg = c /\ b.area = KeyArea(r, m - 1)
    BY DEF Widget
  <2> HIDE DEF b
  <2>12. \E r1 \in Step(app, p) : r1.app.text = Append(app.text, b.arg)
                                 /\ IsPrefix(r1.app.text, WordList[i])
    BY Zenon, <2>3, <2>9, <2>10, <2>11 DEF t
  <2> QED
    BY Zenon, <2>7, <2>8, <2>11, <2>12
<1> QED
  BY <1>3, <1>4

-----------------------------------------------------------------------------
(* Buttons that say what they do *)

\* What ButtonsDoWhatTheySay and UnlitIsHarmless ask of one result of one tap.
Obeys(s, p, r) == \A b \in Drawn(s) : b.lit /\ InRect(p, b.area) => Keeps(s, b, r.app)
Harmless(s, p, r) ==
    \/ r.app = s
    \/ HiddenBksp(s, p) /\ Erases(s, r.app)
    \/ \E b \in Drawn(s) : InRect(p, b.area) /\ (b.lit \/ Keeps(s, b, r.app))
    \/ s.at = "PinMismatch" /\ r.app.at = "SetPin"
Honest(s, p, r) == Obeys(s, p, r) /\ Harmless(s, p, r)

\* A tap on the one button that holds the point.
LEMMA OnOneButton ==
    ASSUME NEW s, NEW p, NEW r, NEW b \in Drawn(s), InRect(p, b.area), Keeps(s, b, r.app),
           \A c \in Drawn(s) : InRect(p, c.area) => c = b
    PROVE  Honest(s, p, r)
BY DEF Honest, Obeys, Harmless

\* A tap on no lit button, that does nothing.
LEMMA OnNoButton ==
    ASSUME NEW s, NEW p, NEW r, r.app = s, \A c \in Drawn(s) : c.lit => ~InRect(p, c.area)
    PROVE  Honest(s, p, r)
BY DEF Honest, Obeys, Harmless

\* What the labels of the buttons promise.
LEMMA Promises ==
    ASSUME NEW s, NEW b, NEW t
    PROVE  /\ b.label \in {"< Back", "< Done", "Cancel"} /\ t = Screen(Above(s)) => Keeps(s, b, t)
           /\ b.label \in Names /\ t = Screen(b.label) => Keeps(s, b, t)
           /\ b.label = "Sign" /\ t = Screen("SignScan") => Keeps(s, b, t)
           /\ b.label = "Sign >" /\ t = Screen("SignResult") => Keeps(s, b, t)
           /\ b.label = "file" /\ t \in {s, Screen("SignReview")} => Keeps(s, b, t)
           /\ b.label = "New Wallet" /\ t = Page("NewWallet", 0) => Keeps(s, b, t)
           /\ b.label = "Restore Wallet" /\ t = RestoreWallet(<<>>, FALSE) => Keeps(s, b, t)
BY DEF Keeps, Names

\* The promises of the pages of a mnemonic and of the two gates.
LEMMA PagePromises ==
    ASSUME NEW s, NEW b, NEW t
    PROVE  /\ b.label = "Next >" /\ t = [s EXCEPT !.page = @ + 1] => Keeps(s, b, t)
           /\ b.label = "< Prev" /\ t = [s EXCEPT !.page = @ - 1] => Keeps(s, b, t)
           /\ b.label = "< Prev" /\ ~b.lit /\ t \in {s, Screen(Above(s))} => Keeps(s, b, t)
           /\ (b.label = "Done >" /\ t.at = IF s.at = "NewWallet" THEN "EnterPassphrase" ELSE Above(s))
                 => Keeps(s, b, t)
           /\ (/\ b.label \in {"Show Mnemonic", "Change PIN"} /\ t.at = "EnterPin" /\ t.digits = <<>>
               /\ (t.gate = "ShowMnemonic" <=> b.label = "Show Mnemonic")) => Keeps(s, b, t)
BY DEF Keeps, Names

\* The promises of keys and words.
LEMMA TypingPromises ==
    ASSUME NEW s, NEW b, NEW t
    PROVE  /\ b.label = "key" /\ Types(s, b.arg, t) => Keeps(s, b, t)
           /\ b.label = "<-" /\ (Erases(s, t) \/ (s.text = <<>> /\ t = s)) => Keeps(s, b, t)
           /\ b.label = "<- Del" /\ Erases(s, t) => Keeps(s, b, t)
           /\ b.label = "digit" /\ AddsDigit(s, b.arg, t) => Keeps(s, b, t)
           /\ b.label = "word" /\ TakesWord(s, b.arg, t) => Keeps(s, b, t)
           /\ b.label \in {"no word", "Confirm"} /\ ~b.lit /\ t = s => Keeps(s, b, t)
           /\ b.label \in {"Skip", "Confirm"} /\ b.lit /\ t.at = "SetPin" => Keeps(s, b, t)
BY DEF Keeps, Names

\* The buttons of Welcome and the two at the bottom, in pixels.
LEMMA FramePixels ==
    /\ BtnNew = <<250, 170, 300, 60>> /\ BtnRestore = <<250, 270, 300, 60>>
    /\ NavPrev = <<40, 410, 160, 50>> /\ NavNext = <<600, 410, 160, 50>>
<1>1. BtnNew = <<250, 170, 300, 60>> /\ BtnRestore = <<250, 270, 300, 60>>
  BY DEF BtnNew, BtnRestore, WelcomeArea, Centred, SCREEN_W
<1>2. NavPrev = <<40, 410, 160, 50>> /\ NavNext = <<600, 410, 160, 50>>
  BY DEF NavPrev, NavNext, NavArea, NAV_BTN_W, SCREEN_W, SCREEN_H
<1> QED
  BY <1>1, <1>2

\* The four buttons of Home.
LEMMA HomePixels ==
    /\ HomeArea(0, 0) = <<80, 80, 300, 140>>  /\ HomeArea(1, 0) = <<420, 80, 300, 140>>
    /\ HomeArea(0, 1) = <<80, 260, 300, 140>> /\ HomeArea(1, 1) = <<420, 260, 300, 140>>
BY DEF HomeArea, Centred, HOME_BTN_W, HOME_BTN_H, HOME_GAP, SCREEN_W, SCREEN_H

\* The buttons of Settings.
LEMMA SettingsPixels == \A i \in 0..3 : SettingsArea(i) = <<220, 100 + i * 70, 360, 60>>
BY DEF SettingsArea, Centred, SCREEN_W

\* The rows of the list of files.
LEMMA RowPixels ==
    /\ \A row \in Int : SdRow(row) = <<210, 78 + row * 70, 380, 60>> /\ SdFileY(row) = 78 + row * 70
    /\ SdList = <<210, 78, 380, 280>> /\ SD_FILES_MAX = 4 /\ SD_FILE_STEP = 70
<1>1. SD_FILES_MAX = 4 /\ SD_FILE_STEP = 70 /\ \A row \in Int : SdFileY(row) = 78 + row * 70
  BY DEF SD_FILES_MAX, SD_FILE_STEP, SdFileY, SIGN_VF_Y
<1>2. Centred(1, SIGN_VF_W, 0) + 10 = 210 /\ SIGN_VF_W - 20 = 380
  BY DEF Centred, SIGN_VF_W, SCREEN_W
<1>3. \A row \in Int : SdRow(row) = <<210, 78 + row * 70, 380, 60>>
  BY <1>1, <1>2 DEF SdRow
<1>4. SdList = <<210, 78, 380, 280>>
  <2>1. SdRow(0)[1] = 210 /\ SdFileY(0) = 78
    BY <1>1, <1>3
  <2> QED
    BY <1>1, <1>2, <2>1 DEF SdList
<1> QED
  BY <1>1, <1>3, <1>4

\* Two areas that have no point in common.
Apart(p, a, b) == ~(InRect(p, a) /\ InRect(p, b))

\* Welcome.
LEMMA WelcomeHonest ==
    ASSUME NEW s, s.at = "Welcome", NEW p, IsPoint(p), NEW r \in Step(s, p)
    PROVE  Honest(s, p, r)
<1> DEFINE new == Lit("New Wallet", BtnNew)
           restore == Lit("Restore Wallet", BtnRestore)
<1>1. r \in StepWelcome(s, p)
  BY DEF Step
<1>2. Drawn(s) = {new, restore}
  BY DEF Drawn
<1>3. /\ new.label = "New Wallet" /\ new.area = BtnNew
      /\ restore.label = "Restore Wallet" /\ restore.area = BtnRestore
  BY DEF Lit, Widget
<1>4. Apart(p, BtnNew, BtnRestore)
  BY FramePixels DEF Apart, InRect, IsPoint
<1> HIDE DEF new, restore
<1>5. CASE r = To(s) /\ ~InRect(p, BtnNew) /\ ~InRect(p, BtnRestore)
  <2>1. r.app = s
    BY <1>5 DEF To
  <2> QED
    BY <1>2, <1>3, <1>5, <2>1, OnNoButton
<1>6. CASE InRect(p, BtnRestore) /\ r = To(RestoreWallet(<<>>, FALSE))
  <2>1. r.app = RestoreWallet(<<>>, FALSE)
    BY <1>6 DEF To
  <2>2. Keeps(s, restore, r.app)
    BY <1>3, <2>1, Promises
  <2> QED
    BY <1>2, <1>3, <1>4, <1>6, <2>2, OnOneButton DEF Apart
<1>7. CASE InRect(p, BtnNew) /\ \E e \in Entropies : r = Storing(Page("NewWallet", 0), GenerateWords(e))
  <2>1. r.app = Page("NewWallet", 0)
    BY <1>7 DEF Storing
  <2>2. Keeps(s, new, r.app)
    BY <1>3, <2>1, Promises
  <2> QED
    BY <1>2, <1>3, <1>4, <1>7, <2>2, OnOneButton DEF Apart
<1> QED
  BY <1>1, <1>5, <1>6, <1>7, WelcomeTaps

\* The screens with one button, that lead back.
LEMMA BackHonest ==
    ASSUME NEW s, NEW p, NEW at, at = Above(s), NEW label, label \in {"< Back", "< Done"},
           Drawn(s) = {Lit(label, NavPrev)}, NEW r \in Tap(s, <<Go(NavPrev, at)>>, p)
    PROVE  Honest(s, p, r)
<1> DEFINE b == Lit(label, NavPrev)
<1>1. b.label = label /\ b.area = NavPrev
  BY DEF Lit, Widget
<1> HIDE DEF b
<1>2. Drawn(s) = {b}
  BY DEF b
<1>3. CASE r = To(s) /\ ~InRect(p, NavPrev)
  <2>1. r.app = s
    BY <1>3 DEF To
  <2> QED
    BY <1>1, <1>2, <1>3, <2>1, OnNoButton
<1>4. CASE InRect(p, NavPrev) /\ r = To(Screen(at))
  <2>1. r.app = Screen(Above(s))
    BY <1>4 DEF To
  <2>2. Keeps(s, b, r.app)
    BY <1>1, <2>1, Promises
  <2> QED
    BY <1>1, <1>2, <1>4, <2>2, OnOneButton
<1> QED
  BY <1>3, <1>4, BackTaps

\* Those screens.
LEMMA BackScreensHonest ==
    ASSUME NEW s, s.at \in {"Receive", "Accounts", "Descriptor", "About", "SignResult"},
           NEW p, NEW r \in Step(s, p)
    PROVE  Honest(s, p, r)
<1>1. CASE s.at \in {"Receive", "Accounts"}
  <2>1. r \in Tap(s, <<Go(NavPrev, "Home")>>, p)
    BY <1>1 DEF Step, StepReceive, StepAccounts
  <2>2. Drawn(s) = {Lit("< Back", NavPrev)} /\ "Home" = Above(s)
    BY <1>1 DEF Drawn, BackOnly, Above
  <2> QED
    BY <2>1, <2>2, BackHonest
<1>2. CASE s.at \in {"Descriptor", "About"}
  <2>1. r \in Tap(s, <<Go(NavPrev, "Settings")>>, p)
    BY <1>2 DEF Step, StepDescriptor, StepAbout
  <2>2. Drawn(s) = {Lit("< Back", NavPrev)} /\ "Settings" = Above(s)
    BY <1>2 DEF Drawn, BackOnly, Above
  <2> QED
    BY <2>1, <2>2, BackHonest
<1>3. CASE s.at = "SignResult"
  <2>1. r \in Tap(s, <<Go(NavPrev, "Home")>>, p)
    BY <1>3 DEF Step, StepSignResult
  <2>2. Drawn(s) = {Lit("< Done", NavPrev)} /\ "Home" = Above(s)
    BY <1>3 DEF Drawn, Above
  <2> QED
    BY <2>1, <2>2, BackHonest
<1> QED
  BY <1>1, <1>2, <1>3

\* Home.
LEMMA HomeHonest ==
    ASSUME NEW s, s.at = "Home", NEW p, IsPoint(p), NEW r \in Step(s, p)
    PROVE  Honest(s, p, r)
<1> DEFINE receive == Lit("Receive", HomeArea(0, 0))
           sign == Lit("Sign", HomeArea(1, 0))
           accounts == Lit("Accounts", HomeArea(0, 1))
           settings == Lit("Settings", HomeArea(1, 1))
<1>1. r \in StepHome(s, p)
  BY DEF Step
<1>2. Drawn(s) = {receive, sign, accounts, settings}
  BY DEF Drawn, DrawHome
<1>3. /\ receive.label = "Receive" /\ receive.area = HomeArea(0, 0)
      /\ sign.label = "Sign" /\ sign.area = HomeArea(1, 0)
      /\ accounts.label = "Accounts" /\ accounts.area = HomeArea(0, 1)
      /\ settings.label = "Settings" /\ settings.area = HomeArea(1, 1)
  BY DEF Lit, Widget
<1>4. /\ Apart(p, HomeArea(0, 0), HomeArea(1, 0)) /\ Apart(p, HomeArea(0, 0), HomeArea(0, 1))
      /\ Apart(p, HomeArea(0, 0), HomeArea(1, 1)) /\ Apart(p, HomeArea(1, 0), HomeArea(0, 1))
      /\ Apart(p, HomeArea(1, 0), HomeArea(1, 1)) /\ Apart(p, HomeArea(0, 1), HomeArea(1, 1))
  BY HomePixels DEF Apart, InRect, IsPoint
<1>5. "Receive" \in Names /\ "Accounts" \in Names /\ "Settings" \in Names
  BY DEF Names
<1>6. \A at : To(Screen(at)).app = Screen(at) /\ To(s).app = s
  BY DEF To
<1> HIDE DEF receive, sign, accounts, settings
<1>7. CASE r = To(s) /\ \A col, row \in 0..1 : ~InRect(p, HomeArea(col, row))
  <2>1. /\ ~InRect(p, HomeArea(0, 0)) /\ ~InRect(p, HomeArea(1, 0)) /\ ~InRect(p, HomeArea(0, 1))
        /\ ~InRect(p, HomeArea(1, 1))
    BY <1>7
  <2>2. r.app = s
    BY <1>6, <1>7
  <2> QED
    BY <1>2, <1>3, <2>1, <2>2, OnNoButton
<1>8. CASE InRect(p, HomeArea(0, 0)) /\ r = To(Screen("Receive"))
  <2>1. Keeps(s, receive, r.app)
    BY <1>3, <1>5, <1>6, <1>8, Promises
  <2> QED
    BY <1>2, <1>3, <1>4, <1>8, <2>1, OnOneButton DEF Apart
<1>9. CASE InRect(p, HomeArea(1, 0)) /\ r = To(Screen("SignScan"))
  <2>1. Keeps(s, sign, r.app)
    BY <1>3, <1>6, <1>9, Promises
  <2> QED
    BY <1>2, <1>3, <1>4, <1>9, <2>1, OnOneButton DEF Apart
<1>10. CASE InRect(p, HomeArea(0, 1)) /\ r = To(Screen("Accounts"))
  <2>1. Keeps(s, accounts, r.app)
    BY <1>3, <1>5, <1>6, <1>10, Promises
  <2> QED
    BY <1>2, <1>3, <1>4, <1>10, <2>1, OnOneButton DEF Apart
<1>11. CASE InRect(p, HomeArea(1, 1)) /\ r = To(Screen("Settings"))
  <2>1. Keeps(s, settings, r.app)
    BY <1>3, <1>5, <1>6, <1>11, Promises
  <2> QED
    BY <1>2, <1>3, <1>4, <1>11, <2>1, OnOneButton DEF Apart
<1> QED
  BY <1>1, <1>7, <1>8, <1>9, <1>10, <1>11, HomeTaps

\* What a gate asks for: an empty pad, before the screen it guards.
LEMMA GateIsFresh ==
    ASSUME NEW gate, NEW r \in EnterPin(gate)
    PROVE  r.app.at = "EnterPin" /\ r.app.digits = <<>> /\ r.app.gate = gate
<1> DEFINE s == [Screen("EnterPin") EXCEPT !.gate = gate]
<1>1. PICK t \in FreshPads(s) : r = To(t)
  BY DEF EnterPin
<1>2. PICK draw \in Draws : t = [s EXCEPT !.order = Shuffle(draw), !.digits = <<>>]
  BY <1>1 DEF FreshPads
<1>3. t.at = "EnterPin" /\ t.digits = <<>> /\ t.gate = gate
  BY <1>2 DEF Screen
<1> HIDE DEF s
<1> QED
  BY <1>1, <1>3 DEF To

\* Settings.
LEMMA SettingsHonest ==
    ASSUME NEW s, s.at = "Settings", NEW p, IsPoint(p), NEW r \in Step(s, p)
    PROVE  Honest(s, p, r)
<1> DEFINE words0 == Lit("Show Mnemonic", SettingsArea(0))
           pin == Lit("Change PIN", SettingsArea(1))
           descriptor == Lit("Descriptor", SettingsArea(2))
           about == Lit("About", SettingsArea(3))
           back == Lit("< Back", NavPrev)
<1>1. r \in StepSettings(s, p)
  BY DEF Step
<1>2. Drawn(s) = {words0, pin, descriptor, about, back}
  BY DEF Drawn, DrawSettings, BackOnly
<1>3. /\ words0.label = "Show Mnemonic" /\ words0.area = SettingsArea(0)
      /\ pin.label = "Change PIN" /\ pin.area = SettingsArea(1)
      /\ descriptor.label = "Descriptor" /\ descriptor.area = SettingsArea(2)
      /\ about.label = "About" /\ about.area = SettingsArea(3)
      /\ back.label = "< Back" /\ back.area = NavPrev
  BY DEF Lit, Widget
<1>4. /\ SettingsArea(0) = <<220, 100, 360, 60>> /\ SettingsArea(1) = <<220, 170, 360, 60>>
      /\ SettingsArea(2) = <<220, 240, 360, 60>> /\ SettingsArea(3) = <<220, 310, 360, 60>>
      /\ NavPrev = <<40, 410, 160, 50>>
  BY SettingsPixels, FramePixels
<1>5. /\ Apart(p, SettingsArea(0), SettingsArea(1)) /\ Apart(p, SettingsArea(0), SettingsArea(2))
      /\ Apart(p, SettingsArea(0), SettingsArea(3)) /\ Apart(p, SettingsArea(1), SettingsArea(2))
      /\ Apart(p, SettingsArea(1), SettingsArea(3)) /\ Apart(p, SettingsArea(2), SettingsArea(3))
      /\ Apart(p, SettingsArea(0), NavPrev) /\ Apart(p, SettingsArea(1), NavPrev)
      /\ Apart(p, SettingsArea(2), NavPrev) /\ Apart(p, SettingsArea(3), NavPrev)
  BY <1>4 DEF Apart, InRect, IsPoint
<1>6. \A at : To(Screen(at)).app = Screen(at) /\ To(s).app = s
  BY DEF To
<1> HIDE DEF words0, pin, descriptor, about, back
<1>7. CASE r = To(s) /\ ~InRect(p, NavPrev) /\ \A i \in 0..3 : ~InRect(p, SettingsArea(i))
  <2>1. /\ ~InRect(p, SettingsArea(0)) /\ ~InRect(p, SettingsArea(1)) /\ ~InRect(p, SettingsArea(2))
        /\ ~InRect(p, SettingsArea(3))
    BY <1>7
  <2>2. r.app = s
    BY <1>6, <1>7
  <2> QED
    BY <1>2, <1>3, <1>7, <2>1, <2>2, OnNoButton
<1>8. CASE InRect(p, SettingsArea(0)) /\ r \in EnterPin("ShowMnemonic")
  <2>0. r.app.at = "EnterPin" /\ r.app.digits = <<>> /\ r.app.gate = "ShowMnemonic"
    BY <1>8, GateIsFresh
  <2>1. Keeps(s, words0, r.app)
    BY <1>3, <2>0, PagePromises
  <2>2. words0 \in Drawn(s) /\ InRect(p, words0.area)
    BY <1>2, <1>3, <1>8
  <2>3. ASSUME NEW c \in Drawn(s), InRect(p, c.area) PROVE c = words0
    BY <1>2, <1>3, <1>5, <1>8, <2>3 DEF Apart
  <2> QED
    BY <2>1, <2>2, <2>3, OnOneButton
<1>9. CASE InRect(p, SettingsArea(1)) /\ r \in EnterPin("ChangePin")
  <2>0. r.app.at = "EnterPin" /\ r.app.digits = <<>> /\ r.app.gate = "ChangePin"
    BY <1>9, GateIsFresh
  <2>1. Keeps(s, pin, r.app)
    BY <1>3, <2>0, PagePromises
  <2>2. pin \in Drawn(s) /\ InRect(p, pin.area)
    BY <1>2, <1>3, <1>9
  <2>3. ASSUME NEW c \in Drawn(s), InRect(p, c.area) PROVE c = pin
    BY <1>2, <1>3, <1>5, <1>9, <2>3 DEF Apart
  <2> QED
    BY <2>1, <2>2, <2>3, OnOneButton
<1>10. CASE InRect(p, SettingsArea(2)) /\ r = To(Screen("Descriptor"))
  <2>1. Keeps(s, descriptor, r.app)
    BY <1>3, <1>6, <1>10, Promises DEF Names
  <2>2. descriptor \in Drawn(s) /\ InRect(p, descriptor.area)
    BY <1>2, <1>3, <1>10
  <2>3. ASSUME NEW c \in Drawn(s), InRect(p, c.area) PROVE c = descriptor
    BY <1>2, <1>3, <1>5, <1>10, <2>3 DEF Apart
  <2> QED
    BY <2>1, <2>2, <2>3, OnOneButton
<1>11. CASE InRect(p, SettingsArea(3)) /\ r = To(Screen("About"))
  <2>1. Keeps(s, about, r.app)
    BY <1>3, <1>6, <1>11, Promises DEF Names
  <2>2. about \in Drawn(s) /\ InRect(p, about.area)
    BY <1>2, <1>3, <1>11
  <2>3. ASSUME NEW c \in Drawn(s), InRect(p, c.area) PROVE c = about
    BY <1>2, <1>3, <1>5, <1>11, <2>3 DEF Apart
  <2> QED
    BY <2>1, <2>2, <2>3, OnOneButton
<1>12. CASE InRect(p, NavPrev) /\ r = To(Screen("Home"))
  <2>1. Above(s) = "Home"
    BY DEF Above
  <2>2. Keeps(s, back, r.app)
    BY <1>3, <1>6, <1>12, <2>1, Promises
  <2>3. back \in Drawn(s) /\ InRect(p, back.area)
    BY <1>2, <1>3, <1>12
  <2>4. ASSUME NEW c \in Drawn(s), InRect(p, c.area) PROVE c = back
    BY <1>2, <1>3, <1>5, <1>12, <2>4 DEF Apart
  <2> QED
    BY <2>2, <2>3, <2>4, OnOneButton
<1> QED
  BY <1>1, <1>7, <1>8, <1>9, <1>10, <1>11, <1>12, SettingsTaps

\* A page turned is the page with the other number.
LEMMA PageTurned ==
    ASSUME NEW at, NEW n, NEW m
    PROVE  [Page(at, n) EXCEPT !.page = m] = Page(at, m)
<1> DEFINE t == [Page(at, n) EXCEPT !.page = m]
           u == Page(at, m)
           rec == [at |-> at, page |-> m, text |-> <<>>, order |-> <<>>, digits |-> <<>>, pin |-> None,
                   gate |-> None, confirmed |-> <<>>, error |-> FALSE]
           Only == [at : {at}, page : {m}, text : {<<>>}, order : {<<>>}, digits : {<<>>}, pin : {None},
                    gate : {None}, confirmed : {<<>>}, error : {FALSE}]
<1>1. t \in Only
  BY DEF Screen, Page
<1>2. u \in Only
  BY DEF Screen, Page
<1> HIDE DEF t, u
<1>3. t = rec
  BY <1>1
<1>4. u = rec
  BY <1>2
<1> HIDE DEF rec
<1> QED
  BY <1>3, <1>4 DEF t, u

PageIs(s, p, prev, next) ==
    /\ Drawn(s) = {prev, next} /\ prev # next
    /\ prev.label = "< Prev" /\ prev.area = NavPrev /\ (prev.lit <=> s.page > 0)
    /\ s.page = LAST_PAGE => next.label = "Done >"
    /\ s.page # LAST_PAGE => next.label = "Next >"
    /\ next.area = NavNext /\ next.lit /\ Apart(p, NavPrev, NavNext)
\* The two buttons of a mnemonic.
LEMMA PageButtons ==
    ASSUME NEW s, s.at \in {"NewWallet", "ShowMnemonic"}, NEW p, IsPoint(p)
    PROVE  \E prev, next : PageIs(s, p, prev, next)
<1> DEFINE prev == Widget("< Prev", None, NavPrev, s.page > 0)
           next == Lit(IF s.page = LAST_PAGE THEN "Done >" ELSE "Next >", NavNext)
<1>1. Drawn(s) = {prev, next}
  BY DEF Drawn, DrawMnemonic
<1>2. prev.label = "< Prev" /\ prev.area = NavPrev /\ (prev.lit <=> s.page > 0)
  BY DEF Widget
<1>3. /\ s.page = LAST_PAGE => next.label = "Done >"
      /\ s.page # LAST_PAGE => next.label = "Next >"
      /\ next.area = NavNext /\ next.lit
  BY DEF Lit, Widget
<1>4. Apart(p, NavPrev, NavNext)
  BY FramePixels DEF Apart, InRect, IsPoint
<1> HIDE DEF prev, next
<1>5. prev # next
  BY <1>2, <1>3
<1>6. PageIs(s, p, prev, next)
  BY <1>1, <1>2, <1>3, <1>4, <1>5 DEF PageIs
<1> QED
  BY <1>6

\* The words of a new wallet, and those in Settings.
LEMMA PagesHonest ==
    ASSUME NEW s, Fits(s), s.at \in {"NewWallet", "ShowMnemonic"}, NEW p, IsPoint(p), NEW r \in Step(s, p)
    PROVE  Honest(s, p, r)
<1>0. PICK prev, next : PageIs(s, p, prev, next)
  BY PageButtons
<1>1. /\ Drawn(s) = {prev, next} /\ prev # next
      /\ prev.label = "< Prev" /\ prev.area = NavPrev /\ (prev.lit <=> s.page > 0)
      /\ s.page = LAST_PAGE => next.label = "Done >"
      /\ s.page # LAST_PAGE => next.label = "Next >"
      /\ next.area = NavNext /\ next.lit /\ Apart(p, NavPrev, NavNext)
  BY <1>0 DEF PageIs
<1>2. s.page \in 0..LAST_PAGE /\ LAST_PAGE \in Nat /\ s = Page(s.at, s.page)
  BY Limits DEF Fits, AppStates, Exact
<1>3. ASSUME NEW m PROVE [s EXCEPT !.page = m] = Page(s.at, m)
  <2> DEFINE at == s.at
             n == s.page
  <2>1. s = Page(at, n)
    BY <1>2
  <2> HIDE DEF at, n
  <2>2. [s EXCEPT !.page = m] = Page(at, m)
    BY <2>1, PageTurned
  <2> QED
    BY <2>2 DEF at
<1>4. ASSUME r.app = s, ~InRect(p, NavNext), s.page > 0 => ~InRect(p, NavPrev) PROVE Honest(s, p, r)
  BY <1>1, <1>4, OnNoButton
<1>5. ASSUME InRect(p, NavNext), Keeps(s, next, r.app) PROVE Honest(s, p, r)
  BY <1>1, <1>5, OnOneButton DEF Apart
<1>6. ASSUME InRect(p, NavPrev), Keeps(s, prev, r.app) PROVE Honest(s, p, r)
  BY <1>1, <1>6, OnOneButton DEF Apart
<1>7. \A t : To(t).app = t
  BY DEF To
<1>8. ASSUME InRect(p, NavNext), s.page < LAST_PAGE, r = To(Page(s.at, s.page + 1)) PROVE Honest(s, p, r)
  <2>1. r.app = [s EXCEPT !.page = @ + 1]
    BY <1>3, <1>7, <1>8
  <2>3. s.page # LAST_PAGE
    BY <1>2, <1>8
  <2>2. next.label = "Next >"
    BY <1>1, <2>3
  <2> QED
    BY <1>5, <1>8, <2>1, <2>2, PagePromises
<1>9. ASSUME InRect(p, NavPrev), s.page > 0, r = To(Page(s.at, s.page - 1)) PROVE Honest(s, p, r)
  <2>1. r.app = [s EXCEPT !.page = @ - 1]
    BY <1>3, <1>7, <1>9
  <2> QED
    BY <1>1, <1>6, <1>9, <2>1, PagePromises
<1>10. CASE s.at = "NewWallet"
  <2>1. r \in StepNewWallet(s, p)
    BY <1>10 DEF Step
  <2>2. CASE InRect(p, NavNext) /\ s.page = LAST_PAGE /\ r = To(EnterPassphrase)
    <3>1. next.label = "Done >"
      BY <1>1, <2>2
    <3>2. r.app = Screen("EnterPassphrase")
      BY <1>7, <2>2 DEF EnterPassphrase
    <3>3. r.app.at = "EnterPassphrase"
      BY <3>2 DEF Screen
    <3> QED
      BY <1>5, <1>10, <2>2, <3>1, <3>3, PagePromises
  <2>3. CASE InRect(p, NavPrev) /\ s.page = 0 /\ r = To(s)
    <3>1. r.app = s /\ ~InRect(p, NavNext)
      BY <1>1, <1>7, <2>3 DEF Apart
    <3>2. ~(s.page > 0)
      BY <2>3
    <3> QED
      BY <1>4, <3>1, <3>2
  <2>4. CASE r = To(s) /\ ~InRect(p, NavNext) /\ (s.page > 0 => ~InRect(p, NavPrev))
    BY <1>4, <1>7, <2>4
  <2>5. CASE InRect(p, NavNext) /\ s.page < LAST_PAGE /\ r = To(Page("NewWallet", s.page + 1))
    BY <1>8, <1>10, <2>5
  <2>6. CASE InRect(p, NavPrev) /\ s.page > 0 /\ r = To(Page("NewWallet", s.page - 1))
    BY <1>9, <1>10, <2>6
  <2> QED
    BY <1>2, <2>1, <2>2, <2>3, <2>4, <2>5, <2>6, NewWalletTaps
<1>11. CASE s.at = "ShowMnemonic"
  <2>1. r \in StepShowMnemonic(s, p) /\ Above(s) = "Settings"
    BY <1>11 DEF Step, Above
  <2>2. CASE InRect(p, NavNext) /\ s.page = LAST_PAGE /\ r = To(Screen("Settings"))
    <3>1. next.label = "Done >" /\ s.at # "NewWallet"
      BY <1>1, <1>11, <2>2
    <3>2. r.app = Screen("Settings")
      BY <1>7, <2>2
    <3>3. r.app.at = "Settings"
      BY <3>2 DEF Screen
    <3> QED
      BY <1>5, <2>1, <2>2, <3>1, <3>3, PagePromises
  <2>3. CASE InRect(p, NavPrev) /\ s.page = 0 /\ r = To(Screen("Settings"))
    <3>1. r.app = Screen(Above(s))
      BY <1>7, <2>1, <2>3
    <3>2. ~(s.page > 0)
      BY <2>3
    <3>3. ~prev.lit
      BY <1>1, <3>2
    <3> QED
      BY <1>1, <1>6, <2>3, <3>1, <3>3, PagePromises
  <2>4. CASE r = To(s) /\ ~InRect(p, NavNext) /\ ~InRect(p, NavPrev)
    BY <1>4, <1>7, <2>4
  <2>5. CASE InRect(p, NavNext) /\ s.page < LAST_PAGE /\ r = To(Page("ShowMnemonic", s.page + 1))
    BY <1>8, <1>11, <2>5
  <2>6. CASE InRect(p, NavPrev) /\ s.page > 0 /\ r = To(Page("ShowMnemonic", s.page - 1))
    BY <1>9, <1>11, <2>6
  <2> QED
    BY <1>2, <2>1, <2>2, <2>3, <2>4, <2>5, <2>6, ShowMnemonicTaps
<1> QED
  BY <1>10, <1>11

\* The row of the list that a point is in.
LEMMA RowOfPoint ==
    ASSUME NEW p, IsPoint(p)
    PROVE  /\ \A k \in 0..3 : InRect(p, SdRow(k)) => SdRowAt(p) = k /\ p[2] < 410
           /\ SdRowAt(p) = None \/ (SdRowAt(p) \in 0..3 /\ InRect(p, SdRow(SdRowAt(p))))
<1> DEFINE row == (p[2] - SdFileY(0)) \div SD_FILE_STEP
<1>1. row = (p[2] - 78) \div 70 /\ row \in Int
  BY RowPixels DEF IsPoint
<1>2. ASSUME NEW k \in 0..3, InRect(p, SdRow(k))
      PROVE  row = k /\ InRect(p, SdList) /\ p[2] < 410
  <2>1. /\ 210 <= p[1] /\ p[1] < 590 /\ 78 + k * 70 <= p[2] /\ p[2] < 138 + k * 70
    BY <1>2, RowPixels DEF InRect, IsPoint
  <2>2. row = k
    BY <1>1, <2>1 DEF IsPoint
  <2>4. p[2] >= 78 /\ p[2] < 358
    BY <2>1 DEF IsPoint
  <2>3. InRect(p, SdList) /\ p[2] < 410
    BY <2>1, <2>4, RowPixels DEF InRect, IsPoint
  <2> QED
    BY <2>2, <2>3
<1>3. InRect(p, SdList) => row >= 0
  <2>1. InRect(p, SdList) => p[2] >= 78
    BY RowPixels DEF InRect, IsPoint
  <2> QED
    BY <1>1, <2>1 DEF IsPoint
<1>4. SdRowAt(p) = IF InRect(p, SdList) /\ row < 4 /\ InRect(p, SdRow(row)) THEN row ELSE None
  BY RowPixels DEF SdRowAt
<1> HIDE DEF row
<1>5. SdRowAt(p) = None \/ (SdRowAt(p) \in 0..3 /\ InRect(p, SdRow(SdRowAt(p))))
  BY <1>1, <1>3, <1>4
<1> QED
  BY <1>2, <1>4, <1>5

\* The list of files.
LEMMA SignScanHonest ==
    ASSUME NEW s, s.at = "SignScan", NEW p, IsPoint(p), NEW r \in Step(s, p)
    PROVE  Honest(s, p, r)
<1> DEFINE file(row) == Widget("file", row, SdRow(row), TRUE)
           cancel == Lit("Cancel", NavPrev)
<1>1. r \in StepSignScan(s, p)
  BY DEF Step
<1>2. Drawn(s) = {file(row) : row \in 0..3} \cup {cancel}
  BY RowPixels DEF Drawn, DrawSignScan
<1>3. cancel.label = "Cancel" /\ cancel.area = NavPrev
      /\ \A row : file(row).label = "file" /\ file(row).area = SdRow(row)
  BY DEF Lit, Widget
<1> HIDE DEF file, cancel
<1>4. InRect(p, NavPrev) => p[2] >= 410
  BY FramePixels DEF InRect, IsPoint
<1>5. CASE SdRowAt(p) # None
  <2> DEFINE row == SdRowAt(p)
  <2>1. row \in 0..3 /\ InRect(p, SdRow(row)) /\ p[2] < 410
    BY <1>5, RowOfPoint
  <2>2. r.app \in {s, Screen("SignReview")}
    BY <1>1, <1>5 DEF StepSignScan, To
  <2> HIDE DEF row
  <2>3. file(row) \in Drawn(s) /\ InRect(p, file(row).area)
    BY <1>2, <1>3, <2>1
  <2>4. Keeps(s, file(row), r.app)
    BY <1>3, <2>2, Promises
  <2>5. ASSUME NEW c \in Drawn(s), InRect(p, c.area) PROVE c = file(row)
    <3>1. c # cancel
      BY <1>3, <1>4, <2>1, <2>5 DEF IsPoint
    <3>2. PICK k \in 0..3 : c = file(k)
      BY <1>2, <3>1
    <3>3. SdRowAt(p) = k
      BY <1>3, <2>5, <3>2, RowOfPoint
    <3> QED
      BY <3>2, <3>3 DEF row
  <2> QED
    BY <2>3, <2>4, <2>5, OnOneButton
<1>6. CASE SdRowAt(p) = None
  <2>1. ASSUME NEW k \in 0..3 PROVE ~InRect(p, file(k).area)
    BY <1>3, <1>6, RowOfPoint, NoneAssumption
  <2>2. r \in Tap(s, <<Go(NavPrev, "Home")>>, p)
    BY <1>1, <1>6 DEF StepSignScan
  <2>3. CASE r = To(s) /\ ~InRect(p, NavPrev)
    <3>1. r.app = s
      BY <2>3 DEF To
    <3> QED
      BY <1>2, <1>3, <2>1, <2>3, <3>1, OnNoButton
  <2>4. CASE InRect(p, NavPrev) /\ r = To(Screen("Home"))
    <3>1. r.app = Screen(Above(s))
      BY <2>4 DEF To, Above
    <3>2. Keeps(s, cancel, r.app)
      BY <1>3, <3>1, Promises
    <3> QED
      BY <1>2, <1>3, <2>1, <2>4, <3>2, OnOneButton
  <2> QED
    BY <2>2, <2>3, <2>4, BackTaps
<1> QED
  BY <1>5, <1>6

\* The review.
LEMMA SignReviewHonest ==
    ASSUME NEW s, s.at = "SignReview", NEW p, IsPoint(p), NEW r \in Step(s, p)
    PROVE  Honest(s, p, r)
<1> DEFINE cancel == Lit("Cancel", NavPrev)
           sign == Lit("Sign >", NavNext)
<1>1. r \in StepSignReview(s, p) /\ Above(s) = "Home"
  BY DEF Step, Above
<1>2. Drawn(s) = {cancel, sign}
  BY DEF Drawn
<1>3. /\ cancel.label = "Cancel" /\ cancel.area = NavPrev
      /\ sign.label = "Sign >" /\ sign.area = NavNext
  BY DEF Lit, Widget
<1>4. Apart(p, NavPrev, NavNext)
  BY FramePixels DEF Apart, InRect, IsPoint
<1>5. \A t : To(t).app = t
  BY DEF To
<1> HIDE DEF cancel, sign
<1>6. CASE r = To(s) /\ ~InRect(p, NavNext) /\ ~InRect(p, NavPrev)
  BY <1>2, <1>3, <1>5, <1>6, OnNoButton
<1>7. CASE InRect(p, NavNext) /\ r = To(Screen("SignResult"))
  <2>1. Keeps(s, sign, r.app)
    BY <1>3, <1>5, <1>7, Promises
  <2> QED
    BY <1>2, <1>3, <1>4, <1>7, <2>1, OnOneButton DEF Apart
<1>8. CASE InRect(p, NavPrev) /\ r = To(Screen("Home"))
  <2>1. Keeps(s, cancel, r.app)
    BY <1>1, <1>3, <1>5, <1>8, Promises
  <2> QED
    BY <1>2, <1>3, <1>4, <1>8, <2>1, OnOneButton DEF Apart
<1> QED
  BY <1>1, <1>6, <1>7, <1>8, SignReviewTaps

\* What a key of the keyboard is drawn as.
KeyWidget(k, m) == Widget("key", KeyRows[k + 1][m], KeyArea(k, m - 1), TRUE)
LetterWidgets == UNION {{KeyWidget(k, m) : m \in 1..Keys(k)} : k \in 0..2}
SpaceWidget == Widget("key", "Space", SpaceArea(3), TRUE)
EraseWidget == Lit("<-", BkspArea(3))

\* The keyboard that is drawn: the letters, the space bar and `<-`.
LEMMA KeyboardDrawn == DrawKeyboard = LetterWidgets \cup {SpaceWidget, EraseWidget}
<1>1. ASSUME NEW k \in 0..2
      PROVE  {Widget("key", KeyRow(k)[i].label, KeyRow(k)[i].area, TRUE) : i \in DOMAIN KeyRow(k)}
             = {KeyWidget(k, m) : m \in 1..Keys(k)}
  <2>1. Len(KeyRows[k + 1]) = Keys(k)
    BY RowsOfKeys
  <2>2. DOMAIN KeyRow(k) = 1..Keys(k)
    BY <2>1 DEF KeyRow
  <2>3. ASSUME NEW m \in 1..Keys(k)
        PROVE  Widget("key", KeyRow(k)[m].label, KeyRow(k)[m].area, TRUE) = KeyWidget(k, m)
    <3>1. KeyRow(k)[m] = Button(KeyRows[k + 1][m], KeyArea(k, m - 1))
      BY <2>1 DEF KeyRow
    <3>2. KeyRow(k)[m].label = KeyRows[k + 1][m] /\ KeyRow(k)[m].area = KeyArea(k, m - 1)
      BY <3>1 DEF Button
    <3> QED
      BY Zenon, <3>2 DEF KeyWidget
  <2> QED
    BY Zenon, <2>2, <2>3
<1> DEFINE F(k) == {Widget("key", KeyRow(k)[i].label, KeyRow(k)[i].area, TRUE) : i \in DOMAIN KeyRow(k)}
           G(k) == {KeyWidget(k, m) : m \in 1..Keys(k)}
<1>2. \A k \in 0..2 : F(k) = G(k)
  BY <1>1
<1>3. DrawKeyboard = (UNION {F(k) : k \in 0..2}) \cup {SpaceWidget, EraseWidget}
  BY DEF DrawKeyboard, SpaceWidget, EraseWidget
<1> HIDE DEF F, G
<1>4. UNION {F(k) : k \in 0..2} = UNION {G(k) : k \in 0..2}
  BY <1>2
<1>5. LetterWidgets = UNION {G(k) : k \in 0..2}
  BY DEF LetterWidgets, G
<1> QED
  BY <1>3, <1>4, <1>5

\* What the widgets of the keyboard are.
LEMMA KeyWidgets ==
    /\ \A k, m : /\ KeyWidget(k, m).label = "key" /\ KeyWidget(k, m).arg = KeyRows[k + 1][m]
                 /\ KeyWidget(k, m).area = KeyArea(k, m - 1) /\ KeyWidget(k, m).lit
    /\ SpaceWidget.label = "key" /\ SpaceWidget.arg = "Space" /\ SpaceWidget.area = SpaceArea(3)
    /\ SpaceWidget.lit
    /\ EraseWidget.label = "<-" /\ EraseWidget.area = BkspArea(3) /\ EraseWidget.lit
BY DEF KeyWidget, SpaceWidget, EraseWidget, Lit, Widget

\* What a point in a key below the letters is taken for.
LEMMA LowerKeys ==
    ASSUME NEW p, IsPoint(p)
    PROVE  /\ InRect(p, SpaceArea(3)) => PassphraseKeyAt(p) = "Space" /\ p[2] >= 115
           /\ InRect(p, BkspArea(3)) => PassphraseKeyAt(p) = "Backspace" /\ p[2] >= 115
           /\ InRect(p, PpSkip) => PassphraseKeyAt(p) = "Skip" /\ p[2] >= 115
           /\ InRect(p, PpConfirm) => PassphraseKeyAt(p) = "Confirm" /\ p[2] >= 115
<1>1. ASSUME NEW k \in 28..31, InRect(p, KeyTable[k].area)
      PROVE  PassphraseKeyAt(p) = KeyTable[k].label /\ p[2] >= 115
  <2>1. PassphraseKeyAt(p) = KeyTable[k].label
    BY <1>1, LowerKeyIsHit
  <2>2. k = 28 \/ k = 29 \/ k = 30 \/ k = 31
    OBVIOUS
  <2>3. p[2] >= 115
    BY <1>1, <2>2, TableEnd DEF InRect, IsPoint
  <2> QED
    BY <2>1, <2>3
<1>2. 28 \in 28..31 /\ 29 \in 28..31 /\ 30 \in 28..31 /\ 31 \in 28..31
  OBVIOUS
<1>3. /\ KeyTable[28].area = SpaceArea(3) /\ KeyTable[29].area = BkspArea(3)
      /\ KeyTable[30].area = PpSkip /\ KeyTable[31].area = PpConfirm
      /\ KeyTable[28].label = "Space" /\ KeyTable[29].label = "Backspace"
      /\ KeyTable[30].label = "Skip" /\ KeyTable[31].label = "Confirm"
  BY TableEnd, OtherKeys
<1> QED
  BY Zenon, <1>1, <1>2, <1>3

\* The keyboard does what it says, when a tap does what its key says: on such a
\* result, no key of the keyboard breaks its promise.
KeysAct(s, p, t) ==
    /\ \A k \in 0..2 : \A m \in 1..Keys(k) :
           InRect(p, KeyArea(k, m - 1)) => Types(s, KeyRows[k + 1][m], t)
    /\ InRect(p, SpaceArea(3)) => Types(s, "Space", t)
    /\ InRect(p, BkspArea(3)) => Erases(s, t) \/ (s.text = <<>> /\ t = s)
\* So the keyboard obeys.
LEMMA KeyboardObeys ==
    ASSUME NEW s, NEW p, NEW t, KeysAct(s, p, t), NEW b \in DrawKeyboard, InRect(p, b.area)
    PROVE  Keeps(s, b, t)
<1>1. CASE b = SpaceWidget
  <2>1. Types(s, b.arg, t) /\ b.label = "key"
    BY <1>1, KeyWidgets DEF KeysAct
  <2> QED
    BY <2>1, TypingPromises
<1>2. CASE b = EraseWidget
  <2>1. (Erases(s, t) \/ (s.text = <<>> /\ t = s)) /\ b.label = "<-"
    BY <1>2, KeyWidgets DEF KeysAct
  <2> QED
    BY <2>1, TypingPromises
<1>3. CASE b \in LetterWidgets
  <2>0. PICK k \in 0..2 : b \in {KeyWidget(k, m) : m \in 1..Keys(k)}
    BY <1>3 DEF LetterWidgets
  <2>1. PICK m \in 1..Keys(k) : b = KeyWidget(k, m)
    BY <2>0
  <2>2. Types(s, b.arg, t) /\ b.label = "key"
    BY <2>1, KeyWidgets DEF KeysAct
  <2> QED
    BY <2>2, TypingPromises
<1> QED
  BY <1>1, <1>2, <1>3, KeyboardDrawn

\* The strip of a restore: the widgets of slot i.
WordWidget(s, i) == Widget("word", FindMatches(s.text)[i], SuggestArea(i), TRUE)
NoWordWidget(i) == Widget("no word", None, SuggestArea(i), FALSE)
CancelWidget == Widget("Cancel", None, PpSkip, FALSE)

\* What a restore draws.
LEMMA RestoreDrawn ==
    ASSUME NEW s, NEW b
    PROVE  b \in DrawRestore(s) <=>
               \/ b \in DrawKeyboard
               \/ \E i \in DOMAIN FindMatches(s.text) : b = WordWidget(s, i)
               \/ \E i \in (1..SUGGESTIONS) \ DOMAIN FindMatches(s.text) : b = NoWordWidget(i)
               \/ b = CancelWidget
<1> DEFINE D == DOMAIN FindMatches(s.text)
<1>1. DrawRestore(s) = DrawKeyboard \cup {WordWidget(s, i) : i \in D}
                       \cup {NoWordWidget(i) : i \in (1..SUGGESTIONS) \ D} \cup {CancelWidget}
  BY DEF DrawRestore, WordWidget, NoWordWidget, CancelWidget
<1> HIDE DEF D
<1>2. b \in DrawRestore(s) <=>
          \/ b \in DrawKeyboard
          \/ \E i \in D : b = WordWidget(s, i)
          \/ \E i \in (1..SUGGESTIONS) \ D : b = NoWordWidget(i)
          \/ b = CancelWidget
  BY <1>1
<1> QED
  BY <1>2 DEF D

\* What the widgets of the strip are.
LEMMA StripWidgets ==
    ASSUME NEW s
    PROVE  /\ \A i : /\ WordWidget(s, i).label = "word" /\ WordWidget(s, i).area = SuggestArea(i)
                     /\ WordWidget(s, i).arg = FindMatches(s.text)[i] /\ WordWidget(s, i).lit
                     /\ NoWordWidget(i).lit = FALSE /\ NoWordWidget(i).area = SuggestArea(i)
           /\ CancelWidget.label = "Cancel" /\ CancelWidget.area = PpSkip
           /\ CancelWidget.lit = FALSE
BY DEF WordWidget, NoWordWidget, CancelWidget, Widget

\* There are three slots, and the words fill them from the first.
LEMMA WordsInSlots ==
    ASSUME NEW s, NEW i \in DOMAIN FindMatches(s.text)
    PROVE  i \in 1..3
<1> DEFINE matches == FindMatches(s.text)
<1>1. matches \in Strips
  BY FirstMatchesType DEF FindMatches, Strips, SUGGESTIONS
<1> HIDE DEF matches
<1>2. i \in DOMAIN matches
  BY DEF matches
<1> QED
  BY <1>1, <1>2 DEF Strips, SUGGESTIONS

\* The keys of a restore act as they say.
LEMMA RestoreKeysAct ==
    ASSUME NEW s, Fits(s), s.at = "RestoreWallet", NEW p, IsPoint(p), NEW r \in StepRestoreWallet(s, p)
    PROVE  KeysAct(s, p, r.app)
<1>1. \A t : To(t).app = t
  BY DEF To
<1>2. Len(s.text) <= BUF_LEN /\ Len(s.text) \in Nat /\ BUF_LEN \in Nat
  BY Limits DEF Fits, AppStates
<1>3. ASSUME NEW k \in 0..2, NEW m \in 1..Keys(k), InRect(p, KeyArea(k, m - 1))
      PROVE  Types(s, KeyRows[k + 1][m], r.app)
  <2> DEFINE c == KeyRows[k + 1][m]
  <2>1. /\ Len(s.text) < BUF_LEN => StepRestoreWallet(s, p) = {To(Typed(s, c))}
        /\ ~(Len(s.text) < BUF_LEN) => StepRestoreWallet(s, p) = {To(s)}
    BY <1>3, LetterTaken
  <2> HIDE DEF c
  <2>2. CASE Len(s.text) < BUF_LEN
    <3>1. r.app = Typed(s, c)
      BY <1>1, <2>1, <2>2
    <3> QED
      BY <3>1 DEF Types, Typed, c
  <2>3. CASE ~(Len(s.text) < BUF_LEN)
    <3>1. r.app = s
      BY <1>1, <2>1, <2>3
    <3>2. Len(s.text) = BUF_LEN
      BY <1>2, <2>3
    <3> QED
      BY <3>1, <3>2 DEF Types, c
  <2> QED
    BY <2>2, <2>3
<1>4. ASSUME InRect(p, SpaceArea(3)) PROVE Types(s, "Space", r.app)
  <2>1. PassphraseKeyAt(p) = "Space" /\ SuggestionAt(p) = None
    BY <1>4, LowerKeys, BelowTheStrip
  <2>2. StepRestoreWallet(s, p) = {To(s)}
    BY <2>1, RestoreKeys
  <2>3. r.app = s
    BY <1>1, <2>2
  <2> QED
    BY <2>3 DEF Types
<1>5. ASSUME InRect(p, BkspArea(3)) PROVE Erases(s, r.app) \/ (s.text = <<>> /\ r.app = s)
  <2>1. PassphraseKeyAt(p) = "Backspace" /\ SuggestionAt(p) = None
    BY <1>5, LowerKeys, BelowTheStrip
  <2>2. CASE s.text # <<>>
    <3>1. StepRestoreWallet(s, p) = {To(Erased(s))}
      BY <2>1, <2>2, RestoreKeys
    <3>2. r.app = Erased(s)
      BY <1>1, <3>1
    <3> QED
      BY <2>2, <3>2 DEF Erases, Erased
  <2>3. CASE s.text = <<>>
    <3>1. StepRestoreWallet(s, p) = {To(s)}
      BY <2>1, <2>3, RestoreKeys
    <3>2. r.app = s
      BY <1>1, <3>1
    <3> QED
      BY <2>3, <3>2
  <2> QED
    BY <2>2, <2>3
<1> QED
  BY <1>3, <1>4, <1>5 DEF KeysAct

\* A suggestion is the word it shows.
LEMMA SlotTakesWord ==
    ASSUME NEW s, Fits(s), NEW i, NEW r \in SlotResults(s, i)
    PROVE  TakesWord(s, FindMatches(s.text)[i], r.app)
<1> DEFINE w == FindMatches(s.text)[i]
           ws == Append(s.confirmed, w)
<1>1. s.confirmed \in Seq(Indices) /\ Len(s.confirmed) \in Nat /\ Len(s.confirmed) < WORDS /\ WORDS \in Nat
  BY Limits DEF Fits, AppStates
<1>2. Len(ws) = Len(s.confirmed) + 1
  BY <1>1
<1>3. r \in IF Len(ws) = WORDS THEN Completed(ws) ELSE {To(RestoreWallet(ws, FALSE))}
  BY DEF SlotResults
<1>4. TakesWord(s, w, r.app) <=>
          IF Len(s.confirmed) + 1 < WORDS THEN r.app = RestoreWallet(ws, FALSE)
          ELSE r.app \in {EnterPassphrase, RestoreWallet(<<>>, TRUE)}
  BY DEF TakesWord
<1> HIDE DEF ws, w
<1>5. \A t : To(t).app = t /\ \A v : Storing(t, v).app = t
  BY DEF To, Storing
<1>6. ASSUME Len(ws) = WORDS PROVE TakesWord(s, w, r.app)
  <2>1. r \in Completed(ws)
    BY <1>3, <1>6
  <2>2. r.app = EnterPassphrase \/ r.app = RestoreWallet(<<>>, TRUE)
    BY <1>5, <2>1 DEF Completed
  <2>3. ~(Len(s.confirmed) + 1 < WORDS)
    BY <1>1, <1>2, <1>6
  <2> QED
    BY <1>4, <2>2, <2>3
<1>7. ASSUME Len(ws) # WORDS PROVE TakesWord(s, w, r.app)
  <2>1. r = To(RestoreWallet(ws, FALSE))
    BY <1>3, <1>7
  <2>2. Len(s.confirmed) + 1 < WORDS
    BY <1>1, <1>2, <1>7
  <2> QED
    BY <1>4, <1>5, <2>1, <2>2
<1> QED
  BY <1>6, <1>7 DEF w

\* Erasing is harmless where a Backspace is: the one that is drawn, or the hidden one.
LEMMA ErasesHarmlessly ==
    ASSUME NEW s, s.at \in {"RestoreWallet", "EnterPassphrase"}, s.text # <<>>,
           EraseWidget \in Drawn(s), NEW p, InRect(p, BkspArea(2)) \/ InRect(p, BkspArea(3)),
           NEW r, r.app = Erased(s)
    PROVE  Harmless(s, p, r)
<1>1. CASE InRect(p, BkspArea(2))
  <2>1. HiddenBksp(s, p) /\ Erases(s, r.app)
    BY <1>1 DEF HiddenBksp, Erases, Erased
  <2> QED
    BY <2>1 DEF Harmless
<1>2. CASE InRect(p, BkspArea(3))
  BY <1>2, KeyWidgets DEF Harmless
<1> QED
  BY <1>1, <1>2

\* A restore.
LEMMA RestoreHonest ==
    ASSUME NEW s, Fits(s), s.at = "RestoreWallet", NEW p, IsPoint(p), NEW r \in Step(s, p)
    PROVE  Honest(s, p, r)
<1>1. r \in StepRestoreWallet(s, p) /\ Drawn(s) = DrawRestore(s)
  BY OnRestore
<1>2. \A t : To(t).app = t
  BY DEF To
<1>3. ASSUME NEW i \in DOMAIN FindMatches(s.text), InRect(p, SuggestArea(i))
      PROVE  WordWidget(s, i) \in Drawn(s) /\ Keeps(s, WordWidget(s, i), r.app)
  <2>1. StepRestoreWallet(s, p) = SlotResults(s, i)
    BY <1>3, SlotTaken, WordsInSlots
  <2>2. TakesWord(s, FindMatches(s.text)[i], r.app)
    BY <1>1, <2>1, SlotTakesWord
  <2>3. Keeps(s, WordWidget(s, i), r.app)
    <3> DEFINE b == WordWidget(s, i)
    <3>1. b.label = "word" /\ b.arg = FindMatches(s.text)[i]
      BY DEF WordWidget, Widget
    <3> HIDE DEF b
    <3>2. Keeps(s, b, r.app)
      BY <2>2, <3>1, TypingPromises
    <3> QED
      BY <3>2 DEF b
  <2>4. WordWidget(s, i) \in DrawRestore(s)
    BY Zenon, RestoreDrawn
  <2> QED
    BY <1>1, <2>3, <2>4
<1>4. Obeys(s, p, r)
  <2> SUFFICES ASSUME NEW b \in Drawn(s), b.lit, InRect(p, b.area) PROVE Keeps(s, b, r.app)
    BY DEF Obeys
  <2>1. CASE b \in DrawKeyboard
    BY <1>1, <2>1, RestoreKeysAct, KeyboardObeys
  <2>2. ASSUME NEW i \in DOMAIN FindMatches(s.text), b = WordWidget(s, i) PROVE Keeps(s, b, r.app)
    BY <1>3, <2>2, StripWidgets
  <2>3. ~\E i \in (1..SUGGESTIONS) \ DOMAIN FindMatches(s.text) : b = NoWordWidget(i)
    BY StripWidgets
  <2>4. b # CancelWidget
    BY StripWidgets
  <2>5. b \in DrawRestore(s)
    BY <1>1
  <2> QED
    BY Zenon, <2>1, <2>2, <2>3, <2>4, <2>5, RestoreDrawn
<1>5. Harmless(s, p, r)
  <2> DEFINE key == PassphraseKeyAt(p)
  <2>0. \A b \in DrawKeyboard : b \in Drawn(s)
    BY Zenon, <1>1, RestoreDrawn
  <2>1. CASE SuggestionAt(p) # None
    <3> DEFINE i == SuggestionAt(p)
    <3>1. i \in 1..3 /\ InRect(p, SuggestArea(i))
      BY <2>1, SlotOfPoint
    <3> HIDE DEF i
    <3>2. CASE i \in DOMAIN FindMatches(s.text)
      <4>1. WordWidget(s, i) \in Drawn(s) /\ InRect(p, WordWidget(s, i).area) /\ WordWidget(s, i).lit
        <5>1. WordWidget(s, i).area = SuggestArea(i) /\ WordWidget(s, i).lit
          BY Zenon, StripWidgets
        <5>2. WordWidget(s, i) \in Drawn(s)
          BY <1>3, <3>1, <3>2
        <5> QED
          BY <3>1, <5>1, <5>2
      <4> QED
        BY <4>1 DEF Harmless
    <3>3. CASE i \notin DOMAIN FindMatches(s.text)
      <4>1. StepRestoreWallet(s, p) = {To(s)}
        BY <3>1, <3>3, EmptySlotTaken
      <4>2. r.app = s
        BY <1>1, <1>2, <4>1
      <4> QED
        BY <4>2 DEF Harmless
    <3> QED
      BY <3>2, <3>3
  <2>2. CASE SuggestionAt(p) = None
    <3>1. /\ key = "Backspace" /\ s.text # <<>> => StepRestoreWallet(s, p) = {To(Erased(s))}
          /\ key = "Backspace" /\ s.text = <<>> => StepRestoreWallet(s, p) = {To(s)}
          /\ key = "Skip" => StepRestoreWallet(s, p) = {To(Screen("Welcome"))}
          /\ key \in {"Space", "Confirm", None} => StepRestoreWallet(s, p) = {To(s)}
      BY <2>2, RestoreKeys
    <3>2. \/ key = None \/ key = "Space" \/ key = "Confirm"
          \/ key = "Backspace" /\ (InRect(p, BkspArea(2)) \/ InRect(p, BkspArea(3)))
          \/ key = "Skip" /\ InRect(p, PpSkip)
          \/ \E k \in 0..2 : \E m \in 1..Keys(k) : InRect(p, KeyArea(k, m - 1))
      BY KeyOfPoint
    <3> HIDE DEF key
    <3>3. CASE key \in {"Space", "Confirm", None} \/ (key = "Backspace" /\ s.text = <<>>)
      <4>1. r.app = s
        BY <1>1, <1>2, <3>1, <3>3
      <4> QED
        BY <4>1 DEF Harmless
    <3>4. CASE /\ key = "Backspace" /\ s.text # <<>>
               /\ InRect(p, BkspArea(2)) \/ InRect(p, BkspArea(3))
      <4>1. r.app = Erased(s)
        BY <1>1, <1>2, <3>1, <3>4
      <4>2. EraseWidget \in Drawn(s)
        BY <2>0, KeyboardDrawn
      <4> QED
        BY <3>4, <4>1, <4>2, ErasesHarmlessly
    <3>5. CASE key = "Skip" /\ InRect(p, PpSkip)
      <4>1. r.app = Screen(Above(s))
        BY <1>1, <1>2, <3>1, <3>5 DEF Above
      <4>2. Keeps(s, CancelWidget, r.app)
        BY <4>1, Promises, StripWidgets
      <4>3. CancelWidget \in Drawn(s) /\ InRect(p, CancelWidget.area)
        <5>1. CancelWidget \in DrawRestore(s)
          BY Zenon, RestoreDrawn
        <5> QED
          BY <1>1, <3>5, <5>1, StripWidgets
      <4> QED
        BY <4>2, <4>3 DEF Harmless
    <3>6. ASSUME NEW k \in 0..2, NEW m \in 1..Keys(k), InRect(p, KeyArea(k, m - 1))
          PROVE  Harmless(s, p, r)
      <4>1. KeyWidget(k, m) \in DrawKeyboard
        BY KeyboardDrawn DEF LetterWidgets
      <4>2. KeyWidget(k, m) \in Drawn(s) /\ InRect(p, KeyWidget(k, m).area) /\ KeyWidget(k, m).lit
        BY <2>0, <3>6, <4>1, KeyWidgets
      <4> QED
        BY <4>2 DEF Harmless
    <3> QED
      BY <3>2, <3>3, <3>4, <3>5, <3>6
  <2> QED
    BY <2>1, <2>2
<1> QED
  BY <1>4, <1>5 DEF Honest

\* A passphrase has no error to take away.
LEMMA NoErrorToClear ==
    ASSUME NEW s, Fits(s), s.at = "EnterPassphrase", NEW new
    PROVE  [s EXCEPT !.text = new] = [s EXCEPT !.text = new, !.error = FALSE]
<1>1. s \in AppStates /\ s.error = FALSE
  BY DEF Fits, Exact
<1> DEFINE t == [s EXCEPT !.text = new]
           u == [s EXCEPT !.text = new, !.error = FALSE]
           rec == [at |-> s.at, page |-> s.page, text |-> new, order |-> s.order, digits |-> s.digits,
                   pin |-> s.pin, gate |-> s.gate, confirmed |-> s.confirmed, error |-> FALSE]
           Only == [at : {s.at}, page : {s.page}, text : {new}, order : {s.order}, digits : {s.digits},
                    pin : {s.pin}, gate : {s.gate}, confirmed : {s.confirmed}, error : {FALSE}]
<1>2. t \in Only
  BY <1>1 DEF AppStates
<1>3. u \in Only
  BY <1>1 DEF AppStates
<1> HIDE DEF t, u
<1>4. t = rec
  BY <1>2
<1>5. u = rec
  BY <1>3
<1> HIDE DEF rec
<1> QED
  BY <1>4, <1>5 DEF t, u

\* What happens on the keys of a passphrase.
LEMMA PassphraseKeys ==
    ASSUME NEW s, Fits(s), s.at = "EnterPassphrase", NEW p
    PROVE  LET key  == PassphraseKeyAt(p)
               step == StepEnterPassphrase(s, p)
           IN  /\ IsChar(key) /\ Len(s.text) < MAX_PASS => step = {To(Typed(s, key))}
               /\ IsChar(key) /\ ~(Len(s.text) < MAX_PASS) => step = {To(s)}
               /\ key = "Backspace" /\ s.text # <<>> => step = {To(Erased(s))}
               /\ key = "Backspace" /\ s.text = <<>> => step = {To(s)}
               /\ key = "Skip" => step = SetPin
               /\ key = "Confirm" /\ s.text # <<>> => step = SetPin
               /\ key = "Confirm" /\ s.text = <<>> => step = {To(s)}
               /\ key = None => step = {To(s)}
<1> DEFINE key == PassphraseKeyAt(p)
           step == StepEnterPassphrase(s, p)
<1>1. step = IF IsChar(key) /\ Len(s.text) < MAX_PASS THEN {To([s EXCEPT !.text = Append(@, key)])}
             ELSE IF key = "Backspace" /\ s.text # <<>> THEN {To([s EXCEPT !.text = Front(@)])}
             ELSE IF key = "Skip" \/ (key = "Confirm" /\ s.text # <<>>) THEN SetPin
             ELSE {To(s)}
  BY DEF StepEnterPassphrase
<1> HIDE DEF key, step
<1>2. /\ [s EXCEPT !.text = Append(@, key)] = Typed(s, key)
      /\ [s EXCEPT !.text = Front(@)] = Erased(s)
  BY NoErrorToClear DEF Typed, Erased
<1>3. step = IF IsChar(key) /\ Len(s.text) < MAX_PASS THEN {To(Typed(s, key))}
             ELSE IF key = "Backspace" /\ s.text # <<>> THEN {To(Erased(s))}
             ELSE IF key = "Skip" \/ (key = "Confirm" /\ s.text # <<>>) THEN SetPin
             ELSE {To(s)}
  BY Zenon, <1>1, <1>2
<1>4. ~IsChar("Backspace") /\ ~IsChar("Skip") /\ ~IsChar("Confirm") /\ ~IsChar(None)
      /\ None \notin {"Backspace", "Skip", "Confirm"}
  <2>1. Letters \cap {"Space", "Backspace", "Skip", "Confirm"} = {}
    BY KeysAreLetters
  <2> QED
    BY <2>1, NoneAssumption DEF IsChar
<1>5. /\ IsChar(key) /\ Len(s.text) < MAX_PASS => step = {To(Typed(s, key))}
      /\ IsChar(key) /\ ~(Len(s.text) < MAX_PASS) => step = {To(s)}
  BY <1>3, <1>4
<1>6. /\ key = "Backspace" /\ s.text # <<>> => step = {To(Erased(s))}
      /\ key = "Backspace" /\ s.text = <<>> => step = {To(s)}
  BY <1>3, <1>4
<1>7. /\ key = "Skip" => step = SetPin
      /\ key = "Confirm" /\ s.text # <<>> => step = SetPin
      /\ key = "Confirm" /\ s.text = <<>> => step = {To(s)}
      /\ key = None => step = {To(s)}
  BY <1>3, <1>4
<1> QED
  BY <1>5, <1>6, <1>7 DEF key, step

\* The two buttons below the keyboard of a passphrase.
SkipWidget == Lit("Skip", PpSkip)
ConfirmWidget(s) == Widget("Confirm", None, PpConfirm, s.text # <<>>)

\* What a passphrase draws.
LEMMA PassphraseDrawn ==
    ASSUME NEW s, s.at = "EnterPassphrase"
    PROVE  /\ Drawn(s) = DrawKeyboard \cup {SkipWidget, ConfirmWidget(s)}
           /\ SkipWidget.label = "Skip" /\ SkipWidget.area = PpSkip /\ SkipWidget.lit
           /\ ConfirmWidget(s).label = "Confirm" /\ ConfirmWidget(s).area = PpConfirm
           /\ ConfirmWidget(s).lit <=> s.text # <<>>
<1>1. Drawn(s) = DrawKeyboard \cup {SkipWidget, ConfirmWidget(s)}
  <2>1. Drawn(s) = DrawPassphrase(s)
    BY DEF Drawn
  <2> QED
    BY <2>1 DEF DrawPassphrase, SkipWidget, ConfirmWidget
<1>2. /\ SkipWidget.label = "Skip" /\ SkipWidget.area = PpSkip /\ SkipWidget.lit
      /\ ConfirmWidget(s).label = "Confirm" /\ ConfirmWidget(s).area = PpConfirm
      /\ ConfirmWidget(s).lit <=> s.text # <<>>
  BY DEF SkipWidget, ConfirmWidget, Lit, Widget
<1> QED
  BY <1>1, <1>2

\* The pad that a passphrase leads to.
LEMMA PadIsNext ==
    ASSUME NEW r \in SetPin
    PROVE  r.app.at = "SetPin" /\ r.app.digits = <<>>
<1>1. PICK t \in FreshPads(Screen("SetPin")) : r = To(t)
  BY DEF SetPin
<1>2. PICK draw \in Draws : t = [Screen("SetPin") EXCEPT !.order = Shuffle(draw), !.digits = <<>>]
  BY <1>1 DEF FreshPads
<1>3. t.at = "SetPin" /\ t.digits = <<>>
  BY <1>2 DEF Screen
<1> QED
  BY <1>1, <1>3 DEF To

\* The keys of a passphrase act as they say.
LEMMA PassphraseKeysAct ==
    ASSUME NEW s, Fits(s), s.at = "EnterPassphrase", NEW p, IsPoint(p),
           NEW r \in StepEnterPassphrase(s, p)
    PROVE  KeysAct(s, p, r.app)
<1>1. \A t : To(t).app = t
  BY DEF To
<1>2. Len(s.text) <= MAX_PASS /\ Len(s.text) \in Nat /\ MAX_PASS \in Nat
  BY Limits DEF Fits, AppStates
<1>3. ASSUME NEW c, IsChar(c), PassphraseKeyAt(p) = c PROVE Types(s, c, r.app)
  <2>1. CASE Len(s.text) < MAX_PASS
    <3>1. StepEnterPassphrase(s, p) = {To(Typed(s, c))}
      BY <1>3, <2>1, PassphraseKeys
    <3>2. r.app = Typed(s, c)
      BY <1>1, <3>1
    <3> QED
      BY <3>2 DEF Types, Typed
  <2>2. CASE ~(Len(s.text) < MAX_PASS)
    <3>1. StepEnterPassphrase(s, p) = {To(s)}
      BY <1>3, <2>2, PassphraseKeys
    <3>2. r.app = s
      BY <1>1, <3>1
    <3>3. Len(s.text) = MAX_PASS
      BY <1>2, <2>2
    <3> QED
      BY <3>2, <3>3 DEF Types
  <2> QED
    BY <2>1, <2>2
<1>4. ASSUME NEW k \in 0..2, NEW m \in 1..Keys(k), InRect(p, KeyArea(k, m - 1))
      PROVE  Types(s, KeyRows[k + 1][m], r.app)
  <2>1. PassphraseKeyAt(p) = KeyRows[k + 1][m]
    BY <1>4, LetterIsHit
  <2>2. IsChar(KeyRows[k + 1][m])
    BY KeysAreLetters DEF IsChar
  <2> QED
    BY <1>3, <2>1, <2>2
<1>5. ASSUME InRect(p, SpaceArea(3)) PROVE Types(s, "Space", r.app)
  <2>1. IsChar("Space")
    BY DEF IsChar
  <2> QED
    BY <1>3, <1>5, <2>1, LowerKeys
<1>6. ASSUME InRect(p, BkspArea(3)) PROVE Erases(s, r.app) \/ (s.text = <<>> /\ r.app = s)
  <2>1. PassphraseKeyAt(p) = "Backspace"
    BY <1>6, LowerKeys
  <2>2. CASE s.text # <<>>
    <3>1. StepEnterPassphrase(s, p) = {To(Erased(s))}
      BY <2>1, <2>2, PassphraseKeys
    <3>2. r.app = Erased(s)
      BY <1>1, <3>1
    <3> QED
      BY <2>2, <3>2 DEF Erases, Erased
  <2>3. CASE s.text = <<>>
    <3>1. StepEnterPassphrase(s, p) = {To(s)}
      BY <2>1, <2>3, PassphraseKeys
    <3>2. r.app = s
      BY <1>1, <3>1
    <3> QED
      BY <2>3, <3>2
  <2> QED
    BY <2>2, <2>3
<1> QED
  BY <1>4, <1>5, <1>6 DEF KeysAct

\* A passphrase.
LEMMA PassphraseHonest ==
    ASSUME NEW s, Fits(s), s.at = "EnterPassphrase", NEW p, IsPoint(p), NEW r \in Step(s, p)
    PROVE  Honest(s, p, r)
<1> DEFINE confirm == ConfirmWidget(s)
           step == StepEnterPassphrase(s, p)
<1>1. r \in step
  BY DEF Step
<1>2. /\ Drawn(s) = DrawKeyboard \cup {SkipWidget, confirm}
      /\ SkipWidget.label = "Skip" /\ SkipWidget.area = PpSkip /\ SkipWidget.lit
      /\ confirm.label = "Confirm" /\ confirm.area = PpConfirm
      /\ confirm.lit <=> s.text # <<>>
  BY PassphraseDrawn
<1>3. \A t : To(t).app = t
  BY DEF To
<1>4. KeysAct(s, p, r.app)
  BY <1>1, PassphraseKeysAct
<1> HIDE DEF confirm
<1>5. Obeys(s, p, r)
  <2> SUFFICES ASSUME NEW b \in Drawn(s), b.lit, InRect(p, b.area) PROVE Keeps(s, b, r.app)
    BY DEF Obeys
  <2>1. CASE b \in DrawKeyboard
    BY <1>4, <2>1, KeyboardObeys
  <2>2. CASE b = SkipWidget
    <3>1. step = SetPin
      BY <1>2, <2>2, LowerKeys, PassphraseKeys
    <3>2. r.app.at = "SetPin"
      BY <1>1, <3>1, PadIsNext
    <3> QED
      BY <1>2, <2>2, <3>2, TypingPromises
  <2>3. CASE b = confirm
    <3>1. step = SetPin
      BY <1>2, <2>3, LowerKeys, PassphraseKeys
    <3>2. r.app.at = "SetPin"
      BY <1>1, <3>1, PadIsNext
    <3> QED
      BY <1>2, <2>3, <3>2, TypingPromises
  <2> QED
    BY <1>2, <2>1, <2>2, <2>3
<1>6. Harmless(s, p, r)
  <2> DEFINE key == PassphraseKeyAt(p)
  <2>1. /\ key = "Backspace" /\ s.text # <<>> => step = {To(Erased(s))}
        /\ key = "Backspace" /\ s.text = <<>> => step = {To(s)}
        /\ key = "Confirm" /\ s.text = <<>> => step = {To(s)}
        /\ key = None => step = {To(s)}
    BY PassphraseKeys
  <2>2. \/ key = None
        \/ key = "Backspace" /\ (InRect(p, BkspArea(2)) \/ InRect(p, BkspArea(3)))
        \/ key = "Space" /\ InRect(p, SpaceArea(3))
        \/ key = "Confirm" /\ InRect(p, PpConfirm)
        \/ key = "Skip" /\ InRect(p, PpSkip)
        \/ \E k \in 0..2 : \E m \in 1..Keys(k) : InRect(p, KeyArea(k, m - 1))
    BY KeyOfPoint
  <2> HIDE DEF key, step
  <2>3. ASSUME NEW b \in Drawn(s), b.lit, InRect(p, b.area) PROVE Harmless(s, p, r)
    BY <2>3 DEF Harmless
  <2>4. CASE key = None \/ (key = "Backspace" /\ s.text = <<>>) \/ (key = "Confirm" /\ s.text = <<>>)
    <3>1. r.app = s
      BY <1>1, <1>3, <2>1, <2>4
    <3> QED
      BY <3>1 DEF Harmless
  <2>5. CASE /\ key = "Backspace" /\ s.text # <<>>
             /\ InRect(p, BkspArea(2)) \/ InRect(p, BkspArea(3))
    <3>1. r.app = Erased(s)
      BY <1>1, <1>3, <2>1, <2>5
    <3>2. EraseWidget \in Drawn(s)
      BY <1>2, KeyboardDrawn
    <3> QED
      BY <2>5, <3>1, <3>2, ErasesHarmlessly
  <2>6. CASE InRect(p, SpaceArea(3))
    <3>1. SpaceWidget \in Drawn(s)
      BY <1>2, KeyboardDrawn
    <3> QED
      BY <2>3, <2>6, <3>1, KeyWidgets
  <2>7. CASE s.text # <<>> /\ InRect(p, PpConfirm)
    BY <1>2, <2>3, <2>7
  <2>8. CASE InRect(p, PpSkip)
    BY <1>2, <2>3, <2>8
  <2>9. ASSUME NEW k \in 0..2, NEW m \in 1..Keys(k), InRect(p, KeyArea(k, m - 1))
        PROVE  Harmless(s, p, r)
    <3>1. KeyWidget(k, m) \in Drawn(s)
      BY <1>2, KeyboardDrawn DEF LetterWidgets
    <3> QED
      BY <2>3, <2>9, <3>1, KeyWidgets
  <2> QED
    BY <2>2, <2>4, <2>5, <2>6, <2>7, <2>8, <2>9
<1> QED
  BY <1>5, <1>6 DEF Honest

-----------------------------------------------------------------------------
(* The PIN pad *)

\* The left edge of a key of the pad, and its upper edge.
PadX(pos) == IF pos < 5 THEN 110 + pos * 120 ELSE 110 + (pos - 5) * 120
PadY(pos) == IF pos < 5 THEN 140 ELSE 240

\* The pad, in pixels.
LEMMA PadPixels ==
    /\ \A pos \in 0..9 : PinKey(pos) = <<PadX(pos), PadY(pos), 100, 80>>
    /\ PinDel = <<40, 360, 200, 50>>
<1>1. Centred(5, PIN_KEY_W, PIN_KEY_GAP) = 110 /\ PIN_KEY_W + PIN_KEY_GAP = 120
      /\ PIN_ROW0_Y = 140 /\ PIN_ROW0_Y + PIN_KEY_H + PIN_KEY_GAP = 240
      /\ PIN_KEY_W = 100 /\ PIN_KEY_H = 80
  BY DEF Centred, PIN_KEY_W, PIN_KEY_GAP, PIN_ROW0_Y, PIN_KEY_H, SCREEN_W
<1>2. ASSUME NEW pos \in 0..9
      PROVE  110 + (pos % 5) * 120 = PadX(pos) /\ (IF pos \div 5 = 0 THEN 140 ELSE 240) = PadY(pos)
  <2>1. CASE pos < 5
    <3>1. (pos % 5) = pos /\ pos \div 5 = 0
      BY <2>1
    <3> QED
      BY <2>1, <3>1 DEF PadX, PadY
  <2>2. CASE ~(pos < 5)
    <3>1. (pos % 5) = pos - 5 /\ pos \div 5 = 1
      BY <2>2
    <3> QED
      BY <2>2, <3>1 DEF PadX, PadY
  <2> QED
    BY <2>1, <2>2
<1>3. ASSUME NEW pos \in 0..9 PROVE PinKey(pos) = <<PadX(pos), PadY(pos), 100, 80>>
  <2>1. PinKey(pos) = <<110 + (pos % 5) * 120, IF pos \div 5 = 0 THEN 140 ELSE 240, 100, 80>>
    BY <1>1 DEF PinKey
  <2> QED
    BY <1>2, <2>1
<1> QED
  BY <1>3 DEF PinDel

\* A point in a key of the pad is in no other, and not in Del.
LEMMA PadKeyIsHit ==
    ASSUME NEW p, IsPoint(p), NEW pos \in 0..9, InRect(p, PinKey(pos))
    PROVE  PinKeyAt(p) = pos /\ ~InRect(p, PinDel)
<1>1. DOMAIN PinPad = 0..9 /\ \A k \in 0..9 : PinPad[k] = PinKey(k)
  BY DEF PinPad, PIN_KEYS
<1>2. PadX(pos) \in Int /\ PadY(pos) \in Int /\ PadY(pos) <= 240
  BY DEF PadX, PadY
<1>3. /\ PadX(pos) <= p[1] /\ p[1] < PadX(pos) + 100
      /\ PadY(pos) <= p[2] /\ p[2] < PadY(pos) + 80
  BY PadPixels DEF InRect, IsPoint
<1>4. ASSUME NEW k \in 0..9, InRect(p, PinKey(k)) PROVE k = pos
  <2>1. /\ PadX(k) <= p[1] /\ p[1] < PadX(k) + 100
        /\ PadY(k) <= p[2] /\ p[2] < PadY(k) + 80
    BY <1>4, PadPixels DEF InRect, IsPoint
  <2>2. k < 5 <=> pos < 5
    BY <1>3, <2>1 DEF PadY, IsPoint
  <2> QED
    BY <1>3, <2>1, <2>2 DEF PadX, IsPoint
<1>5. PinKeyAt(p) = pos
  <2>1. PinKeyAt(p) = CHOOSE k \in 0..9 : InRect(p, PinPad[k])
    BY <1>1 DEF PinKeyAt
  <2> QED
    BY <1>1, <1>4, <2>1
<1>6. ~InRect(p, PinDel)
  BY <1>2, <1>3, PadPixels DEF InRect, IsPoint
<1> QED
  BY <1>5, <1>6

\* Any other point is in no key.
LEMMA PadKeyOfPoint ==
    ASSUME NEW p
    PROVE  \/ PinKeyAt(p) = None /\ \A pos \in 0..9 : ~InRect(p, PinKey(pos))
           \/ PinKeyAt(p) \in 0..9 /\ InRect(p, PinKey(PinKeyAt(p)))
<1>1. DOMAIN PinPad = 0..9 /\ \A k \in 0..9 : PinPad[k] = PinKey(k)
  BY DEF PinPad, PIN_KEYS
<1> QED
  BY <1>1 DEF PinKeyAt

WithDigit(s, d) == [s EXCEPT !.digits = Append(@, d)]
Shorter(s) == [s EXCEPT !.digits = Front(@)]
\* The pad after a tap: a digit more, a digit less, or the same.
LEMMA PadTaps ==
    ASSUME NEW s, Len(s.digits) \in Nat, Len(s.digits) < PIN_LEN, NEW p, IsPoint(p)
    PROVE  /\ \A pos \in 0..9 : InRect(p, PinKey(pos)) => PadAfter(s, p) = WithDigit(s, s.order[pos + 1])
           /\ InRect(p, PinDel) /\ s.digits # <<>> => PadAfter(s, p) = Shorter(s)
           /\ (\A pos \in 0..9 : ~InRect(p, PinKey(pos))) /\ ~(InRect(p, PinDel) /\ s.digits # <<>>)
                 => PadAfter(s, p) = s
<1>1. \A pos \in 0..9 : pos # None
  BY NoneAssumption
<1>2. ASSUME NEW pos \in 0..9, InRect(p, PinKey(pos))
      PROVE  PadAfter(s, p) = WithDigit(s, s.order[pos + 1])
  <2>1. PinKeyAt(p) = pos
    BY <1>2, PadKeyIsHit
  <2> QED
    BY <1>1, <2>1 DEF PadAfter, WithDigit
<1>3. ASSUME InRect(p, PinDel), s.digits # <<>> PROVE PadAfter(s, p) = Shorter(s)
  <2>1. PinKeyAt(p) = None
    BY <1>3, PadKeyIsHit, PadKeyOfPoint
  <2> QED
    BY <1>3, <2>1 DEF PadAfter, Shorter
<1>4. ASSUME \A pos \in 0..9 : ~InRect(p, PinKey(pos)), ~(InRect(p, PinDel) /\ s.digits # <<>>)
      PROVE  PadAfter(s, p) = s
  <2>1. PinKeyAt(p) = None
    BY <1>4, PadKeyOfPoint
  <2> QED
    BY <1>4, <2>1 DEF PadAfter
<1> QED
  BY <1>2, <1>3, <1>4

\* Where a full pad leads.
AfterFull == {"ConfirmPin", "PinConfirming", "PinMismatch", "PinVerifying", "ShowMnemonic", "SetPin",
              "EnterPin", "PinLocked"}

\* No digits are left on the screen that a full pad leads to.
Cleared(r) == r.app.digits = <<>> /\ r.app.at \in AfterFull

\* A full pad shows no digits on the screen it leads to.
LEMMA FullIsCleared ==
    /\ \A r \in SetPin : Cleared(r)
    /\ \A gate : \A r \in EnterPin(gate) : Cleared(r)
    /\ \A at \in AfterFull : Cleared(To(Screen(at))) /\ Cleared(To(Page(at, 0)))
    /\ \A pin : \A c \in FreshPads(Confirming(pin)) : Cleared(To(c)) /\ To(c).app.pin = pin
<1>1. \A r \in SetPin : Cleared(r)
  BY PadIsNext DEF Cleared, AfterFull
<1>2. \A gate : \A r \in EnterPin(gate) : Cleared(r)
  BY GateIsFresh DEF Cleared, AfterFull
<1>3. \A at \in AfterFull : Cleared(To(Screen(at))) /\ Cleared(To(Page(at, 0)))
  <2>1. \A at : To(Screen(at)).app.digits = <<>> /\ To(Screen(at)).app.at = at
    BY DEF To, Screen
  <2>2. \A at : To(Page(at, 0)).app.digits = <<>> /\ To(Page(at, 0)).app.at = at
    BY DEF To, Page, Screen
  <2> QED
    BY <2>1, <2>2 DEF Cleared
<1>4. ASSUME NEW pin, NEW c \in FreshPads(Confirming(pin)) PROVE Cleared(To(c)) /\ To(c).app.pin = pin
  <2>1. PICK draw \in Draws : c = [Confirming(pin) EXCEPT !.order = Shuffle(draw), !.digits = <<>>]
    BY DEF FreshPads
  <2>2. c.digits = <<>> /\ c.pin = pin /\ c.at = "ConfirmPin"
    BY <2>1 DEF Confirming, Screen
  <2>3. To(c).app = c
    BY DEF To
  <2> QED
    BY <2>2, <2>3 DEF Cleared, AfterFull
<1> QED
  BY <1>1, <1>2, <1>3, <1>4

\* The result of a tap on a pad: the pad, or a screen without digits when it is full.
LEMMA PadResult ==
    ASSUME NEW s, Fits(s), s.at \in Pads, NEW p, NEW r \in Step(s, p)
    PROVE  LET t == PadAfter(s, p)
           IN  /\ ~Full(t) => r.app = t
               /\ Full(t) => Cleared(r)
               /\ Full(t) /\ s.at = "SetPin" => r.app.pin = t.digits
<1> DEFINE t == PadAfter(s, p)
<1>1. \A u : To(u).app = u
  BY DEF To
<1>2. t.gate = s.gate
  BY PadStep
<1>3. CASE s.at = "SetPin"
  <2>1. r \in StepSetPin(s, p)
    BY <1>3 DEF Step
  <2>2. r \in IF Full(t) THEN {To(c) : c \in FreshPads(Confirming(t.digits))} ELSE {To(t)}
    BY <2>1 DEF StepSetPin, Confirming
  <2> HIDE DEF t
  <2>3. /\ Full(t) => \E c \in FreshPads(Confirming(t.digits)) : r = To(c)
        /\ ~Full(t) => r = To(t)
    BY <2>2
  <2>4. (Full(t) => Cleared(r) /\ r.app.pin = t.digits) /\ (~Full(t) => r.app = t)
    BY <1>1, <2>3, FullIsCleared
  <2> QED
    BY <2>4 DEF t
<1>4. CASE s.at = "ConfirmPin"
  <2>1. r \in StepConfirmPin(s, p)
    BY <1>4 DEF Step
  <2>2. r = To(IF ~Full(t) THEN t
               ELSE IF t.digits = t.pin THEN Screen("PinConfirming") ELSE Screen("PinMismatch"))
    BY <2>1 DEF StepConfirmPin
  <2> HIDE DEF t
  <2>3. /\ ~Full(t) => r.app = t
        /\ Full(t) => r = To(Screen("PinConfirming")) \/ r = To(Screen("PinMismatch"))
    BY <1>1, <2>2
  <2>4. Cleared(To(Screen("PinConfirming"))) /\ Cleared(To(Screen("PinMismatch")))
    BY FullIsCleared DEF AfterFull
  <2> QED
    BY <1>4, <2>3, <2>4 DEF t
<1>5. CASE s.at = "EnterPin"
  <2>1. r \in StepEnterPin(s, p) /\ s.gate \in Gates
    BY <1>5 DEF Step, Fits
  <2>2. \/ ~Full(t) /\ r = To(t)
        \/ Full(t) /\ r = To(Screen("PinVerifying"))
        \/ Full(t) /\ r \in Verdicts(t.gate, {To(Page("ShowMnemonic", 0))})
        \/ Full(t) /\ r \in Verdicts(t.gate, SetPin)
    BY <1>2, <2>1 DEF StepEnterPin, Gates
  <2> HIDE DEF t
  <2>3. Cleared(To(Screen("PinVerifying"))) /\ Cleared(To(Screen("PinLocked")))
        /\ Cleared(To(Page("ShowMnemonic", 0)))
    BY FullIsCleared DEF AfterFull
  <2>4. /\ \A q \in Verdicts(t.gate, {To(Page("ShowMnemonic", 0))}) : Cleared(q)
        /\ \A q \in Verdicts(t.gate, SetPin) : Cleared(q)
    BY <2>3, FullIsCleared DEF Verdicts
  <2>5. (Full(t) => Cleared(r)) /\ (~Full(t) => r.app = t)
    BY <1>1, <2>2, <2>3, <2>4
  <2> QED
    BY <1>5, <2>5 DEF t
<1> QED
  BY <1>3, <1>4, <1>5 DEF Pads

DigitWidget(s, pos) == Widget("digit", s.order[pos + 1], PinKey(pos), TRUE)
DelWidget == Lit("<- Del", PinDel)
\* What a pad draws.
LEMMA PadDrawn ==
    ASSUME NEW s, s.at \in Pads
    PROVE  /\ \A b : b \in Drawn(s) <=> (\/ \E pos \in 0..9 : b = DigitWidget(s, pos)
                                         \/ s.digits # <<>> /\ b = DelWidget)
           /\ \A pos : /\ DigitWidget(s, pos).label = "digit" /\ DigitWidget(s, pos).area = PinKey(pos)
                       /\ DigitWidget(s, pos).arg = s.order[pos + 1] /\ DigitWidget(s, pos).lit
           /\ DelWidget.label = "<- Del" /\ DelWidget.area = PinDel /\ DelWidget.lit
<1>1. Drawn(s) = DrawPad(s)
  BY DEF Drawn, Pads
<1>2. DrawPad(s) = {DigitWidget(s, pos) : pos \in 0..9}
                   \cup IF s.digits # <<>> THEN {DelWidget} ELSE {}
  BY DEF DrawPad, DigitWidget, DelWidget, PIN_KEYS
<1>3. /\ \A pos : /\ DigitWidget(s, pos).label = "digit" /\ DigitWidget(s, pos).area = PinKey(pos)
                  /\ DigitWidget(s, pos).arg = s.order[pos + 1] /\ DigitWidget(s, pos).lit
      /\ DelWidget.label = "<- Del" /\ DelWidget.area = PinDel /\ DelWidget.lit
  BY DEF DigitWidget, DelWidget, Lit, Widget
<1>4. ASSUME NEW b
      PROVE  b \in Drawn(s) <=> (\/ \E pos \in 0..9 : b = DigitWidget(s, pos)
                                 \/ s.digits # <<>> /\ b = DelWidget)
  BY <1>1, <1>2
<1> QED
  BY <1>3, <1>4

\* A key of the pad adds its digit, and the last one completes the entry.
LEMMA DigitIsAdded ==
    ASSUME NEW s, Fits(s), s.at \in Pads, NEW p, IsPoint(p), NEW r \in Step(s, p),
           NEW pos \in 0..9, InRect(p, PinKey(pos))
    PROVE  AddsDigit(s, s.order[pos + 1], r.app)
<1> DEFINE t == PadAfter(s, p)
           d == s.order[pos + 1]
<1>1. /\ s \in AppStates /\ s.digits \in Seq(0..PIN_KEYS - 1) /\ Len(s.digits) \in Nat
      /\ Len(s.digits) < PIN_LEN /\ PIN_LEN \in Nat
  BY Limits DEF Fits, AppStates
<1>2. t = WithDigit(s, d)
  BY <1>1, PadTaps
<1>3. /\ ~Full(t) => r.app = t
      /\ Full(t) => r.app.digits = <<>>
      /\ Full(t) /\ s.at = "SetPin" => r.app.pin = t.digits
  BY PadResult DEF Cleared
<1> HIDE DEF t, d
<1>4. t.digits = Append(s.digits, d)
  BY <1>1, <1>2 DEF AppStates, WithDigit
<1>5. Len(t.digits) = Len(s.digits) + 1
  BY <1>1, <1>4
<1>6. CASE Len(s.digits) + 1 < PIN_LEN
  <2>1. ~Full(t)
    BY <1>1, <1>5, <1>6 DEF Full
  <2>2. r.app = [s EXCEPT !.digits = Append(@, d)]
    BY <1>2, <1>3, <2>1 DEF WithDigit
  <2> QED
    BY <1>6, <2>2 DEF AddsDigit, d
<1>7. CASE ~(Len(s.digits) + 1 < PIN_LEN)
  <2>1. Full(t)
    BY <1>1, <1>5, <1>7 DEF Full
  <2>2. r.app.digits = <<>> /\ (s.at = "SetPin" => r.app.pin = Append(s.digits, d))
    BY <1>3, <1>4, <2>1
  <2> QED
    BY <1>7, <2>2 DEF AddsDigit, d
<1> QED
  BY <1>6, <1>7

\* On a pad, Del takes back the last digit, and a tap beside all keys changes nothing.
LEMMA PadStays ==
    ASSUME NEW s, Fits(s), s.at \in Pads, NEW p, IsPoint(p), NEW r \in Step(s, p)
    PROVE  /\ InRect(p, PinDel) /\ s.digits # <<>> => Erases(s, r.app)
           /\ (\A pos \in 0..9 : ~InRect(p, PinKey(pos))) /\ ~(InRect(p, PinDel) /\ s.digits # <<>>)
                 => r.app = s
<1> DEFINE t == PadAfter(s, p)
<1>1. /\ s \in AppStates /\ s.digits \in Seq(0..PIN_KEYS - 1) /\ Len(s.digits) \in Nat
      /\ Len(s.digits) < PIN_LEN /\ PIN_LEN \in Nat
  BY Limits DEF Fits, AppStates
<1>2. ~Full(t) => r.app = t
  BY PadResult
<1>3. ASSUME InRect(p, PinDel), s.digits # <<>> PROVE Erases(s, r.app)
  <2>1. t = Shorter(s)
    BY <1>1, <1>3, PadTaps
  <2> HIDE DEF t
  <2>2. t.digits = Front(s.digits)
    BY <1>1, <2>1 DEF AppStates, Shorter
  <2>3. Len(Front(s.digits)) = Len(s.digits) - 1
    BY <1>1, <1>3, FrontType
  <2>4. ~Full(t)
    BY <1>1, <2>2, <2>3 DEF Full
  <2> QED
    BY <1>2, <1>3, <2>1, <2>4 DEF Erases, Shorter
<1>4. ASSUME \A pos \in 0..9 : ~InRect(p, PinKey(pos)), ~(InRect(p, PinDel) /\ s.digits # <<>>)
      PROVE  r.app = s
  <2>1. t = s
    BY <1>1, <1>4, PadTaps
  <2>2. ~Full(t)
    BY <1>1, <2>1 DEF Full
  <2> QED
    BY <1>2, <2>1, <2>2
<1> QED
  BY <1>3, <1>4

\* A pad.
LEMMA PadHonest ==
    ASSUME NEW s, Fits(s), s.at \in Pads, NEW p, IsPoint(p), NEW r \in Step(s, p)
    PROVE  Honest(s, p, r)
<1>1. Obeys(s, p, r)
  <2> SUFFICES ASSUME NEW b \in Drawn(s), InRect(p, b.area) PROVE Keeps(s, b, r.app)
    BY DEF Obeys
  <2>1. ASSUME NEW pos \in 0..9, b = DigitWidget(s, pos) PROVE Keeps(s, b, r.app)
    <3>1. b.label = "digit" /\ b.arg = s.order[pos + 1] /\ b.area = PinKey(pos)
      BY <2>1, PadDrawn
    <3>2. AddsDigit(s, b.arg, r.app)
      BY <3>1, DigitIsAdded
    <3> QED
      BY <3>1, <3>2, TypingPromises
  <2>2. ASSUME s.digits # <<>>, b = DelWidget PROVE Keeps(s, b, r.app)
    <3>1. b.label = "<- Del" /\ b.area = PinDel
      BY <2>2, PadDrawn
    <3>2. Erases(s, r.app)
      BY <2>2, <3>1, PadStays
    <3> QED
      BY <3>1, <3>2, TypingPromises
  <2> QED
    BY <2>1, <2>2, PadDrawn
<1>2. Harmless(s, p, r)
  <2>1. ASSUME NEW pos \in 0..9, InRect(p, PinKey(pos)) PROVE Harmless(s, p, r)
    <3>1. DigitWidget(s, pos) \in Drawn(s) /\ InRect(p, DigitWidget(s, pos).area) /\ DigitWidget(s, pos).lit
      BY <2>1, PadDrawn
    <3> QED
      BY <3>1 DEF Harmless
  <2>2. CASE InRect(p, PinDel) /\ s.digits # <<>>
    <3>1. DelWidget \in Drawn(s) /\ InRect(p, DelWidget.area) /\ DelWidget.lit
      BY <2>2, PadDrawn
    <3> QED
      BY <3>1 DEF Harmless
  <2>3. CASE (\A pos \in 0..9 : ~InRect(p, PinKey(pos))) /\ ~(InRect(p, PinDel) /\ s.digits # <<>>)
    BY <2>3, PadStays DEF Harmless
  <2> QED
    BY <2>1, <2>2, <2>3
<1> QED
  BY <1>1, <1>2 DEF Honest

-----------------------------------------------------------------------------
(* Every screen, every tap *)

\* The screens without buttons.
LEMMA NoButtonsHonest ==
    ASSUME NEW s, s.at \in {"PinMismatch", "PinVerifying", "PinConfirming", "PinLocked"},
           NEW p, NEW r \in Step(s, p)
    PROVE  Honest(s, p, r)
<1>1. Drawn(s) = {}
  BY DEF Drawn
<1>2. CASE s.at = "PinMismatch"
  <2>1. r \in SetPin
    BY <1>2 DEF Step
  <2>2. r.app.at = "SetPin"
    BY <2>1, PadIsNext
  <2> QED
    BY <1>1, <1>2, <2>2 DEF Honest, Obeys, Harmless
<1>3. CASE s.at \in {"PinVerifying", "PinConfirming", "PinLocked"}
  <2>1. r = To(s)
    BY <1>3 DEF Step
  <2>2. r.app = s
    BY <2>1 DEF To
  <2> QED
    BY <1>1, <2>2 DEF Honest, Obeys, Harmless
<1> QED
  BY <1>2, <1>3

\* On every screen a tap does what its button says.
LEMMA TapsAreHonest ==
    ASSUME NEW s, Fits(s), NEW p, IsPoint(p), NEW r \in Step(s, p)
    PROVE  Honest(s, p, r)
<1>1. s.at \in Screens
  BY DEF Fits, AppStates
<1>2. CASE s.at \in {"Welcome", "Home", "Settings", "SignScan", "SignReview"}
  BY <1>2, WelcomeHonest, HomeHonest, SettingsHonest, SignScanHonest, SignReviewHonest
<1>3. CASE s.at \in {"NewWallet", "ShowMnemonic"}
  BY <1>3, PagesHonest
<1>4. CASE s.at \in {"RestoreWallet", "EnterPassphrase"}
  BY <1>4, RestoreHonest, PassphraseHonest
<1>5. CASE s.at \in Pads
  BY <1>5, PadHonest
<1>6. CASE s.at \in {"Receive", "Accounts", "Descriptor", "About", "SignResult"}
  BY <1>6, BackScreensHonest
<1>7. CASE s.at \in {"PinMismatch", "PinVerifying", "PinConfirming", "PinLocked"}
  BY <1>7, NoButtonsHonest
<1> QED
  BY <1>1, <1>2, <1>3, <1>4, <1>5, <1>6, <1>7 DEF Screens, Pads

IsArea(a) == \E x, y, w, h \in Int : a = <<x, y, w, h>>
\* The corners of an area are points.
LEMMA CornersArePoints ==
    ASSUME NEW a, IsArea(a), NEW p \in Corners(a)
    PROVE  IsPoint(p)
<1>1. PICK x, y, w, h \in Int : a = <<x, y, w, h>>
  BY DEF IsArea
<1>2. /\ {a[1] - 1, a[1], a[1] + a[3] - 1, a[1] + a[3]} \subseteq Int
      /\ {a[2] - 1, a[2], a[2] + a[4] - 1, a[2] + a[4]} \subseteq Int
  BY <1>1
<1> DEFINE X == {a[1] - 1, a[1], a[1] + a[3] - 1, a[1] + a[3]}
           Y == {a[2] - 1, a[2], a[2] + a[4] - 1, a[2] + a[4]}
<1>3. p \in {<<i, j>> : i \in X, j \in Y}
  BY DEF Corners
<1> HIDE DEF X, Y
<1>4. PICK i \in X, j \in Y : p = <<i, j>>
  BY <1>3
<1> QED
  BY <1>2, <1>4 DEF IsPoint, X, Y

\* All areas are in pixels.
LEMMA AreasInPixels ==
    /\ IsArea(BtnNew) /\ IsArea(BtnRestore) /\ IsArea(NavPrev) /\ IsArea(NavNext) /\ IsArea(PinDel)
    /\ \A col, row \in 0..1 : IsArea(HomeArea(col, row))
    /\ \A i \in 0..3 : IsArea(SettingsArea(i)) /\ IsArea(SdRow(i))
    /\ \A i \in 1..3 : IsArea(SuggestArea(i))
    /\ \A pos \in 0..9 : IsArea(PinKey(pos))
    /\ \A k \in 0..2 : \A m \in 1..Keys(k) : IsArea(KeyArea(k, m - 1))
    /\ IsArea(SpaceArea(3)) /\ IsArea(BkspArea(3)) /\ IsArea(BkspArea(2))
    /\ IsArea(PpSkip) /\ IsArea(PpConfirm)
<1>0. ASSUME NEW x \in Int, NEW y \in Int, NEW w \in Int, NEW h \in Int PROVE IsArea(<<x, y, w, h>>)
  BY DEF IsArea
<1>1. IsArea(BtnNew) /\ IsArea(BtnRestore) /\ IsArea(NavPrev) /\ IsArea(NavNext) /\ IsArea(PinDel)
  <2>1. IsArea(BtnNew) /\ IsArea(BtnRestore)
    BY <1>0, FramePixels
  <2>2. IsArea(NavPrev) /\ IsArea(NavNext)
    BY <1>0, FramePixels
  <2>3. IsArea(PinDel)
    BY <1>0, PadPixels
  <2> QED
    BY <2>1, <2>2, <2>3
<1>2. ASSUME NEW col \in 0..1, NEW row \in 0..1 PROVE IsArea(HomeArea(col, row))
  <2>1. /\ IsArea(HomeArea(0, 0)) /\ IsArea(HomeArea(1, 0)) /\ IsArea(HomeArea(0, 1))
        /\ IsArea(HomeArea(1, 1))
    <3>1. IsArea(HomeArea(0, 0)) /\ IsArea(HomeArea(1, 0))
      BY <1>0, HomePixels
    <3>2. IsArea(HomeArea(0, 1)) /\ IsArea(HomeArea(1, 1))
      BY <1>0, HomePixels
    <3> QED
      BY <3>1, <3>2
  <2>2. (col = 0 \/ col = 1) /\ (row = 0 \/ row = 1)
    OBVIOUS
  <2> QED
    BY <2>1, <2>2
<1>3. ASSUME NEW i \in 0..3 PROVE IsArea(SettingsArea(i)) /\ IsArea(SdRow(i))
  <2> DEFINE y == 100 + i * 70
             z == 78 + i * 70
  <2>1. y \in Int /\ z \in Int
    OBVIOUS
  <2>2. SettingsArea(i) = <<220, y, 360, 60>> /\ SdRow(i) = <<210, z, 380, 60>>
    BY SettingsPixels, RowPixels
  <2> HIDE DEF y, z
  <2>3. IsArea(SettingsArea(i))
    BY <1>0, <2>1, <2>2
  <2>4. IsArea(SdRow(i))
    BY <1>0, <2>1, <2>2
  <2> QED
    BY <2>3, <2>4
<1>4. ASSUME NEW i \in 1..3 PROVE IsArea(SuggestArea(i))
  BY <1>0, Slots
<1>5. ASSUME NEW pos \in 0..9 PROVE IsArea(PinKey(pos))
  <2>1. PadX(pos) \in Int /\ PadY(pos) \in Int
    BY DEF PadX, PadY
  <2> QED
    BY <1>0, <2>1, PadPixels
<1>6. ASSUME NEW k \in 0..2, NEW m \in 1..Keys(k) PROVE IsArea(KeyArea(k, m - 1))
  <2>1. Keys(k) \in 1..10
    BY RowsOfKeys
  <2>2. m - 1 \in Int /\ KeyX(k) \in Int
    BY <2>1 DEF KeyX
  <2>3. KeyArea(k, m - 1) = <<KeyX(k) + (m - 1) * 70, 115 + k * 50, 65, 45>>
    BY <2>2, RowsOfKeys
  <2> QED
    BY <1>0, <2>2, <2>3
<1>7. /\ IsArea(SpaceArea(3)) /\ IsArea(BkspArea(3)) /\ IsArea(BkspArea(2))
      /\ IsArea(PpSkip) /\ IsArea(PpConfirm)
  <2>1. IsArea(SpaceArea(3)) /\ IsArea(BkspArea(3)) /\ IsArea(BkspArea(2))
    BY <1>0, OtherKeys
  <2>2. IsArea(PpSkip) /\ IsArea(PpConfirm)
    BY <1>0, OtherKeys
  <2> QED
    BY <2>1, <2>2
<1> QED
  BY <1>1, <1>2, <1>3, <1>4, <1>5, <1>6, <1>7

\* The points of the probes are points.
LEMMA ProbesArePoints == \A p \in Probes : IsPoint(p)
<1> SUFFICES ASSUME NEW p \in Probes PROVE IsPoint(p)
  OBVIOUS
<1>1. PICK a \in Areas : p \in Corners(a)
  BY DEF Probes
<1>2. \A b \in ToSet(KeyTable) : IsArea(b.area)
  <2> SUFFICES ASSUME NEW b \in ToSet(KeyTable) PROVE IsArea(b.area)
    OBVIOUS
  <2>1. PICK j \in 1..31 : b = KeyTable[j]
    BY TableOfKeys DEF ToSet
  <2>2. CASE j \in 1..26
    <3>1. PICK k \in 0..2 : \E m \in 1..Keys(k) : j = Before(k) + m
      BY <2>2, PlaceOfLetter
    <3>2. PICK m \in 1..Keys(k) : j = Before(k) + m
      BY <3>1
    <3>3. b = Button(KeyRows[k + 1][m], KeyArea(k, m - 1))
      BY <2>1, <3>2, TableOfKeys
    <3>4. b.area = KeyArea(k, m - 1)
      BY <3>3 DEF Button
    <3> QED
      BY <3>4, AreasInPixels
  <2>3. CASE j \in 27..31
    <3>1. b.area \in {BkspArea(2), SpaceArea(3), BkspArea(3), PpSkip, PpConfirm}
      <4>1. j = 27 \/ j = 28 \/ j = 29 \/ j = 30 \/ j = 31
        BY <2>3
      <4> QED
        BY <2>1, <4>1, TableEnd, OtherKeys
    <3> QED
      BY <3>1, AreasInPixels
  <2> QED
    BY <2>2, <2>3
<1>3. \/ a \in {BtnNew, BtnRestore, NavPrev, NavNext, PinDel}
      \/ \E col, row \in 0..1 : a = HomeArea(col, row)
      \/ \E i \in 0..3 : a = SettingsArea(i) \/ a = SdRow(i)
      \/ \E pos \in 0..9 : a = PinKey(pos)
      \/ \E i \in 1..3 : a = SuggestArea(i)
      \/ \E b \in ToSet(KeyTable) : a = b.area
  BY <1>1 DEF Areas, SD_FILES_MAX, PIN_KEYS, SUGGESTIONS
<1>4. IsArea(a)
  BY <1>2, <1>3, AreasInPixels
<1> QED
  BY <1>1, <1>4, CornersArePoints

-----------------------------------------------------------------------------
(* The same finger again *)

\* A screen that was just brought up: nothing was typed on it.
Fresh(r, at) == r.app.at = at /\ r.app.digits = <<>> /\ r.app.text = <<>>
\* The screens that are built from their names.
LEMMA FreshScreens ==
    /\ \A at : Fresh(To(Screen(at)), at)
    /\ \A at, ws : Fresh(Storing(Screen(at), ws), at)
    /\ \A at, page : Fresh(To(Page(at, page)), at)
    /\ \A at, page, ws : Fresh(Storing(Page(at, page), ws), at)
    /\ \A ws, error : Fresh(To(RestoreWallet(ws, error)), "RestoreWallet")
<1>1. (\A at : Fresh(To(Screen(at)), at)) /\ \A at, ws : Fresh(Storing(Screen(at), ws), at)
  BY DEF Fresh, To, Storing, Screen
<1>2. /\ \A at, page : Fresh(To(Page(at, page)), at)
      /\ \A at, page, ws : Fresh(Storing(Page(at, page), ws), at)
  BY DEF Fresh, To, Storing, Page, Screen
<1>3. \A ws, error : Fresh(To(RestoreWallet(ws, error)), "RestoreWallet")
  BY DEF Fresh, To, RestoreWallet, Screen
<1> QED
  BY <1>1, <1>2, <1>3

\* How a screen is reached by a tap at p: whatever commits is somewhere else, or
\* waits for more.
Arrives(p, t) ==
    /\ t.digits = <<>>
    /\ t.at = "SignReview" => ~InRect(p, NavNext) /\ ~InRect(p, NavPrev)
    /\ t.at = "EnterPassphrase" => t.text = <<>> /\ ~InRect(p, PpSkip)
    /\ t.at = "RestoreWallet" => SuggestionAt(p) = None /\ ~InRect(p, PpSkip)

\* Where the three screens that commit are reached from.
Entrance(p, at) ==
    /\ at = "SignReview" => p[2] < 410
    /\ at = "EnterPassphrase" => InRect(p, NavNext) \/ p[2] < 115
    /\ at = "RestoreWallet" => InRect(p, BtnRestore)
\* From there nothing is committed to.
LEMMA EntranceArrives ==
    ASSUME NEW p, IsPoint(p), NEW r, NEW at, Fresh(r, at), Entrance(p, at)
    PROVE  Arrives(p, r.app)
<1>1. r.app.digits = <<>> /\ r.app.text = <<>> /\ r.app.at = at
  BY DEF Fresh
<1>2. p[2] < 410 => ~InRect(p, NavNext) /\ ~InRect(p, NavPrev)
  BY FramePixels DEF InRect, IsPoint
<1>3. InRect(p, NavNext) \/ p[2] < 115 => ~InRect(p, PpSkip)
  <2>1. NavNext = <<600, 410, 160, 50>> /\ PpSkip = <<40, 390, 180, 50>>
    BY FramePixels, OtherKeys
  <2> QED
    BY <2>1 DEF InRect, IsPoint
<1>4. InRect(p, BtnRestore) => p[2] >= 115 /\ ~InRect(p, PpSkip)
  <2>1. BtnRestore = <<250, 270, 300, 60>> /\ PpSkip = <<40, 390, 180, 50>>
    BY FramePixels, OtherKeys
  <2> QED
    BY <2>1 DEF InRect, IsPoint
<1>5. p[2] >= 115 => SuggestionAt(p) = None
  BY BelowTheStrip
<1> QED
  BY <1>1, <1>2, <1>3, <1>4, <1>5 DEF Arrives, Entrance

\* The screens that nothing is committed to from.
LEMMA QuietArrives ==
    ASSUME NEW p, NEW t, t.digits = <<>>, t.at \notin {"SignReview", "EnterPassphrase", "RestoreWallet"}
    PROVE  Arrives(p, t)
BY DEF Arrives

\* How a restore is left.
LEMMA RestoreLeft ==
    ASSUME NEW s, s.at = "RestoreWallet", "at" \in DOMAIN s, NEW p, IsPoint(p),
           NEW r \in StepRestoreWallet(s, p)
    PROVE  \/ r.app.at = s.at
           \/ Fresh(r, "Welcome") /\ InRect(p, PpSkip)
           \/ Fresh(r, "EnterPassphrase") /\ SuggestionAt(p) # None /\ p[2] < 115
<1> DEFINE key  == PassphraseKeyAt(p)
           word == TappedSuggestion(p, FindMatches(s.text))
           ws   == Append(s.confirmed, word)
<1>1. /\ key = "Skip" => r = To(Screen("Welcome"))
      /\ key # "Skip" /\ word # None =>
            r \in IF Len(ws) = WORDS THEN Completed(ws) ELSE {To(RestoreWallet(ws, FALSE))}
      /\ key # "Skip" /\ word = None => r \in {To(Typed(s, key)), To(Erased(s)), To(s)}
  BY DEF StepRestoreWallet, Typed, Erased
<1>2. word # None => SuggestionAt(p) # None /\ p[2] < 115
  <2>1. word # None => SuggestionAt(p) # None
    BY DEF TappedSuggestion
  <2>2. SuggestionAt(p) # None => ~(p[2] >= 115)
    BY BelowTheStrip
  <2> QED
    BY <2>1, <2>2 DEF IsPoint
<1>3. key = "Skip" => InRect(p, PpSkip)
  <2>1. ASSUME NEW k \in 0..2, NEW m \in 1..Keys(k) PROVE KeyRows[k + 1][m] # "Skip"
    BY KeysAreLetters
  <2>2. None # "Skip"
    BY NoneAssumption
  <2> QED
    BY <2>1, <2>2, KeyOfPoint
<1>4. To(Typed(s, key)).app.at = s.at /\ To(Erased(s)).app.at = s.at /\ To(s).app.at = s.at
  BY DEF To, Typed, Erased
<1> HIDE DEF key, word, ws
<1>5. ASSUME r \in Completed(ws) PROVE Fresh(r, "EnterPassphrase") \/ Fresh(r, "RestoreWallet")
  BY <1>5, FreshScreens DEF Completed, EnterPassphrase
<1>6. CASE key = "Skip"
  BY <1>1, <1>3, <1>6, FreshScreens
<1>7. CASE key # "Skip" /\ word # None
  <2>1. r \in Completed(ws) \/ r = To(RestoreWallet(ws, FALSE))
    BY <1>1, <1>7
  <2>2. Fresh(r, "EnterPassphrase") \/ Fresh(r, "RestoreWallet")
    BY <1>5, <2>1, FreshScreens
  <2>3. Fresh(r, "RestoreWallet") => r.app.at = s.at
    BY DEF Fresh
  <2> QED
    BY <1>2, <1>7, <2>2, <2>3
<1>8. CASE key # "Skip" /\ word = None
  BY <1>1, <1>4, <1>8
<1> QED
  BY <1>6, <1>7, <1>8

\* A result whose screen has nothing to commit to at the point that led there; and a
\* PIN is complete only on a pad.
Passes(s, p, r) ==
    Arrives(p, r.app) /\ (r.app.at \in {"PinVerifying", "PinConfirming", "PinLocked"} => s.at \in Pads)

\* Every other screen that a tap brings up has nothing to commit to at the same point.
LEMMA ScreenArrives ==
    ASSUME NEW s, Fits(s), NEW p, IsPoint(p), NEW r \in Step(s, p), r.app.at # s.at
    PROVE  Passes(s, p, r)
<1>0. s.at \in Screens /\ s.page \in 0..LAST_PAGE /\ "at" \in DOMAIN s
  BY DEF Fits, AppStates
<1>1. \A t : To(t).app = t
  BY DEF To
<1>2. ASSUME NEW at, Fresh(r, at), at \notin {"SignReview", "EnterPassphrase", "RestoreWallet",
                                            "PinVerifying", "PinConfirming", "PinLocked"}
      PROVE  Passes(s, p, r)
  BY <1>2, QuietArrives DEF Fresh, Passes
<1>3. ASSUME NEW at \in {"SignReview", "EnterPassphrase", "RestoreWallet"}, Fresh(r, at), Entrance(p, at)
       PROVE  Passes(s, p, r)
  BY <1>3, EntranceArrives DEF Fresh, Passes
<1>4. ASSUME r \in SetPin PROVE Passes(s, p, r)
  BY <1>4, PadIsNext, QuietArrives DEF Passes
<1>5. ASSUME NEW gate, r \in EnterPin(gate) PROVE Passes(s, p, r)
  BY <1>5, GateIsFresh, QuietArrives DEF Passes
<1>6. CASE s.at = "Welcome"
  <2>1. \/ r.app = s
        \/ InRect(p, BtnRestore) /\ Fresh(r, "RestoreWallet")
        \/ Fresh(r, "NewWallet")
    <3>1. r \in StepWelcome(s, p)
      BY <1>6 DEF Step
    <3>2. CASE InRect(p, BtnRestore) /\ r = To(RestoreWallet(<<>>, FALSE))
      BY <3>2, FreshScreens
    <3>3. CASE \E e \in Entropies : r = Storing(Page("NewWallet", 0), GenerateWords(e))
      BY <3>3, FreshScreens
    <3>4. CASE r = To(s)
      BY <1>1, <3>4
    <3> QED
      BY Zenon, <3>1, <3>2, <3>3, <3>4, WelcomeTaps
  <2>2. InRect(p, BtnRestore) => Entrance(p, "RestoreWallet")
    BY DEF Entrance
  <2> QED
    BY <1>2, <2>1, <2>2, <1>3
<1>7. CASE s.at \in {"NewWallet", "ShowMnemonic"}
  <2>1. \/ Fresh(r, s.at) \/ r.app = s
        \/ InRect(p, NavNext) /\ Fresh(r, "EnterPassphrase")
        \/ Fresh(r, "Settings")
    <3>1. CASE s.at = "NewWallet"
      <4>1. r \in StepNewWallet(s, p)
        BY <3>1 DEF Step
      <4> QED
        BY <1>0, <1>1, <3>1, <4>1, NewWalletTaps, FreshScreens DEF EnterPassphrase
    <3>2. CASE s.at = "ShowMnemonic"
      <4>1. r \in StepShowMnemonic(s, p)
        BY <3>2 DEF Step
      <4> QED
        BY <1>0, <1>1, <3>2, <4>1, ShowMnemonicTaps, FreshScreens
    <3> QED
      BY <1>7, <3>1, <3>2
  <2>2. InRect(p, NavNext) => Entrance(p, "EnterPassphrase")
    BY DEF Entrance
  <2>3. ~Fresh(r, s.at)
    BY DEF Fresh
  <2> QED
    BY <1>2, <2>1, <2>2, <2>3, <1>3
<1>8. CASE s.at = "RestoreWallet"
  <2>1. Fresh(r, "Welcome") \/ (Fresh(r, "EnterPassphrase") /\ p[2] < 115)
    BY <1>0, <1>8, OnRestore, RestoreLeft
  <2>2. p[2] < 115 => Entrance(p, "EnterPassphrase")
    BY DEF Entrance
  <2> QED
    BY <1>2, <2>1, <2>2, <1>3
<1>9. CASE s.at = "EnterPassphrase"
  <2>1. r \in {To([s EXCEPT !.text = Append(@, PassphraseKeyAt(p))]), To([s EXCEPT !.text = Front(@)]), To(s)}
        \/ r \in SetPin
    BY <1>9 DEF Step, StepEnterPassphrase
  <2>2. r \in SetPin
    BY <1>0, <1>1, <2>1
  <2> QED
    BY <1>4, <2>2
<1>10. CASE s.at \in Pads
  <2>1. Cleared(r)
    BY <1>10, PadResult, PadStep
  <2> QED
    BY <1>10, <2>1, QuietArrives DEF Cleared, AfterFull, Passes
<1>11. CASE s.at = "PinMismatch"
  <2>1. r \in SetPin
    BY <1>11 DEF Step
  <2> QED
    BY <1>4, <2>1
<1>12. CASE s.at = "Home"
  <2>1. r \in StepHome(s, p)
    BY <1>12 DEF Step
  <2>2. Fresh(r, "Receive") \/ Fresh(r, "SignScan") \/ Fresh(r, "Accounts") \/ Fresh(r, "Settings")
    BY <1>1, <2>1, HomeTaps, FreshScreens
  <2> QED
    BY <1>2, <2>2
<1>13. CASE s.at = "Settings"
  <2>1. r \in StepSettings(s, p)
    BY <1>13 DEF Step
  <2>2. \/ r \in EnterPin("ShowMnemonic") \/ r \in EnterPin("ChangePin")
        \/ Fresh(r, "Descriptor") \/ Fresh(r, "About") \/ Fresh(r, "Home")
    BY <1>1, <2>1, SettingsTaps, FreshScreens
  <2> QED
    BY <1>2, <1>5, <2>2
<1>14. CASE s.at = "SignScan"
  <2>1. r \in StepSignScan(s, p)
    BY <1>14 DEF Step
  <2>2. CASE SdRowAt(p) # None
    <3>1. r \in {To(s), To(Screen("SignReview"))}
      BY <2>1, <2>2 DEF StepSignScan
    <3>2. Fresh(r, "SignReview")
      BY <1>1, <3>1, FreshScreens
    <3>3. Entrance(p, "SignReview")
      BY <2>2, RowOfPoint DEF Entrance
    <3> QED
      BY <3>2, <3>3, <1>3
  <2>3. CASE SdRowAt(p) = None
    <3>1. r \in Tap(s, <<Go(NavPrev, "Home")>>, p)
      BY <2>1, <2>3 DEF StepSignScan
    <3>2. Fresh(r, "Home")
      BY <1>1, <3>1, BackTaps, FreshScreens
    <3> QED
      BY <1>2, <3>2
  <2> QED
    BY <2>2, <2>3
<1>15. CASE s.at = "SignReview"
  <2>1. r \in StepSignReview(s, p)
    BY <1>15 DEF Step
  <2>2. Fresh(r, "SignResult") \/ Fresh(r, "Home")
    BY <1>1, <2>1, SignReviewTaps, FreshScreens
  <2> QED
    BY <1>2, <2>2
<1>16. CASE s.at \in {"Receive", "Accounts", "Descriptor", "About", "SignResult"}
  <2>1. r \in Tap(s, <<Go(NavPrev, "Home")>>, p) \/ r \in Tap(s, <<Go(NavPrev, "Settings")>>, p)
    BY <1>16 DEF Step, StepReceive, StepAccounts, StepDescriptor, StepAbout, StepSignResult
  <2>2. Fresh(r, "Home") \/ Fresh(r, "Settings")
    BY <1>1, <2>1, BackTaps, FreshScreens
  <2> QED
    BY <1>2, <2>2
<1>17. CASE s.at \in {"PinVerifying", "PinConfirming", "PinLocked"}
  <2>1. r = To(s)
    BY <1>17 DEF Step
  <2> QED
    BY <1>1, <2>1
<1> QED
  BY <1>0, <1>6, <1>7, <1>8, <1>9, <1>10, <1>11, <1>12, <1>13, <1>14, <1>15, <1>16, <1>17
     DEF Screens, Pads

\* The deferred work of a screen ends on one without digits, and on none that commits.
LEMMA ResolvedArrives ==
    ASSUME SInv, NEW p, NEW s, Fits(s), Arrives(p, s), NEW q \in Resolved(s)
    PROVE  Fits(q.app) /\ Arrives(p, q.app)
<1>1. \A t : To(t).app = t
  BY DEF To
<1>2. Fits(Screen("Home")) /\ Fits(Screen("PinLocked"))
  <2>1. "Home" \in Screens \ Pads /\ "PinLocked" \in Screens \ Pads /\ 0 \in 0..LAST_PAGE
    BY Limits DEF Screens, Pads
  <2> QED
    BY <2>1, BlankFits
<1>3. Arrives(p, Screen("Home")) /\ Arrives(p, Screen("PinLocked"))
  BY DEF Arrives, Screen
<1>4. ASSUME NEW r \in EnterPin("Unlock") PROVE Fits(r.app) /\ Arrives(p, r.app)
  <2>1. Fits(r.app)
    BY PadResults DEF SInv, Sound, Gates
  <2> QED
    BY <2>1, GateIsFresh, QuietArrives
<1>5. CASE s.at = "PinVerifying"
  <2>1. \/ \E e \in Entropies : q = Storing(Screen("Home"), GenerateWords(e))
        \/ q \in EnterPin("Unlock") \/ q = To(Screen("PinLocked"))
    BY <1>5 DEF Resolved, Verdicts
  <2>2. \A ws : Storing(Screen("Home"), ws).app = Screen("Home")
    BY DEF Storing
  <2>3. CASE \E e \in Entropies : q = Storing(Screen("Home"), GenerateWords(e))
    BY Zenon, <1>2, <1>3, <2>2, <2>3
  <2>4. CASE q \in EnterPin("Unlock")
    BY <1>4, <2>4
  <2>5. CASE q = To(Screen("PinLocked"))
    BY <1>1, <1>2, <1>3, <2>5
  <2> QED
    BY <2>1, <2>3, <2>4, <2>5
<1>6. CASE s.at = "PinConfirming"
  <2>1. q = To(Screen("Home"))
    BY <1>6 DEF Resolved
  <2> QED
    BY <1>1, <1>2, <1>3, <2>1
<1>7. CASE s.at \notin {"PinVerifying", "PinConfirming"}
  <2>1. q = To(s)
    BY <1>7 DEF Resolved
  <2> QED
    BY <1>1, <2>1
<1> QED
  BY <1>5, <1>6, <1>7

\* One digit does not fill a pad.
LEMMA FirstDigit ==
    ASSUME NEW s, s.digits = <<>>, NEW p
    PROVE  ~Full(PadAfter(s, p))
<1> DEFINE d == s.order[PinKeyAt(p) + 1]
           more == [s EXCEPT !.digits = Append(@, d)]
<1>1. PadAfter(s, p) = more \/ PadAfter(s, p) = s
  BY DEF PadAfter
<1>2. s.digits = <<>> /\ Len(<<>>) = 0 /\ PIN_LEN \in Nat \ {0, 1}
  BY TouchAssumption
<1>3. more.digits = Append(s.digits, d) \/ more.digits = s.digits
  OBVIOUS
<1> HIDE DEF d, more
<1>4. Len(Append(<<>>, d)) = 1
  OBVIOUS
<1> QED
  BY <1>1, <1>2, <1>3, <1>4 DEF Full

\* Where a tap arrives, the same tap commits to nothing.
LEMMA AgainIsHarmless ==
    ASSUME NEW t, Fits(t), NEW p, IsPoint(p), Arrives(p, t), NEW r \in Step(t, p)
    PROVE  ~Commits(t, r.app)
<1>0. t.at \in Screens /\ t.page \in 0..LAST_PAGE /\ "at" \in DOMAIN t
  BY DEF Fits, AppStates
<1>1. \A u : To(u).app = u
  BY DEF To
<1>2. CASE t.at = "SignReview"
  <2>1. r \in StepSignReview(t, p)
    BY <1>2 DEF Step
  <2>2. r = To(t)
    BY <1>2, <2>1, SignReviewTaps DEF Arrives
  <2> QED
    BY <1>1, <2>2 DEF Commits
<1>3. CASE t.at = "EnterPassphrase"
  <2> DEFINE key == PassphraseKeyAt(p)
  <2>1. r \in IF IsChar(key) /\ Len(t.text) < MAX_PASS THEN {To([t EXCEPT !.text = Append(@, key)])}
              ELSE IF key = "Backspace" /\ t.text # <<>> THEN {To([t EXCEPT !.text = Front(@)])}
              ELSE IF key = "Skip" \/ (key = "Confirm" /\ t.text # <<>>) THEN SetPin
              ELSE {To(t)}
    BY <1>3 DEF Step, StepEnterPassphrase
  <2>2. key # "Skip"
    <3>1. ASSUME NEW k \in 0..2, NEW m \in 1..Keys(k) PROVE KeyRows[k + 1][m] # "Skip"
      BY KeysAreLetters
    <3> QED
      BY <1>3, <3>1, NoneAssumption, KeyOfPoint DEF Arrives
  <2>3. t.text = <<>>
    BY <1>3 DEF Arrives
  <2> HIDE DEF key
  <2>4. r = To([t EXCEPT !.text = Append(@, key)]) \/ r = To(t)
    BY <2>1, <2>2, <2>3
  <2>5. r.app.at = t.at
    BY <1>0, <1>1, <2>4
  <2> QED
    BY <2>5 DEF Commits
<1>4. CASE t.at = "RestoreWallet"
  <2>1. r \in StepRestoreWallet(t, p)
    BY <1>4, OnRestore
  <2>2. ~InRect(p, PpSkip) /\ SuggestionAt(p) = None
    BY <1>4 DEF Arrives
  <2>3. r.app.at = t.at
    BY <1>0, <1>4, <2>1, <2>2, RestoreLeft
  <2> QED
    BY <2>3 DEF Commits
<1>5. CASE t.at \in Pads
  <2>1. ~Full(PadAfter(t, p))
    BY FirstDigit DEF Arrives
  <2>2. r.app.at = t.at
    BY <1>5, <2>1, PadResult, PadStep
  <2> QED
    BY <2>2 DEF Commits
<1>6. CASE t.at \notin Pads \cup {"SignReview", "EnterPassphrase", "RestoreWallet"}
  BY <1>6, ScreenArrives DEF Commits, Passes
<1> QED
  BY <1>2, <1>3, <1>4, <1>5, <1>6

-----------------------------------------------------------------------------
(* The theorems *)

\* A tap at any point of the screen does what the lit button there says, and where
\* there is none it changes nothing, but for the exceptions of UnlitIsHarmless: the
\* two properties that follow, at every point and not at the corners only (draw/
\* against the step_ functions).
THEOREM EveryPixelIsHonest == Spec => [](\A p \in Int \X Int : \A r \in Step(app, p) : Honest(app, p, r))
<1>1. SInv => \A p \in Int \X Int : \A r \in Step(app, p) : Honest(app, p, r)
  <2> SUFFICES ASSUME Fits(app), NEW p \in Int \X Int, NEW r \in Step(app, p)
               PROVE  Honest(app, p, r)
    BY DEF SInv
  <2>1. IsPoint(p)
    BY DEF IsPoint
  <2> QED
    BY <2>1, TapsAreHonest
<1> QED
  BY <1>1, TouchInvariance, PTL DEF TouchInv

\* A tap inside a lit button does what the label says, to the last pixel: no area
\* tested earlier covers it (draw/ against the step_ functions).
THEOREM ButtonsKeepTheirWord == Spec => []ButtonsDoWhatTheySay
<1>1. SInv => ButtonsDoWhatTheySay
  <2> SUFFICES ASSUME Fits(app), NEW b \in Drawn(app), b.lit, NEW p \in Probes,
                      InRect(p, b.area), NEW r \in Step(app, p)
               PROVE  Keeps(app, b, r.app)
    BY DEF SInv, ButtonsDoWhatTheySay
  <2>1. IsPoint(p)
    BY ProbesArePoints
  <2> QED
    BY <2>1, TapsAreHonest DEF Honest, Obeys
<1> QED
  BY <1>1, TouchInvariance, PTL DEF TouchInv

\* A tap outside the lit buttons changes nothing, but for the exceptions that the
\* property lists (the no_change at the end of each step_ function).
THEOREM OffTheButtonsNothingHappens == Spec => []UnlitIsHarmless
<1>1. SInv => UnlitIsHarmless
  <2> SUFFICES ASSUME Fits(app), NEW p \in Probes, NEW r \in Step(app, p)
               PROVE  Harmless(app, p, r)
    BY DEF SInv, UnlitIsHarmless, Harmless
  <2>1. IsPoint(p)
    BY ProbesArePoints
  <2> QED
    BY <2>1, TapsAreHonest DEF Honest
<1> QED
  BY <1>1, TouchInvariance, PTL DEF TouchInv

\* A tap that brings up a screen, and lands again at the same point, does not also
\* commit to a signature, a passphrase, a restored wallet or a PIN there (the layout
\* of consecutive screens, the buffers that a step_ function clears).
THEOREM SecondTapCommitsNothing == Spec => []BouncesAreHarmless
<1>1. SInv => BouncesAreHarmless
  <2> SUFFICES ASSUME SInv, NEW p \in Probes, NEW r \in Step(app, p), r.app.at # app.at,
                      NEW t \in {r.app} \cup {q.app : q \in Resolved(r.app)}, NEW again \in Step(t, p)
               PROVE  ~Commits(t, again.app)
    BY DEF BouncesAreHarmless
  <2>1. IsPoint(p)
    BY ProbesArePoints
  <2>2. Fits(r.app) /\ Arrives(p, r.app)
    BY <2>1, StepSound, ScreenArrives DEF SInv, Sound, Passes
  <2>3. Fits(t) /\ Arrives(p, t)
    BY <2>2, ResolvedArrives
  <2> QED
    BY <2>1, <2>3, AgainIsHarmless
<1> QED
  BY <1>1, TouchInvariance, PTL DEF TouchInv

\* Every word of the list can be spelled out: each word that begins with what was
\* typed is on the strip or one key away (find_matches, the strip and the keyboard).
THEOREM WordsAreInReach == Spec => []NoDeadEnd
<1>1. SInv => NoDeadEnd
  BY WordInReach DEF NoDeadEnd
<1> QED
  BY <1>1, TouchInvariance, PTL DEF TouchInv
=============================================================================
