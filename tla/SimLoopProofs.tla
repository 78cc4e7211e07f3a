--------------------------- MODULE SimLoopProofs ---------------------------
(***************************************************************************)
(* The event loop of the simulator, for any SD folder, any list length,    *)
(* any number of clicks, file changes, failed writes and restarts: clicks  *)
(* act on what was seen, and what leaves is what was reviewed.             *)
(***************************************************************************)
EXTENDS SimLoop, FiniteSetTheorems, SequenceTheorems, WellFoundedInduction, TLAPS

Screens == {"EnterPin", "PinVerifying", "PinLocked", "Home", "SignScan", "SignReview", "SignResult"}
AppStates == [at : Screens, typed : Nat]
Frames == [at : Screens \cup {"Blank"}, typed : Nat, rows : Seq(Names),
           tx : Psbts \cup {None}, hint : BOOLEAN]
Clicks == [spot : Spots, aim : Frames, stale : BOOLEAN]

\* What the variables hold.
TypeInv ==
    /\ pc \in {"update", "collect", "handle", "pending"}
    /\ app \in AppStates /\ psbt \in Psbts \cup {None} /\ signed \in Psbts \cup {None}
    /\ scanError \in BOOLEAN /\ swallowed \in BOOLEAN /\ signedWritten \in BOOLEAN
    /\ display \in Frames /\ window \in Frames
    /\ queue \in Seq(Clicks) /\ batch \in Seq(Clicks)
    /\ sdList \in Seq(Names)
    /\ DOMAIN outputs = Names /\ failed \in Nat

\* The frame that has been drawn is that of the state, but for the hint.
Now == Frame(app, sdList, psbt, signed, scanError)
Picture ==
    /\ Legible(display) = Legible(Now)
    /\ pc = "collect" => window = display

\* The clicks that are still to be handled were aimed at the frame drawn last,
\* or made between its drawing and its showing.
Aimed(click) == click.stale \/ Legible(click.aim) = Legible(display)
Aims ==
    /\ pc # "pending" => \A i \in 1..Len(queue) : Aimed(queue[i])
    /\ pc # "pending" /\ ~swallowed => \A i \in 1..Len(batch) : Aimed(batch[i])

\* What is under review, signed and written comes from one file.
Session ==
    /\ pc = "pending" => app.at = "PinVerifying"
    /\ app.at # "SignResult" => signed = None
    /\ app.at \in {"SignReview", "SignResult"} =>
           /\ loaded \in Names /\ loaded # None
           /\ origin = [name |-> loaded, contents |-> psbt]
    /\ app.at = "SignReview" => ~signedWritten
    /\ app.at = "SignResult" /\ signed # None =>
           /\ signed = psbt
           /\ signedWritten => outputs[loaded] = signed

LoopInv == TypeInv /\ Picture /\ Aims /\ Session

-----------------------------------------------------------------------------
(* The file list *)

\* A non-empty set of naturals has a least element.
LEMMA LeastName ==
    ASSUME NEW S \in SUBSET Nat, S # {}
    PROVE  \E x \in S : \A y \in S : x <= y
<1>1. IsWellFoundedOn(OpToRel(<, Nat), Nat)
  BY NatLessThanWellFounded
<1>2. PICK x \in S : \A y \in S : ~(<<y, x>> \in OpToRel(<, Nat))
  BY <1>1, WFMin
<1>3. \A y \in S : ~(y < x)
  BY <1>2 DEF OpToRel
<1> QED
  BY <1>3

\* The members of a set from the least to the greatest.
InOrder(S, s) ==
    /\ s \in [1..Cardinality(S) -> S]
    /\ \A i, j \in 1..Cardinality(S) : i < j => s[i] < s[j]

\* One more name, less than the others, goes to the front of the list.
LEMMA FrontOfOrder ==
    ASSUME NEW S \in SUBSET Nat, IsFiniteSet(S), NEW x \in S, \A y \in S : x <= y,
           NEW s, InOrder(S \ {x}, s)
    PROVE  \E r : InOrder(S, r)
<1> DEFINE n == Cardinality(S)
           r == [i \in 1..n |-> IF i = 1 THEN x ELSE s[i - 1]]
<1>1. n \in Nat /\ n >= 1 /\ Cardinality(S \ {x}) = n - 1
  <2>1. n \in Nat
    BY FS_CardinalityType
  <2>2. IsFiniteSet(S \ {x}) /\ Cardinality(S \ {x}) = n - 1
    BY FS_RemoveElement
  <2>3. Cardinality(S \ {x}) \in Nat
    BY <2>2, FS_CardinalityType
  <2> HIDE DEF n
  <2> QED
    BY <2>1, <2>2, <2>3
<1>2. s \in [1..(n - 1) -> S \ {x}] /\ \A i, j \in 1..(n - 1) : i < j => s[i] < s[j]
  BY <1>1 DEF InOrder
<1> HIDE DEF n
<1>3. \A i \in 2..n : i - 1 \in 1..(n - 1) /\ s[i - 1] \in S /\ s[i - 1] # x
  <2> TAKE i \in 2..n
  <2>1. i - 1 \in 1..(n - 1)
    BY <1>1
  <2> QED
    BY <1>2, <2>1
<1>4. r \in [1..n -> S]
  BY <1>1, <1>3
<1>5. ASSUME NEW i \in 1..n, NEW j \in 1..n, i < j PROVE r[i] < r[j]
  <2>1. j \in 2..n /\ r[j] = s[j - 1] /\ s[j - 1] \in Nat
    <3>1. j \in 2..n
      BY <1>1, <1>5
    <3>2. j # 1 /\ r[j] = s[j - 1]
      BY <3>1
    <3>3. s[j - 1] \in S
      BY <1>3, <3>1
    <3> QED
      BY <3>1, <3>2, <3>3
  <2>2. CASE i = 1
    BY <1>3, <2>1, <2>2
  <2>3. CASE i # 1
    <3>1. i \in 2..n /\ r[i] = s[i - 1] /\ i - 1 \in 1..(n - 1) /\ j - 1 \in 1..(n - 1) /\ i - 1 < j - 1
      BY <1>1, <1>3, <1>5, <2>1, <2>3
    <3> QED
      BY <1>2, <2>1, <3>1
  <2> QED
    BY <2>2, <2>3
<1>6. InOrder(S, r)
  <2> HIDE DEF r
  <2> QED
    BY <1>4, <1>5 DEF InOrder, n
<1> QED
  BY <1>6

\* Finitely many names can be listed in order.
LEMMA OrderExists ==
    ASSUME NEW S \in SUBSET Nat, IsFiniteSet(S)
    PROVE  \E s : InOrder(S, s)
<1> DEFINE Bad == {k \in Nat : \E T \in SUBSET Nat :
                       IsFiniteSet(T) /\ Cardinality(T) = k /\ ~(\E s : InOrder(T, s))}
<1>1. ASSUME Bad # {} PROVE FALSE
  <2>1. PICK k \in Bad : \A m \in Bad : k <= m
    <3>1. Bad \in SUBSET Nat
      OBVIOUS
    <3> HIDE DEF Bad
    <3> QED
      BY <1>1, <3>1, LeastName
  <2>2. PICK T \in SUBSET Nat :
            IsFiniteSet(T) /\ Cardinality(T) = k /\ ~(\E s : InOrder(T, s))
    OBVIOUS
  <2>3. CASE T = {}
    <3>1. Cardinality(T) = 0
      BY <2>3, FS_EmptySet
    <3>2. InOrder(T, [i \in 1..0 |-> i])
      BY <2>3, <3>1 DEF InOrder
    <3> QED
      BY <2>2, <3>2
  <2>4. CASE T # {}
    <3>1. PICK x \in T : \A y \in T : x <= y
      BY <2>4, LeastName
    <3>2. IsFiniteSet(T \ {x}) /\ Cardinality(T \ {x}) = k - 1
      BY <2>2, FS_RemoveElement
    <3>3. k - 1 \in Nat
      BY <3>2, FS_CardinalityType
    <3>4. k \in Nat /\ ~(k <= k - 1)
      OBVIOUS
    <3>5. k - 1 \notin Bad
      <4> HIDE DEF Bad
      <4> QED
        BY <2>1, <3>4
    <3>6. PICK s : InOrder(T \ {x}, s)
      BY <3>2, <3>3, <3>5
    <3> QED
      BY <2>2, <3>1, <3>6, FrontOfOrder
  <2> QED
    BY <2>3, <2>4
<1>2. Cardinality(S) \in Nat
  BY FS_CardinalityType
<1> QED
  BY <1>1, <1>2

\* The listing is a list of names.
LEMMA ListingIsNames == ListPsbtFiles \in Seq(Names)
<1> DEFINE there == {n \in Names : files[n] # None}
           n == Cardinality(there)
           Ordered(s) == \A i, j \in DOMAIN s : i < j => s[i] < s[j]
           names == CHOOSE s \in [1..n -> there] : Ordered(s)
           rows == IF n < Rows THEN n ELSE Rows
<1>1. there \in SUBSET Nat /\ IsFiniteSet(there) /\ n \in Nat
  BY ListAssumption, FS_Subset, FS_CardinalityType
<1>2. \E s \in [1..n -> there] : Ordered(s)
  <2>1. PICK s : InOrder(there, s)
    BY <1>1, OrderExists
  <2> QED
    BY <2>1 DEF InOrder
<1>3. names \in [1..n -> there]
  <2> HIDE DEF Ordered, n, there
  <2> QED
    BY <1>2
<1>4. rows \in Nat /\ rows <= n
  <2> HIDE DEF n
  <2> QED
    BY <1>1, ListAssumption
<1>5. ListPsbtFiles = [row \in 1..rows |-> names[row]]
  BY DEF ListPsbtFiles
<1>6. \A row \in 1..rows : names[row] \in Names
  <2> HIDE DEF names, n, rows
  <2>1. \A row \in 1..rows : row \in 1..n
    BY <1>1, <1>4
  <2> QED
    BY <1>3, <2>1
<1> HIDE DEF names, rows
<1> QED
  BY <1>4, <1>5, <1>6
-----------------------------------------------------------------------------
(* Frames and touches *)

\* A frame without its hint has the other fields of the frame.
LEMMA LegibleFields ==
    ASSUME NEW f \in Frames
    PROVE  Legible(f) = [at |-> f.at, typed |-> f.typed, rows |-> f.rows, tx |-> f.tx,
                         hint |-> FALSE]
<1>1. Legible(f) \in Frames
  BY DEF Frames, Legible
<1>2. /\ Legible(f).at = f.at /\ Legible(f).typed = f.typed /\ Legible(f).rows = f.rows
      /\ Legible(f).tx = f.tx /\ Legible(f).hint = FALSE
  BY DEF Frames, Legible
<1> QED
  BY <1>1, <1>2 DEF Frames

\* The list and the transaction a screen shows, and all that is read off it.
RowsShown(a, list) == IF a.at = "SignScan" THEN list ELSE <<>>
TxShown(a, p, s) == CASE a.at = "SignReview" -> p [] a.at = "SignResult" -> s [] OTHER -> None
Shown(a, rows, tx) == [at |-> a.at, typed |-> a.typed, rows |-> rows, tx |-> tx, hint |-> FALSE]

\* What a frame shows, but for the hint.
LEMMA FrameShows ==
    ASSUME NEW a \in AppStates, NEW list \in Seq(Names), NEW p \in Psbts \cup {None},
           NEW s \in Psbts \cup {None}, NEW err \in BOOLEAN
    PROVE  /\ Frame(a, list, p, s, err) \in Frames
           /\ Legible(Frame(a, list, p, s, err)) = Shown(a, RowsShown(a, list), TxShown(a, p, s))
<1>1. <<>> \in Seq(Names)
  OBVIOUS
<1> DEFINE hint == a.at = "SignScan" /\ err
<1>2. /\ TxShown(a, p, s) \in Psbts \cup {None} /\ RowsShown(a, list) \in Seq(Names)
      /\ a.at \in Screens /\ a.typed \in Nat
  BY <1>1 DEF AppStates, TxShown, RowsShown
<1>3. Frame(a, list, p, s, err) =
          [at |-> a.at, typed |-> a.typed, rows |-> RowsShown(a, list), tx |-> TxShown(a, p, s),
           hint |-> hint]
  BY DEF Frame, TxShown, RowsShown
<1>4. hint \in BOOLEAN
  OBVIOUS
<1> HIDE DEF hint
<1>5. Frame(a, list, p, s, err) \in Frames
  BY <1>2, <1>3, <1>4 DEF Frames
<1>6. Legible(Frame(a, list, p, s, err)) = Shown(a, RowsShown(a, list), TxShown(a, p, s))
  BY <1>3, <1>5, LegibleFields DEF Shown
<1> QED
  BY <1>5, <1>6

\* A touch moves within the screens; it reaches the result from the review only,
\* the file list from Home only, and the review by no touch; from the result it
\* goes Home.
LEMMA StepCases ==
    ASSUME NEW a \in AppStates, NEW spot \in Spots
    PROVE  /\ Step(a, spot) \in AppStates
           /\ Step(a, spot).at = "SignReview" => Step(a, spot) = a
           /\ Step(a, spot).at = "SignResult" => Step(a, spot) = a \/ a.at = "SignReview"
           /\ Step(a, spot).at = "SignScan" => Step(a, spot) = a \/ a.at = "Home"
           /\ a.at = "SignResult" => Step(a, spot) = a \/ Step(a, spot).at = "Home"
<1>1. CASE a.at = "EnterPin"
  <2>1. \/ Step(a, spot) = a
        \/ Step(a, spot) = [a EXCEPT !.typed = @ + 1]
        \/ Step(a, spot) = At("PinVerifying")
    BY <1>1 DEF Step
  <2>2. [a EXCEPT !.typed = @ + 1] \in AppStates /\ [a EXCEPT !.typed = @ + 1].at = "EnterPin"
    BY <1>1 DEF AppStates
  <2>3. At("PinVerifying") \in AppStates /\ At("PinVerifying").at = "PinVerifying"
    BY DEF At, AppStates, Screens
  <2> QED
    BY <2>1, <2>2, <2>3, <1>1
<1>2. CASE a.at # "EnterPin"
  <2> DEFINE targets == {to \in {"Home", "SignScan", "SignResult"} : <<a.at, spot, to>> \in Taps}
             to == CHOOSE t \in targets : TRUE
  <2>1. CASE targets = {}
    BY <1>2, <2>1 DEF Step
  <2>2. CASE targets # {}
    <3>1. Step(a, spot) = At(to)
      BY <1>2, <2>2 DEF Step
    <3>2. to \in targets
      BY <2>2
    <3>3. to \in {"Home", "SignScan", "SignResult"} /\ <<a.at, spot, to>> \in Taps
      BY <3>2
    <3> HIDE DEF to
    <3>4. /\ to = "SignScan" => a.at = "Home"
          /\ to = "SignResult" => a.at = "SignReview"
          /\ a.at = "SignResult" => to = "Home"
      BY <3>3 DEF Taps
    <3>5. At(to) \in AppStates /\ At(to).at = to
      BY <3>3 DEF At, AppStates, Screens
    <3> QED
      BY <3>1, <3>3, <3>4, <3>5
  <2> QED
    BY <2>1, <2>2
<1> QED
  BY <1>1, <1>2
\* A write of a file that fails leaves the old contents or a part of the new.
LEMMA WriteCases ==
    ASSUME NEW old, NEW new, NEW w \in WriteFile(old, new)
    PROVE  \/ w.done = TRUE /\ w.contents = new
           \/ w.done = FALSE /\ w.contents \in {old, Torn}
BY DEF WriteFile

\* What there is to draw in a state is a frame.
LEMMA NowIsFrame ==
    ASSUME TypeInv
    PROVE  /\ Now \in Frames
           /\ Legible(Now).rows = RowsShown(app, sdList)
<1>1. /\ app \in AppStates /\ sdList \in Seq(Names) /\ psbt \in Psbts \cup {None}
      /\ signed \in Psbts \cup {None} /\ scanError \in BOOLEAN
  BY DEF TypeInv
<1>2. Now \in Frames
  BY <1>1, FrameShows DEF Now
<1>3. Legible(Now).rows = Now.rows
  BY <1>2, LegibleFields
<1>4. Now.rows = RowsShown(app, sdList)
  BY DEF Now, Frame, RowsShown
<1> QED
  BY <1>2, <1>3, <1>4

-----------------------------------------------------------------------------
(* The invariant at the start and in each step *)

\* A locked session with nothing on the window, which is how the simulator starts.
LEMMA StartIsFine ==
    ASSUME app = At("EnterPin"), psbt = None, signed = None, scanError = FALSE, sdList = <<>>,
           display = Frame(app, <<>>, None, None, FALSE), window = Blank,
           queue = <<>>, batch = <<>>, swallowed = FALSE,
           signedWritten = FALSE, pc = "update", DOMAIN outputs = Names, failed \in Nat
    PROVE  LoopInv
<1>1. app \in AppStates /\ app.at = "EnterPin"
  BY DEF At, AppStates, Screens
<1>2. <<>> \in Seq(Names) /\ <<>> \in Seq(Clicks)
  OBVIOUS
<1>3. display \in Frames
  BY <1>1, <1>2, FrameShows
<1>4. window \in Frames
  BY <1>2 DEF Blank, Frames
<1>5. TypeInv
  BY <1>1, <1>2, <1>3, <1>4 DEF TypeInv
<1>6. Picture
  BY DEF Picture, Now
<1>7. Aims
  BY DEF Aims
<1>8. Session
  BY <1>1 DEF Session
<1> QED
  BY <1>5, <1>6, <1>7, <1>8 DEF LoopInv

\* The click the loop takes is a click, aimed at the frame drawn last.
LEMMA ClickTaken ==
    ASSUME LoopInv, NextClick
    PROVE  clicked \in Clicks /\ clicked.spot \in Spots /\ Aimed(clicked)
<1>1. batch \in Seq(Clicks) /\ batch # <<>>
  BY DEF LoopInv, TypeInv, NextClick
<1>2. clicked = batch[1] /\ 1 \in 1..Len(batch) /\ batch[1] \in Clicks
  BY <1>1 DEF clicked
<1>3. Aimed(batch[1])
  BY <1>2 DEF LoopInv, Aims, NextClick
<1> QED
  BY <1>2, <1>3 DEF Clicks

\* A click taken leaves the others in their order.
LEMMA RestOfBatch ==
    ASSUME LoopInv, NextClick
    PROVE  /\ batch' \in Seq(Clicks)
           /\ \A i \in 1..Len(batch') : i + 1 \in 1..Len(batch) /\ batch'[i] = batch[i + 1]
<1>1. batch \in Seq(Clicks) /\ batch # <<>> /\ batch' = Tail(batch)
  BY DEF LoopInv, TypeInv, NextClick
<1> QED
  BY <1>1

\* The redraw after a click: what is drawn is a frame, and the clicks that are
\* left are of their type.
LEMMA RedrawTypes ==
    ASSUME LoopInv, NextClick, Redraw,
           app' \in AppStates, psbt' \in Psbts \cup {None}, signed' \in Psbts \cup {None},
           scanError' \in BOOLEAN, sdList' \in Seq(Names), signedWritten' \in BOOLEAN,
           DOMAIN outputs' = Names, failed' \in Nat
    PROVE  TypeInv'
<1>1. NewFrame \in Frames
  BY FrameShows DEF NewFrame
<1>2. display' \in Frames /\ window' \in Frames
  BY <1>1 DEF LoopInv, TypeInv, Redraw
<1>3. queue' \in Seq(Clicks) /\ swallowed' \in BOOLEAN
  <2>1. \/ queue' = queue /\ swallowed' = swallowed
        \/ queue' = <<>> /\ swallowed' = TRUE
    BY DEF Redraw, Drain
  <2>2. queue \in Seq(Clicks) /\ swallowed \in BOOLEAN
    BY DEF LoopInv, TypeInv
  <2>3. <<>> \in Seq(Clicks) /\ TRUE \in BOOLEAN
    OBVIOUS
  <2> QED
    BY <2>1, <2>2, <2>3
<1>4. pc' \in {"update", "collect", "handle", "pending"}
  BY DEF LoopInv, TypeInv, Redraw
<1>5. batch' \in Seq(Clicks)
  BY RestOfBatch
<1> QED
  BY <1>2, <1>3, <1>4, <1>5 DEF TypeInv

\* The redraw after a click: the frame drawn stays that of the state, and the
\* clicks aimed at another one go.
LEMMA RedrawAims ==
    ASSUME LoopInv, NextClick, Redraw,
           app' = app => Legible(Now)' = Legible(Now)
    PROVE  Picture' /\ Aims'
<1>1. pc = "handle" /\ pc' \in {"handle", "pending"} /\ ~swallowed
  BY DEF NextClick, Redraw
<1>2. Picture'
  <2>1. CASE app' = app
    BY <1>1, <2>1 DEF Redraw, Picture, LoopInv
  <2>2. CASE app' # app
    BY <1>1, <2>2 DEF Redraw, Picture, NewFrame, Now
  <2> QED
    BY <2>1, <2>2
<1>3. Aims'
  <2>1. CASE pc' = "pending"
    BY <2>1 DEF Aims
  <2>2. CASE app' # app /\ pc' # "pending"
    <3>1. queue' = <<>> /\ swallowed' = TRUE
      BY <2>2 DEF Redraw, Drain
    <3> QED
      BY <3>1 DEF Aims
  <2>3. CASE app' = app /\ pc' # "pending"
    <3>1. queue' = queue /\ display' = display
      BY <2>3 DEF Redraw
    <3>2. \A i \in 1..Len(batch') : Aimed(batch[i + 1]) /\ batch'[i] = batch[i + 1]
      BY <1>1, RestOfBatch DEF LoopInv, Aims
    <3> QED
      BY <1>1, <3>1, <3>2 DEF LoopInv, Aims, Aimed
  <2> QED
    BY <2>1, <2>2, <2>3
<1> QED
  BY <1>2, <1>3
\* A step that changes nothing of what the screen shows leaves its look.
LEMMA NowLooksTheSame ==
    ASSUME TypeInv, app' = app, sdList' \in Seq(Names), psbt' \in Psbts \cup {None},
           signed' \in Psbts \cup {None}, scanError' \in BOOLEAN,
           app.at = "SignScan" => sdList' = sdList,
           app.at = "SignReview" => psbt' = psbt,
           app.at = "SignResult" => signed' = signed
    PROVE  Legible(Now)' = Legible(Now)
<1>1. /\ app \in AppStates /\ sdList \in Seq(Names) /\ psbt \in Psbts \cup {None}
      /\ signed \in Psbts \cup {None} /\ scanError \in BOOLEAN
  BY DEF TypeInv
<1>2. Legible(Frame(app, sdList, psbt, signed, scanError)) =
          Shown(app, RowsShown(app, sdList), TxShown(app, psbt, signed))
  BY ZenonT(40), <1>1, FrameShows
<1>3. Legible(Frame(app, sdList', psbt', signed', scanError')) =
          Shown(app, RowsShown(app, sdList'), TxShown(app, psbt', signed'))
  BY <1>1, FrameShows
<1>4. /\ RowsShown(app, sdList') = RowsShown(app, sdList)
      /\ TxShown(app, psbt', signed') = TxShown(app, psbt, signed)
  BY DEF RowsShown, TxShown
<1>5. Legible(Frame(app, sdList', psbt', signed', scanError')) =
          Legible(Frame(app, sdList, psbt, signed, scanError))
  BY <1>2, <1>3, <1>4
<1> QED
  BY <1>5 DEF Now

\* A row that is tapped: the file on it, if it can be read, is the one loaded.
LEMMA RowStep ==
    ASSUME LoopInv, HandleRow
    PROVE  LoopInv'
<1> DEFINE row == Row(clicked.spot)
           name == NameAt(row)
<1> HIDE DEF row
<1>1. NextClick /\ Redraw /\ TapRow(row) /\ app.at = "SignScan"
      /\ sdList' = sdList /\ outputs' = outputs /\ failed' = failed
  BY DEF HandleRow, OnARow, sdVars, counts, row
<1>2. TypeInv
  BY DEF LoopInv
<1>3. \/ /\ name \in Names /\ name # None /\ files[name] \in Psbts /\ files[name] # None
         /\ app' = At("SignReview") /\ psbt' = files[name] /\ signed' = signed
         /\ scanError' = FALSE /\ loaded' = name /\ signedWritten' = FALSE
         /\ origin' = [name |-> name, contents |-> files[name]]
      \/ /\ app' = app /\ psbt' = psbt /\ signed' = signed /\ scanError' \in BOOLEAN
         /\ signedWritten' \in BOOLEAN
  <2>1. name # None => name \in Names
    <3>1. sdList \in Seq(Names)
      BY <1>2 DEF TypeInv
    <3>2. row \in DOMAIN sdList => sdList[row] \in Names
      BY <3>1
    <3> QED
      BY <3>2 DEF NameAt
  <2>2. CASE name # None /\ files[name] \notin {Unreadable, None}
    <3> HIDE DEF name
    <3>1. /\ loaded' = name /\ signedWritten' = FALSE /\ Scan(files[name])
          /\ origin' = [name |-> name, contents |-> files[name]]
      BY <1>1, <2>2 DEF TapRow, SetLoaded, name
    <3> QED
      BY <2>1, <2>2, <3>1 DEF Scan
  <2>3. CASE ~(name # None /\ files[name] \notin {Unreadable, None})
    <3> HIDE DEF name
    <3>1. UNCHANGED <<walletVars, loaded, origin, signedWritten>>
      BY <1>1, <2>3 DEF TapRow, name
    <3> QED
      BY <1>2, <3>1 DEF walletVars, TypeInv
  <2> QED
    BY <2>2, <2>3
<1> HIDE DEF name
<1>4. At("SignReview") \in AppStates /\ At("SignReview").at = "SignReview"
  BY DEF At, AppStates, Screens
<1>5. /\ app' \in AppStates /\ psbt' \in Psbts \cup {None} /\ signed' \in Psbts \cup {None}
      /\ scanError' \in BOOLEAN /\ signedWritten' \in BOOLEAN
  BY <1>2, <1>3, <1>4 DEF TypeInv
<1>6. sdList' \in Seq(Names) /\ DOMAIN outputs' = Names /\ failed' \in Nat
  BY <1>1, <1>2 DEF TypeInv
<1>7. TypeInv'
  BY <1>1, <1>5, <1>6, RedrawTypes
<1>8. app' = app => Legible(Now)' = Legible(Now)
  BY <1>1, <1>2, <1>3, <1>4, <1>5, <1>6, NowLooksTheSame
<1>9. Picture' /\ Aims'
  BY <1>1, <1>8, RedrawAims
<1>10. Session'
  <2>1. pc' = "pending" => app'.at = "PinVerifying"
    BY <1>1 DEF Redraw, HasPendingWork, NextClick
  <2>2. signed = None
    BY <1>1 DEF LoopInv, Session
  <2> QED
    BY <1>1, <1>3, <1>4, <2>1, <2>2 DEF Session
<1> QED
  BY <1>7, <1>9, <1>10 DEF LoopInv
\* A touch, and what the loop does after it: entering the list, exporting the
\* descriptor, writing the signed file, which is there unless the write fails.
LEMMA TouchStep ==
    ASSUME LoopInv, HandleTouch
    PROVE  /\ LoopInv'
           /\ app'.at = "SignResult" /\ signed' # None =>
                  loaded' # None /\ (outputs'[loaded'] = signed' \/ failed' # failed)
<1>1. NextClick /\ Redraw /\ Touch(clicked.spot) /\ SideEffects
  BY DEF HandleTouch
<1>2. TypeInv /\ Session
  BY DEF LoopInv
<1>3. clicked.spot \in Spots
  BY <1>1, ClickTaken
<1> DEFINE s == Step(app, clicked.spot)
<1>4. /\ s \in AppStates
      /\ s.at = "SignReview" => s = app
      /\ s.at = "SignResult" => s = app \/ app.at = "SignReview"
      /\ s.at = "SignScan" => s = app \/ app.at = "Home"
      /\ app.at = "SignResult" => s = app \/ s.at = "Home"
  BY <1>2, <1>3, StepCases DEF TypeInv
<1> HIDE DEF s
<1>5. /\ app' = s
      /\ psbt' = IF s.at = "Home" THEN None ELSE psbt
      /\ scanError' = (scanError /\ s.at # "Home")
      /\ signed' = CASE s.at = "Home" -> None
                     [] app.at = "SignReview" /\ s.at = "SignResult" /\ psbt \in Signable -> psbt
                     [] OTHER -> signed
  BY <1>1 DEF Touch, s
<1>6. /\ signed' \in {None, psbt, signed}
      /\ s.at = "Home" => signed' = None
      /\ ~(app.at = "SignReview" /\ s.at = "SignResult") /\ s.at # "Home" => signed' = signed
      /\ s.at # "Home" /\ signed' # signed => signed' = psbt
  BY <1>5
<1>7. /\ psbt' \in Psbts \cup {None} /\ signed' \in Psbts \cup {None}
      /\ scanError' \in BOOLEAN
  BY <1>2, <1>5, <1>6 DEF TypeInv
\* What the side effects leave of the loop's session and of the SD folder.
<1>8. \/ /\ s.at = "SignScan" /\ app.at # "SignScan"
         /\ sdList' = ListPsbtFiles /\ signedWritten' = FALSE
         /\ outputs' = outputs /\ failed' = failed
      \/ /\ s.at = "Home" /\ failed' \in {failed, failed + 1}
         /\ UNCHANGED <<sdList, loaded, signedWritten, outputs, origin>>
      \/ /\ SignatureIsReady /\ WriteSigned
         /\ UNCHANGED <<sdList, loaded, origin>>
      \/ /\ ~SignatureIsReady
         /\ UNCHANGED <<sdList, loaded, signedWritten, outputs, origin, failed>>
  BY <1>1, <1>5 DEF SideEffects, EnterSignScan, ExportDescriptor, sessionVars
<1>9. SignatureIsReady /\ WriteSigned =>
         /\ s.at = "SignResult" /\ signed' # None /\ loaded \in Names
         /\ DOMAIN outputs' = Names
         /\ \/ signedWritten' = TRUE /\ outputs'[loaded] = signed' /\ failed' = failed
            \/ signedWritten' = FALSE /\ failed' = failed + 1
  <2> SUFFICES ASSUME SignatureIsReady, WriteSigned PROVE <1>9!2
    OBVIOUS
  <2>1. s.at = "SignResult" /\ signed' # None /\ loaded \in Names
    BY <1>2, <1>4, <1>5 DEF SignatureIsReady, Session
  <2>2. PICK w \in WriteFile(outputs[loaded], signed') :
            /\ outputs' = [outputs EXCEPT ![loaded] = w.contents]
            /\ signedWritten' = w.done
            /\ failed' = IF w.done THEN failed ELSE failed + 1
    BY DEF WriteSigned
  <2>3. \/ w.done = TRUE /\ w.contents = signed'
        \/ w.done = FALSE
    BY WriteCases
  <2>4. DOMAIN outputs' = Names /\ outputs'[loaded] = w.contents
    BY <1>2, <2>1, <2>2 DEF TypeInv
  <2> QED
    BY <2>1, <2>2, <2>3, <2>4
<1>10. /\ sdList' \in Seq(Names) /\ signedWritten' \in BOOLEAN
       /\ DOMAIN outputs' = Names /\ failed' \in Nat
  <2>1. /\ sdList \in Seq(Names) /\ signedWritten \in BOOLEAN
        /\ DOMAIN outputs = Names /\ failed \in Nat /\ failed + 1 \in Nat
    BY <1>2 DEF TypeInv
  <2> QED
    BY <1>8, <1>9, <2>1, ListingIsNames
<1>11. TypeInv'
  BY <1>1, <1>4, <1>5, <1>7, <1>10, RedrawTypes
<1>12. app' = app => Legible(Now)' = Legible(Now)
  <2>1. app' = app =>
            /\ app.at = "SignScan" => sdList' = sdList
            /\ app.at = "SignReview" => psbt' = psbt
            /\ app.at = "SignResult" => signed' = signed
    BY <1>5, <1>6, <1>8
  <2> QED
    BY <1>2, <1>7, <1>10, <2>1, NowLooksTheSame
<1>13. Picture' /\ Aims'
  BY <1>1, <1>12, RedrawAims
<1>14. s.at \in {"SignReview", "SignResult"} =>
           /\ app.at \in {"SignReview", "SignResult"} /\ psbt' = psbt
           /\ loaded' = loaded /\ origin' = origin
  BY <1>4, <1>5, <1>8
<1>15. ASSUME s.at = "SignResult", signed' # None
       PROVE  /\ signed' = psbt /\ (signedWritten' => outputs'[loaded] = signed')
              /\ loaded' = loaded /\ loaded # None
              /\ outputs'[loaded] = signed' \/ failed' # failed
  <2>1. failed + 1 # failed /\ failed \in Nat
    BY <1>2 DEF TypeInv
  <2>2. app.at \in {"SignReview", "SignResult"} /\ loaded # None /\ loaded' = loaded
    BY <1>2, <1>14, <1>15 DEF Session
  <2>3. signed' = psbt
    BY <1>2, <1>6, <1>15, <2>2 DEF Session
  <2>4. CASE SignatureIsReady
    BY <1>8, <1>9, <1>15, <2>1, <2>2, <2>3, <2>4
  <2>5. CASE ~SignatureIsReady
    <3>1. signedWritten
      BY <1>5, <1>15, <2>2, <2>5 DEF SignatureIsReady
    <3>2. app.at = "SignResult" /\ signed' = signed
      BY <1>2, <1>6, <1>15, <2>2, <3>1 DEF Session
    <3> QED
      BY <1>2, <1>8, <1>15, <2>2, <2>3, <2>5, <3>1, <3>2 DEF Session
  <2> QED
    BY <2>4, <2>5
<1>16. Session'
  <2>1. pc' = "pending" => app'.at = "PinVerifying"
    BY <1>1 DEF Redraw, HasPendingWork, NextClick
  <2>2. app'.at # "SignResult" => signed' = None
    BY <1>2, <1>4, <1>5, <1>6 DEF Session
  <2>3. s.at = "SignReview" => app.at = "SignReview" /\ ~signedWritten'
    BY <1>2, <1>4, <1>8, <1>9 DEF Session
  <2> QED
    BY <1>2, <1>5, <1>14, <1>15, <2>1, <2>2, <2>3 DEF Session
<1>17. app'.at = "SignResult" /\ signed' # None =>
           loaded' # None /\ (outputs'[loaded'] = signed' \/ failed' # failed)
  BY <1>5, <1>15
<1> QED
  BY <1>11, <1>13, <1>16, <1>17 DEF LoopInv
\* The deferred work: what is drawn is the screen it leads to, and the clicks
\* made meanwhile go.
LEMMA ResolveStep ==
    ASSUME LoopInv, Resolve
    PROVE  LoopInv'
<1>1. /\ app' \in AppStates /\ app'.at \notin {"PinVerifying", "SignReview", "SignResult"}
      /\ pc' = "handle" /\ psbt' = psbt /\ signed' = signed /\ scanError' = scanError
      /\ sdList' = sdList /\ display' = Frame(app', sdList, psbt, signed, scanError)
      /\ window' = window /\ batch' = batch /\ queue' = <<>> /\ swallowed' = TRUE
      /\ signedWritten' = signedWritten /\ outputs' = outputs /\ failed' = failed
  BY DEF Resolve, Drain, At, AppStates, Screens, sessionVars, sdVars, counts
<1>2. <<>> \in Seq(Clicks)
  OBVIOUS
<1>3. TypeInv'
  <2>1. /\ sdList \in Seq(Names) /\ psbt \in Psbts \cup {None}
        /\ signed \in Psbts \cup {None} /\ scanError \in BOOLEAN
    BY DEF LoopInv, TypeInv
  <2>2. display' \in Frames
    BY <1>1, <2>1, FrameShows
  <2> QED
    BY <1>1, <1>2, <2>2 DEF LoopInv, TypeInv
<1>4. Picture'
  BY <1>1 DEF Picture, Now
<1>5. Aims'
  BY <1>1 DEF Aims
<1>6. Session'
  <2>1. signed = None
    BY DEF LoopInv, Session, Resolve
  <2> QED
    BY <1>1, <2>1 DEF Session
<1> QED
  BY <1>3, <1>4, <1>5, <1>6 DEF LoopInv

\* A click is aimed at the window: at the frame drawn last, or it is stale.
LEMMA ClickStep ==
    ASSUME LoopInv, NEW spot \in Spots, Click(spot)
    PROVE  LoopInv'
<1> DEFINE click == [spot |-> spot, aim |-> window, stale |-> window # display]
<1>1. queue \in Seq(Clicks) /\ window \in Frames
  BY DEF LoopInv, TypeInv
<1>2. click \in Clicks /\ Aimed(click)
  BY <1>1 DEF Clicks, Aimed
<1>3. queue' = Append(queue, click)
  BY DEF Click
<1> HIDE DEF click
<1>4. /\ queue' \in Seq(Clicks)
      /\ \A i \in 1..Len(queue') : queue'[i] = click \/ (i \in 1..Len(queue) /\ queue'[i] = queue[i])
  BY <1>1, <1>2, <1>3
<1>5. UNCHANGED <<pc, walletVars, screenVars, batch, swallowed, sessionVars, sdVars, origin, counts>>
  BY DEF Click
<1>6. TypeInv'
  BY <1>4, <1>5 DEF LoopInv, TypeInv, walletVars, screenVars, sessionVars, sdVars, counts
<1>7. Picture'
  BY <1>5 DEF LoopInv, Picture, Now, walletVars, screenVars, sessionVars
<1>8. Aims'
  <2>1. display' = display /\ pc' = pc /\ batch' = batch /\ swallowed' = swallowed
    BY <1>5 DEF screenVars
  <2> QED
    BY <1>2, <1>4, <2>1 DEF LoopInv, Aims, Aimed
<1>9. Session'
  BY <1>5 DEF LoopInv, Session, walletVars, sessionVars, sdVars, counts
<1> QED
  BY <1>6, <1>7, <1>8, <1>9 DEF LoopInv

\* A turn of the loop that takes no click: the frame goes to the window, the
\* clicks that SDL holds are collected, what is left of a batch goes.
LEMMA TurnStep ==
    ASSUME LoopInv, Update \/ Collect \/ Turn
    PROVE  LoopInv'
<1>1. /\ UNCHANGED <<walletVars, display, sessionVars, sdVars, origin, counts>>
      /\ pc' \in {"update", "collect", "handle"}
      /\ window' \in {window, display}
      /\ pc' = "collect" => window' = display
  BY DEF Update, Collect, Turn, screenVars
<1>2. \/ queue' = queue /\ batch' = batch /\ swallowed' = swallowed /\ pc # "pending"
      \/ queue' = <<>> /\ batch' = queue /\ swallowed' = FALSE /\ pc # "pending"
      \/ queue' = queue /\ batch' = <<>> /\ swallowed' = FALSE /\ pc # "pending"
  BY DEF Update, Collect, Turn, inputVars
<1>3. <<>> \in Seq(Clicks) /\ Len(<<>>) = 0
  OBVIOUS
<1>4. TypeInv'
  <2>1. queue' \in Seq(Clicks) /\ batch' \in Seq(Clicks)
    BY <1>2, <1>3 DEF LoopInv, TypeInv
  <2>2. swallowed' \in BOOLEAN
    BY <1>2 DEF LoopInv, TypeInv
  <2> QED
    BY <1>1, <2>1, <2>2 DEF LoopInv, TypeInv, walletVars, sessionVars, sdVars, counts
<1>5. Picture'
  BY <1>1 DEF LoopInv, Picture, Now, walletVars, sessionVars
<1>6. Aims'
  BY <1>1, <1>2, <1>3 DEF LoopInv, Aims, Aimed
<1>7. Session'
  BY <1>1 DEF LoopInv, Session, walletVars, sessionVars, sdVars, counts
<1> QED
  BY <1>4, <1>5, <1>6, <1>7 DEF LoopInv

\* The hot machine changes the files: nothing that the loop holds.
LEMMA EditStep ==
    ASSUME LoopInv, NEW name \in Names, NEW contents, EditFile(name, contents)
    PROVE  LoopInv'
<1>1. /\ UNCHANGED <<pc, walletVars, screenVars, inputVars, sessionVars, origin>>
      /\ outputs' = outputs /\ failed' = failed
  BY DEF EditFile
<1> QED
  BY <1>1 DEF LoopInv, TypeInv, Picture, Now, Aims, Aimed, Session,
      walletVars, screenVars, inputVars, sessionVars

\* A restart is a start.
LEMMA RestartStep ==
    ASSUME LoopInv, Restart
    PROVE  LoopInv'
<1>1. /\ app' = At("EnterPin") /\ psbt' = None /\ signed' = None /\ scanError' = FALSE
      /\ sdList' = <<>> /\ display' = Frame(app', <<>>, None, None, FALSE) /\ window' = Blank
      /\ queue' = <<>> /\ batch' = <<>> /\ swallowed' = FALSE /\ signedWritten' = FALSE
      /\ pc' = "update" /\ outputs' = outputs /\ failed' = failed
  BY DEF Restart, sdVars
<1>2. DOMAIN outputs' = Names /\ failed' \in Nat
  BY <1>1 DEF LoopInv, TypeInv
<1>3. app' \in AppStates /\ app'.at = "EnterPin"
  BY <1>1 DEF At, AppStates, Screens
<1>4. <<>> \in Seq(Names) /\ <<>> \in Seq(Clicks)
  OBVIOUS
<1>5. display' \in Frames
  BY <1>1, <1>3, <1>4, FrameShows
<1>6. window' \in Frames
  BY <1>1, <1>4 DEF Blank, Frames
<1>7. TypeInv'
  BY <1>1, <1>2, <1>3, <1>4, <1>5, <1>6 DEF TypeInv
<1>8. Picture'
  BY <1>1 DEF Picture, Now
<1>9. Aims'
  BY <1>1 DEF Aims
<1>10. Session'
  BY <1>1, <1>3 DEF Session
<1> QED
  BY <1>7, <1>8, <1>9, <1>10 DEF LoopInv

-----------------------------------------------------------------------------
(* The theorems *)

\* In every state the loop reaches, its variables have their types, the frame
\* drawn is that of the state, the clicks to come were aimed at it, and what is
\* reviewed, signed and written is one file (main.rs).
THEOREM LoopInvariance == Spec => []LoopInv
<1>1. Init => LoopInv
  <2> SUFFICES ASSUME Init PROVE LoopInv
    OBVIOUS
  <2>1. DOMAIN outputs = Names /\ failed \in Nat
    BY DEF Init
  <2> QED
    BY <2>1, StartIsFine DEF Init
<1>2. LoopInv /\ [Next]_vars => LoopInv'
  <2> SUFFICES ASSUME LoopInv, [Next]_vars PROVE LoopInv'
    OBVIOUS
  <2>1. CASE Update \/ Collect \/ Turn
    BY <2>1, TurnStep
  <2>2. CASE HandleRow
    BY <2>2, RowStep
  <2>3. CASE HandleTouch
    BY <2>3, TouchStep
  <2>4. CASE Resolve
    BY <2>4, ResolveStep
  <2>5. ASSUME NEW spot \in Spots, Click(spot) PROVE LoopInv'
    BY <2>5, ClickStep
  <2>6. ASSUME NEW n \in Names, NEW c \in Psbts \cup {Garbage, Unreadable, None}, EditFile(n, c)
        PROVE  LoopInv'
    BY <2>6, EditStep
  <2>7. CASE Restart
    BY <2>7, RestartStep
  <2>8. CASE UNCHANGED vars
    BY <2>8 DEF LoopInv, TypeInv, Picture, Now, Aims, Aimed, Session, vars,
        walletVars, screenVars, inputVars, sessionVars, sdVars, counts
  <2> QED
    BY <2>1, <2>2, <2>3, <2>4, <2>5, <2>6, <2>7, <2>8 DEF Next
<1> QED
  BY <1>1, <1>2, PTL DEF Spec

\* While the loop waits, the window shows what the wallet and the listing say,
\* apart from the hint of a rejected scan (window.update, draw_ui).
THEOREM WindowIsCurrent == Spec => []ScreenIsCurrent
<1>1. LoopInv => ScreenIsCurrent
  BY DEF LoopInv, Picture, Now, ScreenIsCurrent
<1> QED
  BY <1>1, LoopInvariance, PTL

\* Every touch that leads to the result, or finds it on the screen, leaves the
\* signed file whole in the SD folder, unless its own attempt to write it fails
\* (the SignResult branch of main.rs).
THEOREM SignedIsSaved == Spec => ResultIsSaved
<1>1. LoopInv /\ [Next]_vars =>
          [HandleTouch /\ app'.at = "SignResult" /\ signed' # None =>
               loaded' # None /\ (outputs'[loaded'] = signed' \/ failed' # failed)]_vars
  BY TouchStep
<1> QED
  BY <1>1, LoopInvariance, PTL DEF Spec, ResultIsSaved

\* A click acts on the screen it was aimed at, or fell into the pause between
\* the drawing of a frame and its showing (the drain of main.rs).
THEOREM ClicksKeepTheirMeaning == Spec => ClickMeansWhatWasSeen
<1>1. LoopInv /\ [Next]_vars =>
          [Handle => clicked.stale \/ Legible(clicked.aim)
                        = Legible(Frame(app, sdList, psbt, signed, scanError))]_vars
  <2> SUFFICES ASSUME LoopInv, Handle
               PROVE  clicked.stale \/ Legible(clicked.aim)
                          = Legible(Frame(app, sdList, psbt, signed, scanError))
    OBVIOUS
  <2>1. NextClick
    BY DEF Handle, HandleRow, HandleTouch
  <2>2. Aimed(clicked)
    BY <2>1, ClickTaken
  <2> QED
    BY <2>2 DEF LoopInv, Picture, Now, Aimed
<1> QED
  BY <1>1, LoopInvariance, PTL DEF Spec, ClickMeansWhatWasSeen

\* A tap on a row loads the file named on that row of the frame, and on that row
\* of the window it was aimed at, however the folder has changed since the list
\* was drawn; a tap below the last row loads nothing (sd_list.get).
THEOREM RowsLoadTheirFiles == Spec => RowLoadsItsFile
<1>1. LoopInv /\ [Next]_vars =>
          [HandleRow /\ <<app, loaded, origin>>' # <<app, loaded, origin>> =>
              LET row == Row(clicked.spot) IN
              /\ row \in DOMAIN display.rows
              /\ loaded' = display.rows[row] /\ origin'.name = loaded'
              /\ clicked.stale \/ /\ row \in DOMAIN clicked.aim.rows
                                  /\ clicked.aim.rows[row] = loaded']_vars
  <2> DEFINE row == Row(clicked.spot)
  <2> SUFFICES ASSUME LoopInv, HandleRow, <<app, loaded, origin>>' # <<app, loaded, origin>>
               PROVE  /\ row \in DOMAIN display.rows
                      /\ loaded' = display.rows[row] /\ origin'.name = loaded'
                      /\ clicked.stale \/ /\ row \in DOMAIN clicked.aim.rows
                                          /\ clicked.aim.rows[row] = loaded'
    OBVIOUS
  <2> HIDE DEF row
  <2>1. NextClick /\ TapRow(row) /\ app.at = "SignScan"
    BY DEF HandleRow, OnARow, row
  <2>2. /\ NameAt(row) # None /\ loaded' = NameAt(row)
        /\ origin' = [name |-> NameAt(row), contents |-> files[NameAt(row)]]
    BY <2>1 DEF TapRow, SetLoaded, walletVars
  <2>3. row \in DOMAIN sdList /\ sdList[row] = loaded' /\ origin'.name = loaded'
    BY <2>2 DEF NameAt
  <2>4. display \in Frames /\ clicked \in Clicks /\ Aimed(clicked)
    BY <2>1, ClickTaken DEF LoopInv, TypeInv
  <2>5. display.rows = sdList
    <3>1. Legible(display).rows = display.rows
      BY <2>4, LegibleFields
    <3> QED
      BY <2>1, <3>1, NowIsFrame DEF LoopInv, Picture, RowsShown
  <2>6. clicked.stale \/ clicked.aim.rows = display.rows
    <3>1. clicked.aim \in Frames
      BY <2>4 DEF Clicks
    <3>2. Legible(clicked.aim).rows = clicked.aim.rows /\ Legible(display).rows = display.rows
      BY <2>4, <3>1, LegibleFields
    <3> QED
      BY <2>4, <3>2 DEF Aimed
  <2> QED
    BY <2>3, <2>5, <2>6
<1> QED
  BY <1>1, LoopInvariance, PTL DEF Spec, RowLoadsItsFile

\* A signed file carries the signature of what was read from the file of its
\* name and reviewed, or a part of it if the write fails (SignResult, main.rs).
THEOREM SignedFilesAreReviewed == Spec => SignedFileIsReviewed
<1>1. LoopInv /\ [Next]_vars =>
          [\A n \in Names : outputs'[n] # outputs[n] =>
               outputs'[n] = Torn \/ origin = [name |-> n, contents |-> outputs'[n]]]_vars
  <2> SUFFICES ASSUME LoopInv, Next, NEW n \in Names, outputs'[n] # outputs[n]
               PROVE  outputs'[n] = Torn \/ origin = [name |-> n, contents |-> outputs'[n]]
    OBVIOUS
  <2>1. CASE HandleTouch
    <3>1. Touch(clicked.spot) /\ SideEffects /\ NextClick
      BY <2>1 DEF HandleTouch
    <3>2. SignatureIsReady /\ WriteSigned
      BY <3>1 DEF SideEffects
    <3>3. PICK w \in WriteFile(outputs[loaded], signed') :
              outputs' = [outputs EXCEPT ![loaded] = w.contents]
      BY <3>2 DEF WriteSigned
    <3>4. n = loaded /\ outputs'[n] = w.contents
      BY <3>3 DEF LoopInv, TypeInv
    <3>5. w.contents \in {signed', outputs[n], Torn}
      BY <3>4, WriteCases
    <3>6. origin = [name |-> loaded, contents |-> psbt] /\ signed' = psbt
      <4>1. app' = Step(app, clicked.spot) /\ app'.at = "SignResult" /\ signed' # None
        BY <3>1, <3>2 DEF Touch, SignatureIsReady
      <4>2. app.at \in {"SignReview", "SignResult"}
        <5>1. clicked.spot \in Spots
          BY <3>1, ClickTaken
        <5> QED
          BY <4>1, <5>1, StepCases DEF LoopInv, TypeInv
      <4>3. signed' = psbt \/ signed' = signed
        BY <3>1, <4>1 DEF Touch
      <4> QED
        BY <4>1, <4>2, <4>3 DEF LoopInv, Session
    <3> QED
      BY <3>4, <3>5, <3>6
  <2>2. CASE HandleRow
    BY <2>2 DEF HandleRow, sdVars
  <2>3. CASE Update \/ Collect \/ Turn \/ Resolve
    BY <2>3 DEF Update, Collect, Turn, Resolve, sdVars
  <2>4. CASE Restart \/ (\E spot \in Spots : Click(spot))
    BY <2>4 DEF Restart, Click, sdVars
  <2>5. CASE \E m \in Names, c \in Psbts \cup {Garbage, Unreadable, None} : EditFile(m, c)
    BY <2>5 DEF EditFile
  <2> QED
    BY <2>1, <2>2, <2>3, <2>4, <2>5 DEF Next
<1> QED
  BY <1>1, LoopInvariance, PTL DEF Spec, SignedFileIsReviewed
=============================================================================
