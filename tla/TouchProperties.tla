-------------------------- MODULE TouchProperties ---------------------------
(***************************************************************************)
(* What the screens draw (wallet-core/src/draw/), and the properties that  *)
(* compare it with what a tap does.  Drawing and hit testing are written   *)
(* in different files: only the constants of layout.rs are common.         *)
(***************************************************************************)
EXTENDS Touch

Widget(label, arg, area, lit) == [label |-> label, arg |-> arg, area |-> area, lit |-> lit]
Lit(label, area) == Widget(label, None, area, TRUE)

-----------------------------------------------------------------------------
(* What is drawn *)

BackOnly == {Lit("< Back", NavPrev)}

DrawHome ==
    {Lit("Receive", HomeArea(0, 0)), Lit("Sign", HomeArea(1, 0)),
     Lit("Accounts", HomeArea(0, 1)), Lit("Settings", HomeArea(1, 1))}
DrawSettings ==
    {Lit("Show Mnemonic", SettingsArea(0)), Lit("Change PIN", SettingsArea(1)),
     Lit("Descriptor", SettingsArea(2)), Lit("About", SettingsArea(3))} \cup BackOnly

\* draw/mnemonic.rs, on both of its screens.
DrawMnemonic(s) ==
    {Widget("< Prev", None, NavPrev, s.page > 0),
     Lit(IF s.page = LAST_PAGE THEN "Done >" ELSE "Next >", NavNext)}

DrawKeyboard ==
    (UNION {{Widget("key", KeyRow(r)[i].label, KeyRow(r)[i].area, TRUE) : i \in DOMAIN KeyRow(r)}
            : r \in 0..2})
    \cup {Widget("key", "Space", SpaceArea(3), TRUE), Lit("<-", BkspArea(3))}

DrawPassphrase(s) ==
    DrawKeyboard \cup {Lit("Skip", PpSkip), Widget("Confirm", None, PpConfirm, s.text # <<>>)}

DrawRestore(s) ==
    LET matches == FindMatches(s.text)
    IN  DrawKeyboard
        \cup {Widget("word", matches[i], SuggestArea(i), TRUE) : i \in DOMAIN matches}
        \cup {Widget("no word", None, SuggestArea(i), FALSE) : i \in 1..SUGGESTIONS \ DOMAIN matches}
        \cup {Widget("Cancel", None, PpSkip, FALSE)}

DrawPad(s) ==
    {Widget("digit", s.order[pos + 1], PinKey(pos), TRUE) : pos \in 0..PIN_KEYS - 1}
    \cup IF s.digits # <<>> THEN {Lit("<- Del", PinDel)} ELSE {}

\* The rows with a file; their number is the host's.
DrawSignScan == {Widget("file", row, SdRow(row), TRUE) : row \in 0..SD_FILES_MAX - 1}
                \cup {Lit("Cancel", NavPrev)}

\* draw_ui
Drawn(s) ==
    CASE s.at = "Welcome" -> {Lit("New Wallet", BtnNew), Lit("Restore Wallet", BtnRestore)}
      [] s.at \in {"NewWallet", "ShowMnemonic"} -> DrawMnemonic(s)
      [] s.at = "EnterPassphrase" -> DrawPassphrase(s)
      [] s.at = "RestoreWallet" -> DrawRestore(s)
      [] s.at \in {"SetPin", "ConfirmPin", "EnterPin"} -> DrawPad(s)
      [] s.at = "Home" -> DrawHome
      [] s.at = "Settings" -> DrawSettings
      [] s.at \in {"Receive", "Accounts", "Descriptor", "About"} -> BackOnly
      [] s.at = "SignScan" -> DrawSignScan
      [] s.at = "SignReview" -> {Lit("Cancel", NavPrev), Lit("Sign >", NavNext)}
      [] s.at = "SignResult" -> {Lit("< Done", NavPrev)}
      [] OTHER -> {}

-----------------------------------------------------------------------------
(* Where a finger may land: the corners of every area, just inside and just outside *)

Corners(a) ==
    {<<x, y>> : x \in {a[1] - 1, a[1], a[1] + a[3] - 1, a[1] + a[3]},
                y \in {a[2] - 1, a[2], a[2] + a[4] - 1, a[2] + a[4]}}

Areas ==
    {BtnNew, BtnRestore, NavPrev, NavNext, PinDel}
    \cup {HomeArea(col, row) : col, row \in 0..1} \cup {SettingsArea(i) : i \in 0..3}
    \cup {SdRow(row) : row \in 0..SD_FILES_MAX - 1} \cup {PinKey(pos) : pos \in 0..PIN_KEYS - 1}
    \cup {SuggestArea(i) : i \in 1..SUGGESTIONS} \cup {b.area : b \in ToSet(KeyTable)}

Probes == UNION {Corners(a) : a \in Areas}

-----------------------------------------------------------------------------
(* What the labels promise *)

\* The screen one level up.
Above(s) ==
    CASE s.at \in {"Descriptor", "About", "ShowMnemonic"} -> "Settings"
      [] s.at = "RestoreWallet" -> "Welcome"
      [] OTHER -> "Home"

\* The screens that carry the name of the button that opens them.
Names == {"Receive", "Accounts", "Settings", "Descriptor", "About"}

\* A key puts its character at the end, and does nothing only if there is no room
\* left, or if it is the space bar where words are typed.
Types(s, c, t) ==
    \/ t = [s EXCEPT !.text = Append(@, c), !.error = FALSE]
    \/ t = s /\ (Len(s.text) = IF s.at = "RestoreWallet" THEN BUF_LEN ELSE MAX_PASS)
    \/ t = s /\ s.at = "RestoreWallet" /\ c = "Space"

Erases(s, t) ==
    \/ s.text # <<>> /\ t = [s EXCEPT !.text = Front(@), !.error = FALSE]
    \/ s.digits # <<>> /\ t = [s EXCEPT !.digits = Front(@)]

\* A digit is added to the pad; the last one completes the entry.
AddsDigit(s, d, t) ==
    IF Len(s.digits) + 1 < PIN_LEN THEN t = [s EXCEPT !.digits = Append(@, d)]
    ELSE t.digits = <<>> /\ (s.at = "SetPin" => t.pin = Append(s.digits, d))

\* A suggestion is the word it shows, in the place whose number is on screen.
TakesWord(s, w, t) ==
    IF Len(s.confirmed) + 1 < WORDS THEN t = RestoreWallet(Append(s.confirmed, w), FALSE)
    ELSE t \in {EnterPassphrase, RestoreWallet(<<>>, TRUE)}

\* Whether a step from s to t is what the widget says.
Keeps(s, b, t) ==
    CASE b.label = "key" -> Types(s, b.arg, t)
      [] b.label = "<-" -> Erases(s, t) \/ (s.text = <<>> /\ t = s)
      [] b.label = "<- Del" -> Erases(s, t)
      [] b.label = "digit" -> AddsDigit(s, b.arg, t)
      [] b.label = "word" -> TakesWord(s, b.arg, t)
      [] b.label \in {"no word", "Confirm"} /\ ~b.lit -> t = s
      [] b.label \in {"Skip", "Confirm"} /\ b.lit -> t.at = "SetPin"
      [] b.label = "New Wallet" -> t = Page("NewWallet", 0)
      [] b.label = "Restore Wallet" -> t = RestoreWallet(<<>>, FALSE)
      [] b.label = "Next >" -> t = [s EXCEPT !.page = @ + 1]
      [] b.label = "< Prev" -> t = [s EXCEPT !.page = @ - 1] \/ (~b.lit /\ t = Screen(Above(s)))
                               \/ (~b.lit /\ t = s)
      [] b.label = "Done >" -> t.at = IF s.at = "NewWallet" THEN "EnterPassphrase" ELSE Above(s)
      [] b.label \in {"< Back", "< Done", "Cancel"} -> t = Screen(Above(s))
      [] b.label \in Names -> t = Screen(b.label)
      [] b.label \in {"Show Mnemonic", "Change PIN"} ->
             t.at = "EnterPin" /\ t.digits = <<>>
             /\ (t.gate = "ShowMnemonic" <=> b.label = "Show Mnemonic")
      [] b.label = "Sign" -> t = Screen("SignScan")
      [] b.label = "file" -> t \in {s, Screen("SignReview")}
      [] b.label = "Sign >" -> t = Screen("SignResult")

-----------------------------------------------------------------------------
(* Properties *)

Screens == {"Welcome", "NewWallet", "RestoreWallet", "EnterPassphrase", "SetPin", "ConfirmPin",
            "PinMismatch", "EnterPin", "PinVerifying", "PinConfirming", "PinLocked", "Home",
            "Receive", "SignScan", "SignReview", "SignResult", "Accounts", "Settings",
            "Descriptor", "ShowMnemonic", "About"}

\* The types of the variables, with the capacity of every buffer; a full word
\* list or a full PIN never waits for a tap.
TypeOK ==
    /\ app.at \in Screens /\ app.page \in 0..LAST_PAGE /\ app.error \in BOOLEAN
    /\ app.gate \in {None, "Unlock", "ShowMnemonic", "ChangePin"}
    /\ app.text \in Seq(Letters \cup {"Space"})
    /\ Len(app.text) <= IF app.at = "RestoreWallet" THEN BUF_LEN ELSE MAX_PASS
    /\ app.digits \in Seq(0..PIN_KEYS - 1) /\ Len(app.digits) < PIN_LEN
    /\ app.order = <<>> \/ ToSet(app.order) = 0..PIN_KEYS - 1
    /\ app.confirmed \in Seq(Indices) /\ Len(app.confirmed) < WORDS
    /\ words # None => words \in [1..WORDS -> Indices]
    /\ shown \subseteq (1..WORDS) \X Indices

\* A lit button does what its label says, wherever in it the tap falls: in its own
\* corners, to the last pixel, and at the corners of every other area of the layout
\* that reach into it.  No area tested earlier covers it, and the pad, the
\* suggestions and the pages act on what is drawn at that very moment.
ButtonsDoWhatTheySay ==
    \A b \in Drawn(app) : b.lit =>
        \A p \in Probes : InRect(p, b.area) =>
            \A r \in Step(app, p) : Keeps(app, b, r.app)

\* Where the keyboard has a Backspace that is not drawn: beside the letters of its
\* third row.
HiddenBksp(s, p) == s.at \in {"RestoreWallet", "EnterPassphrase"} /\ InRect(p, BkspArea(2))

\* Outside the lit buttons a tap changes nothing, with these exceptions, and no
\* more: a dimmed button that does what it says (Cancel of a restore, Prev of the
\* first page of the words), the last letter erased by the hidden Backspace of the
\* two screens with a keyboard, and the screen that asks for a tap anywhere.
UnlitIsHarmless ==
    LET drawn == Drawn(app)
    IN  \A p \in Probes : \A r \in Step(app, p) :
            \/ r.app = app
            \/ HiddenBksp(app, p) /\ Erases(app, r.app)
            \/ \E b \in drawn : InRect(p, b.area) /\ (b.lit \/ Keeps(app, b, r.app))
            \/ app.at = "PinMismatch" /\ r.app.at = "SetPin"

\* No word of the list is out of reach: whatever was typed, each word it begins is
\* either on the strip or one key away, however many words share the prefix and
\* however long the word (three slots, eight letters).
NoDeadEnd ==
    app.at = "RestoreWallet" =>
        \A i \in DOMAIN WordList : IsPrefix(app.text, WordList[i]) =>
            \E b \in Drawn(app) : \E p \in Corners(b.area) : \E r \in Step(app, p) :
                \/ b.label = "word" /\ b.arg = i - 1 /\ r.app.text = <<>>
                \/ b.label = "key" /\ r.app.text = Append(app.text, b.arg)
                   /\ IsPrefix(r.app.text, WordList[i])

\* The pad that is shown could have been any other: every order comes from exactly
\* one list of draws, so that an unbiased generator gives unbiased pads (up to four
\* keys: each swap is like the next).
PadsAreFair ==
    app.order # <<>> =>
        \A n \in 1..3 :
            LET draws == {d \in [1..n -> 0..n] : \A i \in 1..n : d[i] <= i}
                pads  == {Shuffle(d) : d \in draws}
            IN  /\ Cardinality(pads) = Cardinality(draws)
                /\ pads = Injection(1..n + 1, 0..n)

\* What commits: a signature, a passphrase, the end of a restore, a whole PIN.
Commits(s, t) ==
    /\ s.at # t.at
    /\ \/ s.at \in {"SignReview", "EnterPassphrase", "RestoreWallet"}
       \/ t.at \in {"PinVerifying", "PinConfirming", "PinLocked"}

\* A finger that lands twice: the tap that brings up a screen, at once or after the
\* deferred work, never also commits to something on the screen that it brought up.
BouncesAreHarmless ==
    \A p \in Probes : \A r \in Step(app, p) : r.app.at # app.at =>
        \A t \in {r.app} \cup {q.app : q \in Resolved(r.app)} :
            \A again \in Step(t, p) : ~Commits(t, again.app)

\* The mnemonics: a full list of words is one, or the checksum is wrong.
Mnemonics == {GenerateWords(e) : e \in AllEntropies}

\* The words of a restored wallet are exactly the words that were picked, in their
\* order and through bits and bytes; a list is refused only if it is no mnemonic,
\* and no word is lost or replaced on the way.
RestoreKeepsWords ==
    [][app.at = "RestoreWallet" /\ app'.at # "Welcome" =>
          LET picked == {Append(app.confirmed, b.arg) : b \in {w \in Drawn(app) : w.label = "word"}}
          IN  \/ app'.at = "EnterPassphrase" /\ words' \in picked
              \/ app'.at = "RestoreWallet" /\ app'.confirmed \in picked \cup {app.confirmed}
              \/ app'.at = "RestoreWallet" /\ app' = RestoreWallet(<<>>, TRUE)
                 /\ \E ws \in picked : Len(ws) = WORDS /\ ws \notin Mnemonics]_vars

\* A new wallet is set up only after all of its words were on screen, under their
\* numbers, and they are the words of a mnemonic.
BackupWasShown ==
    [][app.at = "NewWallet" /\ app'.at # "NewWallet" =>
          /\ app'.at = "EnterPassphrase"
          /\ words' \in Mnemonics
          /\ shown = {<<i, words'[i]>> : i \in 1..WORDS}]_vars
=============================================================================
