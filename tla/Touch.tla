------------------------------- MODULE Touch --------------------------------
(***************************************************************************)
(* The screen state machine (wallet-core/src/state/machine.rs) at the      *)
(* level of pixels: what a tap at a point does on each screen, and typing  *)
(* the words of a restore letter by letter.  ColdWallet holds what lies    *)
(* behind the screens; here the verdict on a PIN and the reading of a PSBT *)
(* have every result that is possible.                                     *)
(*                                                                         *)
(* A step takes a point to the set of its possible results.  The arrays    *)
(* `buf`, `digits` and `confirmed`, with their lengths, are sequences.     *)
(***************************************************************************)
EXTENDS Layout, Mnemonic, FiniteSets

CONSTANTS
    Points,             \* where the user's finger may land
    Entropies,          \* what the entropy source may yield
    Draws,              \* the numbers a shuffle may draw
    PIN_LEN,            \* 6 in the code
    LAST_PAGE,          \* 3 in the code
    MAX_PASS,           \* characters of a passphrase: 32 in the code
    BUF_LEN             \* letters of a typed word: 8 in the code

ASSUME TouchAssumption ==
    /\ PIN_LEN \in Nat \ {0, 1} /\ {MAX_PASS, BUF_LEN} \subseteq Nat \ {0} /\ LAST_PAGE \in Nat
    /\ WORDS % (LAST_PAGE + 1) = 0
ASSUME NoneAssumption == None \notin Int \cup Letters \cup {"Space", "Backspace", "Skip", "Confirm"}
\* The words fit the buffer, and the list is in alphabetical order: a word comes
\* before all others that begin with it.
ASSUME SpellingAssumption ==
    /\ WordList \in Seq(Seq(Letters))
    /\ \A i \in 1..Len(WordList) : Len(WordList[i]) \in 1..BUF_LEN
    /\ \A i, j \in 1..Len(WordList) : IsPrefix(WordList[i], WordList[j]) => i <= j
ASSUME ChoicesAssumption ==
    /\ Entropies \subseteq AllEntropies
    /\ \A draw \in Draws : draw \in [1..PIN_KEYS - 1 -> Nat]

VARIABLES
    app,        \* AppState: the variant is `at`, fields it lacks are blank
    words,      \* ColdWallet::words, None before there are any
    shown       \* history: the numbered words of a new wallet that were drawn

vars == <<app, words, shown>>

-----------------------------------------------------------------------------
(* Screens and results *)

Screen(s) ==
    [at |-> s, page |-> 0, text |-> <<>>, order |-> <<>>, digits |-> <<>>, pin |-> None,
     gate |-> None, confirmed |-> <<>>, error |-> FALSE]

Page(s, n) == [Screen(s) EXCEPT !.page = n]
RestoreWallet(ws, error) ==
    [Screen("RestoreWallet") EXCEPT !.confirmed = ws, !.error = error]

\* A result: the next screen, and the words that are stored from then on.
To(s) == [app |-> s, words |-> words]
Storing(s, ws) == [app |-> s, words |-> ws]

\* Results of a tap on one of several buttons: the first that holds the point.
On(area, results) == Button(results, area)
Tap(s, table, p) == LET i == HitAt(table, p) IN IF i = 0 THEN {To(s)} ELSE table[i].label
Go(area, s) == On(area, {To(Screen(s))})

-----------------------------------------------------------------------------
(* The PIN pad *)

\* A fresh pad, in any order a shuffle gives.
FreshPads(s) == {[s EXCEPT !.order = Shuffle(draw), !.digits = <<>>] : draw \in Draws}
SetPin == {To(s) : s \in FreshPads(Screen("SetPin"))}
EnterPin(gate) == {To(s) : s \in FreshPads([Screen("EnterPin") EXCEPT !.gate = gate])}

\* The pad after a tap: what step_set_pin, step_confirm_pin and step_enter_pin share.
PadAfter(s, p) ==
    LET pos == PinKeyAt(p)
    IN  IF pos # None /\ Len(s.digits) < PIN_LEN
        THEN [s EXCEPT !.digits = Append(@, s.order[pos + 1])]
        ELSE IF pos = None /\ InRect(p, PinDel) /\ s.digits # <<>>
        THEN [s EXCEPT !.digits = Front(@)] ELSE s

\* Mutant: the entry is taken for complete one digit too late.
FullTooLate(s) == Len(s.digits) = PIN_LEN + 1
Full(s) == Len(s.digits) = PIN_LEN

StepSetPin(s, p) ==
    LET t == PadAfter(s, p)
    IN  IF Full(t)
        THEN {To(c) : c \in FreshPads([Screen("ConfirmPin") EXCEPT !.pin = t.digits])}
        ELSE {To(t)}

\* step_confirm_pin, then begin_confirm_pin.
StepConfirmPin(s, p) ==
    LET t == PadAfter(s, p)
    IN  {To(IF ~Full(t) THEN t
            ELSE IF t.digits = t.pin THEN Screen("PinConfirming") ELSE Screen("PinMismatch"))}

\* finalize_enter_pin with every verdict, and a counter at any value.
Verdicts(gate, correct) == correct \cup EnterPin(gate) \cup {To(Screen("PinLocked"))}

\* step_enter_pin, then begin_enter_pin: at cold start the verdict is deferred.
StepEnterPin(s, p) ==
    LET t == PadAfter(s, p)
    IN  IF ~Full(t) THEN {To(t)}
        ELSE CASE t.gate = "Unlock" -> {To(Screen("PinVerifying"))}
               [] t.gate = "ShowMnemonic" -> Verdicts(t.gate, {To(Page("ShowMnemonic", 0))})
               [] t.gate = "ChangePin" -> Verdicts(t.gate, SetPin)

-----------------------------------------------------------------------------
(* Setting up: words, restore, passphrase *)

EnterPassphrase == Screen("EnterPassphrase")

StepWelcome(s, p) ==
    Tap(s, <<On(BtnNew, {Storing(Page("NewWallet", 0), GenerateWords(e)) : e \in Entropies}),
             On(BtnRestore, {To(RestoreWallet(<<>>, FALSE))})>>, p)

\* Mutant: a page too few is asked for.
StepNewWalletShort(s, p) ==
    Tap(s, <<On(NavNext, {To(IF s.page + 1 < LAST_PAGE THEN Page("NewWallet", s.page + 1)
                                                       ELSE EnterPassphrase)}),
             On(NavPrev, {To(IF s.page > 0 THEN Page("NewWallet", s.page - 1) ELSE s)})>>, p)
StepNewWallet(s, p) ==
    Tap(s, <<On(NavNext, {To(IF s.page < LAST_PAGE THEN Page("NewWallet", s.page + 1)
                                                   ELSE EnterPassphrase)}),
             On(NavPrev, {To(IF s.page > 0 THEN Page("NewWallet", s.page - 1) ELSE s)})>>, p)

IsChar(key) == key \in Letters \cup {"Space"}

\* Mutant: Confirm is taken whatever was typed.
StepEnterPassphraseEager(s, p) ==
    LET key == PassphraseKeyAt(p)
    IN  IF IsChar(key) /\ Len(s.text) < MAX_PASS THEN {To([s EXCEPT !.text = Append(@, key)])}
        ELSE IF key = "Backspace" /\ s.text # <<>> THEN {To([s EXCEPT !.text = Front(@)])}
        ELSE IF key \in {"Skip", "Confirm"} THEN SetPin
        ELSE {To(s)}
StepEnterPassphrase(s, p) ==
    LET key == PassphraseKeyAt(p)
    IN  IF IsChar(key) /\ Len(s.text) < MAX_PASS THEN {To([s EXCEPT !.text = Append(@, key)])}
        ELSE IF key = "Backspace" /\ s.text # <<>> THEN {To([s EXCEPT !.text = Front(@)])}
        ELSE IF key = "Skip" \/ (key = "Confirm" /\ s.text # <<>>) THEN SetPin
        ELSE {To(s)}

\* tapped_suggestion: the word in the slot that holds the point, or None.
TappedSuggestion(p, matches) ==
    LET slot == SuggestionAt(p)
    IN  IF slot # None /\ slot \in DOMAIN matches THEN matches[slot] ELSE None

\* All words are in: on to the passphrase, or back to the first word.
Completed(ws) ==
    IF IsMnemonic(ws) THEN {Storing(EnterPassphrase, GenerateWords(IndicesToEntropy(ws)))}
                      ELSE {To(RestoreWallet(<<>>, TRUE))}

StepRestoreWallet(s, p) ==
    LET key  == PassphraseKeyAt(p)
        word == TappedSuggestion(p, FindMatches(s.text))
        ws   == Append(s.confirmed, word)
    IN  IF key = "Skip" THEN {To(Screen("Welcome"))}
        ELSE IF word # None
        THEN IF Len(ws) = WORDS THEN Completed(ws) ELSE {To(RestoreWallet(ws, FALSE))}
        ELSE IF key \in Letters /\ Len(s.text) < BUF_LEN
        THEN {To([s EXCEPT !.text = Append(@, key), !.error = FALSE])}
        ELSE IF key = "Backspace" /\ s.text # <<>>
        THEN {To([s EXCEPT !.text = Front(@), !.error = FALSE])}
        ELSE {To(s)}

-----------------------------------------------------------------------------
(* The session *)

StepHome(s, p) ==
    Tap(s, <<Go(HomeArea(0, 0), "Receive"), Go(HomeArea(1, 0), "SignScan"),
             Go(HomeArea(0, 1), "Accounts"), Go(HomeArea(1, 1), "Settings")>>, p)

StepSettings(s, p) ==
    Tap(s, <<On(SettingsArea(0), EnterPin("ShowMnemonic")), On(SettingsArea(1), EnterPin("ChangePin")),
             Go(SettingsArea(2), "Descriptor"), Go(SettingsArea(3), "About"),
             Go(NavPrev, "Home")>>, p)

StepShowMnemonic(s, p) ==
    Tap(s, <<On(NavNext, {To(IF s.page < LAST_PAGE THEN Page("ShowMnemonic", s.page + 1)
                                                   ELSE Screen("Settings"))}),
             On(NavPrev, {To(IF s.page > 0 THEN Page("ShowMnemonic", s.page - 1)
                                           ELSE Screen("Settings"))})>>, p)

\* The screens that only lead back.
StepReceive(s, p) == Tap(s, <<Go(NavPrev, "Home")>>, p)
StepAccounts(s, p) == Tap(s, <<Go(NavPrev, "Home")>>, p)
StepDescriptor(s, p) == Tap(s, <<Go(NavPrev, "Settings")>>, p)
StepAbout(s, p) == Tap(s, <<Go(NavPrev, "Settings")>>, p)
StepSignResult(s, p) == Tap(s, <<Go(NavPrev, "Home")>>, p)

\* The host takes a tap on a row for itself: whatever file is there is read and
\* loaded, or is not, or is refused.
StepSignScan(s, p) ==
    IF SdRowAt(p) # None THEN {To(s), To(Screen("SignReview"))}
    ELSE Tap(s, <<Go(NavPrev, "Home")>>, p)

StepSignReview(s, p) == Tap(s, <<Go(NavNext, "SignResult"), Go(NavPrev, "Home")>>, p)

-----------------------------------------------------------------------------
(* The wallet *)

\* step: the results of a tap, by screen.
Step(s, p) ==
    CASE s.at = "Welcome"         -> StepWelcome(s, p)
      [] s.at = "NewWallet"       -> StepNewWallet(s, p)
      [] s.at = "EnterPassphrase" -> StepEnterPassphrase(s, p)
      [] s.at = "SetPin"          -> StepSetPin(s, p)
      [] s.at = "ConfirmPin"      -> StepConfirmPin(s, p)
      [] s.at = "PinMismatch"     -> SetPin
      [] s.at = "EnterPin"        -> StepEnterPin(s, p)
      [] s.at = "Home"            -> StepHome(s, p)
      [] s.at = "Receive"         -> StepReceive(s, p)
      [] s.at = "Accounts"        -> StepAccounts(s, p)
      [] s.at = "Settings"        -> StepSettings(s, p)
      [] s.at = "Descriptor"      -> StepDescriptor(s, p)
      [] s.at = "ShowMnemonic"    -> StepShowMnemonic(s, p)
      [] s.at = "About"           -> StepAbout(s, p)
      [] s.at = "SignScan"        -> StepSignScan(s, p)
      [] s.at = "SignReview"      -> StepSignReview(s, p)
      [] s.at = "SignResult"      -> StepSignResult(s, p)
      [] s.at = "RestoreWallet"   -> StepRestoreWallet(s, p)
      [] OTHER                    -> {To(s)}

\* process_pending: a right PIN brings the words of the wallet on disk.
Resolved(s) ==
    CASE s.at = "PinVerifying" ->
             Verdicts("Unlock", {Storing(Screen("Home"), GenerateWords(e)) : e \in Entropies})
      [] s.at = "PinConfirming" -> {To(Screen("Home"))}
      [] OTHER -> {To(s)}

\* The words on a page of a mnemonic, with the numbers drawn beside them.
PerPage == WORDS \div (LAST_PAGE + 1)
WordsOn(page, ws) == {<<i, ws[i]>> : i \in page * PerPage + 1..(page + 1) * PerPage}

Become(r) ==
    /\ app' = r.app
    /\ words' = r.words
    /\ shown' = IF r.app.at # "NewWallet" THEN {}
                ELSE shown \cup WordsOn(r.app.page, r.words)

Touched == \E p \in Points : \E r \in Step(app, p) : Become(r)

Pending(s) == s.at \in {"PinVerifying", "PinConfirming"}
ProcessPending == Pending(app) /\ \E r \in Resolved(app) : Become(r)

\* ColdWallet::new and from_disk_image.
Init ==
    /\ app \in {Screen("Welcome"), Screen("PinLocked")}
               \cup FreshPads([Screen("EnterPin") EXCEPT !.gate = "Unlock"])
    /\ words = None
    /\ shown = {}

Next == Touched \/ ProcessPending

Spec == Init /\ [][Next]_vars
=============================================================================
