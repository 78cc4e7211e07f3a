------------------------------- MODULE SimLoop -------------------------------
(***************************************************************************)
(* The event loop of wallet-sim/src/main.rs: it collects the clicks that   *)
(* SDL has queued, hands them to the wallet, reads and writes the SD       *)
(* folder, redraws, and pushes the frame to the window at the next turn.   *)
(* The user clicks at any time, on what the window shows at that time, and *)
(* the hot machine changes the files of the SD folder at any time.         *)
(*                                                                         *)
(* Of the wallet only what the loop can tell apart is here: unlocking and  *)
(* the signing screens.                                                    *)
(* A click is one of a few spots of the layout, chosen so that the PIN     *)
(* pad, the Home grid and the rows of the file list overlap.               *)
(***************************************************************************)
EXTENDS Naturals, Sequences, FiniteSets, SequencesExt

CONSTANTS
    None,
    Names,      \* PSBT files by name, as numbers in the order of the names
    Rows,       \* SD_FILES_MAX
    Psbts,      \* contents that parse
    Signable,   \* those of Psbts that sign_psbt accepts
    Garbage,    \* contents that are read but rejected by the wallet
    Unreadable, \* empty, too large, or not text
    Torn,       \* an output written in part
    PinLen,
    MaxQueue,   \* bound on clicks not handled yet
    MaxEdits,   \* bound on changes by the hot machine
    MaxFails,   \* bound on writes to the SD folder that fail
    MaxRestarts \* bound on restarts

\* A directory has finitely many files, and a file list some number of rows.
ASSUME ListAssumption == IsFiniteSet(Names) /\ Names \subseteq Nat /\ Rows \in Nat

VARIABLES
    pc,                         \* where the loop is
    app, psbt, signed, scanError,                       \* the wallet
    display, window,            \* the frame drawn, the frame on the screen
    queue, batch, swallowed,    \* clicks in SDL, clicks collected
    sdList, loaded, signedWritten, descWritten,         \* the loop's session
    files, outputs, descFile,   \* the SD folder
    origin,                     \* history: the last file read in this SignScan
    edits, failed, restarts     \* what the bounds count

walletVars == <<app, psbt, signed, scanError>>
screenVars == <<display, window>>
inputVars == <<queue, batch, swallowed>>
sessionVars == <<sdList, loaded, signedWritten, descWritten>>
sdVars == <<files, outputs, descFile>>
counts == <<edits, failed, restarts>>
vars == <<pc, walletVars, screenVars, inputVars, sessionVars, sdVars, origin, counts>>

-----------------------------------------------------------------------------
(* The wallet, as the loop sees it *)

At(s) == [at |-> s, typed |-> 0]

\* Points of the 800x480 layout: "key" is a PIN key, Home's Sign button and the
\* second row of the file list; "grid" is that button and the first row; "back"
\* and "next" are the two navigation buttons.
Spots == {"key", "grid", "back", "next"}
Row(spot) == CASE spot = "grid" -> 1 [] spot = "key" -> 2 [] OTHER -> 0

Taps ==
    {<<"Home", "key", "SignScan">>, <<"Home", "grid", "SignScan">>,
     <<"SignReview", "next", "SignResult">>}
    \cup ({"SignScan", "SignReview", "SignResult"} \X {"back"} \X {"Home"})

\* Of AppState, what a touch makes of it.
Step(a, spot) ==
    IF a.at = "EnterPin"
    THEN IF spot # "key" THEN a
         ELSE IF a.typed + 1 < PinLen THEN [a EXCEPT !.typed = @ + 1]
         ELSE At("PinVerifying")
    ELSE LET targets == {to \in {"Home", "SignScan", "SignResult"} : <<a.at, spot, to>> \in Taps}
         IN IF targets = {} THEN a ELSE At(CHOOSE to \in targets : TRUE)

\* handle_event on a touch: the step, the signature, what reaching Home clears.
Touch(spot) ==
    /\ app' = Step(app, spot)
    /\ psbt' = IF app'.at = "Home" THEN None ELSE psbt
    /\ scanError' = (scanError /\ app'.at # "Home")
    /\ signed' = CASE app'.at = "Home" -> None
                   [] app.at = "SignReview" /\ app'.at = "SignResult" /\ psbt \in Signable -> psbt
                   [] OTHER -> signed

\* handle_event on a PsbtScanned.
Scan(contents) ==
    IF contents \in Psbts
    THEN psbt' = contents /\ app' = At("SignReview") /\ scanError' = FALSE /\ UNCHANGED signed
    ELSE scanError' = TRUE /\ UNCHANGED <<app, psbt, signed>>

-----------------------------------------------------------------------------
(* Frames, the file list, the SD folder *)

Blank == [at |-> "Blank", typed |-> 0, rows |-> <<>>, tx |-> None, hint |-> FALSE]

\* What draw_ui draws.
Frame(a, list, p, s, err) ==
    [at |-> a.at, typed |-> a.typed,
     rows |-> IF a.at = "SignScan" THEN list ELSE <<>>,
     tx |-> CASE a.at = "SignReview" -> p [] a.at = "SignResult" -> s [] OTHER -> None,
     hint |-> a.at = "SignScan" /\ err]

\* list_psbt_files: the names in order, as many as there are rows.
ListPsbtFiles ==
    LET there == {n \in Names : files[n] # None}
        names == CHOOSE s \in [1..Cardinality(there) -> there] :
                     \A i, j \in DOMAIN s : i < j => s[i] < s[j]
    IN  [row \in 1..(IF Cardinality(there) < Rows THEN Cardinality(there) ELSE Rows) |-> names[row]]

\* fs::write creates or truncates the file first: a failure may leave a part.
WriteFile(old, new) == {[done |-> TRUE, contents |-> new]} \cup
    (IF failed < MaxFails THEN {[done |-> FALSE, contents |-> c] : c \in {old, Torn}} ELSE {})
-----------------------------------------------------------------------------

Init ==
    /\ pc = "update" /\ app = At("EnterPin")
    /\ psbt = None /\ signed = None /\ scanError = FALSE
    /\ display = Frame(app, <<>>, None, None, FALSE) /\ window = Blank
    /\ queue = <<>> /\ batch = <<>> /\ swallowed = FALSE
    /\ sdList = <<>> /\ loaded = None /\ signedWritten = FALSE /\ descWritten = FALSE
    /\ files \in [Names -> Psbts \cup {Garbage, Unreadable, None}]
    /\ outputs = [n \in Names |-> None] /\ descFile = None
    /\ origin = None /\ edits = 0 /\ failed = 0 /\ restarts = 0

\* window.update at the top of the loop.
Update ==
    /\ pc = "update" /\ pc' = "collect"
    /\ window' = display
    /\ UNCHANGED <<walletVars, display, inputVars, sessionVars, sdVars, origin, counts>>

Collect ==
    /\ pc = "collect" /\ pc' = "handle"
    /\ batch' = queue /\ queue' = <<>> /\ swallowed' = FALSE
    /\ UNCHANGED <<walletVars, screenVars, sessionVars, sdVars, origin, counts>>

\* Mutants: the name is taken from a fresh listing; the first name stays.
RowOfFreshList(row) == IF row \in DOMAIN ListPsbtFiles THEN ListPsbtFiles[row] ELSE None
KeepFirstName(name) == loaded' = (IF loaded = None THEN name ELSE loaded)
\* sd_list.get(row): the list as it was drawn.
NameAt(row) == IF row \in DOMAIN sdList THEN sdList[row] ELSE None
SetLoaded(name) == loaded' = name

\* A tap on a row of the file list: read the file and give it to the wallet.
\* A row without a file, and a file that cannot be read, change nothing.
TapRow(row) ==
    LET name == NameAt(row) IN
    IF name # None /\ files[name] \notin {Unreadable, None}
    THEN /\ SetLoaded(name)
         /\ origin' = [name |-> name, contents |-> files[name]]
         /\ Scan(files[name])
         /\ signedWritten' = FALSE
    ELSE UNCHANGED <<walletVars, loaded, origin, signedWritten>>

\* Entering SignScan: the listing is refreshed, nothing is loaded.
EnterSignScan ==
    /\ sdList' = ListPsbtFiles
    /\ loaded' = None /\ origin' = None /\ signedWritten' = FALSE

\* The descriptor goes to the SD folder, once per session.
ExportDescriptor ==
    \E w \in WriteFile(descFile, "descriptor") :
        /\ descFile' = w.contents /\ descWritten' = w.done
        /\ failed' = IF w.done THEN failed ELSE failed + 1

SignatureIsReady ==
    app'.at = "SignResult" /\ ~signedWritten /\ loaded # None /\ signed' # None

\* Mutant: a write that failed is not tried again.
WriteSignedOnce ==
    \E w \in WriteFile(outputs[loaded], signed') :
        /\ outputs' = [outputs EXCEPT ![loaded] = w.contents]
        /\ signedWritten' = TRUE
        /\ failed' = IF w.done THEN failed ELSE failed + 1
WriteSigned ==
    \E w \in WriteFile(outputs[loaded], signed') :
        /\ outputs' = [outputs EXCEPT ![loaded] = w.contents]
        /\ signedWritten' = w.done
        /\ failed' = IF w.done THEN failed ELSE failed + 1

\* What the loop does once the wallet has handled a touch, by where it leads.
SideEffects ==
    \/ /\ app'.at = "SignScan" /\ app.at # "SignScan"
       /\ EnterSignScan
       /\ UNCHANGED <<descWritten, outputs, descFile, failed>>
    \/ /\ app'.at = "Home" /\ ~descWritten
       /\ ExportDescriptor
       /\ UNCHANGED <<sdList, loaded, signedWritten, outputs, origin>>
    \/ /\ SignatureIsReady
       /\ WriteSigned
       /\ UNCHANGED <<sdList, loaded, descWritten, descFile, origin>>
    \/ /\ ~(app'.at = "SignScan" /\ app.at # "SignScan")
       /\ ~(app'.at = "Home" /\ ~descWritten) /\ ~SignatureIsReady
       /\ UNCHANGED <<sessionVars, outputs, descFile, origin, failed>>

-----------------------------------------------------------------------------
(* One turn of the loop *)

\* Mutant: only the rest of the batch goes.
KeepTheQueue == swallowed' = TRUE /\ UNCHANGED queue
\* The screen has changed: the clicks that were aimed at the old one go.
Drain == queue' = <<>> /\ swallowed' = TRUE

\* Mutants: drawn before the list is refreshed; the deferred work is never begun.
FrameOfOldList == Frame(app', sdList, psbt', signed', scanError')
NothingPending == FALSE
NewFrame == Frame(app', sdList', psbt', signed', scanError')
HasPendingWork == app'.at = "PinVerifying"

\* After a click: redraw if the AppState changed; push the spinner and go on to
\* the deferred work if the wallet is parked, drop the other clicks if not.
Redraw ==
    /\ display' = IF app' = app THEN display ELSE NewFrame
    /\ IF HasPendingWork
       THEN /\ pc' = "pending" /\ window' = display'
            /\ UNCHANGED <<queue, swallowed>>
       ELSE /\ UNCHANGED <<pc, window>>
            /\ IF app' = app THEN UNCHANGED <<queue, swallowed>> ELSE Drain

\* The click at the head of the batch is taken, and the loop acts on it.
clicked == Head(batch)
NextClick ==
    /\ pc = "handle" /\ batch # <<>> /\ ~swallowed
    /\ batch' = Tail(batch)
OnARow == app.at = "SignScan" /\ Row(clicked.spot) # 0

HandleRow ==
    /\ NextClick /\ OnARow
    /\ TapRow(Row(clicked.spot))
    /\ Redraw
    /\ UNCHANGED <<sdList, descWritten, sdVars, counts>>

HandleTouch ==
    /\ NextClick /\ ~OnARow
    /\ Touch(clicked.spot)
    /\ SideEffects
    /\ Redraw
    /\ UNCHANGED <<files, edits, restarts>>

Handle == HandleRow \/ HandleTouch

\* process_pending, the redraw and the drain.
Resolve ==
    /\ pc = "pending" /\ pc' = "handle"
    /\ app' \in {At("Home"), At("EnterPin"), At("PinLocked")}
    /\ display' = Frame(app', sdList, psbt, signed, scanError)
    /\ Drain
    /\ UNCHANGED <<psbt, signed, scanError, window, batch, sessionVars, sdVars, origin, counts>>

\* The batch is done, or what is left of it is swallowed; sleep, and turn.
Turn ==
    /\ pc = "handle" /\ (batch = <<>> \/ swallowed)
    /\ pc' = "update" /\ batch' = <<>> /\ swallowed' = FALSE
    /\ UNCHANGED <<walletVars, screenVars, queue, sessionVars, sdVars, origin, counts>>

-----------------------------------------------------------------------------
(* The user, the hot machine, the power *)

\* `stale`: the next frame is drawn already but not on the screen yet.  There is
\* no window to click on before the first window.update.
Click(spot) ==
    /\ window # Blank
    /\ Len(queue) + Len(batch) < MaxQueue
    /\ queue' = Append(queue, [spot |-> spot, aim |-> window, stale |-> window # display])
    /\ UNCHANGED <<pc, walletVars, screenVars, batch, swallowed, sessionVars, sdVars, origin,
                   counts>>

EditFile(name, contents) ==
    /\ edits < MaxEdits /\ edits' = edits + 1
    /\ files' = [files EXCEPT ![name] = contents]
    /\ UNCHANGED <<pc, walletVars, screenVars, inputVars, sessionVars, outputs, descFile,
                   origin, failed, restarts>>

\* Quit, or a crash: the next session starts locked, with the SD folder as it is.
Restart ==
    /\ restarts < MaxRestarts /\ restarts' = restarts + 1
    /\ pc' = "update" /\ app' = At("EnterPin")
    /\ psbt' = None /\ signed' = None /\ scanError' = FALSE
    /\ display' = Frame(app', <<>>, None, None, FALSE) /\ window' = Blank
    /\ queue' = <<>> /\ batch' = <<>> /\ swallowed' = FALSE
    /\ sdList' = <<>> /\ loaded' = None /\ signedWritten' = FALSE /\ descWritten' = FALSE
    /\ origin' = None
    /\ UNCHANGED <<sdVars, edits, failed>>

Loop ==
    Update \/ Collect \/ Handle \/ Resolve \/ Turn

Next ==
    \/ Update \/ Collect \/ HandleRow \/ HandleTouch \/ Resolve \/ Turn
    \/ \E spot \in Spots : Click(spot)
    \/ \E n \in Names, c \in Psbts \cup {Garbage, Unreadable, None} : EditFile(n, c)
    \/ Restart

Spec == Init /\ [][Next]_vars

\* The loop goes round for ever; nobody has to click.
FairSpec == Spec /\ WF_vars(Loop)

-----------------------------------------------------------------------------
(* Properties *)

\* Apart from the hint of a rejected scan, what is on the screen while the loop
\* waits is what the state of the wallet and the listing say.
Legible(frame) == [frame EXCEPT !.hint = FALSE]
ScreenIsCurrent ==
    pc = "collect" =>
        Legible(window) = Legible(Frame(app, sdList, psbt, signed, scanError))

\* A click acts on the screen it was aimed at, down to the file named on the
\* row, unless the screen changed between the click and its arrival: a click of
\* the pause between drawing a frame and showing it.  Above all, no click made
\* while the PIN is verified acts on the screen that follows.  (main.rs, the drain)
ClickMeansWhatWasSeen ==
    [][Handle => clicked.stale \/ Legible(clicked.aim)
                    = Legible(Frame(app, sdList, psbt, signed, scanError))]_vars

\* A tap on a row of the file list loads the file whose name was on that row of
\* the frame, and on that row of the window the tap was aimed at (unless that
\* window was about to be replaced), however the SD folder has changed since; a
\* tap below the last row loads nothing.  (sd_list.get(row), main.rs)
RowLoadsItsFile ==
    [][HandleRow /\ <<app, loaded, origin>>' # <<app, loaded, origin>> =>
          LET row == Row(clicked.spot) IN
          /\ row \in DOMAIN display.rows
          /\ loaded' = display.rows[row] /\ origin'.name = loaded'
          /\ clicked.stale \/ /\ row \in DOMAIN clicked.aim.rows
                              /\ clicked.aim.rows[row] = loaded']_vars

\* A signed file carries the signature of the contents that were read from the
\* file it is named after, and that the user has seen in the review; a part of
\* it if the write failed.
SignedFileIsReviewed ==
    [][\A n \in Names : outputs'[n] # outputs[n] =>
          outputs'[n] = Torn \/ origin = [name |-> n, contents |-> outputs'[n]]]_vars

\* A touch that leads to the result, or finds it on the screen, leaves the signed
\* file whole, unless its own attempt to write it failed: a failed write is tried
\* again by the next touch, and what was written stays.  (main.rs, SignResult)
ResultIsSaved ==
    [][HandleTouch /\ app'.at = "SignResult" /\ signed' # None =>
          loaded' # None /\ (outputs'[loaded'] = signed' \/ failed' # failed)]_vars

\* Whoever has typed a PIN gets to see the verdict.
VerdictIsSeen == app.at = "PinVerifying" ~> window.at \in {"Home", "EnterPin", "PinLocked"}

-----------------------------------------------------------------------------
(* What the documents say and the code does not keep: each is refuted by a run *)

\* The descriptor has been exported once Home is reached.  ("Reaching Home:
\* export the descriptor once per session", main.rs; the code only looks at the
\* state before the deferred work, through which Home is first reached)
DescriptorAtHome == pc = "collect" /\ app.at = "Home" /\ failed = 0 => descFile = "descriptor"

\* A rejected scan shows its hint.  ("so the draw layer can show a hint",
\* wallet.rs; the loop only redraws when the AppState changes)
HintIsShown == pc = "collect" /\ scanError => window.hint
==============================================================================
