----------------------------- MODULE ColdWallet -----------------------------
(***************************************************************************)
(* The wallet core (wallet-core/src/state.rs and state/): one ColdWallet   *)
(* value in RAM, the image of it that survives on disk, the touches and    *)
(* scans that drive it, the deferred PIN work, and power-offs between any  *)
(* two writes.                                                             *)
(*                                                                         *)
(* handle_event and process_pending are split where they call `persist`:   *)
(* `io` names the write in progress, and a power-off may fall before or    *)
(* after it.  Everything between two writes is one action, since nothing   *)
(* outside RAM can tell its steps apart.                                   *)
(*                                                                         *)
(* Abstracted data: the PIN pad is the digit it returns (the order of the  *)
(* keys is a permutation, see state/machine.rs `shuffle`); BIP39, BIP32,   *)
(* PBKDF2 and the AEAD are injective constructors; PSBTs are opaque; the   *)
(* typing of the 24 words is reduced to which word is confirmed.           *)
(***************************************************************************)
EXTENDS Naturals, Sequences

CONSTANTS
    None,               \* Rust's None, and an absent wallet.bin
    Foreign,            \* a wallet.bin of unknown size or version
    Digits, PinLen,     \* PIN digits; 6 of them in the code
    PIN_MAX_ATTEMPTS,   \* 3 in the code
    MaxU8,              \* where `failures` saturates: 255 in the code
    LastPage,           \* last page of the mnemonic: 3 in the code
    WordCount,          \* words of a mnemonic: 24 in the code
    Chars, MaxPass,     \* passphrase characters; 32 of them in the code
    Entropies,          \* what the entropy source or a restore can yield
    Salts,
    Psbts,              \* scans that parse
    Signable,           \* pairs <<psbt, seed>> that sign_psbt accepts
    MaxLost,            \* bound on writes that persist_blob loses silently
    MaxUnread           \* bound on boots that cannot read an existing file

ASSUME LimitsAssumption ==
    /\ PinLen \in Nat \ {0}
    /\ PIN_MAX_ATTEMPTS \in Nat \ {0}
    /\ MaxU8 \in Nat /\ PIN_MAX_ATTEMPTS <= MaxU8
    /\ LastPage \in Nat /\ WordCount \in Nat \ {0}
    /\ MaxPass \in Nat /\ MaxLost \in Nat /\ MaxUnread \in Nat

VARIABLES
    app,                            \* AppState, with the payload of its variant
    pin, salt, encKey, failures, locked, image,     \* at-rest state in RAM
    words, entropy, seed, derived,                  \* the secrets in RAM
    psbt, signed, scanError,                        \* the transaction in hand
    io,                             \* the write in progress, or "idle"
    disk,                           \* what a boot would read from wallet.bin
    misses,                         \* history: wrong PINs shown as wrong since
                                    \* the last right one
    lost,                           \* history: writes lost so far
    unread                          \* history: boots that could not read the file

atRest == <<pin, salt, encKey, failures, locked, image>>
secretVars == <<words, entropy, seed, derived>>
txVars == <<psbt, signed, scanError>>
diskVars == <<disk, lost, unread>>
vars == <<app, atRest, secretVars, txVars, io, diskVars, misses>>

-----------------------------------------------------------------------------
(* Data *)

Gates == {"Unlock", "ShowMnemonic", "ChangePin"}
Pins == [1..PinLen -> Digits]
Passphrases == UNION {[1..n -> Chars] : n \in 0..MaxPass}
Seeds == [entropy : Entropies, passphrase : Passphrases]
Secrets == [entropy : Entropies, seed : Seeds]
Keys == [pin : Pins, salt : Salts]

\* storage.rs: format v3, and the plaintext format v1 that is migrated at boot.
Image == [version : {3}, failures : 0..MaxU8, locked : BOOLEAN, salt : Salts,
          key : Keys, aad : Salts, secrets : Secrets]
LegacyImage == [version : {1}, pin : Pins, secrets : Secrets]
IsImage(d) == d \notin {None, Foreign} /\ d.version = 3
IsLegacy(d) == d \notin {None, Foreign} /\ d.version = 1

ToSeed(e, passphrase) == [entropy |-> e, passphrase |-> passphrase]
DeriveKey(p, s) == [pin |-> p, salt |-> s]

EncryptIntoBlob(secrets, s, key) ==
    [version |-> 3, failures |-> 0, locked |-> FALSE, salt |-> s,
     key |-> key, aad |-> s, secrets |-> secrets]

\* try_decrypt succeeds: the tag verifies under this key and the header's salt.
Decrypts(img, key) == img.key = key /\ img.aad = img.salt

UpdateLockout(img, f, l) == [img EXCEPT !.failures = f, !.locked = l]

\* Mutant: the header keeps the old counter.
WithoutCounter(f, l) == IF image = None THEN None ELSE UpdateLockout(image, image.failures, l)
\* The `if let Some(img) = disk_image { update_lockout(..); persist(..) }` blocks.
WithLockout(f, l) == IF image = None THEN None ELSE UpdateLockout(image, f, l)

\* None and Foreign stand for no value of the types they are put beside.
ASSUME NoneAssumption ==
    /\ None \notin Pins /\ None \notin Salts /\ None \notin Keys
    /\ None \notin Entropies /\ None \notin Seeds /\ None \notin Psbts
    /\ None \notin Gates
    /\ None \notin Image /\ None \notin LegacyImage
    /\ Foreign \notin Image /\ Foreign \notin LegacyImage

-----------------------------------------------------------------------------
(* AppState: the variant is `at`; payload fields it lacks keep their default *)

Screens == {"Off", "Welcome", "NewWallet", "RestoreWallet", "EnterPassphrase",
            "SetPin", "ConfirmPin", "PinMismatch", "EnterPin", "PinVerifying",
            "PinConfirming", "PinLocked", "Home", "Receive", "SignScan",
            "SignReview", "SignResult", "Accounts", "Settings", "Descriptor",
            "ShowMnemonic", "About"}
Writes == {"idle", "migrate", "ahead", "reset", "lock", "save"}

AppStates == [at : Screens, page : Nat, text : Seq(Chars), digits : Seq(Digits),
              pin : Pins \cup {None}, gate : Gates \cup {None}]
Screen(s) == [at |-> s, page |-> 0, text |-> <<>>, digits |-> <<>>,
              pin |-> None, gate |-> None]
EnterPin(gate) == [Screen("EnterPin") EXCEPT !.gate = gate]

GateTarget(gate) ==
    CASE gate = "Unlock"       -> Screen("Home")
      [] gate = "ShowMnemonic" -> Screen("ShowMnemonic")
      [] gate = "ChangePin"    -> Screen("SetPin")

\* A touch or scan can be handled: no handler is in the middle of a write.
Showing(s) == app.at = s /\ io = "idle"

-----------------------------------------------------------------------------
(* Power-on, power-off and the disk *)

\* ColdWallet::new()
NewWallet ==
    /\ pin = None /\ salt = None /\ encKey = None
    /\ failures = 0 /\ locked = FALSE /\ image = None
    /\ words = None /\ entropy = None /\ seed = None /\ derived = None
    /\ psbt = None /\ signed = None /\ scanError = FALSE

Init ==
    /\ app = Screen("Off") /\ io = "idle"
    /\ NewWallet
    /\ \/ disk \in {None, Foreign}
       \/ \E p \in Pins, e \in Entropies, s \in Passphrases :
             disk = [version |-> 1, pin |-> p,
                     secrets |-> [entropy |-> e, seed |-> ToSeed(e, s)]]
    /\ misses = 0 /\ lost = 0 /\ unread = 0

\* Mutant: a file that is there is left alone.
PersistOnce(img) ==
    disk' = (IF IsImage(disk) THEN disk ELSE img) /\ UNCHANGED <<lost, unread>>
\* persist_blob returns: the image is on stable storage, or an I/O error was
\* swallowed and the old file is what a boot will find.
PersistBlob(img) ==
    /\ \/ disk' = (IF img = None THEN disk ELSE img) /\ UNCHANGED lost
       \/ lost < MaxLost /\ lost' = lost + 1 /\ UNCHANGED disk
    /\ UNCHANGED unread

\* Mutants: the counter in the header is not read; the lock is read but not obeyed.
FromDiskImageForgets(img) ==
    /\ salt' = img.salt /\ failures' = 0 /\ locked' = img.locked
    /\ image' = img
    /\ app' = IF img.locked THEN Screen("PinLocked") ELSE EnterPin("Unlock")
FromDiskImageUnlocked(img) ==
    /\ salt' = img.salt /\ failures' = img.failures /\ locked' = img.locked
    /\ image' = img /\ app' = EnterPin("Unlock")
FromDiskImage(img) ==
    /\ salt' = img.salt
    /\ failures' = img.failures
    /\ locked' = img.locked
    /\ image' = img
    /\ app' = IF img.locked THEN Screen("PinLocked") ELSE EnterPin("Unlock")

\* Mutant: a v1 file is not recognised.
BootFreshOverLegacy ==
    /\ Showing("Off") /\ ~IsImage(disk)
    /\ app' = Screen("Welcome")
    /\ UNCHANGED <<atRest, secretVars, txVars, io, diskVars, misses>>
BootFresh ==
    /\ Showing("Off") /\ ~IsImage(disk) /\ ~IsLegacy(disk)
    /\ app' = Screen("Welcome")
    /\ UNCHANGED <<atRest, secretVars, txVars, io, diskVars, misses>>

\* fs::read fails on a file that is there: `.ok()?` takes it for no wallet.
BootUnread ==
    /\ Showing("Off") /\ (IsImage(disk) \/ IsLegacy(disk))
    /\ unread < MaxUnread /\ unread' = unread + 1
    /\ app' = Screen("Welcome")
    /\ UNCHANGED <<atRest, secretVars, txVars, io, disk, lost, misses>>

BootSealed ==
    /\ Showing("Off") /\ IsImage(disk)
    /\ FromDiskImage(disk)
    /\ UNCHANGED <<pin, encKey, secretVars, txVars, io, diskVars, misses>>

\* migrate_v1_to_v3, up to its persist_blob call.
BootLegacy(s) ==
    /\ Showing("Off") /\ IsLegacy(disk)
    /\ image' = EncryptIntoBlob(disk.secrets, s, DeriveKey(disk.pin, s))
    /\ io' = "migrate"
    /\ UNCHANGED <<app, pin, salt, encKey, failures, locked, secretVars, txVars,
                   diskVars, misses>>

MigrateWritten ==
    /\ io = "migrate" /\ io' = "idle"
    /\ PersistBlob(image)
    /\ FromDiskImage(image)
    /\ UNCHANGED <<pin, encKey, secretVars, txVars, misses>>

\* Quit, crash or power cut: RAM is gone, also in the middle of a write.
PowerOff ==
    /\ ~Showing("Off")
    /\ app' = Screen("Off") /\ io' = "idle"
    /\ pin' = None /\ salt' = None /\ encKey' = None
    /\ failures' = 0 /\ locked' = FALSE /\ image' = None
    /\ words' = None /\ entropy' = None /\ seed' = None /\ derived' = None
    /\ psbt' = None /\ signed' = None /\ scanError' = FALSE
    /\ UNCHANGED <<diskVars, misses>>

-----------------------------------------------------------------------------
(* Setup: a new or restored mnemonic, the passphrase *)

CreateWallet(e) ==
    /\ Showing("Welcome")
    /\ app' = Screen("NewWallet")
    /\ words' = e /\ entropy' = e
    /\ UNCHANGED <<atRest, seed, derived, txVars, io, diskVars, misses>>

RestoreWallet ==
    /\ Showing("Welcome")
    /\ app' = Screen("RestoreWallet")
    /\ UNCHANGED <<atRest, secretVars, txVars, io, diskVars, misses>>

CancelRestore ==
    /\ Showing("RestoreWallet")
    /\ app' = Screen("Welcome")
    /\ UNCHANGED <<atRest, secretVars, txVars, io, diskVars, misses>>

\* A suggestion is tapped before the last word (`page` is word_idx), or the
\* last word is in and the checksum is wrong: back to word 0.
ConfirmWord ==
    /\ Showing("RestoreWallet")
    /\ app' = [app EXCEPT !.page = (@ + 1) % WordCount]
    /\ UNCHANGED <<atRest, secretVars, txVars, io, diskVars, misses>>

\* The last word is in and the checksum holds for entropy e.
ConfirmLastWord(e) ==
    /\ Showing("RestoreWallet") /\ app.page + 1 = WordCount
    /\ app' = Screen("EnterPassphrase")
    /\ words' = e /\ entropy' = e
    /\ UNCHANGED <<atRest, seed, derived, txVars, io, diskVars, misses>>

TypePassphrase(c) ==
    /\ Showing("EnterPassphrase") /\ Len(app.text) < MaxPass
    /\ app' = [app EXCEPT !.text = Append(@, c)]
    /\ UNCHANGED <<atRest, secretVars, txVars, io, diskVars, misses>>

DeletePassphrase ==
    /\ Showing("EnterPassphrase") /\ Len(app.text) > 0
    /\ app' = [app EXCEPT !.text = SubSeq(@, 1, Len(@) - 1)]
    /\ UNCHANGED <<atRest, secretVars, txVars, io, diskVars, misses>>

\* Mutant: what depends on the seed is not rebuilt.
DeriveSeedOnly(passphrase) == seed' = ToSeed(entropy, passphrase) /\ UNCHANGED derived
\* derive_address: the seed, and all that is rebuilt from it.
DeriveAddress(passphrase) ==
    /\ seed' = ToSeed(entropy, passphrase)
    /\ derived' = seed'

ConfirmPassphrase ==
    /\ Showing("EnterPassphrase") /\ Len(app.text) > 0
    /\ app' = Screen("SetPin")
    /\ DeriveAddress(app.text)
    /\ UNCHANGED <<atRest, words, entropy, txVars, io, diskVars, misses>>

SkipPassphrase ==
    /\ Showing("EnterPassphrase")
    /\ app' = Screen("SetPin")
    /\ DeriveAddress(app.text)
    /\ UNCHANGED <<atRest, words, entropy, txVars, io, diskVars, misses>>

-----------------------------------------------------------------------------
(* The PIN pad *)

DeleteDigit ==
    /\ io = "idle" /\ app.at \in {"SetPin", "ConfirmPin", "EnterPin"}
    /\ Len(app.digits) > 0
    /\ app' = [app EXCEPT !.digits = SubSeq(@, 1, Len(@) - 1)]
    /\ UNCHANGED <<atRest, secretVars, txVars, io, diskVars, misses>>

SetPinDigit(d) ==
    /\ Showing("SetPin")
    /\ LET typed == Append(app.digits, d) IN
       app' = IF Len(typed) < PinLen
              THEN [app EXCEPT !.digits = typed]
              ELSE [Screen("ConfirmPin") EXCEPT !.pin = typed]
    /\ UNCHANGED <<atRest, secretVars, txVars, io, diskVars, misses>>

\* step_confirm_pin, then begin_confirm_pin on the last digit.
ConfirmPinDigit(d) ==
    /\ Showing("ConfirmPin")
    /\ LET typed == Append(app.digits, d) IN
       app' = CASE Len(typed) < PinLen -> [app EXCEPT !.digits = typed]
                [] Len(typed) = PinLen /\ typed = app.pin ->
                       [Screen("PinConfirming") EXCEPT !.pin = typed]
                [] OTHER -> Screen("PinMismatch")
    /\ UNCHANGED <<atRest, secretVars, txVars, io, diskVars, misses>>

DismissMismatch ==
    /\ Showing("PinMismatch")
    /\ app' = Screen("SetPin")
    /\ UNCHANGED <<atRest, secretVars, txVars, io, diskVars, misses>>

EnterPinDigit(d) ==
    /\ Showing("EnterPin") /\ Len(app.digits) + 1 < PinLen
    /\ app' = [app EXCEPT !.digits = Append(@, d)]
    /\ UNCHANGED <<atRest, secretVars, txVars, io, diskVars, misses>>

\* Mutants: the counter wraps past its type; the attempt is not counted.
PlainIncrement(f) == f + 1
NoIncrement(f) == f
SaturatingIncrement(f) == IF f < MaxU8 THEN f + 1 ELSE f

\* The last digit: begin_enter_pin up to its write-ahead persist.
BeginEnterPin(d) ==
    /\ Showing("EnterPin") /\ Len(app.digits) + 1 = PinLen
    /\ app' = [app EXCEPT !.digits = Append(@, d)]
    /\ failures' = SaturatingIncrement(failures)
    /\ image' = WithLockout(failures', FALSE)
    /\ io' = "ahead"
    /\ UNCHANGED <<pin, salt, encKey, locked, secretVars, txVars, diskVars, misses>>

\* Mutant: one attempt too many.
AttemptsOverrun == failures > PIN_MAX_ATTEMPTS
AttemptsExhausted == failures >= PIN_MAX_ATTEMPTS

\* finalize_enter_pin up to its persist call, if it makes one.
FinalizeEnterPin(correct) ==
    \/ /\ correct
       /\ failures' = 0
       /\ image' = WithLockout(0, FALSE)
       /\ io' = "reset"
       /\ UNCHANGED <<app, locked, misses>>
    \/ /\ ~correct /\ AttemptsExhausted
       /\ locked' = TRUE
       /\ image' = WithLockout(failures, TRUE)
       /\ io' = "lock"
       /\ UNCHANGED <<app, failures, misses>>
    \/ /\ ~correct /\ ~AttemptsExhausted
       /\ app' = EnterPin(app.gate)
       /\ io' = "idle"
       /\ misses' = misses + 1
       /\ UNCHANGED <<failures, locked, image>>

\* Mutant: the comparison stops after the first digit.
CheckFirstDigit ==
    /\ io = "ahead" /\ pin # None
    /\ PersistBlob(image)
    /\ FinalizeEnterPin(app.digits[1] = pin[1])
    /\ UNCHANGED <<pin, salt, encKey, secretVars, txVars>>
\* The write-ahead returned, and the PIN is known in this session.
CheckSessionPin ==
    /\ io = "ahead" /\ pin # None
    /\ PersistBlob(image)
    /\ FinalizeEnterPin(app.digits = pin)
    /\ UNCHANGED <<pin, salt, encKey, secretVars, txVars>>

\* The write-ahead returned at cold start: park for process_pending.
ParkVerifying ==
    /\ io = "ahead" /\ pin = None
    /\ PersistBlob(image)
    /\ app' = [app EXCEPT !.at = "PinVerifying"]
    /\ io' = "idle"
    /\ UNCHANGED <<atRest, secretVars, txVars, misses>>

\* Mutant: the counter is consulted before the PIN.
VerifyIfAttemptsLeft ==
    LET key == DeriveKey(app.digits, salt) IN
    /\ Showing("PinVerifying") /\ image # None /\ Decrypts(image, key)
    /\ failures < PIN_MAX_ATTEMPTS
    /\ entropy' = image.secrets.entropy
    /\ seed' = image.secrets.seed /\ derived' = seed' /\ words' = entropy'
    /\ pin' = app.digits /\ encKey' = key
    /\ FinalizeEnterPin(TRUE)
    /\ UNCHANGED <<salt, txVars, diskVars>>
\* process_pin_verifying with a key that opens the image.
VerifyRightPin ==
    LET key == DeriveKey(app.digits, salt) IN
    /\ Showing("PinVerifying") /\ image # None /\ Decrypts(image, key)
    /\ entropy' = image.secrets.entropy
    /\ seed' = image.secrets.seed
    /\ derived' = seed'
    /\ words' = entropy'
    /\ pin' = app.digits /\ encKey' = key
    /\ FinalizeEnterPin(TRUE)
    /\ UNCHANGED <<salt, txVars, diskVars>>

VerifyWrongPin ==
    /\ Showing("PinVerifying")
    /\ image # None => ~Decrypts(image, DeriveKey(app.digits, salt))
    /\ FinalizeEnterPin(FALSE)
    /\ UNCHANGED <<pin, salt, encKey, secretVars, txVars, diskVars>>

\* The counter reset returned; the gate opens.
OpenGate ==
    /\ io = "reset" /\ io' = "idle"
    /\ PersistBlob(image)
    /\ app' = GateTarget(app.gate)
    /\ misses' = 0
    /\ UNCHANGED <<atRest, secretVars, txVars>>

LockOut ==
    /\ io = "lock" /\ io' = "idle"
    /\ PersistBlob(image)
    /\ app' = Screen("PinLocked")
    /\ misses' = misses + 1
    /\ UNCHANGED <<atRest, secretVars, txVars>>

\* process_pin_confirming up to its persist call.  (Encryption of a buffer of
\* constant length does not fail, so its Err branch is not modelled.)
SealWallet(s) ==
    LET key == DeriveKey(app.pin, s) IN
    /\ Showing("PinConfirming")
    /\ salt' = s /\ encKey' = key /\ pin' = app.pin
    /\ failures' = 0 /\ locked' = FALSE
    /\ image' = EncryptIntoBlob([entropy |-> entropy, seed |-> seed], s, key)
    /\ io' = "save"
    /\ UNCHANGED <<app, secretVars, txVars, diskVars, misses>>

SaveWritten ==
    /\ io = "save" /\ io' = "idle"
    /\ PersistBlob(image)
    /\ app' = Screen("Home")
    /\ misses' = 0
    /\ UNCHANGED <<atRest, secretVars, txVars>>

-----------------------------------------------------------------------------
(* The unlocked wallet: navigation, review and signature of a PSBT *)

\* What Touch does between screens without a payload.
NavEdges ==
    ({"Home"} \X {"Receive", "SignScan", "Accounts", "Settings"})
    \cup ({"Receive", "Accounts", "Settings", "SignScan", "SignReview", "SignResult"}
             \X {"Home"})
    \cup ({"Settings"} \X {"Descriptor", "About"})
    \cup ({"Descriptor", "About"} \X {"Settings"})

\* Mutant: the PSBT outlives its review.
ClearResultOnly == UNCHANGED psbt /\ signed' = None /\ scanError' = FALSE
\* The tail of handle_event: reaching Home drops the transaction in hand.
ClearTx == psbt' = None /\ signed' = None /\ scanError' = FALSE

Navigate(from, to) ==
    /\ Showing(from) /\ <<from, to>> \in NavEdges
    /\ app' = Screen(to)
    /\ IF to = "Home" THEN ClearTx ELSE UNCHANGED txVars
    /\ UNCHANGED <<atRest, secretVars, io, diskVars, misses>>

AskPin(gate) ==
    /\ Showing("Settings") /\ gate \in {"ShowMnemonic", "ChangePin"}
    /\ app' = EnterPin(gate)
    /\ UNCHANGED <<atRest, secretVars, txVars, io, diskVars, misses>>

NextPage ==
    /\ io = "idle" /\ app.at \in {"NewWallet", "ShowMnemonic"}
    /\ app' = CASE app.page < LastPage         -> [app EXCEPT !.page = @ + 1]
                [] app.page >= LastPage /\ app.at = "NewWallet" ->
                       Screen("EnterPassphrase")
                [] OTHER                       -> Screen("Settings")
    /\ UNCHANGED <<atRest, secretVars, txVars, io, diskVars, misses>>

PrevPage ==
    /\ io = "idle"
    /\ \/ app.at \in {"NewWallet", "ShowMnemonic"} /\ app.page > 0
          /\ app' = [app EXCEPT !.page = @ - 1]
       \/ app.at = "ShowMnemonic" /\ app.page = 0
          /\ app' = Screen("Settings")
    /\ UNCHANGED <<atRest, secretVars, txVars, io, diskVars, misses>>

ScanPsbt(p) ==
    /\ Showing("SignScan")
    /\ psbt' = p /\ scanError' = FALSE
    /\ app' = Screen("SignReview")
    /\ UNCHANGED <<atRest, secretVars, signed, io, diskVars, misses>>

ScanGarbage ==
    /\ Showing("SignScan")
    /\ scanError' = TRUE
    /\ UNCHANGED <<app, atRest, secretVars, psbt, signed, io, diskVars, misses>>

\* Confirming the review runs do_sign; a failure leaves `signed` empty.
ConfirmReview ==
    /\ Showing("SignReview")
    /\ app' = Screen("SignResult")
    /\ signed' = IF psbt # None /\ <<psbt, seed>> \in Signable
                 THEN [psbt |-> psbt, seed |-> seed] ELSE signed
    /\ UNCHANGED <<atRest, secretVars, psbt, scanError, io, diskVars, misses>>

-----------------------------------------------------------------------------
\* Mutant: only PinVerifying counts as pending work.
ProcessVerifying == VerifyRightPin \/ VerifyWrongPin
ProcessPending ==
    VerifyRightPin \/ VerifyWrongPin \/ \E s \in Salts : SealWallet(s)

WriteReturns ==
    MigrateWritten \/ CheckSessionPin \/ ParkVerifying \/ OpenGate \/ LockOut
        \/ SaveWritten

Power == BootFresh \/ BootUnread \/ BootSealed \/ (\E s \in Salts : BootLegacy(s)) \/ PowerOff

Setup ==
    \/ RestoreWallet \/ CancelRestore \/ ConfirmWord
    \/ (\E e \in Entropies : CreateWallet(e) \/ ConfirmLastWord(e))
    \/ (\E c \in Chars : TypePassphrase(c))
    \/ DeletePassphrase \/ ConfirmPassphrase \/ SkipPassphrase

PinPad ==
    \/ DeleteDigit \/ DismissMismatch
    \/ \E d \in Digits : SetPinDigit(d) \/ ConfirmPinDigit(d) \/ EnterPinDigit(d)

Browse ==
    \/ \E from, to \in Screens : Navigate(from, to)
    \/ \E gate \in Gates : AskPin(gate)
    \/ NextPage \/ PrevPage
    \/ \E p \in Psbts : ScanPsbt(p)
    \/ ScanGarbage \/ ConfirmReview

Attempt == \E d \in Digits : BeginEnterPin(d)

Next == Power \/ Setup \/ PinPad \/ Attempt \/ Browse \/ ProcessPending \/ WriteReturns

Spec == Init /\ [][Next]_vars

\* The host always returns from a write and calls process_pending after the
\* redraw of a parked screen; nobody has to touch the screen or cut the power.
FairSpec == Spec /\ WF_vars(ProcessPending) /\ WF_vars(WriteReturns)
=============================================================================
