--------------------------- MODULE ColdWalletSteps ---------------------------
(***************************************************************************)
(* Every step of ColdWallet keeps three parts of the inductive invariant:  *)
(* the types and what a write in progress is about; and then the secrets,  *)
(* that is what each screen has in hand, what is sealed in the images and  *)
(* which wallet is on disk.                                                *)
(***************************************************************************)
EXTENDS ColdWalletInvariant, SequenceTheorems, TLAPS

-----------------------------------------------------------------------------
(* Buffers and screens *)

\* One digit or character more.
LEMMA Appended ==
    ASSUME NEW S, NEW s \in Seq(S), NEW e \in S
    PROVE  Append(s, e) \in Seq(S) /\ Len(Append(s, e)) = Len(s) + 1
  OBVIOUS

\* One digit or character less: Backspace and Delete.
LEMMA Shortened ==
    ASSUME NEW S, NEW s \in Seq(S), Len(s) > 0
    PROVE  /\ SubSeq(s, 1, Len(s) - 1) \in Seq(S)
           /\ Len(SubSeq(s, 1, Len(s) - 1)) = Len(s) - 1
<1> DEFINE n == Len(s) - 1
<1>1. n \in Nat /\ \A i \in 1 .. n : s[i] \in S
  OBVIOUS
<1> HIDE DEF n
<1>2. /\ SubSeq(s, 1, n) \in Seq(S)
      /\ Len(SubSeq(s, 1, n)) = IF 1 <= n THEN n - 1 + 1 ELSE 0
  BY <1>1, SubSeqProperties
<1>3. (IF 1 <= n THEN n - 1 + 1 ELSE 0) = n
  BY <1>1
<1>. QED BY <1>2, <1>3 DEF n

\* A full buffer of digits is a PIN.
LEMMA FullBuffer ==
    ASSUME NEW s \in Seq(Digits), Len(s) = PinLen
    PROVE  s \in Pins
  BY DEF Pins

\* A buffer within its array is a passphrase.
LEMMA PassphraseBuffer ==
    ASSUME NEW s \in Seq(Chars), Len(s) <= MaxPass
    PROVE  s \in Passphrases
  BY LimitsAssumption DEF Passphrases

\* After the last word the index is 0 again: it never passes the array of words.
LEMMA WordIndex ==
    ASSUME NEW n \in Nat
    PROVE  (n + 1) % WordCount \in Nat /\ (n + 1) % WordCount < WordCount
  BY LimitsAssumption

\* Screens without a payload.
LEMMA PlainFits == ASSUME NEW s \in Screens PROVE Fits(Screen(s))
<1>1. /\ Screen(s) \in AppStates
      /\ Len(Screen(s).text) = 0 /\ Len(Screen(s).digits) = 0 /\ Screen(s).page = 0
  BY DEF Screen, AppStates
<1>. QED BY <1>1, LimitsAssumption DEF Fits

\* Each payload field, set to a value of its type, fits.
LEMMA PinFits ==
    ASSUME NEW a, Fits(a), NEW p \in Pins
    PROVE  Fits([a EXCEPT !.pin = p])
  BY DEF Fits, AppStates

\* The gate of a PIN prompt.
LEMMA GateFits ==
    ASSUME NEW a, Fits(a), NEW gate \in Gates
    PROVE  Fits([a EXCEPT !.gate = gate])
  BY DEF Fits, AppStates

\* The passphrase buffer.
LEMMA TextFits ==
    ASSUME NEW a, Fits(a), NEW t \in Seq(Chars), Len(t) <= MaxPass
    PROVE  Fits([a EXCEPT !.text = t])
  BY DEF Fits, AppStates

\* The digits typed so far.
LEMMA DigitsFit ==
    ASSUME NEW a, Fits(a), NEW d \in Seq(Digits), Len(d) <= PinLen
    PROVE  Fits([a EXCEPT !.digits = d])
  BY DEF Fits, AppStates

\* The page or word index; only RestoreWallet may pass the last page.
LEMMA PageFits ==
    ASSUME NEW a, Fits(a), NEW n \in Nat,
           n <= LastPage \/ (a.at = "RestoreWallet" /\ n < WordCount)
    PROVE  Fits([a EXCEPT !.page = n])
  BY DEF Fits, AppStates

\* Another screen with the same payload: parking for the deferred work.
LEMMA ScreenFits ==
    ASSUME NEW a, Fits(a), a.at # "RestoreWallet", NEW s \in Screens
    PROVE  Fits([a EXCEPT !.at = s])
  BY DEF Fits, AppStates

\* A PIN prompt just opened.
LEMMA EnterPinFits == ASSUME NEW gate \in Gates PROVE Fits(EnterPin(gate))
  BY PlainFits, GateFits DEF EnterPin, Screens

-----------------------------------------------------------------------------
(* Types *)

\* The types hold at power-on.
LEMMA InitType == Init => TypeOK
<1> SUFFICES ASSUME Init PROVE TypeOK
  OBVIOUS
<1> USE DEF Init, NewWallet
<1>1. Fits(app)
  BY PlainFits DEF Screens
<1>2. failures \in 0..MaxU8
  BY LimitsAssumption
<1>3. SecretsOK /\ TxOK
  BY DEF SecretsOK, TxOK
<1>4. disk \in LegacyImage \cup {None, Foreign}
  BY DEF LegacyImage, Secrets, Seeds, ToSeed
<1>5. DiskOK
  BY <1>4, LimitsAssumption DEF DiskOK, Writes
<1>6. AtRestOK
  BY <1>2 DEF AtRestOK
<1>. QED BY <1>1, <1>3, <1>5, <1>6 DEF TypeOK

\* The setup keeps its buffers within their arrays.
LEMMA SetupFits == ASSUME Fits(app), Setup PROVE Fits(app')
<1> USE DEF Screens
<1>1. CASE RestoreWallet \/ CancelRestore
  BY <1>1, PlainFits DEF RestoreWallet, CancelRestore
<1>2. CASE ConfirmWord
  BY <1>2, WordIndex, PageFits DEF ConfirmWord, Showing, Fits, AppStates
<1>3. ASSUME NEW e \in Entropies, CreateWallet(e) \/ ConfirmLastWord(e) PROVE Fits(app')
  BY <1>3, PlainFits DEF CreateWallet, ConfirmLastWord
<1>4. ASSUME NEW c \in Chars, TypePassphrase(c) PROVE Fits(app')
  <2>1. app.text \in Seq(Chars) /\ Len(app.text) + 1 <= MaxPass
    BY <1>4, LimitsAssumption DEF TypePassphrase, Fits, AppStates
  <2>. QED BY <1>4, <2>1, Appended, TextFits DEF TypePassphrase
<1>5. CASE DeletePassphrase
  <2>1. app.text \in Seq(Chars) /\ Len(app.text) - 1 <= MaxPass /\ Len(app.text) > 0
    BY <1>5, LimitsAssumption DEF DeletePassphrase, Fits, AppStates
  <2>. QED BY <1>5, <2>1, Shortened, TextFits DEF DeletePassphrase
<1>6. CASE ConfirmPassphrase \/ SkipPassphrase
  BY <1>6, PlainFits DEF ConfirmPassphrase, SkipPassphrase
<1>. QED BY <1>1, <1>2, <1>3, <1>4, <1>5, <1>6 DEF Setup

\* The PIN pad keeps at most PinLen digits: Staged says it is not full before a digit is added.
LEMMA PinPadFits == ASSUME Fits(app), Staged, PinPad \/ Attempt PROVE Fits(app')
<1> USE DEF Screens
<1>1. app.digits \in Seq(Digits) /\ Len(app.digits) <= PinLen /\ PinLen \in Nat
  BY LimitsAssumption DEF Fits, AppStates
<1>2. CASE DeleteDigit
  <2> DEFINE t == SubSeq(app.digits, 1, Len(app.digits) - 1)
  <2>1. app' = [app EXCEPT !.digits = t] /\ Len(app.digits) > 0
    BY <1>2 DEF DeleteDigit
  <2>2. t \in Seq(Digits) /\ Len(t) <= PinLen
    BY <1>1, <2>1, Shortened
  <2> HIDE DEF t
  <2>. QED BY <2>1, <2>2, DigitsFit
<1>3. CASE DismissMismatch
  BY <1>3, PlainFits DEF DismissMismatch
<1>4. ASSUME NEW d \in Digits, SetPinDigit(d), Len(app.digits) < PinLen PROVE Fits(app')
  <2> DEFINE typed == Append(app.digits, d)
  <2>1. typed \in Seq(Digits) /\ Len(typed) <= PinLen
    BY <1>1, <1>4, Appended
  <2>2. Len(typed) < PinLen \/ Len(typed) = PinLen
    BY <1>1, <1>4, Appended
  <2>3. app' = IF Len(typed) < PinLen THEN [app EXCEPT !.digits = typed]
               ELSE [Screen("ConfirmPin") EXCEPT !.pin = typed]
    BY <1>4 DEF SetPinDigit
  <2> HIDE DEF typed
  <2>4. Len(typed) < PinLen \/ typed \in Pins
    BY <2>1, <2>2, FullBuffer
  <2>. QED BY <2>1, <2>3, <2>4, PlainFits, PinFits, DigitsFit
<1>5. ASSUME NEW d \in Digits, ConfirmPinDigit(d), app.pin \in Pins PROVE Fits(app')
  <2> DEFINE typed == Append(app.digits, d)
  <2>1. typed \in Seq(Digits)
    BY <1>1, Appended
  <2>2. \/ Len(typed) < PinLen /\ app' = [app EXCEPT !.digits = typed]
        \/ typed = app.pin /\ app' = [Screen("PinConfirming") EXCEPT !.pin = typed]
        \/ app' = Screen("PinMismatch")
    BY <1>5 DEF ConfirmPinDigit
  <2> HIDE DEF typed
  <2>. QED BY <1>1, <1>5, <2>1, <2>2, PlainFits, PinFits, DigitsFit
<1>6. ASSUME NEW d \in Digits, EnterPinDigit(d) \/ BeginEnterPin(d) PROVE Fits(app')
  <2> DEFINE typed == Append(app.digits, d)
  <2>1. app' = [app EXCEPT !.digits = typed]
    BY <1>6 DEF EnterPinDigit, BeginEnterPin
  <2>2. Len(app.digits) + 1 < PinLen \/ Len(app.digits) + 1 = PinLen
    BY <1>6 DEF EnterPinDigit, BeginEnterPin
  <2>3. typed \in Seq(Digits) /\ Len(typed) <= PinLen
    BY <1>1, <2>2, Appended
  <2> HIDE DEF typed
  <2>. QED BY <2>1, <2>3, DigitsFit
<1>. QED BY <1>2, <1>3, <1>4, <1>5, <1>6 DEF PinPad, Attempt, Staged, SetPinDigit, ConfirmPinDigit, Showing

\* Navigation keeps the pages within the mnemonic.
LEMMA BrowseFits == ASSUME Fits(app), Browse PROVE Fits(app')
<1> USE DEF Screens
<1>1. app.page \in Nat /\ LastPage \in Nat
  BY LimitsAssumption DEF Fits, AppStates
<1>2. ASSUME NEW from \in Screens, NEW to \in Screens, Navigate(from, to) PROVE Fits(app')
  BY <1>2, PlainFits DEF Navigate
<1>3. ASSUME NEW gate \in Gates, AskPin(gate) PROVE Fits(app')
  BY <1>3, EnterPinFits DEF AskPin
<1>4. CASE NextPage
  <2>1. CASE app.page < LastPage
    <3>1. app.page + 1 \in Nat /\ app.page + 1 <= LastPage
      BY <1>1, <2>1
    <3>2. app' = [app EXCEPT !.page = app.page + 1]
      BY <1>1, <1>4, <2>1 DEF NextPage
    <3>. QED BY <3>1, <3>2, PageFits
  <2>2. CASE ~(app.page < LastPage)
    <3>1. app' \in {Screen("EnterPassphrase"), Screen("Settings")}
      BY <1>1, <1>4, <2>2 DEF NextPage
    <3>. QED BY <3>1, PlainFits
  <2>. QED BY <2>1, <2>2
<1>5. CASE PrevPage
  <2>1. \/ app' = Screen("Settings")
        \/ app' = [app EXCEPT !.page = app.page - 1] /\ app.page > 0
           /\ app.at \in {"NewWallet", "ShowMnemonic"}
    BY <1>5 DEF PrevPage
  <2>2. app.page > 0 /\ app.at \in {"NewWallet", "ShowMnemonic"}
           => app.page - 1 \in Nat /\ app.page - 1 <= LastPage
    BY <1>1 DEF Fits
  <2>. QED BY <2>1, <2>2, PlainFits, PageFits
<1>6. ASSUME NEW p \in Psbts, ScanPsbt(p) PROVE Fits(app')
  BY <1>6, PlainFits DEF ScanPsbt
<1>7. CASE ScanGarbage \/ ConfirmReview
  BY <1>7, PlainFits DEF ScanGarbage, ConfirmReview
<1>. QED BY <1>2, <1>3, <1>4, <1>5, <1>6, <1>7 DEF Browse

\* Power, deferred work and writes keep the payload or start a new screen.
LEMMA OthersFit ==
    ASSUME Fits(app), Staged, Power \/ ProcessPending \/ WriteReturns
    PROVE  Fits(app')
<1> USE DEF Screens
<1>1. CASE Power
  BY <1>1, PlainFits, EnterPinFits
     DEF Power, BootFresh, BootUnread, BootSealed, FromDiskImage, BootLegacy, PowerOff, Gates
<1>2. ASSUME NEW correct, FinalizeEnterPin(correct), app.gate \in Gates PROVE Fits(app')
  BY <1>2, EnterPinFits DEF FinalizeEnterPin
<1>3. CASE VerifyRightPin \/ VerifyWrongPin \/ CheckSessionPin
  <2>1. app.gate \in Gates
    BY <1>3 DEF VerifyRightPin, VerifyWrongPin, CheckSessionPin, Staged, Showing, Gates
  <2>. QED BY <1>2, <1>3, <2>1 DEF VerifyRightPin, VerifyWrongPin, CheckSessionPin
<1>4. CASE \E s \in Salts : SealWallet(s)
  BY <1>4 DEF SealWallet
<1>5. CASE MigrateWritten \/ LockOut \/ SaveWritten
  BY <1>5, PlainFits, EnterPinFits DEF MigrateWritten, FromDiskImage, LockOut, SaveWritten, Gates
<1>6. CASE ParkVerifying
  BY <1>6, ScreenFits DEF ParkVerifying, Staged
<1>7. CASE OpenGate
  <2>1. app.gate \in Gates
    BY <1>7 DEF OpenGate, Staged, Gates
  <2>. QED BY <1>7, <2>1, PlainFits DEF OpenGate, GateTarget, Gates
<1>. QED BY <1>1, <1>3, <1>4, <1>5, <1>6, <1>7 DEF ProcessPending, WriteReturns

\* Handlers that neither count an attempt nor write leave these alone.
LEMMA Quiet ==
    ASSUME Setup \/ PinPad \/ Browse
    PROVE  io = "idle" /\ UNCHANGED <<atRest, io, diskVars, misses>>
<1> USE DEF Showing
<1>1. CASE Setup
  BY <1>1 DEF Setup, RestoreWallet, CancelRestore, ConfirmWord, CreateWallet,
     ConfirmLastWord, TypePassphrase, DeletePassphrase, ConfirmPassphrase, SkipPassphrase
<1>2. CASE PinPad
  BY <1>2 DEF PinPad, DeleteDigit, DismissMismatch, SetPinDigit, ConfirmPinDigit, EnterPinDigit
<1>3. CASE Browse
  BY <1>3 DEF Browse, Navigate, AskPin, NextPage, PrevPage, ScanPsbt, ScanGarbage, ConfirmReview
<1>. QED BY <1>1, <1>2, <1>3

\* update_lockout changes two header fields of an image and nothing else.
LEMMA LockoutType ==
    ASSUME NEW img \in Image, NEW f \in 0..MaxU8, NEW l \in BOOLEAN
    PROVE  /\ UpdateLockout(img, f, l) \in Image
           /\ UpdateLockout(img, f, l).failures = f /\ UpdateLockout(img, f, l).locked = l
           /\ UpdateLockout(img, f, l).salt = img.salt /\ UpdateLockout(img, f, l).key = img.key
           /\ UpdateLockout(img, f, l).aad = img.aad
           /\ UpdateLockout(img, f, l).secrets = img.secrets
  BY DEF UpdateLockout, Image

\* encrypt_into_blob yields an unlocked image with no failures.
LEMMA BlobType ==
    ASSUME NEW x \in Secrets, NEW s \in Salts, NEW key \in Keys
    PROVE  /\ EncryptIntoBlob(x, s, key) \in Image
           /\ EncryptIntoBlob(x, s, key).failures = 0
           /\ EncryptIntoBlob(x, s, key).locked = FALSE
           /\ EncryptIntoBlob(x, s, key).salt = s /\ EncryptIntoBlob(x, s, key).aad = s
           /\ EncryptIntoBlob(x, s, key).key = key
           /\ EncryptIntoBlob(x, s, key).secrets = x
<1>1. 0 \in 0..MaxU8
  BY LimitsAssumption
<1>. QED BY <1>1 DEF EncryptIntoBlob, Image

\* A derived key is a key.
LEMMA KeyType ==
    ASSUME NEW p \in Pins, NEW s \in Salts
    PROVE  DeriveKey(p, s) \in Keys
  BY DEF DeriveKey, Keys

\* An image and a legacy image are told apart by their version.
LEMMA DiskKinds ==
    ASSUME disk \in Image \cup LegacyImage \cup {None, Foreign}
    PROVE  /\ IsImage(disk) <=> disk \in Image
           /\ IsLegacy(disk) <=> disk \in LegacyImage
  BY NoneAssumption DEF IsImage, IsLegacy, Image, LegacyImage

\* saturating_add: one more, or the same at the maximum.
LEMMA Increment ==
    ASSUME NEW f \in 0..MaxU8
    PROVE  /\ SaturatingIncrement(f) \in 0..MaxU8
           /\ SaturatingIncrement(f) = f + 1 \/ (SaturatingIncrement(f) = f /\ f = MaxU8)
  BY LimitsAssumption DEF SaturatingIncrement

\* FinalizeEnterPin keeps the types of what it assigns.
LEMMA FinalizeType ==
    ASSUME NEW correct, FinalizeEnterPin(correct), AtRestOK, image # None
    PROVE  failures' \in 0..MaxU8 /\ locked' \in BOOLEAN /\ image' \in Image
<1>1. failures \in 0..MaxU8 /\ locked \in BOOLEAN /\ image \in Image /\ 0 \in 0..MaxU8
  BY LimitsAssumption DEF AtRestOK
<1>2. ASSUME NEW f \in 0..MaxU8, NEW l \in BOOLEAN, image' = WithLockout(f, l)
      PROVE  image' \in Image
  BY <1>1, <1>2, LockoutType DEF WithLockout
<1>3. FALSE \in BOOLEAN /\ TRUE \in BOOLEAN
  OBVIOUS
<1>4. \/ failures' = 0 /\ image' = WithLockout(0, FALSE) /\ locked' = locked
      \/ locked' = TRUE /\ image' = WithLockout(failures, TRUE) /\ failures' = failures
      \/ UNCHANGED <<failures, locked, image>>
  BY DEF FinalizeEnterPin
<1>. QED BY <1>1, <1>2, <1>3, <1>4

\* The at-rest fields in RAM keep their types.
LEMMA AtRestStep ==
    ASSUME TypeOK, Staged, Held, Next
    PROVE  AtRestOK'
<1> USE DEF TypeOK
<1>1. CASE Setup \/ PinPad \/ Browse
  BY <1>1, Quiet DEF AtRestOK, atRest
<1>2. CASE BootFresh \/ BootUnread
  BY <1>2 DEF BootFresh, BootUnread, AtRestOK, atRest
<1>3. CASE BootSealed
  <2>1. disk \in Image
    BY <1>3, DiskKinds DEF BootSealed, DiskOK
  <2>2. salt' = disk.salt /\ failures' = disk.failures /\ locked' = disk.locked
        /\ image' = disk /\ UNCHANGED <<pin, encKey>>
    BY <1>3 DEF BootSealed, FromDiskImage
  <2>3. disk.salt \in Salts /\ disk.failures \in 0..MaxU8 /\ disk.locked \in BOOLEAN
    BY <2>1 DEF Image
  <2>. QED BY <2>1, <2>2, <2>3 DEF AtRestOK
<1>4. ASSUME NEW s \in Salts, BootLegacy(s) PROVE AtRestOK'
  <2>1. disk.pin \in Pins /\ disk.secrets \in Secrets
    BY <1>4, DiskKinds DEF BootLegacy, DiskOK, LegacyImage
  <2>2. image' \in Image
    BY <1>4, <2>1, KeyType, BlobType DEF BootLegacy
  <2>. QED BY <1>4, <2>2 DEF BootLegacy, AtRestOK
<1>5. CASE PowerOff
  <2>1. failures' \in 0..MaxU8
    BY <1>5, LimitsAssumption DEF PowerOff
  <2>. QED BY <1>5, <2>1 DEF PowerOff, AtRestOK
<1>6. CASE Attempt
  <2>1. image \in Image
    BY <1>6, NoneAssumption DEF Attempt, BeginEnterPin, Held, ImageInHand, AtRestOK, Showing
  <2>2. failures' \in 0..MaxU8 /\ image' = WithLockout(failures', FALSE)
        /\ UNCHANGED <<pin, salt, encKey, locked>>
    BY <1>6, Increment DEF Attempt, BeginEnterPin, AtRestOK
  <2>3. image' \in Image
    BY <2>1, <2>2, LockoutType DEF WithLockout
  <2>. QED BY <2>2, <2>3 DEF AtRestOK
<1>7. CASE VerifyRightPin
  <2>1. app.digits \in Pins /\ salt \in Salts /\ image # None
    BY <1>7, FullBuffer, NoneAssumption
       DEF VerifyRightPin, Showing, Staged, Held, ImageInHand, Fits, AppStates, AtRestOK, Image
  <2>2. failures' \in 0..MaxU8 /\ locked' \in BOOLEAN /\ image' \in Image
    BY <1>7, <2>1, FinalizeType DEF VerifyRightPin
  <2>3. pin' \in Pins /\ encKey' \in Keys /\ salt' = salt
    BY <1>7, <2>1, KeyType DEF VerifyRightPin
  <2>. QED BY <2>2, <2>3 DEF AtRestOK
<1>8. CASE VerifyWrongPin \/ CheckSessionPin
  <2>1. image # None
    BY <1>8 DEF VerifyWrongPin, CheckSessionPin, Showing, Staged, Held, ImageInHand
  <2>2. failures' \in 0..MaxU8 /\ locked' \in BOOLEAN /\ image' \in Image
    BY <1>8, <2>1, FinalizeType DEF VerifyWrongPin, CheckSessionPin
  <2>. QED BY <1>8, <2>2 DEF VerifyWrongPin, CheckSessionPin, AtRestOK
<1>9. ASSUME NEW s \in Salts, SealWallet(s) PROVE AtRestOK'
  <2>1. app.pin \in Pins /\ [entropy |-> entropy, seed |-> seed] \in Secrets
    BY <1>9 DEF SealWallet, Showing, Staged, Held, SecretsInHand, ChoosingPin, SecretsOK, Secrets
  <2>2. DeriveKey(app.pin, s) \in Keys
    BY <2>1, KeyType
  <2>3. image' \in Image
    BY <1>9, <2>1, <2>2, BlobType DEF SealWallet
  <2>4. 0 \in 0..MaxU8
    BY LimitsAssumption
  <2>. QED BY <1>9, <2>1, <2>2, <2>3, <2>4 DEF SealWallet, AtRestOK
<1>10. CASE MigrateWritten
  <2>1. image \in Image
    BY <1>10, NoneAssumption DEF MigrateWritten, Staged, AtRestOK
  <2>2. image.salt \in Salts /\ image.failures \in 0..MaxU8 /\ image.locked \in BOOLEAN
    BY <2>1 DEF Image
  <2>. QED BY <1>10, <2>1, <2>2 DEF MigrateWritten, FromDiskImage, AtRestOK
<1>11. CASE ParkVerifying \/ OpenGate \/ LockOut \/ SaveWritten
  BY <1>11 DEF ParkVerifying, OpenGate, LockOut, SaveWritten, AtRestOK, atRest
<1>. QED
  BY <1>1, <1>2, <1>3, <1>4, <1>5, <1>6, <1>7, <1>8, <1>9, <1>10, <1>11
     DEF Next, Power, ProcessPending, WriteReturns

\* The secrets in RAM keep their types.
LEMMA SecretsStep ==
    ASSUME TypeOK, Staged, Held, Next
    PROVE  SecretsOK'
<1> USE DEF TypeOK, SecretsOK, secretVars
<1>1. CASE PinPad \/ Browse
  BY <1>1 DEF PinPad, DeleteDigit, DismissMismatch, SetPinDigit, ConfirmPinDigit, EnterPinDigit,
     Browse, Navigate, AskPin, NextPage, PrevPage, ScanPsbt, ScanGarbage, ConfirmReview
<1>2. CASE Setup
  <2>1. CASE ConfirmPassphrase \/ SkipPassphrase
    <3>1. app.text \in Passphrases /\ entropy \in Entropies
      BY <2>1, PassphraseBuffer
         DEF ConfirmPassphrase, SkipPassphrase, Showing, Held, SecretsInHand, Fits, AppStates
    <3>2. ToSeed(entropy, app.text) \in Seeds
      BY <3>1 DEF ToSeed, Seeds
    <3>. QED BY <2>1, <3>2 DEF ConfirmPassphrase, SkipPassphrase, DeriveAddress
  <2>2. CASE ~(ConfirmPassphrase \/ SkipPassphrase)
    BY <1>2, <2>2 DEF Setup, RestoreWallet, CancelRestore, ConfirmWord, CreateWallet,
       ConfirmLastWord, TypePassphrase, DeletePassphrase
  <2>. QED BY <2>1, <2>2
<1>3. CASE Power \/ Attempt
  BY <1>3 DEF Power, BootFresh, BootUnread, BootSealed, BootLegacy, PowerOff, Attempt, BeginEnterPin
<1>4. CASE VerifyRightPin
  <2>1. image.secrets \in Secrets
    BY <1>4 DEF VerifyRightPin, AtRestOK, Image
  <2>. QED BY <1>4, <2>1 DEF VerifyRightPin, Secrets
<1>5. CASE VerifyWrongPin \/ WriteReturns \/ \E s \in Salts : SealWallet(s)
  BY <1>5 DEF VerifyWrongPin, SealWallet, WriteReturns, MigrateWritten, CheckSessionPin,
     ParkVerifying, OpenGate, LockOut, SaveWritten
<1>. QED BY <1>1, <1>2, <1>3, <1>4, <1>5 DEF Next, ProcessPending

\* The transaction in hand keeps its type.
LEMMA TxStep ==
    ASSUME TypeOK, Held, Next
    PROVE  TxOK'
<1> USE DEF TypeOK, TxOK, txVars
<1>1. CASE Setup
  BY <1>1 DEF Setup, RestoreWallet, CancelRestore, ConfirmWord, CreateWallet,
     ConfirmLastWord, TypePassphrase, DeletePassphrase, ConfirmPassphrase, SkipPassphrase
<1>2. CASE PinPad \/ Attempt
  BY <1>2 DEF PinPad, DeleteDigit, DismissMismatch, SetPinDigit, ConfirmPinDigit, EnterPinDigit,
     Attempt, BeginEnterPin
<1>3. CASE Browse
  <2>1. CASE ConfirmReview
    <3>1. seed \in Seeds
      BY <2>1 DEF ConfirmReview, Showing, SessionScreens, Held, SecretsInHand, PinInHand, SecretsOK
    <3>. QED BY <2>1, <3>1 DEF ConfirmReview
  <2>2. CASE ~ConfirmReview
    BY <1>3, <2>2 DEF Browse, Navigate, ClearTx, AskPin, NextPage, PrevPage, ScanPsbt, ScanGarbage
  <2>. QED BY <2>1, <2>2
<1>4. CASE Power
  BY <1>4 DEF Power, BootFresh, BootUnread, BootSealed, BootLegacy, PowerOff
<1>5. CASE ProcessPending \/ WriteReturns
  BY <1>5 DEF ProcessPending, VerifyRightPin, VerifyWrongPin, SealWallet, WriteReturns,
     MigrateWritten, CheckSessionPin, ParkVerifying, OpenGate, LockOut, SaveWritten
<1>. QED BY <1>1, <1>2, <1>3, <1>4, <1>5 DEF Next

\* A write either lands or is lost.
LEMMA PersistOutcome ==
    ASSUME DiskOK, image \in Image, PersistBlob(image)
    PROVE  /\ unread' = unread
           /\ \/ disk' = image /\ lost' = lost
              \/ disk' = disk /\ lost' = lost + 1 /\ lost + 1 \in 0..MaxLost
<1>1. image # None
  BY NoneAssumption
<1>. QED BY <1>1, LimitsAssumption DEF PersistBlob, DiskOK

\* Every write is of an image.
LEMMA WritesImage ==
    ASSUME TypeOK, Staged, Held, WriteReturns
    PROVE  image \in Image /\ PersistBlob(image)
<1>1. PersistBlob(image) /\ io # "idle"
  BY DEF WriteReturns, MigrateWritten, CheckSessionPin, ParkVerifying, OpenGate, LockOut, SaveWritten
<1>2. image # None
  BY <1>1 DEF TypeOK, DiskOK, Writes, Staged, Held, ImageInHand
<1>. QED BY <1>1, <1>2 DEF TypeOK, AtRestOK

\* The disk keeps its type, and so do the counters of what happened to it.
LEMMA DiskStep ==
    ASSUME TypeOK, Staged, Held, Next
    PROVE  DiskOK'
<1> USE DEF TypeOK, diskVars, Writes
<1>1. CASE Setup \/ PinPad \/ Browse
  BY <1>1, Quiet DEF DiskOK
<1>2. CASE Power \/ Attempt
  <2>1. unread' = unread \/ (unread < MaxUnread /\ unread' = unread + 1)
    BY <1>2 DEF Power, BootFresh, BootUnread, BootSealed, BootLegacy, PowerOff, Attempt, BeginEnterPin
  <2>2. unread' \in 0..MaxUnread
    BY <2>1, LimitsAssumption DEF DiskOK
  <2>3. UNCHANGED <<disk, lost, misses>> /\ io' \in {io, "idle", "migrate", "ahead"}
    BY <1>2 DEF Power, BootFresh, BootUnread, BootSealed, BootLegacy, PowerOff, Attempt, BeginEnterPin
  <2>. QED BY <2>2, <2>3 DEF DiskOK
<1>3. CASE ProcessPending
  <2>1. UNCHANGED <<disk, lost, unread>> /\ io' \in {"idle", "reset", "lock", "save"}
        /\ misses' \in {misses, misses + 1}
    BY <1>3 DEF ProcessPending, VerifyRightPin, VerifyWrongPin, FinalizeEnterPin, SealWallet
  <2>. QED BY <2>1 DEF DiskOK
<1>4. CASE WriteReturns
  <2>1. disk' \in {disk, image} /\ image \in Image /\ lost' \in 0..MaxLost /\ unread' = unread
    BY <1>4, WritesImage, PersistOutcome DEF DiskOK
  <2>2. io' \in {"idle", "reset", "lock"} /\ misses' \in {0, misses, misses + 1}
    BY <1>4 DEF WriteReturns, MigrateWritten, CheckSessionPin, FinalizeEnterPin, ParkVerifying,
       OpenGate, LockOut, SaveWritten
  <2>. QED BY <2>1, <2>2 DEF DiskOK
<1>. QED BY <1>1, <1>2, <1>3, <1>4 DEF Next

\* TypeOK is kept by every step; Staged and Held give what the payloads carry.
LEMMA TypeStep ==
    ASSUME TypeOK, Staged, Held, [Next]_vars
    PROVE  TypeOK'
<1>1. CASE Next
  <2>1. Fits(app')
    BY <1>1, SetupFits, PinPadFits, BrowseFits, OthersFit DEF TypeOK, Next
  <2>. QED BY <1>1, <2>1, AtRestStep, SecretsStep, TxStep, DiskStep DEF TypeOK
<1>2. CASE UNCHANGED vars
  BY <1>2 DEF vars, atRest, secretVars, txVars, diskVars,
     TypeOK, Fits, AtRestOK, SecretsOK, TxOK, DiskOK
<1>. QED BY <1>1, <1>2

-----------------------------------------------------------------------------
(* Staged *)

\* A screen just opened has no digits.
LEMMA PlainPayload ==
    ASSUME NEW s \in Screens
    PROVE  Screen(s).at = s /\ Len(Screen(s).digits) < PinLen
  BY LimitsAssumption DEF Screen

\* ConfirmPin and PinConfirming carry a PIN.
LEMMA PinPayload ==
    ASSUME NEW s \in Screens, NEW p \in Pins
    PROVE  /\ [Screen(s) EXCEPT !.pin = p].at = s /\ [Screen(s) EXCEPT !.pin = p].pin = p
           /\ Len([Screen(s) EXCEPT !.pin = p].digits) < PinLen
  BY LimitsAssumption DEF Screen

\* A PIN prompt carries its gate.
LEMMA GatePayload ==
    ASSUME NEW gate
    PROVE  /\ EnterPin(gate).at = "EnterPin" /\ EnterPin(gate).gate = gate
           /\ Len(EnterPin(gate).digits) < PinLen
  BY LimitsAssumption DEF EnterPin, Screen

\* Typing a digit changes the digits only.
LEMMA DigitsPayload ==
    ASSUME NEW a \in AppStates, NEW d
    PROVE  /\ [a EXCEPT !.digits = d].at = a.at /\ [a EXCEPT !.digits = d].digits = d
           /\ [a EXCEPT !.digits = d].pin = a.pin /\ [a EXCEPT !.digits = d].gate = a.gate
  BY DEF AppStates

\* Staged for a screen that no write is in progress on.
LEMMA StagedAtRest ==
    ASSUME io' = "idle",
           app'.at \in {"ConfirmPin", "PinConfirming"} => app'.pin \in Pins,
           app'.at \in {"SetPin", "ConfirmPin"} => Len(app'.digits) < PinLen,
           app'.at # "PinVerifying",
           app'.at = "EnterPin" => app'.gate \in Gates /\ (app'.gate = "Unlock" <=> pin' = None)
    PROVE  Staged'
  BY DEF Staged

\* A screen without a payload stages nothing.
LEMMA StagedScreen ==
    ASSUME NEW s \in Screens \ {"ConfirmPin", "PinConfirming", "PinVerifying", "EnterPin"},
           app' = Screen(s), io' = "idle"
    PROVE  Staged'
  BY PlainPayload, StagedAtRest

\* A PIN prompt is staged when its gate fits the session.
LEMMA StagedGate ==
    ASSUME NEW gate \in Gates, app' = EnterPin(gate), io' = "idle",
           gate = "Unlock" <=> pin' = None
    PROVE  Staged'
<1>1. app'.at = "EnterPin" /\ app'.gate = gate
  BY GatePayload
<1>. QED BY <1>1, StagedAtRest

\* Staged for a verdict that is being written.
LEMMA StagedVerdict ==
    ASSUME Staged, app.at \in {"EnterPin", "PinVerifying"}, app' = app,
           app.at = "EnterPin" => Len(app.digits) = PinLen /\ (pin' = None <=> pin = None),
           \/ io' = "reset" /\ ~image'.locked /\ pin' # None /\ app.digits = pin' /\ failures' = 0
           \/ io' = "lock" /\ image'.locked /\ (app.at = "PinVerifying" => pin' = None)
    PROVE  Staged'
<1>1. CASE io' = "reset"
  BY <1>1 DEF Staged
<1>2. CASE io' = "lock"
  BY <1>2 DEF Staged
<1>. QED BY <1>1, <1>2

\* No setup screen stages a write.
LEMMA SetupStaged == ASSUME TypeOK, Setup PROVE Staged'
<1> USE DEF Screens, Showing
<1>1. io' = "idle"
  BY Quiet
<1>2. CASE RestoreWallet \/ CancelRestore \/ ConfirmPassphrase \/ SkipPassphrase
           \/ \E e \in Entropies : CreateWallet(e) \/ ConfirmLastWord(e)
  <2>1. app' \in {Screen("RestoreWallet"), Screen("Welcome"), Screen("SetPin"),
                  Screen("NewWallet"), Screen("EnterPassphrase")}
    BY <1>2 DEF RestoreWallet, CancelRestore, ConfirmPassphrase, SkipPassphrase, CreateWallet,
       ConfirmLastWord
  <2>. QED BY <1>1, <2>1, PlainPayload, StagedAtRest
<1>3. CASE ConfirmWord \/ DeletePassphrase \/ \E c \in Chars : TypePassphrase(c)
  <2>1. app'.at \in {"RestoreWallet", "EnterPassphrase"}
    BY <1>3 DEF TypeOK, Fits, AppStates, ConfirmWord, DeletePassphrase, TypePassphrase
  <2>. QED BY <1>1, <2>1, StagedAtRest
<1>. QED BY <1>2, <1>3 DEF Setup

\* Typing keeps the pad below PinLen digits, or leaves it.
LEMMA PinPadStaged == ASSUME TypeOK, Staged, PinPad PROVE Staged'
<1> USE DEF Screens, Showing
<1>1. io' = "idle" /\ pin' = pin
  BY Quiet DEF atRest
<1>2. app \in AppStates /\ app.digits \in Seq(Digits) /\ Len(app.digits) <= PinLen /\ PinLen \in Nat
  BY LimitsAssumption DEF TypeOK, Fits, AppStates
<1>3. CASE DeleteDigit
  <2> DEFINE t == SubSeq(app.digits, 1, Len(app.digits) - 1)
  <2>1. app' = [app EXCEPT !.digits = t] /\ app.at \in {"SetPin", "ConfirmPin", "EnterPin"}
    BY <1>3 DEF DeleteDigit
  <2>2. Len(t) < PinLen
    BY <1>2, <1>3, Shortened DEF DeleteDigit
  <2> HIDE DEF t
  <2>3. app'.at = app.at /\ app'.digits = t /\ app'.pin = app.pin /\ app'.gate = app.gate
    BY <1>2, <2>1, DigitsPayload
  <2>. QED BY <1>1, <2>1, <2>2, <2>3, StagedAtRest DEF Staged
<1>4. CASE DismissMismatch
  BY <1>1, <1>4, PlainPayload, StagedAtRest DEF DismissMismatch
<1>5. ASSUME NEW d \in Digits, SetPinDigit(d) PROVE Staged'
  <2> DEFINE typed == Append(app.digits, d)
  <2>1. typed \in Seq(Digits) /\ (Len(typed) < PinLen \/ Len(typed) = PinLen)
    BY <1>2, <1>5, Appended DEF SetPinDigit, Staged
  <2>2. /\ app.at = "SetPin"
        /\ app' = IF Len(typed) < PinLen THEN [app EXCEPT !.digits = typed]
                  ELSE [Screen("ConfirmPin") EXCEPT !.pin = typed]
    BY <1>5 DEF SetPinDigit
  <2> HIDE DEF typed
  <2>3. CASE Len(typed) < PinLen
    BY <1>1, <1>2, <2>2, <2>3, DigitsPayload, StagedAtRest
  <2>4. CASE Len(typed) = PinLen
    <3>1. typed \in Pins /\ app' = [Screen("ConfirmPin") EXCEPT !.pin = typed]
      BY <1>2, <2>1, <2>2, <2>4, FullBuffer
    <3>. QED BY <1>1, <3>1, PinPayload, StagedAtRest
  <2>. QED BY <2>1, <2>3, <2>4
<1>6. ASSUME NEW d \in Digits, ConfirmPinDigit(d) PROVE Staged'
  <2> DEFINE typed == Append(app.digits, d)
  <2>1. app.at = "ConfirmPin" /\ app.pin \in Pins
    BY <1>6 DEF ConfirmPinDigit, Staged
  <2>2. \/ Len(typed) < PinLen /\ app' = [app EXCEPT !.digits = typed]
        \/ typed = app.pin /\ app' = [Screen("PinConfirming") EXCEPT !.pin = typed]
        \/ app' = Screen("PinMismatch")
    BY <1>6 DEF ConfirmPinDigit
  <2> HIDE DEF typed
  <2>3. CASE Len(typed) < PinLen /\ app' = [app EXCEPT !.digits = typed]
    BY <1>1, <1>2, <2>1, <2>3, DigitsPayload, StagedAtRest
  <2>4. CASE typed = app.pin /\ app' = [Screen("PinConfirming") EXCEPT !.pin = typed]
    BY <1>1, <2>1, <2>4, PinPayload, StagedAtRest
  <2>5. CASE app' = Screen("PinMismatch")
    BY <1>1, <2>5, PlainPayload, StagedAtRest
  <2>. QED BY <2>2, <2>3, <2>4, <2>5
<1>7. ASSUME NEW d \in Digits, EnterPinDigit(d) PROVE Staged'
  <2> DEFINE typed == Append(app.digits, d)
  <2>1. app.at = "EnterPin" /\ app' = [app EXCEPT !.digits = typed]
    BY <1>7 DEF EnterPinDigit
  <2> HIDE DEF typed
  <2>2. app'.at = app.at /\ app'.gate = app.gate
    BY <1>2, <2>1, DigitsPayload
  <2>. QED BY <1>1, <2>1, <2>2, StagedAtRest DEF Staged
<1>. QED BY <1>3, <1>4, <1>5, <1>6, <1>7 DEF PinPad

\* Only the Settings gates lead to a PIN prompt, and they are used with the PIN known.
LEMMA BrowseStaged == ASSUME TypeOK, Held, Browse PROVE Staged'
<1> USE DEF Screens, Showing, SessionScreens
<1>1. io' = "idle" /\ pin' = pin
  BY Quiet DEF atRest
<1>2. ASSUME NEW from \in Screens, NEW to \in Screens, Navigate(from, to) PROVE Staged'
  <2>1. app' = Screen(to) /\ to \notin {"SetPin", "ConfirmPin", "PinConfirming", "PinVerifying", "EnterPin"}
    BY <1>2 DEF Navigate, NavEdges
  <2>. QED BY ZenonT(40), <1>1, <2>1, PlainPayload, StagedAtRest
<1>3. ASSUME NEW gate \in Gates, AskPin(gate) PROVE Staged'
  <2>1. app' = EnterPin(gate) /\ gate \in Gates /\ gate # "Unlock" /\ pin # None
    BY <1>3 DEF AskPin, Held, PinInHand
  <2>. QED BY <1>1, <2>1, GatePayload, StagedAtRest
<1>4. CASE NextPage \/ PrevPage \/ ScanGarbage \/ ConfirmReview \/ \E p \in Psbts : ScanPsbt(p)
  <2>1. app'.at \in {"NewWallet", "ShowMnemonic", "EnterPassphrase", "Settings", "SignScan",
                     "SignReview", "SignResult"}
    <3>1. CASE NextPage \/ PrevPage
      <4>1. app' \in {Screen("EnterPassphrase"), Screen("Settings"), [app EXCEPT !.page = @ + 1],
                      [app EXCEPT !.page = @ - 1]} /\ app.at \in {"NewWallet", "ShowMnemonic"}
        <5>1. app.page < LastPage \/ app.page >= LastPage
          BY LimitsAssumption DEF TypeOK, Fits, AppStates
        <5>. QED BY <3>1, <5>1 DEF NextPage, PrevPage
      <4>. QED BY <4>1, PlainPayload DEF TypeOK, Fits, AppStates
    <3>2. CASE ScanGarbage \/ ConfirmReview \/ \E p \in Psbts : ScanPsbt(p)
      BY <3>2, PlainPayload DEF ScanGarbage, ConfirmReview, ScanPsbt
    <3>. QED BY <1>4, <3>1, <3>2
  <2>. QED BY <1>1, <2>1, StagedAtRest
<1>. QED BY <1>2, <1>3, <1>4 DEF Browse

\* The image after FinalizeEnterPin, and the write it starts if any.
LEMMA FinalizeOutcome ==
    ASSUME NEW correct \in BOOLEAN, FinalizeEnterPin(correct), AtRestOK, image # None
    PROVE  \/ /\ correct /\ io' = "reset" /\ failures' = 0 /\ image' = UpdateLockout(image, 0, FALSE)
              /\ UNCHANGED <<app, misses>>
           \/ /\ ~correct /\ failures >= PIN_MAX_ATTEMPTS /\ io' = "lock"
              /\ image' = UpdateLockout(image, failures, TRUE)
              /\ UNCHANGED <<app, failures, misses>>
           \/ /\ ~correct /\ ~(failures >= PIN_MAX_ATTEMPTS) /\ io' = "idle"
              /\ app' = EnterPin(app.gate) /\ misses' = misses + 1
              /\ UNCHANGED <<failures, image>>
  BY DEF FinalizeEnterPin, WithLockout, AttemptsExhausted

\* The fields of an image after update_lockout, for any values.
LEMMA LockoutFields ==
    ASSUME NEW img \in Image, NEW f, NEW l
    PROVE  /\ UpdateLockout(img, f, l).failures = f /\ UpdateLockout(img, f, l).locked = l
           /\ UpdateLockout(img, f, l).salt = img.salt /\ UpdateLockout(img, f, l).key = img.key
           /\ UpdateLockout(img, f, l).aad = img.aad
           /\ UpdateLockout(img, f, l).secrets = img.secrets
  BY DEF UpdateLockout, Image

\* A boot stages a prompt, a lock screen or a migration.
LEMMA PowerStaged == ASSUME TypeOK, Staged, Held, Power PROVE Staged'
<1> USE DEF Screens, Showing
<1>1. CASE BootFresh \/ BootUnread \/ PowerOff
  <2>1. app' \in {Screen("Welcome"), Screen("Off")} /\ io' = "idle"
    BY <1>1 DEF BootFresh, BootUnread, PowerOff
  <2>. QED BY <2>1, PlainPayload, StagedAtRest
<1>2. CASE BootSealed
  <2>1. app' \in {Screen("PinLocked"), EnterPin("Unlock")} /\ io' = "idle" /\ pin' = None
    BY <1>2 DEF BootSealed, FromDiskImage, Held, PinInHand
  <2>. QED BY <2>1, StagedScreen, StagedGate DEF Gates
<1>3. ASSUME NEW s \in Salts, BootLegacy(s) PROVE Staged'
  <2>1. disk.pin \in Pins /\ disk.secrets \in Secrets
    BY <1>3, DiskKinds DEF BootLegacy, TypeOK, DiskOK, LegacyImage
  <2> DEFINE blob == EncryptIntoBlob(disk.secrets, s, DeriveKey(disk.pin, s))
  <2>4. image' = blob
    BY <1>3 DEF BootLegacy
  <2>6. DeriveKey(disk.pin, s) \in Keys
    BY <1>3, <2>1, KeyType
  <2>7. blob \in Image
    BY <1>3, <2>1, <2>6, BlobType
  <2>5. blob \in Image /\ blob.failures = 0 /\ blob.locked = FALSE
    BY <2>7 DEF EncryptIntoBlob
  <2> HIDE DEF blob
  <2>2. image' \in Image /\ image'.failures = 0 /\ image'.locked = FALSE
    BY <2>4, <2>5
  <2>3. app' = app /\ app.at = "Off" /\ io' = "migrate" /\ disk' = disk /\ IsLegacy(disk)
    BY <1>3 DEF BootLegacy, diskVars
  <2>. QED BY <2>2, <2>3, NoneAssumption DEF Staged, IsLegacy
<1>. QED BY <1>1, <1>2, <1>3 DEF Power

\* The last digit stages the write-ahead.
LEMMA AttemptStaged == ASSUME TypeOK, Staged, Held, Attempt PROVE Staged'
<1> PICK d \in Digits : BeginEnterPin(d)
  BY DEF Attempt
<1> DEFINE typed == Append(app.digits, d)
<1>1. app' = [app EXCEPT !.digits = typed] /\ app.at = "EnterPin" /\ io' = "ahead" /\ pin' = pin
  BY DEF BeginEnterPin, Showing
<1>2. Len(typed) = PinLen /\ app \in AppStates
  BY Appended DEF BeginEnterPin, TypeOK, Fits, AppStates
<1>3. image \in Image /\ image' = UpdateLockout(image, failures', FALSE)
  BY <1>1 DEF BeginEnterPin, WithLockout, Held, ImageInHand, TypeOK, AtRestOK
<1>4. ~image'.locked
  BY <1>3, LockoutFields
<1> HIDE DEF typed
<1>5. app'.at = "EnterPin" /\ app'.digits = typed /\ app'.gate = app.gate
  BY <1>1, <1>2, DigitsPayload
<1>. QED BY <1>1, <1>2, <1>4, <1>5 DEF Staged

\* The deferred work stages a verdict or the save.
LEMMA PendingStaged == ASSUME TypeOK, Staged, Held, ProcessPending PROVE Staged'
<1> USE DEF Showing
<1>1. CASE VerifyRightPin
  <2>1. app.at = "PinVerifying" /\ image \in Image /\ AtRestOK /\ FinalizeEnterPin(TRUE)
        /\ pin' = app.digits
    BY <1>1 DEF VerifyRightPin, TypeOK, AtRestOK
  <2>2. io' = "reset" /\ failures' = 0 /\ app' = app /\ image' = UpdateLockout(image, 0, FALSE)
    BY <2>1, FinalizeOutcome, NoneAssumption
  <2>3. pin' \in Pins
    BY <2>1, FullBuffer DEF Staged, TypeOK, Fits, AppStates
  <2>4. ~image'.locked
    BY <2>1, <2>2, LockoutFields
  <2>. QED BY <2>1, <2>2, <2>3, <2>4, NoneAssumption, StagedVerdict
<1>2. CASE VerifyWrongPin
  <2>1. app.at = "PinVerifying" /\ image \in Image /\ AtRestOK /\ FinalizeEnterPin(FALSE)
        /\ pin' = pin /\ io = "idle" /\ app.gate = "Unlock" /\ pin = None
    BY <1>2 DEF VerifyWrongPin, TypeOK, AtRestOK, Held, ImageInHand, Staged
  <2>2. CASE io' = "lock" /\ app' = app /\ image' = UpdateLockout(image, failures, TRUE)
    <3>2. image'.locked = TRUE
      BY <2>1, <2>2 DEF UpdateLockout, Image
    <3>1. image'.locked
      BY <3>2
    <3>. QED BY <2>1, <2>2, <3>1, StagedVerdict
  <2>3. CASE io' = "idle" /\ app' = EnterPin(app.gate)
    BY <2>1, <2>3, StagedGate DEF Gates
  <2>. QED BY <2>1, <2>2, <2>3, FinalizeOutcome, NoneAssumption
<1>3. ASSUME NEW s \in Salts, SealWallet(s) PROVE Staged'
  <2>1. app.pin \in Pins /\ [entropy |-> entropy, seed |-> seed] \in Secrets
    BY <1>3 DEF SealWallet, Staged, Held, SecretsInHand, ChoosingPin, TypeOK, SecretsOK, Secrets
  <2>2. DeriveKey(app.pin, s) \in Keys
    BY <2>1, KeyType
  <2>3. image' \in Image /\ ~image'.locked
    BY <1>3, <2>1, <2>2, BlobType DEF SealWallet
  <2>4. app' = app /\ app.at = "PinConfirming" /\ io' = "save" /\ pin' = app.pin /\ failures' = 0
    BY <1>3 DEF SealWallet
  <2>. QED BY <2>1, <2>3, <2>4, NoneAssumption DEF Staged
<1>. QED BY <1>1, <1>2, <1>3 DEF ProcessPending

\* Each write that returns ends what it was staged for.
LEMMA WritesStaged == ASSUME TypeOK, Staged, Held, WriteReturns PROVE Staged'
<1> USE DEF Screens
<1>1. image \in Image /\ image # None
  BY WritesImage, NoneAssumption
<1>2. CASE MigrateWritten
  <2>1. app' \in {Screen("PinLocked"), EnterPin("Unlock")} /\ io' = "idle" /\ pin' = None
    BY <1>2 DEF MigrateWritten, FromDiskImage, Held, PinInHand, Staged
  <2>. QED BY <2>1, StagedScreen, StagedGate DEF Gates
<1>3. CASE CheckSessionPin
  <2>1. /\ app.at = "EnterPin" /\ AtRestOK /\ FinalizeEnterPin(app.digits = pin)
        /\ pin' = pin /\ pin # None /\ app.gate \in Gates /\ app.gate # "Unlock"
        /\ Len(app.digits) = PinLen
    BY <1>3 DEF CheckSessionPin, TypeOK, AtRestOK, Staged
  <2>2. CASE io' = "reset" /\ app' = app /\ failures' = 0 /\ app.digits = pin
             /\ image' = UpdateLockout(image, 0, FALSE)
    <3>1. ~image'.locked
      BY <1>1, <2>2, LockoutFields
    <3>. QED BY <2>1, <2>2, <3>1, StagedVerdict
  <2>3. CASE io' = "lock" /\ app' = app /\ image' = UpdateLockout(image, failures, TRUE)
    <3>2. image'.locked = TRUE
      BY <1>1, <2>3 DEF UpdateLockout, Image
    <3>1. image'.locked
      BY <3>2
    <3>. QED BY <2>1, <2>3, <3>1, StagedVerdict
  <2>4. CASE io' = "idle" /\ app' = EnterPin(app.gate)
    BY <2>1, <2>4, StagedGate
  <2>. QED BY <1>1, <2>1, <2>2, <2>3, <2>4, FinalizeOutcome
<1>4. CASE ParkVerifying
  <2>1. /\ app.at = "EnterPin" /\ app.gate = "Unlock" /\ Len(app.digits) = PinLen
        /\ pin' = pin /\ pin = None /\ io' = "idle" /\ app' = [app EXCEPT !.at = "PinVerifying"]
    BY <1>4 DEF ParkVerifying, Staged, atRest
  <2>2. app'.at = "PinVerifying" /\ app'.gate = app.gate /\ app'.digits = app.digits
    BY <2>1 DEF TypeOK, Fits, AppStates
  <2>. QED BY <2>1, <2>2 DEF Staged
<1>5. CASE OpenGate
  <2>1. app' \in {Screen("Home"), Screen("ShowMnemonic"), Screen("SetPin")} /\ io' = "idle"
    BY <1>5 DEF OpenGate, GateTarget, Staged, Gates
  <2>. QED BY <2>1, PlainPayload, StagedAtRest
<1>6. CASE LockOut \/ SaveWritten
  <2>1. app' \in {Screen("PinLocked"), Screen("Home")} /\ io' = "idle"
    BY <1>6 DEF LockOut, SaveWritten
  <2>. QED BY <2>1, PlainPayload, StagedAtRest
<1>. QED BY <1>2, <1>3, <1>4, <1>5, <1>6 DEF WriteReturns

\* Staged is kept by every step.
LEMMA StagedStep ==
    ASSUME TypeOK, Staged, Held, [Next]_vars
    PROVE  Staged'
<1>1. CASE UNCHANGED vars
  BY <1>1 DEF vars, atRest, diskVars, Staged
<1>. QED BY <1>1, SetupStaged, PinPadStaged, BrowseStaged, PowerStaged, AttemptStaged,
             PendingStaged, WritesStaged DEF Next

-----------------------------------------------------------------------------
(* Which screens a quiet handler moves between *)

\* The setup stays among its screens until it chooses a PIN, and has no transaction.
LEMMA SetupMoves ==
    ASSUME TypeOK, Setup
    PROVE  /\ app.at \in SetupScreens /\ app'.at \in SetupScreens \cup {"SetPin"}
           /\ UNCHANGED txVars
<1> USE DEF SetupScreens, Showing, Screens
<1>1. CASE RestoreWallet \/ CancelRestore \/ ConfirmPassphrase \/ SkipPassphrase
           \/ \E e \in Entropies : CreateWallet(e) \/ ConfirmLastWord(e)
  <2>1. app' \in {Screen("RestoreWallet"), Screen("Welcome"), Screen("SetPin"),
                  Screen("NewWallet"), Screen("EnterPassphrase")}
    BY <1>1 DEF RestoreWallet, CancelRestore, ConfirmPassphrase, SkipPassphrase, CreateWallet,
       ConfirmLastWord
  <2>2. app.at \in SetupScreens /\ UNCHANGED txVars
    BY <1>1 DEF RestoreWallet, CancelRestore, ConfirmPassphrase, SkipPassphrase, CreateWallet,
       ConfirmLastWord
  <2>. QED BY <2>1, <2>2, PlainPayload
<1>2. CASE ConfirmWord \/ DeletePassphrase \/ \E c \in Chars : TypePassphrase(c)
  BY <1>2 DEF TypeOK, Fits, AppStates, ConfirmWord, DeletePassphrase, TypePassphrase
<1>. QED BY <1>1, <1>2 DEF Setup

\* The PIN pad stays on screens that choose or ask for a PIN, and touches neither secrets nor transaction.
LEMMA PinPadMoves ==
    ASSUME TypeOK, PinPad
    PROVE  /\ \/ app.at \in ChoosingPin /\ app'.at \in ChoosingPin
              \/ app.at = "EnterPin" /\ app'.at = "EnterPin"
           /\ UNCHANGED <<secretVars, txVars>>
<1> USE DEF ChoosingPin, Showing, Screens, TypeOK, Fits
<1>1. CASE DeleteDigit
  BY <1>1, DigitsPayload DEF DeleteDigit
<1>2. CASE DismissMismatch
  BY <1>2, PlainPayload DEF DismissMismatch
<1>3. ASSUME NEW d \in Digits, SetPinDigit(d)
      PROVE  app.at = "SetPin" /\ app'.at \in {"SetPin", "ConfirmPin"} /\ UNCHANGED <<secretVars, txVars>>
  BY <1>3 DEF SetPinDigit, AppStates, Screen
<1>4. ASSUME NEW d \in Digits, ConfirmPinDigit(d)
      PROVE  /\ app.at = "ConfirmPin" /\ app'.at \in {"ConfirmPin", "PinConfirming", "PinMismatch"}
             /\ UNCHANGED <<secretVars, txVars>>
  BY <1>4 DEF ConfirmPinDigit, AppStates, Screen
<1>5. ASSUME NEW d \in Digits, EnterPinDigit(d)
      PROVE  app.at = "EnterPin" /\ app'.at = "EnterPin" /\ UNCHANGED <<secretVars, txVars>>
  BY <1>5, DigitsPayload DEF EnterPinDigit
<1>. QED BY <1>1, <1>2, <1>3, <1>4, <1>5 DEF PinPad

\* Navigation leaves the session for a PIN prompt only, and touches no secret.
LEMMA BrowseMoves ==
    ASSUME TypeOK, Browse
    PROVE  /\ \/ app.at \in SessionScreens /\ app'.at \in SessionScreens \cup {"EnterPin"}
              \/ app.at = "NewWallet" /\ app'.at \in {"NewWallet", "EnterPassphrase"}
           /\ UNCHANGED secretVars
<1> USE DEF SessionScreens, Showing, Screens, TypeOK, Fits
<1>1. ASSUME NEW from \in Screens, NEW to \in Screens, Navigate(from, to)
      PROVE  app.at \in SessionScreens /\ app'.at \in SessionScreens /\ UNCHANGED secretVars
  <2>1. app' = Screen(to) /\ app.at = from /\ <<from, to>> \in NavEdges /\ UNCHANGED secretVars
    BY <1>1 DEF Navigate
  <2>2. from \in SessionScreens /\ to \in SessionScreens
    BY <2>1 DEF NavEdges
  <2>. QED BY <1>1, <2>1, <2>2, PlainPayload
<1>2. ASSUME NEW gate \in Gates, AskPin(gate)
      PROVE  app.at \in SessionScreens /\ app'.at = "EnterPin" /\ UNCHANGED secretVars
  BY <1>2, GatePayload DEF AskPin
<1>3. CASE NextPage \/ PrevPage
  <2>1. app.page < LastPage \/ app.page >= LastPage
    BY LimitsAssumption DEF AppStates
  <2>2. /\ \/ app.at \in {"NewWallet", "ShowMnemonic"}
              /\ app' \in {[app EXCEPT !.page = @ + 1], [app EXCEPT !.page = @ - 1]}
           \/ app.at = "NewWallet" /\ app' = Screen("EnterPassphrase")
           \/ app.at = "ShowMnemonic" /\ app' = Screen("Settings")
        /\ UNCHANGED secretVars
    BY <1>3, <2>1 DEF NextPage, PrevPage
  <2>. QED BY ZenonT(40), <2>2, PlainPayload DEF AppStates
<1>4. CASE ScanGarbage \/ ConfirmReview \/ \E p \in Psbts : ScanPsbt(p)
  BY <1>4, PlainPayload DEF ScanGarbage, ConfirmReview, ScanPsbt
<1> HIDE DEF SessionScreens, Showing, Screens, TypeOK, Fits
<1>5. CASE \E from, to \in Screens : Navigate(from, to)
  BY <1>1, <1>5
<1>6. CASE \E gate \in Gates : AskPin(gate)
  BY <1>2, <1>6
<1>. QED BY Zenon, <1>3, <1>4, <1>5, <1>6 DEF Browse

-----------------------------------------------------------------------------
(* Held *)

\* The setup has the mnemonic in hand from the moment it is chosen.
LEMMA SetupHeld == ASSUME TypeOK, Held, Setup PROVE Held'
<1>1. app.at \in SetupScreens /\ app'.at \in SetupScreens \cup {"SetPin"}
  BY SetupMoves
<1>2. pin = None /\ image = None /\ UNCHANGED <<pin, image>>
  BY <1>1, Quiet DEF Held, PinInHand, ImageInHand, SetupScreens, atRest
<1>3. SecretsInHand'
  <2>1. CASE RestoreWallet \/ CancelRestore \/ ConfirmWord
    <3>1. app'.at \in {"RestoreWallet", "Welcome"}
      BY ZenonT(40), <2>1, PlainPayload DEF RestoreWallet, CancelRestore, ConfirmWord, Showing, Screens,
         TypeOK, Fits, AppStates
    <3>. QED BY <1>2, <3>1 DEF SecretsInHand, ChoosingPin
  <2>2. ASSUME NEW e \in Entropies, CreateWallet(e) \/ ConfirmLastWord(e) PROVE SecretsInHand'
    <3>1. e # None /\ entropy' = e /\ words' = e
      BY <2>2, NoneAssumption DEF CreateWallet, ConfirmLastWord
    <3>2. app'.at \in {"NewWallet", "EnterPassphrase"}
      BY <2>2, PlainPayload DEF CreateWallet, ConfirmLastWord, Screens
    <3>. QED BY <1>2, <3>1, <3>2 DEF SecretsInHand, ChoosingPin
  <2>3. CASE DeletePassphrase \/ \E c \in Chars : TypePassphrase(c)
    <3>1. app.at = "EnterPassphrase" /\ app'.at = "EnterPassphrase" /\ UNCHANGED secretVars
      BY <2>3 DEF DeletePassphrase, TypePassphrase, Showing, TypeOK, Fits, AppStates
    <3>. QED BY <1>2, <3>1 DEF SecretsInHand, ChoosingPin, Held, secretVars
  <2>4. CASE ConfirmPassphrase \/ SkipPassphrase
    <3>1. /\ app.at = "EnterPassphrase" /\ app'.at = "SetPin"
          /\ seed' = ToSeed(entropy, app.text) /\ derived' = seed' /\ UNCHANGED <<words, entropy>>
      BY <2>4, PlainPayload DEF ConfirmPassphrase, SkipPassphrase, DeriveAddress, Showing, Screens
    <3>2. entropy \in Entropies /\ words = entropy
      BY <3>1 DEF Held, SecretsInHand, TypeOK, SecretsOK
    <3>3. app.text \in Passphrases
      BY PassphraseBuffer DEF TypeOK, Fits, AppStates
    <3>4. ToSeed(entropy, app.text) \in Seeds /\ ToSeed(entropy, app.text).entropy = entropy
      BY <3>2, <3>3 DEF ToSeed, Seeds
    <3>. QED BY <1>2, <3>1, <3>2, <3>4, NoneAssumption DEF SecretsInHand, ChoosingPin
  <2>. QED BY <2>1, <2>2, <2>3, <2>4 DEF Setup
<1>4. PinInHand'
  BY <1>1, <1>2 DEF PinInHand, SessionScreens, SetupScreens
<1>. QED BY <1>1, <1>2, <1>3, <1>4 DEF Held, ImageInHand, PinOpensImage, SetupScreens

\* Typing a PIN keeps what is in hand.
LEMMA PinPadHeld == ASSUME TypeOK, Held, PinPad PROVE Held'
<1>1. UNCHANGED <<pin, salt, encKey, failures, image, io>> /\ io = "idle"
  BY Quiet DEF atRest
<1>2. UNCHANGED <<words, entropy, seed, derived>>
  BY PinPadMoves DEF secretVars
<1>3. \/ app.at \in ChoosingPin /\ app'.at \in ChoosingPin
      \/ app.at = "EnterPin" /\ app'.at = "EnterPin"
  BY PinPadMoves
<1>4. SecretsInHand'
  BY <1>1, <1>2, <1>3 DEF Held, SecretsInHand, ChoosingPin
<1>5. PinInHand'
  BY <1>1, <1>3 DEF Held, PinInHand, ChoosingPin, SessionScreens, SetupScreens
<1>6. ImageInHand'
  BY <1>1, <1>3 DEF Held, ImageInHand, ChoosingPin
<1>7. PinOpensImage'
  BY <1>1, <1>2 DEF Held, PinOpensImage
<1>. QED BY <1>4, <1>5, <1>6, <1>7 DEF Held

\* Navigation keeps what is in hand.
LEMMA BrowseHeld == ASSUME TypeOK, Held, Browse PROVE Held'
<1>1. UNCHANGED <<pin, salt, encKey, failures, image, io>> /\ io = "idle"
  BY Quiet DEF atRest
<1>2. UNCHANGED <<words, entropy, seed, derived>>
  BY BrowseMoves DEF secretVars
<1>3. \/ app.at \in SessionScreens /\ app'.at \in SessionScreens \cup {"EnterPin"}
      \/ app.at = "NewWallet" /\ app'.at \in {"NewWallet", "EnterPassphrase"}
  BY BrowseMoves
<1>4. SecretsInHand'
  BY <1>1, <1>2, <1>3 DEF Held, SecretsInHand, PinInHand, ChoosingPin, SessionScreens
<1>5. PinInHand'
  BY <1>1, <1>3 DEF Held, PinInHand, SessionScreens, SetupScreens
<1>6. ImageInHand'
  BY <1>1, <1>3 DEF Held, ImageInHand, PinInHand, PinOpensImage, SessionScreens, SetupScreens
<1>7. PinOpensImage'
  BY <1>1, <1>2 DEF Held, PinOpensImage
<1>. QED BY <1>4, <1>5, <1>6, <1>7 DEF Held

\* Held when the header of the image is rewritten on a PIN screen.
LEMMA HeldUpdate ==
    ASSUME Held, image \in Image, NEW f \in 0..MaxU8, NEW l \in BOOLEAN,
           image' = UpdateLockout(image, f, l), failures' = f,
           UNCHANGED <<pin, salt, encKey, words, entropy, seed, derived>>,
           app.at \in {"EnterPin", "PinVerifying"}, app'.at = app.at
    PROVE  Held'
<1>1. /\ image'.salt = image.salt /\ image'.key = image.key /\ image'.aad = image.aad
      /\ image'.secrets = image.secrets /\ image'.failures = f /\ image' # None
  <2>2. image # None /\ image' # None
    BY LockoutType, NoneAssumption
  <2>. QED BY <2>2, LockoutFields
<1>2. SecretsInHand' /\ PinInHand'
  BY DEF Held, SecretsInHand, PinInHand, ChoosingPin, SessionScreens, SetupScreens
<1>3. ImageInHand'
  BY <1>1, NoneAssumption DEF Held, ImageInHand
<1>4. PinOpensImage'
  BY <1>1 DEF Held, PinOpensImage, Decrypts
<1>. QED BY <1>2, <1>3, <1>4 DEF Held

\* Held when the gate asks again.
LEMMA HeldAgain ==
    ASSUME Held, image # None, UNCHANGED <<image, failures, pin, salt, encKey, words, entropy, seed, derived>>,
           app.at \in {"EnterPin", "PinVerifying"}, app'.at \in {"EnterPin", "PinVerifying"}
    PROVE  Held'
  BY DEF Held, SecretsInHand, PinInHand, ImageInHand, PinOpensImage, ChoosingPin,
     SessionScreens, SetupScreens

\* Held for a wallet just read from disk, locked or asking for its PIN.
LEMMA HeldLoaded ==
    ASSUME pin' = None, image' # None, salt' = image'.salt, failures' = image'.failures,
           app'.at \in {"EnterPin", "PinLocked"}
    PROVE  Held'
  BY DEF Held, SecretsInHand, PinInHand, ImageInHand, PinOpensImage, ChoosingPin,
     SessionScreens, SetupScreens

\* A boot has an image or nothing in hand; a power-off leaves nothing.
LEMMA PowerHeld == ASSUME TypeOK, Held, Power PROVE Held'
<1> USE DEF Screens, Showing
<1>1. CASE BootFresh \/ BootUnread
  <2>1. app.at = "Off" /\ io = "idle" /\ app' = Screen("Welcome") /\ UNCHANGED <<pin, image>>
    BY <1>1 DEF BootFresh, BootUnread, atRest
  <2>2. pin = None /\ image = None /\ app'.at = "Welcome"
    BY <2>1, PlainPayload DEF Held, PinInHand, ImageInHand
  <2>. QED BY <2>1, <2>2 DEF Held, SecretsInHand, PinInHand, ImageInHand, PinOpensImage,
           ChoosingPin, SessionScreens
<1>2. CASE BootSealed
  <2>1. /\ salt' = disk.salt /\ failures' = disk.failures /\ image' = disk
        /\ app' \in {Screen("PinLocked"), EnterPin("Unlock")} /\ pin' = None
    BY <1>2 DEF BootSealed, FromDiskImage, Held, PinInHand
  <2>2. disk # None
    BY <1>2 DEF BootSealed, IsImage
  <2>3. app'.at \in {"EnterPin", "PinLocked"}
    BY <2>1 DEF EnterPin, Screen
  <2>. QED BY <2>1, <2>2, <2>3, HeldLoaded
<1>3. ASSUME NEW s \in Salts, BootLegacy(s) PROVE Held'
  <2>1. app.at = "Off" /\ app' = app /\ io' = "migrate" /\ pin' = None /\ pin = None
    BY <1>3 DEF BootLegacy, Held, PinInHand
  <2>. QED BY <2>1 DEF Held, SecretsInHand, PinInHand, ImageInHand, PinOpensImage,
           ChoosingPin, SessionScreens, SetupScreens
<1>4. CASE PowerOff
  <2>1. app'.at = "Off" /\ pin' = None /\ image' = None
    BY <1>4, PlainPayload DEF PowerOff
  <2>. QED BY <2>1 DEF Held, SecretsInHand, PinInHand, ImageInHand, PinOpensImage,
           ChoosingPin, SessionScreens, SetupScreens
<1>. QED BY <1>1, <1>2, <1>3, <1>4 DEF Power

\* The write-ahead keeps image and counter in step.
LEMMA AttemptHeld == ASSUME TypeOK, Held, Attempt PROVE Held'
<1>1. /\ app.at = "EnterPin" /\ image' = WithLockout(failures', FALSE)
      /\ UNCHANGED <<pin, salt, encKey, words, entropy, seed, derived>>
      /\ \E d \in Digits : app' = [app EXCEPT !.digits = Append(@, d)]
  BY DEF Attempt, BeginEnterPin, Showing, secretVars
<1>2. image \in Image /\ image # None
  BY <1>1 DEF Held, ImageInHand, TypeOK, AtRestOK
<1>3. image' = UpdateLockout(image, failures', FALSE)
  BY <1>1, <1>2 DEF WithLockout
<1>4. app'.at = app.at
  BY <1>1, DigitsPayload DEF TypeOK, Fits
<1>5. failures' \in 0..MaxU8
  BY Increment DEF Attempt, BeginEnterPin, TypeOK, AtRestOK
<1>. QED BY <1>1, <1>2, <1>3, <1>4, <1>5, HeldUpdate

\* The deferred work takes PIN, key and secrets from one image, or makes one.
LEMMA PendingHeld == ASSUME TypeOK, Staged, Held, Genuine, ProcessPending PROVE Held'
<1> USE DEF Showing
<1>0. 0 \in 0..MaxU8 /\ failures \in 0..MaxU8
  BY LimitsAssumption DEF TypeOK, AtRestOK
<1>1. CASE VerifyRightPin
  <2>1. /\ app.at = "PinVerifying" /\ image \in Image /\ image # None
        /\ AtRestOK /\ FinalizeEnterPin(TRUE)
        /\ entropy' = image.secrets.entropy /\ seed' = image.secrets.seed
        /\ derived' = seed' /\ words' = entropy' /\ salt' = salt
        /\ pin' = app.digits /\ encKey' = DeriveKey(app.digits, salt) /\ Decrypts(image, encKey')
    BY <1>1 DEF VerifyRightPin, TypeOK, AtRestOK
  <2>2. failures' = 0 /\ app' = app /\ image' = UpdateLockout(image, 0, FALSE)
    BY <2>1, FinalizeOutcome
  <2>3. /\ image'.salt = image.salt /\ image'.key = image.key /\ image'.aad = image.aad
        /\ image'.secrets = image.secrets /\ image'.failures = 0
    BY <2>1, <2>2 DEF UpdateLockout, Image
  <2>4. pin' \in Pins /\ pin' # None
    BY <2>1, FullBuffer, NoneAssumption DEF Staged, TypeOK, Fits, AppStates
  <2>5. image.secrets \in Secrets /\ Consistent(image.secrets)
    BY <2>1 DEF Genuine, Image
  <2>6. /\ entropy' \in Entropies /\ seed' \in Seeds /\ seed'.entropy = entropy'
        /\ image.secrets = [entropy |-> entropy', seed |-> seed']
    BY <2>1, <2>5 DEF Secrets, Consistent
  <2>7. image' # None
    <3>1. UpdateLockout(image, 0, FALSE) \in Image
      BY <1>0, <2>1, LockoutType
    <3>. QED BY <2>2, <3>1, NoneAssumption
  <2>8. SecretsInHand' /\ PinInHand'
    BY <2>1, <2>2, <2>4, <2>6, NoneAssumption
       DEF SecretsInHand, PinInHand, SetupScreens, SessionScreens
  <2>9. ImageInHand' /\ PinOpensImage'
    BY <2>1, <2>2, <2>3, <2>6, <2>7 DEF ImageInHand, PinOpensImage, Decrypts, Held
  <2>. QED BY <2>8, <2>9 DEF Held
<1>2. CASE VerifyWrongPin
  <2>1. /\ app.at = "PinVerifying" /\ image \in Image /\ image # None /\ AtRestOK
        /\ FinalizeEnterPin(FALSE) /\ UNCHANGED <<pin, salt, encKey, words, entropy, seed, derived>>
    BY <1>2 DEF VerifyWrongPin, TypeOK, AtRestOK, Held, ImageInHand, secretVars
  <2>2. CASE app' = app /\ failures' = failures /\ image' = UpdateLockout(image, failures, TRUE)
    BY <1>0, <2>1, <2>2, HeldUpdate
  <2>3. CASE app' = EnterPin(app.gate) /\ UNCHANGED <<failures, image>>
    BY <2>1, <2>3, GatePayload, HeldAgain
  <2>. QED BY <2>1, <2>2, <2>3, FinalizeOutcome
<1>3. ASSUME NEW s \in Salts, SealWallet(s) PROVE Held'
  <2>1. app.at = "PinConfirming" /\ app.pin \in Pins /\ [entropy |-> entropy, seed |-> seed] \in Secrets
    BY <1>3 DEF SealWallet, Staged, Held, SecretsInHand, ChoosingPin, TypeOK, SecretsOK, Secrets
  <2> DEFINE key == DeriveKey(app.pin, s)
  <2> DEFINE blob == EncryptIntoBlob([entropy |-> entropy, seed |-> seed], s, key)
  <2>2. key \in Keys
    BY <1>3, <2>1, KeyType
  <2>3. /\ app' = app /\ salt' = s /\ encKey' = key /\ pin' = app.pin /\ failures' = 0
        /\ image' = blob /\ io' = "save" /\ UNCHANGED <<words, entropy, seed, derived>>
    BY <1>3 DEF SealWallet, secretVars
  <2>4. blob \in Image
    BY <1>3, <2>1, <2>2, BlobType
  <2>5. /\ blob.salt = s /\ blob.aad = s /\ blob.key = key /\ blob.failures = 0
        /\ blob.secrets = [entropy |-> entropy, seed |-> seed]
    BY DEF EncryptIntoBlob
  <2> HIDE DEF key, blob
  <2>6. SecretsInHand' /\ PinInHand'
    BY <2>1, <2>3 DEF Held, SecretsInHand, PinInHand, ChoosingPin, SetupScreens, SessionScreens
  <2>7. ImageInHand'
    BY <2>1, <2>3, <2>5, NoneAssumption DEF ImageInHand
  <2>8. encKey' = DeriveKey(pin', salt')
    BY <2>3 DEF key
  <2>9. PinOpensImage'
    BY <2>3, <2>4, <2>5, <2>8, NoneAssumption DEF PinOpensImage, Decrypts
  <2>. QED BY <2>6, <2>7, <2>9 DEF Held
<1>. QED BY <1>1, <1>2, <1>3 DEF ProcessPending

\* A write that returns keeps what is in hand, and opens a gate to a PIN that was verified.
LEMMA WritesHeld == ASSUME TypeOK, Staged, Held, WriteReturns PROVE Held'
<1> USE DEF Screens
<1>0. 0 \in 0..MaxU8 /\ failures \in 0..MaxU8
  BY LimitsAssumption DEF TypeOK, AtRestOK
<1>1. image \in Image /\ image # None
  BY WritesImage, NoneAssumption
<1>2. CASE MigrateWritten
  <2>1. /\ app' \in {Screen("PinLocked"), EnterPin("Unlock")} /\ pin' = None
        /\ image' = image /\ salt' = image.salt /\ failures' = image.failures
    BY <1>2 DEF MigrateWritten, FromDiskImage, Held, PinInHand, Staged
  <2>2. app'.at \in {"EnterPin", "PinLocked"}
    BY <2>1 DEF EnterPin, Screen
  <2>. QED BY <1>1, <2>1, <2>2, HeldLoaded
<1>3. CASE CheckSessionPin
  <2>1. /\ app.at = "EnterPin" /\ AtRestOK /\ FinalizeEnterPin(app.digits = pin)
        /\ UNCHANGED <<pin, salt, encKey, words, entropy, seed, derived>>
    BY <1>3 DEF CheckSessionPin, TypeOK, Staged, secretVars
  <2>2. CASE app' = app /\ failures' = 0 /\ image' = UpdateLockout(image, 0, FALSE)
    BY <1>0, <1>1, <2>1, <2>2, HeldUpdate
  <2>3. CASE app' = app /\ failures' = failures /\ image' = UpdateLockout(image, failures, TRUE)
    BY <1>0, <1>1, <2>1, <2>3, HeldUpdate
  <2>4. CASE app' = EnterPin(app.gate) /\ UNCHANGED <<failures, image>>
    BY <1>1, <2>1, <2>4, GatePayload, HeldAgain
  <2>. QED BY <1>1, <2>1, <2>2, <2>3, <2>4, FinalizeOutcome
<1>4. CASE ParkVerifying
  <2>1. /\ app.at = "EnterPin" /\ app' = [app EXCEPT !.at = "PinVerifying"]
        /\ UNCHANGED <<atRest, secretVars>>
    BY <1>4 DEF ParkVerifying, Staged
  <2>2. app'.at = "PinVerifying"
    BY <2>1 DEF TypeOK, Fits, AppStates
  <2>. QED BY <1>1, <2>1, <2>2, HeldAgain DEF atRest, secretVars
<1>5. CASE OpenGate \/ LockOut \/ SaveWritten
  <2>1. /\ app'.at \in {"Home", "ShowMnemonic", "SetPin", "PinLocked"}
        /\ app'.at # "PinLocked" => pin # None
        /\ app.at \in {"EnterPin", "PinVerifying", "PinConfirming"}
        /\ UNCHANGED <<atRest, secretVars>>
    <3>1. CASE OpenGate
      <4>1. app' \in {Screen("Home"), Screen("ShowMnemonic"), Screen("SetPin")}
            /\ pin # None /\ app.at \in {"EnterPin", "PinVerifying"}
        BY <3>1 DEF OpenGate, GateTarget, Staged, Gates
      <4>. QED BY <3>1, <4>1, PlainPayload DEF OpenGate
    <3>2. CASE LockOut \/ SaveWritten
      BY <3>2, PlainPayload DEF LockOut, SaveWritten, Staged
    <3>. QED BY <1>5, <3>1, <3>2
  <2>2. SecretsInHand' /\ PinInHand'
    BY <2>1 DEF Held, SecretsInHand, PinInHand, ChoosingPin, SetupScreens, SessionScreens,
       atRest, secretVars
  <2>3. ImageInHand' /\ PinOpensImage'
    BY <2>1 DEF Held, ImageInHand, PinOpensImage, atRest, secretVars
  <2>. QED BY <2>2, <2>3 DEF Held
<1>. QED BY <1>2, <1>3, <1>4, <1>5 DEF WriteReturns

\* Held is kept by every step.
LEMMA HeldStep ==
    ASSUME TypeOK, Staged, Held, Genuine, [Next]_vars
    PROVE  Held'
<1>1. CASE UNCHANGED vars
  BY <1>1 DEF vars, atRest, secretVars, Held, SecretsInHand, PinInHand, ImageInHand, PinOpensImage
<1>. QED BY <1>1, SetupHeld, PinPadHeld, BrowseHeld, PowerHeld, AttemptHeld, PendingHeld,
             WritesHeld DEF Next

-----------------------------------------------------------------------------
(* Genuine: where the images come from *)

\* A verdict changes the header of the image at most.
LEMMA VerdictImage ==
    ASSUME NEW correct \in BOOLEAN, FinalizeEnterPin(correct), AtRestOK, image # None
    PROVE  \/ image' = image
           \/ \E f \in 0..MaxU8, l \in BOOLEAN : image' = UpdateLockout(image, f, l)
<1>1. 0 \in 0..MaxU8 /\ failures \in 0..MaxU8 /\ TRUE \in BOOLEAN /\ FALSE \in BOOLEAN
  BY LimitsAssumption DEF AtRestOK
<1>. QED BY <1>1, FinalizeOutcome

\* An image is read from disk, gets a new counter or lock, or is sealed anew.
LEMMA ImageStep ==
    ASSUME TypeOK, Staged, Held, Genuine, Next
    PROVE  \/ image' \in {None, image}
           \/ IsImage(disk) /\ image' = disk
           \/ image \in Image /\ \E f \in 0..MaxU8, l \in BOOLEAN : image' = UpdateLockout(image, f, l)
           \/ \E x \in Secrets, s \in Salts, key \in Keys :
                 Consistent(x) /\ image' = EncryptIntoBlob(x, s, key)
<1> USE DEF Showing
<1>1. CASE Setup \/ PinPad \/ Browse
  BY <1>1, Quiet DEF atRest
<1>2. CASE BootFresh \/ BootUnread \/ BootSealed \/ PowerOff
  BY <1>2 DEF BootFresh, BootUnread, BootSealed, FromDiskImage, PowerOff, atRest
<1>3. ASSUME NEW s \in Salts, BootLegacy(s)
      PROVE  \E x \in Secrets, t \in Salts, key \in Keys :
                 Consistent(x) /\ image' = EncryptIntoBlob(x, t, key)
  <2>1. disk.pin \in Pins /\ disk.secrets \in Secrets
    BY <1>3, DiskKinds DEF BootLegacy, TypeOK, DiskOK, LegacyImage
  <2>2. Consistent(disk.secrets) /\ image' = EncryptIntoBlob(disk.secrets, s, DeriveKey(disk.pin, s))
    BY <1>3 DEF BootLegacy, Genuine, HasWallet
  <2>3. DeriveKey(disk.pin, s) \in Keys
    BY <1>3, <2>1, KeyType
  <2>. QED BY <1>3, <2>1, <2>2, <2>3
<1>4. CASE Attempt
  <2>1. image \in Image /\ image # None
    BY <1>4 DEF Attempt, BeginEnterPin, Held, ImageInHand, TypeOK, AtRestOK
  <2>2. failures' \in 0..MaxU8 /\ image' = UpdateLockout(image, failures', FALSE)
    BY <1>4, <2>1, Increment DEF Attempt, BeginEnterPin, WithLockout, TypeOK, AtRestOK
  <2>. QED BY <2>1, <2>2
<1>5. CASE VerifyRightPin \/ VerifyWrongPin \/ CheckSessionPin
  <2>1. image \in Image /\ image # None /\ AtRestOK
    BY <1>5 DEF VerifyRightPin, VerifyWrongPin, CheckSessionPin, Staged, Held, ImageInHand,
       TypeOK, AtRestOK
  <2>2. \E correct \in BOOLEAN : FinalizeEnterPin(correct)
    BY <1>5 DEF VerifyRightPin, VerifyWrongPin, CheckSessionPin
  <2>. QED BY <2>1, <2>2, VerdictImage
<1>6. ASSUME NEW s \in Salts, SealWallet(s)
      PROVE  \E x \in Secrets, t \in Salts, key \in Keys :
                 Consistent(x) /\ image' = EncryptIntoBlob(x, t, key)
  <2>1. app.pin \in Pins /\ entropy \in Entropies /\ seed \in Seeds /\ seed.entropy = entropy
    BY <1>6 DEF SealWallet, Staged, Held, SecretsInHand, ChoosingPin, TypeOK, SecretsOK
  <2> DEFINE x == [entropy |-> entropy, seed |-> seed]
  <2>2. x \in Secrets /\ Consistent(x)
    BY <2>1 DEF Secrets, Consistent
  <2>3. DeriveKey(app.pin, s) \in Keys /\ image' = EncryptIntoBlob(x, s, DeriveKey(app.pin, s))
    BY <1>6, <2>1, KeyType DEF SealWallet
  <2> HIDE DEF x
  <2>. QED BY <1>6, <2>2, <2>3
<1>7. CASE MigrateWritten \/ ParkVerifying \/ OpenGate \/ LockOut \/ SaveWritten
  BY <1>7 DEF MigrateWritten, FromDiskImage, ParkVerifying, OpenGate, LockOut, SaveWritten, atRest
<1>. QED BY <1>1, <1>2, <1>3, <1>4, <1>5, <1>6, <1>7
         DEF Next, Power, ProcessPending, WriteReturns

\* Only the return of a write touches the disk.
LEMMA DiskMoves ==
    ASSUME TypeOK, Staged, Held, Next
    PROVE  \/ disk' = disk /\ lost' = lost
           \/ WriteReturns /\ image \in Image /\ image # None /\ unread' = unread
              /\ \/ disk' = image /\ lost' = lost
                 \/ disk' = disk /\ lost' = lost + 1
<1>1. CASE WriteReturns
  BY <1>1, WritesImage, PersistOutcome, NoneAssumption DEF TypeOK
<1>2. CASE Setup \/ PinPad \/ Browse
  BY <1>2, Quiet DEF diskVars
<1>3. CASE Power \/ Attempt \/ ProcessPending
  BY <1>3 DEF Power, BootFresh, BootUnread, BootSealed, BootLegacy, PowerOff, Attempt,
     BeginEnterPin, ProcessPending, VerifyRightPin, VerifyWrongPin, SealWallet, diskVars
<1>. QED BY <1>1, <1>2, <1>3 DEF Next

\* Every image, in RAM and on disk, is one this program made.
LEMMA GenuineStep ==
    ASSUME TypeOK, Staged, Held, Genuine, [Next]_vars
    PROVE  Genuine'
<1>1. CASE UNCHANGED vars
  BY <1>1 DEF vars, atRest, diskVars, Genuine, HasWallet, IsImage, IsLegacy
<1>2. CASE Next
  <2>1. image' # None => image'.aad = image'.salt /\ Consistent(image'.secrets)
    <3>1. CASE image' \in {None, image} \/ (IsImage(disk) /\ image' = disk)
      BY <3>1 DEF Genuine, HasWallet
    <3>2. ASSUME image \in Image, NEW f \in 0..MaxU8, NEW l \in BOOLEAN,
                 image' = UpdateLockout(image, f, l)
          PROVE  image'.aad = image'.salt /\ Consistent(image'.secrets)
      BY <3>2, LockoutType, NoneAssumption DEF Genuine
    <3>3. ASSUME NEW x \in Secrets, NEW s \in Salts, NEW key \in Keys,
                 Consistent(x), image' = EncryptIntoBlob(x, s, key)
          PROVE  image'.aad = image'.salt /\ Consistent(image'.secrets)
      BY <3>3 DEF EncryptIntoBlob
    <3>. QED BY <1>2, <3>1, <3>2, <3>3, ImageStep
  <2>2. disk' = disk \/ (disk' = image /\ image # None)
    BY <1>2, DiskMoves
  <2>. QED BY <2>1, <2>2 DEF Genuine, HasWallet, IsImage, IsLegacy
<1>. QED BY <1>1, <1>2

-----------------------------------------------------------------------------
(* SameWallet: the secrets sealed in the image are those on disk *)

\* On the screens that setup and the PIN change are made of, no write is in
\* progress on the image.
LEMMA SameWalletStep ==
    ASSUME TypeOK, Staged, Held, SameWallet, [Next]_vars
    PROVE  SameWallet'
<1> USE DEF Showing, SameWallet
<1>1. CASE UNCHANGED vars
  BY <1>1 DEF vars, atRest, diskVars, HasWallet, IsImage, IsLegacy
<1>2. CASE Setup \/ PinPad \/ Browse
  <2>1. app.at # "Off"
    BY <1>2, SetupMoves, PinPadMoves, BrowseMoves DEF SetupScreens, ChoosingPin, SessionScreens
  <2>. QED BY <1>2, <2>1, Quiet DEF atRest, diskVars, HasWallet, IsImage, IsLegacy
<1>3. CASE Power
  <2>1. CASE BootFresh \/ BootSealed
    BY <2>1 DEF BootFresh, BootSealed, FromDiskImage, HasWallet, IsImage, IsLegacy, diskVars
  <2>2. CASE BootUnread
    <3>1. unread' = unread + 1 /\ unread \in Nat
      BY <2>2 DEF BootUnread, TypeOK, DiskOK
    <3>. QED BY <3>1
  <2>3. ASSUME NEW s \in Salts, BootLegacy(s) PROVE SameWallet'
    <3>1. disk.pin \in Pins /\ disk.secrets \in Secrets
      BY <2>3, DiskKinds DEF BootLegacy, TypeOK, DiskOK, LegacyImage
    <3> DEFINE blob == EncryptIntoBlob(disk.secrets, s, DeriveKey(disk.pin, s))
    <3>2. DeriveKey(disk.pin, s) \in Keys
      BY <2>3, <3>1, KeyType
    <3>5. blob \in Image
      BY <2>3, <3>1, <3>2, BlobType
    <3>3. blob \in Image /\ blob.secrets = disk.secrets
      BY <3>5 DEF EncryptIntoBlob
    <3>4. image' = blob /\ disk' = disk
      BY <2>3 DEF BootLegacy, diskVars
    <3> HIDE DEF blob
    <3>. QED BY <3>3, <3>4, NoneAssumption DEF HasWallet, IsImage, IsLegacy
  <2>4. CASE PowerOff
    BY <2>4, PlainPayload DEF PowerOff, Screens
  <2>. QED BY <1>3, <2>1, <2>2, <2>3, <2>4 DEF Power
<1>4. CASE Attempt \/ VerifyRightPin \/ VerifyWrongPin
  <2>1. /\ app.at \in {"EnterPin", "PinVerifying"} /\ UNCHANGED <<disk, unread>>
        /\ image \in Image /\ image # None
    BY <1>4 DEF Attempt, BeginEnterPin, VerifyRightPin, VerifyWrongPin, diskVars,
       Held, ImageInHand, TypeOK, AtRestOK
  <2>2. CASE image' = image
    BY <2>1, <2>2 DEF HasWallet, IsImage, IsLegacy
  <2>3. ASSUME NEW f \in 0..MaxU8, NEW l \in BOOLEAN, image' = UpdateLockout(image, f, l)
        PROVE  SameWallet'
    <3>1. image' \in Image /\ image'.secrets = image.secrets
      BY <2>1, <2>3, LockoutType
    <3>. QED BY <2>1, <3>1, NoneAssumption DEF HasWallet, IsImage, IsLegacy
  <2>4. image' = image \/ \E f \in 0..MaxU8, l \in BOOLEAN : image' = UpdateLockout(image, f, l)
    <3>1. CASE Attempt
      BY <2>1, <3>1, Increment DEF Attempt, BeginEnterPin, WithLockout, TypeOK, AtRestOK
    <3>2. CASE VerifyRightPin \/ VerifyWrongPin
      BY <2>1, <3>2, VerdictImage DEF VerifyRightPin, VerifyWrongPin, TypeOK
    <3>. QED BY <1>4, <3>1, <3>2
  <2>. QED BY <2>2, <2>3, <2>4
<1>5. ASSUME NEW s \in Salts, SealWallet(s) PROVE SameWallet'
  <2>1. /\ app.at = "PinConfirming" /\ io = "idle" /\ UNCHANGED <<disk, unread>>
        /\ image' = EncryptIntoBlob([entropy |-> entropy, seed |-> seed], s, DeriveKey(app.pin, s))
    BY <1>5 DEF SealWallet, diskVars
  <2>2. image'.secrets = [entropy |-> entropy, seed |-> seed]
    BY <2>1 DEF EncryptIntoBlob
  <2>3. image # None => image.secrets = [entropy |-> entropy, seed |-> seed]
    BY <2>1 DEF Held, ImageInHand, PinOpensImage
  <2>4. image' # None
    <3>1. app.pin \in Pins /\ [entropy |-> entropy, seed |-> seed] \in Secrets
      BY <2>1 DEF Staged, Held, SecretsInHand, ChoosingPin, TypeOK, SecretsOK, Secrets
    <3>2. DeriveKey(app.pin, s) \in Keys
      BY <1>5, <3>1, KeyType
    <3>3. image' \in Image
      BY <1>5, <2>1, <3>1, <3>2, BlobType
    <3>. QED BY <3>3, NoneAssumption
  <2>. QED BY <2>1, <2>2, <2>3, <2>4 DEF HasWallet, IsImage, IsLegacy
<1>6. CASE WriteReturns
  <2>1. image \in Image /\ image # None /\ unread' = unread /\ disk' \in {disk, image}
    BY <1>6, WritesImage, PersistOutcome, NoneAssumption DEF TypeOK
  <2>2. image' = image \/ \E f \in 0..MaxU8, l \in BOOLEAN : image' = UpdateLockout(image, f, l)
    <3>1. CASE CheckSessionPin
      BY <2>1, <3>1, VerdictImage DEF CheckSessionPin, TypeOK
    <3>2. CASE ~CheckSessionPin
      BY <1>6, <3>2 DEF WriteReturns, MigrateWritten, FromDiskImage, ParkVerifying, OpenGate,
         LockOut, SaveWritten, atRest
    <3>. QED BY <3>1, <3>2
  <2>3. image' \in Image /\ image'.secrets = image.secrets
    <3>1. ASSUME NEW f \in 0..MaxU8, NEW l \in BOOLEAN, image' = UpdateLockout(image, f, l)
          PROVE  image' \in Image /\ image'.secrets = image.secrets
      BY <2>1, <3>1, LockoutType
    <3>. QED BY <2>1, <2>2, <3>1
  <2>4. app.at # "Off" \/ io = "migrate"
    BY <1>6 DEF WriteReturns, MigrateWritten, CheckSessionPin, ParkVerifying, OpenGate, LockOut,
       SaveWritten, Staged
  <2>. QED BY <2>1, <2>3, <2>4, NoneAssumption DEF HasWallet, IsImage, IsLegacy
<1>. QED BY <1>1, <1>2, <1>3, <1>4, <1>5, <1>6 DEF Next, ProcessPending
=============================================================================
