-------------------------- MODULE ColdWalletProofs --------------------------
(***************************************************************************)
(* The inductive invariant of ColdWallet, and what follows from it: the    *)
(* safety properties of ColdWalletProperties, for every value of the       *)
(* constants, and the refinement of PinLockout.                            *)
(***************************************************************************)
EXTENDS ColdWalletSteps

-----------------------------------------------------------------------------
(* NotInUse *)

\* What a boot would find after a write: the image, or what was there before.
LEMMA DiskAfterWrite ==
    ASSUME TypeOK, Staged, Held, WriteReturns
    PROVE  /\ image \in Image /\ image # None /\ unread' = unread
           /\ \/ disk' = image /\ lost' = lost
                 /\ (LockedOnDisk' <=> image.locked) /\ DiskFailures' = image.failures
              \/ disk' = disk /\ lost' = lost + 1
                 /\ (LockedOnDisk' <=> LockedOnDisk) /\ DiskFailures' = DiskFailures
<1>1. /\ image \in Image /\ image # None /\ unread' = unread
      /\ \/ disk' = image /\ lost' = lost
         \/ disk' = disk /\ lost' = lost + 1
  BY WritesImage, PersistOutcome, NoneAssumption DEF TypeOK
<1>2. CASE disk' = image /\ lost' = lost
  <2>1. IsImage(disk')
    BY <1>1, <1>2, NoneAssumption DEF IsImage, Image
  <2>. QED BY <1>1, <1>2, <2>1 DEF LockedOnDisk, DiskFailures
<1>3. CASE disk' = disk /\ lost' = lost + 1
  BY <1>1, <1>3 DEF LockedOnDisk, DiskFailures, IsImage
<1>. QED BY <1>1, <1>2, <1>3

\* A wallet locked on disk is never opened, so nothing writes to it.
LEMMA NotInUseStep ==
    ASSUME TypeOK, Staged, Held, NotInUse, [Next]_vars
    PROVE  NotInUse'
<1> USE DEF Showing, NotInUse
<1>1. CASE UNCHANGED vars
  BY <1>1 DEF vars, diskVars, LockedOnDisk, IsImage
<1>2. CASE Setup \/ PinPad \/ Browse
  <2>1. app.at \notin {"Off", "PinLocked"}
    BY <1>2, SetupMoves, PinPadMoves, BrowseMoves DEF SetupScreens, ChoosingPin, SessionScreens
  <2>. QED BY <1>2, <2>1, Quiet DEF diskVars, LockedOnDisk, IsImage
<1>3. CASE Power
  <2>1. CASE BootFresh \/ BootUnread
    <3>1. ~IsImage(disk) \/ unread' = unread + 1
      BY <2>1 DEF BootFresh, BootUnread
    <3>2. UNCHANGED disk /\ unread \in Nat
      BY <2>1 DEF BootFresh, BootUnread, diskVars, TypeOK, DiskOK
    <3>. QED BY <3>1, <3>2 DEF LockedOnDisk, IsImage
  <2>2. CASE BootSealed
    BY <2>2, PlainPayload DEF BootSealed, FromDiskImage, LockedOnDisk, IsImage, diskVars, Screens
  <2>3. CASE \E s \in Salts : BootLegacy(s)
    <3>1. UNCHANGED disk /\ IsLegacy(disk)
      BY <2>3 DEF BootLegacy, diskVars
    <3>. QED BY <3>1 DEF LockedOnDisk, IsImage, IsLegacy
  <2>4. CASE PowerOff
    BY <2>4, PlainPayload DEF PowerOff, Screens
  <2>. QED BY <1>3, <2>1, <2>2, <2>3, <2>4 DEF Power
<1>4. CASE Attempt \/ ProcessPending
  <2>1. /\ UNCHANGED <<disk, unread>> /\ app.at \in {"EnterPin", "PinVerifying", "PinConfirming"}
    BY <1>4 DEF Attempt, BeginEnterPin, ProcessPending, VerifyRightPin, VerifyWrongPin, SealWallet,
       diskVars
  <2>. QED BY <2>1 DEF LockedOnDisk, IsImage
<1>5. CASE WriteReturns
  <2>1. io # "idle"
    BY <1>5 DEF WriteReturns, MigrateWritten, CheckSessionPin, ParkVerifying, OpenGate, LockOut,
       SaveWritten
  <2>2. CASE LockOut
    BY <2>2, PlainPayload DEF LockOut, Screens
  <2>3. CASE ~LockOut
    <3>1. ~image.locked
      BY <1>5, <2>3 DEF WriteReturns, MigrateWritten, CheckSessionPin, ParkVerifying, OpenGate,
         SaveWritten, Staged
    <3>. QED BY <1>5, <2>1, <3>1, DiskAfterWrite
  <2>. QED BY <2>2, <2>3
<1>. QED BY <1>1, <1>2, <1>3, <1>4, <1>5 DEF Next

-----------------------------------------------------------------------------
(* The count of wrong PINs *)

\* The counters are numbers.
LEMMA Numbers ==
    ASSUME TypeOK
    PROVE  /\ misses \in Nat /\ lost \in Nat /\ failures \in Nat /\ failures <= MaxU8
           /\ DiskFailures \in Nat /\ PIN_MAX_ATTEMPTS \in Nat /\ PIN_MAX_ATTEMPTS > 0
           /\ PIN_MAX_ATTEMPTS <= MaxU8
<1>1. misses \in Nat /\ lost \in Nat /\ failures \in Nat /\ failures <= MaxU8
  BY LimitsAssumption DEF TypeOK, DiskOK, AtRestOK
<1>2. DiskFailures \in Nat
  <2>1. CASE IsImage(disk)
    <3>1. disk.failures \in 0..MaxU8
      BY <2>1, DiskKinds DEF TypeOK, DiskOK, Image
    <3>. QED BY <2>1, <3>1 DEF DiskFailures
  <2>. QED BY <2>1 DEF DiskFailures
<1>. QED BY <1>1, <1>2, LimitsAssumption

\* Facts about sums, stated for constants: primed variables go beyond the provers otherwise.
LEMMA NatSum ==
    ASSUME NEW a \in Nat, NEW b \in Nat
    PROVE  a + b \in Nat /\ 0 <= a + b /\ (a > 0 => 0 + 1 <= a + b)
  OBVIOUS

\* Strictly below, for constants.
LEMMA Below ==
    ASSUME NEW a \in Nat, NEW b \in Nat, a + 1 <= b
    PROVE  a <= b /\ a # b
  OBVIOUS

\* A handler that neither counts nor writes, and does not make the gate active.
LEMMA CountedIdle ==
    ASSUME Counted, GuessBound, UNCHANGED <<misses, lost, failures, disk>>,
           io' \in {"idle", "migrate", "save"}, app'.at # "PinVerifying",
           Active' => Active /\ io = "idle"
    PROVE  Counted' /\ GuessBound'
<1>1. DiskFailures' = DiskFailures /\ (LockedOnDisk' <=> LockedOnDisk)
  BY DEF DiskFailures, LockedOnDisk, IsImage
<1>2. ~Written' /\ ~InFlight'
  BY DEF Written, InFlight
<1>. QED BY <1>1, <1>2 DEF Counted, GuessBound

\* The parts of Counted for a wallet that may ask for a PIN; GuessBound follows.
LEMMA CountedActive ==
    ASSUME misses' \in Nat, lost' \in Nat, failures' \in Nat, DiskFailures' \in Nat,
           misses' + 1 <= PIN_MAX_ATTEMPTS + lost', misses' <= failures' + lost',
           InFlight' => misses' + 1 <= failures' + lost',
           LockedOnDisk' \/ misses' <= DiskFailures' + lost',
           Written' => LockedOnDisk' \/ misses' + 1 <= DiskFailures' + lost'
    PROVE  Counted' /\ GuessBound'
<1>1. Counted'
  BY DEF Counted
<1>2. GuessBound'
  <2>1. PIN_MAX_ATTEMPTS + lost' \in Nat
    BY NatSum, LimitsAssumption, Zenon
  <2>2. misses' <= PIN_MAX_ATTEMPTS + lost' /\ misses' # PIN_MAX_ATTEMPTS + lost'
    BY <2>1, Below, Zenon
  <2>. QED BY <2>2 DEF GuessBound
<1>. QED BY <1>1, <1>2

\* Steps that neither try a PIN nor write keep the count.
LEMMA QuietCounted ==
    ASSUME TypeOK, Held, Counted, GuessBound, Setup \/ PinPad \/ Browse
    PROVE  Counted' /\ GuessBound'
<1>1. io = "idle" /\ io' = "idle" /\ UNCHANGED <<misses, lost, failures, disk, pin>>
  BY Quiet DEF atRest, diskVars
<1>2. app'.at # "PinVerifying" /\ app'.at # "PinLocked" /\ app.at # "PinLocked"
      /\ (app'.at = "EnterPin" => app.at \in {"EnterPin"} \cup SessionScreens)
  BY SetupMoves, PinPadMoves, BrowseMoves DEF SetupScreens, ChoosingPin, SessionScreens
<1>3. Active' => Active
  BY <1>1, <1>2 DEF Active, Held, PinInHand
<1>. QED BY <1>1, <1>2, <1>3, CountedIdle

\* A boot takes the counter from the disk, which covers the verdicts given.
LEMMA PowerCounted ==
    ASSUME TypeOK, Held, Counted, GuessBound, Power
    PROVE  Counted' /\ GuessBound'
<1> USE DEF Screens, Showing
<1>1. CASE BootFresh \/ BootUnread \/ PowerOff \/ \E s \in Salts : BootLegacy(s)
  <2>1. UNCHANGED <<misses, lost, disk>> /\ io' \in {"idle", "migrate"}
    BY <1>1 DEF BootFresh, BootUnread, PowerOff, BootLegacy, diskVars
  <2>2. app'.at \in {"Welcome", "Off"} /\ pin' = None
    BY <1>1, PlainPayload DEF BootFresh, BootUnread, PowerOff, BootLegacy, Held, PinInHand, atRest
  <2>3. ~Active'
    BY <2>2 DEF Active
  <2>4. DiskFailures' = DiskFailures /\ (LockedOnDisk' <=> LockedOnDisk)
    BY <2>1 DEF DiskFailures, LockedOnDisk, IsImage
  <2>5. ~Written'
    BY <2>1, <2>2 DEF Written
  <2>. QED BY <2>1, <2>3, <2>4, <2>5 DEF Counted, GuessBound
<1>2. CASE BootSealed
  <2>1. /\ UNCHANGED <<misses, lost, disk>> /\ io' = "idle" /\ pin' = None /\ IsImage(disk)
        /\ failures' = disk.failures
        /\ app' = IF disk.locked THEN Screen("PinLocked") ELSE EnterPin("Unlock")
    BY <1>2 DEF BootSealed, FromDiskImage, Held, PinInHand, diskVars
  <2>2. DiskFailures' = DiskFailures /\ (LockedOnDisk' <=> LockedOnDisk)
    BY <2>1 DEF DiskFailures, LockedOnDisk, IsImage
  <2>3. LockedOnDisk => app'.at = "PinLocked"
    BY <2>1, PlainPayload DEF LockedOnDisk
  <2>4. ~LockedOnDisk => app'.at = "EnterPin" /\ failures' = DiskFailures
    BY <2>1, GatePayload DEF LockedOnDisk, DiskFailures
  <2>5. ~Written' /\ ~InFlight'
    BY <2>1, <2>3, <2>4 DEF Written, InFlight
  <2>6. Active' => ~LockedOnDisk
    BY <2>1, <2>3 DEF Active
  <2>7. ~LockedOnDisk => misses + 1 <= PIN_MAX_ATTEMPTS + lost /\ misses <= DiskFailures + lost
    BY Numbers DEF Counted, GuessBound
  <2>. QED BY <2>1, <2>2, <2>4, <2>5, <2>6, <2>7 DEF Counted, GuessBound
<1>. QED BY <1>1, <1>2 DEF Power

\* The write-ahead raises the counter before there is a verdict.
LEMMA AttemptCounted ==
    ASSUME TypeOK, Held, Counted, GuessBound, Attempt
    PROVE  Counted' /\ GuessBound'
<1>1. /\ app.at = "EnterPin" /\ io = "idle" /\ io' = "ahead"
      /\ failures' = SaturatingIncrement(failures) /\ UNCHANGED <<misses, lost, disk>>
      /\ \E d \in Digits : app' = [app EXCEPT !.digits = Append(@, d)]
  BY DEF Attempt, BeginEnterPin, Showing, diskVars
<1>2. failures' = failures + 1 \/ (failures' = failures /\ failures = MaxU8)
  BY <1>1, Increment DEF TypeOK, AtRestOK
<1>3. app'.at = "EnterPin"
  BY <1>1, DigitsPayload DEF TypeOK, Fits
<1>4. DiskFailures' = DiskFailures /\ (LockedOnDisk' <=> LockedOnDisk)
  BY <1>1 DEF DiskFailures, LockedOnDisk, IsImage
<1>5. Active /\ Active' /\ InFlight' /\ ~Written'
  BY <1>1, <1>3 DEF Active, InFlight, Written
<1>6. misses + 1 <= PIN_MAX_ATTEMPTS + lost /\ misses <= failures + lost
  BY <1>1, <1>5 DEF Counted
<1>7. misses + 1 <= failures' + lost
  BY <1>2, <1>6, Numbers
<1>8. misses \in Nat /\ lost \in Nat /\ failures' \in Nat /\ misses <= failures' + lost
  BY <1>2, <1>7, Numbers
<1>9. LockedOnDisk \/ misses <= DiskFailures + lost
  BY DEF Counted
<1>. QED BY <1>1, <1>4, <1>5, <1>6, <1>7, <1>8, <1>9, Numbers, CountedActive

\* The verdict on a PIN: its count is already on record.
LEMMA VerdictCounted ==
    ASSUME NEW correct \in BOOLEAN, FinalizeEnterPin(correct), TypeOK, image # None,
           app.at \in {"EnterPin", "PinVerifying"}, GuessBound, Counted, lost' \in Nat, lost <= lost',
           io \in {"idle", "ahead"}, InFlight,
           LockedOnDisk' \/ misses + 1 <= DiskFailures' + lost', DiskFailures' \in Nat
    PROVE  Counted' /\ GuessBound'
<1>1. Active
  BY DEF Active
<1>2. misses + 1 <= PIN_MAX_ATTEMPTS + lost' /\ misses + 1 <= failures + lost'
  BY <1>1, Numbers DEF Counted
<1>3. LockedOnDisk' \/ misses <= DiskFailures' + lost'
  BY Numbers
<1>4. CASE io' = "reset" /\ app' = app /\ misses' = misses
  <2>1. ~Written'
    BY <1>4 DEF Written
  <2>. QED BY <1>2, <1>3, <1>4, <2>1, Numbers DEF Counted, GuessBound
<1>5. CASE io' = "lock" /\ app' = app /\ misses' = misses /\ failures' = failures
  BY <1>2, <1>3, <1>5, Numbers DEF Counted, GuessBound
<1>6. CASE /\ io' = "idle" /\ app' = EnterPin(app.gate) /\ misses' = misses + 1
           /\ failures' = failures /\ ~(failures >= PIN_MAX_ATTEMPTS)
  <2>1. ~Written' /\ ~InFlight'
    BY <1>6, GatePayload DEF Written, InFlight
  <2>2. misses' + 1 <= PIN_MAX_ATTEMPTS + lost'
    BY <1>2, <1>6, Numbers
  <2>. QED BY <1>2, <1>6, <2>1, <2>2, Numbers DEF Counted, GuessBound
<1>. QED BY <1>4, <1>5, <1>6, FinalizeOutcome DEF TypeOK

\* A verdict uses up the attempt that the write-ahead has paid for.
LEMMA PendingCounted ==
    ASSUME TypeOK, Staged, Held, Counted, GuessBound, ProcessPending
    PROVE  Counted' /\ GuessBound'
<1>1. CASE VerifyRightPin \/ VerifyWrongPin
  <2>1. /\ app.at = "PinVerifying" /\ io = "idle" /\ UNCHANGED <<disk, lost>> /\ image # None
        /\ \E correct \in BOOLEAN : FinalizeEnterPin(correct)
    BY <1>1 DEF VerifyRightPin, VerifyWrongPin, Showing, diskVars, Held, ImageInHand
  <2>2. DiskFailures' = DiskFailures /\ (LockedOnDisk' <=> LockedOnDisk)
    BY <2>1 DEF DiskFailures, LockedOnDisk, IsImage
  <2>3. InFlight /\ Written
    BY <2>1 DEF InFlight, Written
  <2>4. LockedOnDisk \/ misses + 1 <= DiskFailures + lost
    BY <2>3 DEF Counted
  <2>5. lost \in Nat /\ lost <= lost /\ DiskFailures \in Nat
    BY Numbers
  <2>. QED BY <2>1, <2>2, <2>3, <2>4, <2>5, VerdictCounted
<1>2. ASSUME NEW s \in Salts, SealWallet(s) PROVE Counted' /\ GuessBound'
  <2>1. /\ app.at = "PinConfirming" /\ app' = app /\ io' = "save" /\ UNCHANGED <<misses, lost, disk>>
    BY <1>2 DEF SealWallet, Showing, diskVars
  <2>2. ~Active' /\ ~Written'
    BY <2>1 DEF Active, Written
  <2>3. DiskFailures' = DiskFailures /\ (LockedOnDisk' <=> LockedOnDisk)
    BY <2>1 DEF DiskFailures, LockedOnDisk, IsImage
  <2>. QED BY <2>1, <2>2, <2>3 DEF Counted, GuessBound
<1>. QED BY <1>1, <1>2 DEF ProcessPending

\* A write that lands moves the cover to the disk; one that is lost is paid for by `lost`.
LEMMA WritesCounted ==
    ASSUME TypeOK, Staged, Held, Counted, GuessBound, WriteReturns
    PROVE  Counted' /\ GuessBound'
<1> USE DEF Screens
<1>1. /\ image \in Image /\ image # None
      /\ \/ lost' = lost /\ (LockedOnDisk' <=> image.locked) /\ DiskFailures' = image.failures
         \/ lost' = lost + 1 /\ (LockedOnDisk' <=> LockedOnDisk) /\ DiskFailures' = DiskFailures
  BY DiskAfterWrite
<1>2. lost' \in Nat /\ lost <= lost' /\ DiskFailures' \in Nat /\ image.failures \in Nat
  <2>1. image.failures \in Nat
    BY <1>1, LimitsAssumption DEF Image
  <2>. QED BY <1>1, <2>1, Numbers
<1>3. io # "migrate" => image.failures = failures
  BY <1>1 DEF Held, ImageInHand, Staged, WriteReturns, MigrateWritten, CheckSessionPin, ParkVerifying,
     OpenGate, LockOut, SaveWritten
<1>4. CASE MigrateWritten
  <2>1. /\ ~image.locked /\ image.failures = 0 /\ IsLegacy(disk) /\ misses' = misses /\ io' = "idle"
        /\ failures' = image.failures
        /\ app' \in {Screen("PinLocked"), EnterPin("Unlock")}
    BY <1>4 DEF MigrateWritten, FromDiskImage, Staged
  <2>2. ~LockedOnDisk /\ DiskFailures = 0
    BY <2>1 DEF LockedOnDisk, DiskFailures, IsImage, IsLegacy
  <2>3. app'.at # "PinVerifying"
    BY <2>1, PlainPayload, GatePayload
  <2>4. ~Written' /\ ~InFlight'
    BY <2>1, <2>3 DEF Written, InFlight
  <2>5. misses + 1 <= PIN_MAX_ATTEMPTS + lost /\ misses <= lost
    BY <2>2, Numbers DEF Counted, GuessBound
  <2>6. misses' + 1 <= PIN_MAX_ATTEMPTS + lost' /\ misses' <= failures' + lost'
        /\ misses' <= DiskFailures' + lost'
    BY <1>1, <1>2, <2>1, <2>5, Numbers
  <2>. QED BY <1>2, <2>1, <2>4, <2>6, Numbers, CountedActive
<1>5. CASE io \in {"ahead", "lock"}
  <2>1. app.at \in {"EnterPin", "PinVerifying"} /\ failures = image.failures
    BY <1>3, <1>5 DEF Staged
  <2>2. InFlight /\ Active
    BY <1>5, <2>1 DEF InFlight, Active
  <2>3. /\ misses + 1 <= PIN_MAX_ATTEMPTS + lost /\ misses + 1 <= failures + lost
        /\ LockedOnDisk \/ misses <= DiskFailures + lost
    BY <1>5, <2>2 DEF Counted
  <2>4. LockedOnDisk' \/ misses + 1 <= DiskFailures' + lost'
    BY <1>1, <2>1, <2>3, Numbers
  <2>5. CASE CheckSessionPin
    <3>1. io = "ahead" /\ FinalizeEnterPin(app.digits = pin)
      BY <2>5 DEF CheckSessionPin
    <3>. QED BY <1>1, <1>2, <2>1, <2>2, <2>4, <3>1, VerdictCounted
  <2>6. CASE ParkVerifying
    <3>1. misses' = misses /\ failures' = failures /\ io' = "idle"
      BY <2>6 DEF ParkVerifying, atRest
    <3>2. /\ misses + 1 <= PIN_MAX_ATTEMPTS + lost' /\ misses + 1 <= failures + lost'
          /\ LockedOnDisk' \/ misses <= DiskFailures' + lost'
      BY <1>2, <2>3, <2>4, Numbers
    <3>. QED BY <1>2, <2>4, <3>1, <3>2, Numbers DEF Counted, GuessBound
  <2>7. CASE LockOut
    <3>1. io = "lock" /\ io' = "idle" /\ misses' = misses + 1 /\ app'.at = "PinLocked" /\ image.locked
      BY <2>7, PlainPayload DEF LockOut, Staged
    <3>2. ~Active' /\ ~Written'
      BY <3>1 DEF Active, Written
    <3>3. misses' <= PIN_MAX_ATTEMPTS + lost' /\ (misses' = PIN_MAX_ATTEMPTS + lost' => LockedOnDisk')
      BY <1>1, <2>3, <3>1, Numbers
    <3>. QED BY <2>4, <3>1, <3>2, <3>3 DEF Counted, GuessBound
  <2>. QED BY <1>5, <2>5, <2>6, <2>7 DEF WriteReturns, MigrateWritten, OpenGate, SaveWritten
<1>6. CASE OpenGate \/ SaveWritten
  <2>1. misses' = 0 /\ io' = "idle" /\ failures' = failures
    BY <1>6 DEF OpenGate, SaveWritten, atRest
  <2>2. app'.at # "PinVerifying"
    <3>1. CASE OpenGate
      <4>1. app' \in {Screen("Home"), Screen("ShowMnemonic"), Screen("SetPin")}
        BY <3>1 DEF OpenGate, GateTarget, Staged, Gates
      <4>. QED BY <4>1, PlainPayload
    <3>2. CASE SaveWritten
      BY <3>2, PlainPayload DEF SaveWritten
    <3>. QED BY <1>6, <3>1, <3>2
  <2>3. ~InFlight' /\ ~Written'
    BY <2>1, <2>2 DEF InFlight, Written
  <2>4. 0 + 1 <= PIN_MAX_ATTEMPTS + lost' /\ 0 <= failures + lost' /\ 0 <= DiskFailures' + lost'
    <3>1. PIN_MAX_ATTEMPTS \in Nat /\ PIN_MAX_ATTEMPTS > 0 /\ failures \in Nat /\ lost \in Nat
      BY Numbers
    <3>. QED BY <1>2, <3>1, NatSum, Zenon
  <2>. QED BY <1>2, <2>1, <2>3, <2>4, Numbers, CountedActive
<1>. QED BY <1>4, <1>5, <1>6 DEF WriteReturns, CheckSessionPin, ParkVerifying, LockOut

\* Counted and GuessBound are kept by every step.
LEMMA CountedStep ==
    ASSUME TypeOK, Staged, Held, Counted, GuessBound, [Next]_vars
    PROVE  Counted' /\ GuessBound'
<1>1. CASE UNCHANGED vars
  BY <1>1 DEF vars, atRest, diskVars, Counted, GuessBound, Active, InFlight, Written,
     LockedOnDisk, DiskFailures, IsImage
<1>. QED BY <1>1, QuietCounted, PowerCounted, AttemptCounted, PendingCounted, WritesCounted DEF Next

-----------------------------------------------------------------------------
(* The disk and the transaction in hand *)

\* The disk follows RAM at every write that lands.
LEMMA MirrorStep ==
    ASSUME TypeOK, Staged, Held, DiskMirrorsRam, [Next]_vars
    PROVE  DiskMirrorsRam'
<1> USE DEF DiskMirrorsRam, Showing
<1>1. CASE UNCHANGED vars
  BY <1>1 DEF vars, atRest, diskVars
<1>2. CASE Setup \/ PinPad \/ Browse
  BY <1>2, Quiet DEF atRest, diskVars
<1>3. CASE Power \/ Attempt
  BY <1>3 DEF Power, BootFresh, BootUnread, BootSealed, FromDiskImage, BootLegacy, PowerOff,
     Attempt, BeginEnterPin, atRest, diskVars
<1>4. CASE ProcessPending
  BY <1>4 DEF ProcessPending, VerifyRightPin, VerifyWrongPin, FinalizeEnterPin, SealWallet, diskVars
<1>5. CASE WriteReturns
  <2>1. /\ lost \in Nat
        /\ (disk' = image /\ lost' = lost) \/ (disk' = disk /\ lost' = lost + 1)
    BY <1>5, DiskAfterWrite, Numbers
  <2>2. lost' = 0 => disk' = image
    BY <2>1
  <2>3. io' = "idle" => image' = image
    BY <1>5 DEF WriteReturns, MigrateWritten, FromDiskImage, CheckSessionPin, FinalizeEnterPin,
       ParkVerifying, OpenGate, LockOut, SaveWritten, atRest
  <2>. QED BY <2>2, <2>3
<1>. QED BY <1>1, <1>2, <1>3, <1>4, <1>5 DEF Next

\* The transaction in hand is set by the scan, signed by the confirmation and cleared on the way Home.
LEMMA ReviewStep ==
    ASSUME TypeOK, Staged, Held, SignsWhatWasReviewed, [Next]_vars
    PROVE  SignsWhatWasReviewed'
<1> USE DEF SignsWhatWasReviewed, Showing, Screens
<1> DEFINE Away(at) == at \notin {"SignScan", "SignReview", "SignResult"}
<1>1. ASSUME UNCHANGED txVars, Away(app.at), Away(app'.at) PROVE SignsWhatWasReviewed'
  BY <1>1 DEF txVars
<1>2. CASE UNCHANGED vars
  BY <1>2 DEF vars, secretVars, txVars
<1>3. CASE Setup
  BY <1>1, <1>3, SetupMoves DEF SetupScreens
<1>4. CASE PinPad
  BY <1>1, <1>4, PinPadMoves DEF ChoosingPin
<1>5. CASE PowerOff
  BY <1>5, PlainPayload DEF PowerOff
<1>6. CASE BootFresh \/ BootUnread \/ BootSealed \/ \E s \in Salts : BootLegacy(s)
  <2>1. UNCHANGED txVars /\ app.at = "Off"
        /\ app' \in {app, Screen("Welcome"), Screen("PinLocked"), EnterPin("Unlock")}
    BY <1>6 DEF BootFresh, BootUnread, BootSealed, FromDiskImage, BootLegacy
  <2>. QED BY SMTT(30), <1>1, <2>1, PlainPayload, GatePayload
<1>7. CASE Attempt
  <2>1. /\ UNCHANGED txVars /\ app.at = "EnterPin"
        /\ \E d \in Digits : app' = [app EXCEPT !.digits = Append(@, d)]
    BY <1>7 DEF Attempt, BeginEnterPin
  <2>. QED BY <1>1, <2>1, DigitsPayload DEF TypeOK, Fits
<1>8. CASE ProcessPending
  <2>1. /\ UNCHANGED txVars /\ app.at \in {"PinVerifying", "PinConfirming"}
        /\ app' \in {app, EnterPin(app.gate)}
    BY <1>8 DEF ProcessPending, VerifyRightPin, VerifyWrongPin, FinalizeEnterPin, SealWallet
  <2>. QED BY <1>1, <2>1, GatePayload
<1>9. CASE WriteReturns
  <2>1. UNCHANGED txVars /\ Away(app.at)
    BY <1>9 DEF WriteReturns, MigrateWritten, CheckSessionPin, ParkVerifying, OpenGate, LockOut,
       SaveWritten, Staged
  <2>2. \/ app' \in {app, EnterPin(app.gate), EnterPin("Unlock"), [app EXCEPT !.at = "PinVerifying"]}
        \/ \E s \in {"Home", "ShowMnemonic", "SetPin", "PinLocked"} : app' = Screen(s)
    BY <1>9 DEF WriteReturns, MigrateWritten, FromDiskImage, CheckSessionPin, FinalizeEnterPin,
       ParkVerifying, OpenGate, GateTarget, LockOut, SaveWritten, Staged, Gates
  <2>3. Away(app'.at)
    <3>1. CASE app' \in {app, EnterPin(app.gate), EnterPin("Unlock"), [app EXCEPT !.at = "PinVerifying"]}
      BY <2>1, <3>1 DEF EnterPin, Screen, TypeOK, Fits, AppStates
    <3>2. ASSUME NEW s \in {"Home", "ShowMnemonic", "SetPin", "PinLocked"}, app' = Screen(s)
          PROVE  Away(app'.at)
      BY <3>2 DEF Screen
    <3>. QED BY <2>2, <3>1, <3>2
  <2>. QED BY <1>1, <2>1, <2>3
<1>10. CASE Browse
  <2>1. ASSUME NEW from \in Screens, NEW to \in Screens, Navigate(from, to)
        PROVE  SignsWhatWasReviewed'
    <3>1. /\ app.at = from /\ app'.at = to /\ <<from, to>> \in NavEdges /\ UNCHANGED secretVars
          /\ IF to = "Home" THEN ClearTx ELSE UNCHANGED txVars
      BY <2>1, PlainPayload DEF Navigate
    <3>2. CASE to = "Home"
      BY <3>1, <3>2 DEF ClearTx
    <3>3. CASE to # "Home"
      <4>1. Away(from) /\ to \notin {"SignReview", "SignResult"}
        BY <3>1, <3>3 DEF NavEdges
      <4>. QED BY <3>1, <3>3, <4>1 DEF txVars
    <3>. QED BY <3>2, <3>3
  <2>2. CASE (\E gate \in Gates : AskPin(gate)) \/ NextPage \/ PrevPage
    <3>1. UNCHANGED txVars /\ app.at \in {"Settings", "NewWallet", "ShowMnemonic"}
      BY <2>2 DEF AskPin, NextPage, PrevPage
    <3>2. app' \in {Screen("EnterPassphrase"), Screen("Settings"), [app EXCEPT !.page = @ + 1],
                    [app EXCEPT !.page = @ - 1]} \/ \E gate \in Gates : app' = EnterPin(gate)
      <4>1. app.page < LastPage \/ app.page >= LastPage
        BY LimitsAssumption DEF TypeOK, Fits, AppStates
      <4>. QED BY <2>2, <4>1 DEF AskPin, NextPage, PrevPage
    <3>3. Away(app'.at)
      BY SMTT(30), <3>1, <3>2 DEF EnterPin, Screen, TypeOK, Fits, AppStates
    <3>. QED BY <1>1, <3>1, <3>3
  <2>3. ASSUME NEW p \in Psbts, ScanPsbt(p) PROVE SignsWhatWasReviewed'
    BY <2>3, PlainPayload, NoneAssumption DEF ScanPsbt
  <2>4. CASE ScanGarbage
    BY <2>4 DEF ScanGarbage
  <2>5. CASE ConfirmReview
    BY <2>5, PlainPayload DEF ConfirmReview, secretVars
  <2>6. CASE \E from, to \in Screens : Navigate(from, to)
    BY <2>1, <2>6
  <2>7. CASE \E p \in Psbts : ScanPsbt(p)
    BY <2>3, <2>7
  <2>. QED BY Zenon, <1>10, <2>2, <2>4, <2>5, <2>6, <2>7 DEF Browse
<1>. QED BY <1>2, <1>3, <1>4, <1>5, <1>6, <1>7, <1>8, <1>9, <1>10 DEF Next, Power

-----------------------------------------------------------------------------
(* The inductive invariant *)

\* The wallet is off, and the disk holds nothing, garbage or a v1 wallet.
LEMMA InitInvariant == Init => IInv
<1> SUFFICES ASSUME Init PROVE IInv
  OBVIOUS
<1>1. /\ app.at = "Off" /\ io = "idle" /\ misses = 0 /\ lost = 0 /\ unread = 0
      /\ pin = None /\ image = None /\ psbt = None /\ signed = None /\ scanError = FALSE
  BY PlainPayload DEF Init, NewWallet, Screens
<1>2. disk \in {None, Foreign} \/ (IsLegacy(disk) /\ Consistent(disk.secrets))
  <2>1. ASSUME NEW p \in Pins, NEW e \in Entropies, NEW s \in Passphrases,
               disk = [version |-> 1, pin |-> p, secrets |-> [entropy |-> e, seed |-> ToSeed(e, s)]]
        PROVE  IsLegacy(disk) /\ Consistent(disk.secrets)
    <3>1. disk \in LegacyImage
      BY <2>1 DEF LegacyImage, Secrets, Seeds, ToSeed
    <3>2. disk.version = 1 /\ Consistent(disk.secrets)
      BY <2>1 DEF Consistent, ToSeed
    <3>. QED BY <3>1, <3>2, NoneAssumption DEF IsLegacy
  <2>. QED BY <2>1 DEF Init
<1>3. ~IsImage(disk)
  BY <1>2 DEF IsImage, IsLegacy
<1>4. Staged
  BY <1>1 DEF Staged
<1>5. Held
  BY <1>1 DEF Held, SecretsInHand, PinInHand, ImageInHand, PinOpensImage, ChoosingPin,
     SessionScreens, SetupScreens
<1>6. Genuine /\ SameWallet /\ NotInUse
  BY <1>1, <1>2, <1>3 DEF Genuine, SameWallet, NotInUse, LockedOnDisk, HasWallet, IsLegacy
<1>7. GuessBound /\ Counted
  <2>1. ~Active /\ ~Written /\ DiskFailures = 0
    BY <1>1, <1>3 DEF Active, Written, DiskFailures
  <2>. QED BY <1>1, <2>1, LimitsAssumption DEF GuessBound, Counted
<1>8. DiskMirrorsRam /\ SignsWhatWasReviewed
  BY <1>1 DEF DiskMirrorsRam, SignsWhatWasReviewed
<1>. QED BY InitType, <1>4, <1>5, <1>6, <1>7, <1>8 DEF IInv

\* The inductive step.
LEMMA NextInvariant == IInv /\ [Next]_vars => IInv'
  BY TypeStep, StagedStep, HeldStep, GenuineStep, SameWalletStep, NotInUseStep, CountedStep,
     MirrorStep, ReviewStep DEF IInv

\* Every reachable state satisfies the inductive invariant, for all values of the constants.
THEOREM Invariance == Spec => []IInv
  BY InitInvariant, NextInvariant, PTL DEF Spec

-----------------------------------------------------------------------------
(* Invariants *)

\* Every variable of the wallet keeps its Rust type: the failure counter stays a
\* u8 (begin_enter_pin adds to it with saturating_add), a buffer of the screens
\* never exceeds its array.
THEOREM TypeCorrect == Spec => []TypeOK
<1>1. IInv => TypeOK
  BY DEF IInv
<1>. QED BY <1>1, Invariance, PTL

\* Nobody is told more than PIN_MAX_ATTEMPTS times in a row that a PIN is wrong,
\* however the power is cut between begin_enter_pin and finalize_enter_pin, and
\* one more time for each write that persist_blob lost.
THEOREM GuessesAreBounded == Spec => []GuessBound
<1>1. IInv => GuessBound
  BY DEF IInv
<1>. QED BY <1>1, Invariance, PTL

\* Unless a write was lost, a power-off between two handlers comes back to the
\* image that persist_blob was last given.
THEOREM DiskMirrorsRamAlways == Spec => []DiskMirrorsRam
<1>1. IInv => DiskMirrorsRam
  BY DEF IInv
<1>. QED BY <1>1, Invariance, PTL

\* While process_pin_verifying is due at cold start, the write-ahead of
\* begin_enter_pin has counted the attempt on disk.
THEOREM AttemptsAreCounted == Spec => []AttemptIsCounted
<1>1. IInv => AttemptIsCounted
  <2> SUFFICES ASSUME IInv, Showing("PinVerifying"), lost = 0
               PROVE  IsImage(disk) /\ disk.failures = failures
    BY DEF AttemptIsCounted
  <2>1. image # None /\ image.failures = failures /\ image \in Image
    BY DEF Showing, IInv, Held, ImageInHand, TypeOK, AtRestOK
  <2>2. disk = image
    BY <2>1 DEF Showing, IInv, DiskMirrorsRam
  <2>. QED BY <2>1, <2>2, NoneAssumption DEF IsImage, Image
<1>. QED BY <1>1, Invariance, PTL

\* On every screen of the unlocked wallet, the words, the seed, what
\* derive_address built from it, the session's PIN and the image go together.
THEOREM SessionIsOneWallet == Spec => []OneWallet
<1>1. IInv => OneWallet
  <2> SUFFICES ASSUME IInv, app.at \in SessionScreens
               PROVE  /\ words = entropy /\ seed.entropy = entropy /\ derived = seed
                      /\ pin # None /\ image # None /\ encKey = DeriveKey(pin, salt)
                      /\ salt = image.salt /\ Decrypts(image, encKey)
                      /\ image.secrets = [entropy |-> entropy, seed |-> seed]
    BY DEF OneWallet
  <2>1. pin # None /\ app.at # "Off"
    BY DEF IInv, Held, PinInHand, SessionScreens
  <2>2. /\ words = entropy /\ seed.entropy = entropy /\ derived = seed
        /\ image # None /\ encKey = DeriveKey(pin, salt) /\ Decrypts(image, encKey)
        /\ image.secrets = [entropy |-> entropy, seed |-> seed]
    BY <2>1 DEF IInv, Held, SecretsInHand, PinOpensImage
  <2>3. salt = image.salt
    BY <2>1, <2>2 DEF IInv, Held, ImageInHand
  <2>. QED BY <2>1, <2>2, <2>3
<1>. QED BY <1>1, Invariance, PTL

\* A signature exists only on the result screen, made by do_sign from the PSBT
\* that was reviewed there; reaching Home by any path drops both.
THEOREM SignedWasReviewed == Spec => []SignsWhatWasReviewed
<1>1. IInv => SignsWhatWasReviewed
  BY DEF IInv
<1>. QED BY <1>1, Invariance, PTL

-----------------------------------------------------------------------------
(* Action properties *)

\* A wallet locked on disk stays as it is, through every touch, power-off and
\* lost write, as long as load_wallet_image could read the file at every boot.
THEOREM LockoutIsPermanent == Spec => LockIsPermanent
<1>1. IInv /\ [Next]_vars => [LockedOnDisk /\ unread = 0 => UNCHANGED disk]_vars
  <2> SUFFICES ASSUME IInv, Next, LockedOnDisk, unread = 0 PROVE UNCHANGED disk
    OBVIOUS
  <2>1. io = "idle"
    BY DEF IInv, NotInUse
  <2>2. ~WriteReturns
    BY <2>1 DEF WriteReturns, MigrateWritten, CheckSessionPin, ParkVerifying, OpenGate, LockOut,
       SaveWritten
  <2>. QED BY <2>2, DiskMoves DEF IInv
<1>. QED BY <1>1, Invariance, PTL DEF Spec, LockIsPermanent

\* No PIN change, migration or new setup replaces the secrets of the wallet on
\* disk, as long as load_wallet_image could read it at every boot.
THEOREM WalletIsAlwaysKept == Spec => WalletIsKept
<1> DEFINE Kept == HasWallet(disk) /\ unread = 0 => HasWallet(disk') /\ disk'.secrets = disk.secrets
<1>1. IInv /\ [Next]_vars => [Kept]_disk
  <2> SUFFICES ASSUME IInv, Next, HasWallet(disk), unread = 0, disk' # disk
               PROVE  HasWallet(disk') /\ disk'.secrets = disk.secrets
    BY DEF vars, diskVars
  <2>1. WriteReturns /\ image \in Image /\ disk' = image
    BY DiskMoves DEF IInv
  <2>2. app.at # "Off" \/ io = "migrate"
    BY <2>1 DEF WriteReturns, MigrateWritten, CheckSessionPin, ParkVerifying, OpenGate, LockOut,
       SaveWritten, IInv, Staged
  <2>3. image.secrets = disk.secrets
    BY <2>2 DEF IInv, SameWallet
  <2>. QED BY <2>1, <2>3, NoneAssumption DEF HasWallet, IsImage, Image
<1>2. [Kept]_disk => [(IsImage(disk) \/ IsLegacy(disk)) /\ unread = 0 =>
          (IsImage(disk') \/ IsLegacy(disk')) /\ disk'.secrets = disk.secrets]_disk
  BY DEF HasWallet
<1> HIDE DEF Kept
<1>. QED BY <1>1, <1>2, Invariance, PTL DEF Spec, WalletIsKept

-----------------------------------------------------------------------------
(* The gates *)

\* The PIN screens are left for each other, for the lock, by the power, or
\* through the gate.
LEMMA LeavesPad ==
    ASSUME TypeOK, Staged, Next, app.at \in {"EnterPin", "PinVerifying"}
    PROVE  app'.at \in {"EnterPin", "PinVerifying", "PinLocked", "Off"} \/ OpenGate
<1> USE DEF Screens, Showing
<1>1. CASE Setup \/ PinPad \/ Browse
  BY <1>1, SetupMoves, PinPadMoves, BrowseMoves DEF SetupScreens, ChoosingPin, SessionScreens
<1>2. CASE Power
  <2>1. app' = Screen("Off")
    BY <1>2 DEF Power, BootFresh, BootUnread, BootSealed, BootLegacy, PowerOff
  <2>. QED BY <2>1, PlainPayload
<1>3. CASE Attempt
  BY <1>3, DigitsPayload DEF Attempt, BeginEnterPin, TypeOK, Fits
<1>4. CASE ProcessPending
  <2>1. app' \in {app, EnterPin(app.gate)}
    BY <1>4 DEF ProcessPending, VerifyRightPin, VerifyWrongPin, FinalizeEnterPin, SealWallet
  <2>. QED BY <2>1, GatePayload
<1>5. CASE WriteReturns
  <2>1. \/ OpenGate
        \/ app' \in {app, EnterPin(app.gate), [app EXCEPT !.at = "PinVerifying"], Screen("PinLocked")}
    BY <1>5 DEF WriteReturns, MigrateWritten, CheckSessionPin, FinalizeEnterPin, ParkVerifying,
       LockOut, SaveWritten, Staged
  <2>. QED BY <2>1 DEF EnterPin, Screen, TypeOK, Fits, AppStates
<1>. QED BY <1>1, <1>2, <1>3, <1>4, <1>5 DEF Next

\* A gate of begin_enter_pin or process_pin_verifying opens only to the PIN of
\* this wallet: the session's, or the one that opens the image read from disk.
THEOREM GatesTakeThePin == Spec => GatesNeedThePin
<1> DEFINE Ask == /\ app.at = "EnterPin" /\ app'.at \notin {"EnterPin", "PinVerifying", "PinLocked", "Off"}
                        => pin # None /\ app.digits = pin
                  /\ app.at = "PinVerifying" /\ app'.at \notin {"PinVerifying", "EnterPin", "PinLocked", "Off"}
                        => image # None /\ Decrypts(image, DeriveKey(app.digits, salt))
<1>1. IInv /\ [Next]_vars => [Ask]_vars
  <2> SUFFICES ASSUME IInv, Next PROVE Ask
    OBVIOUS
  <2>1. OpenGate => pin # None /\ app.digits = pin
    BY DEF OpenGate, IInv, Staged
  <2>2. OpenGate => image # None /\ Decrypts(image, DeriveKey(app.digits, salt))
    BY <2>1 DEF IInv, Held, PinOpensImage
  <2>. QED BY <2>1, <2>2, LeavesPad DEF IInv
<1>. QED BY <1>1, Invariance, PTL DEF Spec, GatesNeedThePin

-----------------------------------------------------------------------------
(* The wallet implements the contract of the lockout *)

\* The mapped lock and openness after a step that leaves the disk alone.
LEMMA SameLock ==
    ASSUME disk' = disk
    PROVE  LockedOnDisk' = LockedOnDisk
  BY DEF LockedOnDisk, IsImage

\* Setup, pad and navigation are Close, or nothing the owner of the lock can see.
LEMMA QuietRefines ==
    ASSUME IInv, Setup \/ PinPad \/ Browse
    PROVE  Lockout!Next \/ UNCHANGED Lockout!vars
<1>1. UNCHANGED <<misses, lost, unread, disk>>
  BY Quiet DEF diskVars
<1>2. LockedOnDisk' = LockedOnDisk
  BY <1>1, SameLock
<1>3. CASE app.at \in SessionScreens /\ ~(app'.at \in SessionScreens)
  <2>1. Lockout!Close
    BY <1>1, <1>2, <1>3 DEF Lockout!Close
  <2>. QED BY <2>1 DEF Lockout!Next
<1>4. CASE ~(app.at \in SessionScreens /\ ~(app'.at \in SessionScreens))
  <2>1. (app.at \in SessionScreens) = (app'.at \in SessionScreens)
    BY <1>4, SetupMoves, PinPadMoves, BrowseMoves
       DEF SetupScreens, ChoosingPin, SessionScreens, IInv
  <2>. QED BY <1>1, <1>2, <2>1 DEF Lockout!vars
<1>. QED BY <1>3, <1>4

\* A boot is Close or MistakeForNew.
LEMMA PowerRefines ==
    ASSUME IInv, Power
    PROVE  Lockout!Next \/ UNCHANGED Lockout!vars
<1> USE DEF Screens, Showing
<1>1. disk' = disk /\ lost' = lost /\ misses' = misses
  BY DEF Power, BootFresh, BootUnread, BootSealed, BootLegacy, PowerOff, diskVars
<1>2. LockedOnDisk' = LockedOnDisk
  BY <1>1, SameLock
<1>3. ~(app'.at \in SessionScreens)
  <2>1. \/ app' \in {Screen("Welcome"), Screen("Off"), Screen("PinLocked"), EnterPin("Unlock")}
        \/ app' = app /\ app.at = "Off"
    BY DEF Power, BootFresh, BootUnread, BootSealed, FromDiskImage, BootLegacy, PowerOff
  <2>. QED BY <2>1 DEF SessionScreens, Screen, EnterPin
<1>4. CASE PowerOff
  <2>1. Lockout!Close
    BY <1>1, <1>2, <1>3, <1>4 DEF PowerOff, diskVars, Lockout!Close
  <2>. QED BY <2>1 DEF Lockout!Next
<1>5. CASE ~PowerOff
  <2>1. ~(app.at \in SessionScreens)
    BY <1>5 DEF Power, BootFresh, BootUnread, BootSealed, BootLegacy, SessionScreens
  <2>2. (app.at \in SessionScreens) = (app'.at \in SessionScreens)
    BY <1>3, <2>1
  <2>3. CASE BootUnread
    <3>1. Lockout!MistakeForNew
      BY <1>1, <1>2, <2>2, <2>3 DEF BootUnread, Lockout!MistakeForNew
    <3>. QED BY <3>1 DEF Lockout!Next
  <2>4. CASE ~BootUnread
    <3>1. unread' = unread
      BY <1>5, <2>4 DEF Power, BootFresh, BootSealed, BootLegacy, diskVars
    <3>. QED BY <1>1, <1>2, <2>2, <3>1 DEF Lockout!vars
  <2>. QED BY <2>3, <2>4
<1>. QED BY <1>4, <1>5

\* A verdict that is told, after a write or with none.
LEMMA RejectRefines ==
    ASSUME IInv, Next, misses' = misses + 1, app.at \in {"EnterPin", "PinVerifying"},
           app'.at \in {"EnterPin", "PinLocked"}, unread' = unread,
           lost' = lost \/ (lost < MaxLost /\ lost' = lost + 1)
    PROVE  Lockout!Reject
<1>1. ~(app.at \in SessionScreens) /\ ~(app'.at \in SessionScreens)
  BY DEF SessionScreens
<1>2. LockedOnDisk => unread > 0
  BY DEF IInv, NotInUse, TypeOK, DiskOK
<1>3. GuessBound'
  BY CountedStep DEF IInv
<1>4. LockedOnDisk' \in BOOLEAN
  BY DEF LockedOnDisk
<1>5. (app.at \in SessionScreens) = (app'.at \in SessionScreens)
  BY <1>1
<1>. QED BY <1>1, <1>2, <1>3, <1>4, <1>5
         DEF Lockout!Reject, Lockout!Replaceable, Lockout!MayLose, Lockout!Bound, GuessBound

\* The last digit and the deferred verdict are Close, Reject or nothing.
LEMMA AttemptRefines ==
    ASSUME IInv, Attempt \/ ProcessPending, Next
    PROVE  Lockout!Next \/ UNCHANGED Lockout!vars
<1> USE DEF Showing
<1>1. disk' = disk /\ lost' = lost /\ unread' = unread
  BY DEF Attempt, BeginEnterPin, ProcessPending, VerifyRightPin, VerifyWrongPin, SealWallet, diskVars
<1>2. LockedOnDisk' = LockedOnDisk
  BY <1>1, SameLock
<1>3. app.at \in {"EnterPin", "PinVerifying", "PinConfirming"} /\ app'.at \in {app.at, "EnterPin"}
  <2>1. \/ app' \in {app, EnterPin(app.gate)}
        \/ \E d \in Digits : app' = [app EXCEPT !.digits = Append(@, d)]
    BY DEF Attempt, BeginEnterPin, ProcessPending, VerifyRightPin, VerifyWrongPin, FinalizeEnterPin,
       SealWallet
  <2>2. app.at \in {"EnterPin", "PinVerifying", "PinConfirming"}
    BY DEF Attempt, BeginEnterPin, ProcessPending, VerifyRightPin, VerifyWrongPin, SealWallet
  <2>. QED BY <2>1, <2>2, GatePayload DEF IInv, TypeOK, Fits, AppStates
<1>4. (app.at \in SessionScreens) = (app'.at \in SessionScreens)
  BY <1>3 DEF SessionScreens
<1>5. CASE misses' = misses
  BY <1>1, <1>2, <1>4, <1>5 DEF Lockout!vars
<1>6. CASE misses' # misses
  <2>1. app.at = "PinVerifying" /\ misses' = misses + 1 /\ app'.at = "EnterPin"
    BY <1>6, GatePayload DEF Attempt, BeginEnterPin, ProcessPending, VerifyRightPin, VerifyWrongPin,
       FinalizeEnterPin, SealWallet
  <2>2. Lockout!Reject
    BY <1>1, <2>1, RejectRefines
  <2>. QED BY <2>2 DEF Lockout!Next
<1>. QED BY <1>5, <1>6

\* A write that returns is Accept, Reject or Write.
LEMMA WritesRefine ==
    ASSUME IInv, WriteReturns, Next
    PROVE  Lockout!Next
<1> USE DEF Screens
<1>1. /\ lost' = lost \/ (lost < MaxLost /\ lost' = lost + 1)
      /\ unread' = unread
  BY DEF WriteReturns, MigrateWritten, CheckSessionPin, ParkVerifying, OpenGate, LockOut,
     SaveWritten, PersistBlob
<1>2. Lockout!MayLose
  BY <1>1 DEF Lockout!MayLose
<1>3. Lockout!Replaceable
  <2>1. io # "idle"
    BY DEF WriteReturns, MigrateWritten, CheckSessionPin, ParkVerifying, OpenGate, LockOut, SaveWritten
  <2>. QED BY <2>1 DEF Lockout!Replaceable, IInv, NotInUse, TypeOK, DiskOK
<1>4. CASE LockOut
  <2>1. misses' = misses + 1 /\ app.at \in {"EnterPin", "PinVerifying"} /\ app'.at = "PinLocked"
    BY <1>4, PlainPayload DEF LockOut, IInv, Staged
  <2>2. Lockout!Reject
    BY <1>1, <2>1, RejectRefines
  <2>. QED BY <2>2 DEF Lockout!Next
<1>5. CASE ~LockOut
  <2>1. ~image.locked
    BY <1>5 DEF WriteReturns, MigrateWritten, CheckSessionPin, ParkVerifying, OpenGate, SaveWritten,
       IInv, Staged
  <2>2. LockedOnDisk' \in {LockedOnDisk, FALSE}
    <3>1. disk' = disk \/ (LockedOnDisk' <=> image.locked)
      BY DiskAfterWrite DEF IInv
    <3>2. CASE disk' = disk
      BY <3>2, SameLock
    <3>3. CASE LockedOnDisk' <=> image.locked
      <4>1. LockedOnDisk' = FALSE
        BY <2>1, <3>3 DEF LockedOnDisk
      <4>. QED BY <4>1
    <3>. QED BY <3>1, <3>2, <3>3
  <2>3. CASE OpenGate \/ SaveWritten
    <3>1. misses' = 0 /\ (app'.at \in SessionScreens) \in BOOLEAN
      BY <2>3 DEF OpenGate, SaveWritten
    <3>2. Lockout!Accept
      BY <1>2, <1>3, <2>2, <3>1 DEF Lockout!Accept
    <3>. QED BY <3>2 DEF Lockout!Next
  <2>4. CASE ~(OpenGate \/ SaveWritten)
    <3>1. /\ app.at \in {"Off", "EnterPin"}
          /\ app' \in {app, Screen("PinLocked"), EnterPin("Unlock"), EnterPin(app.gate),
                       [app EXCEPT !.at = "PinVerifying"]}
      BY <1>5, <2>4 DEF WriteReturns, MigrateWritten, FromDiskImage, CheckSessionPin,
         FinalizeEnterPin, ParkVerifying, IInv, Staged
    <3>2. app'.at \in {"Off", "EnterPin", "PinLocked", "PinVerifying"}
      BY <3>1 DEF EnterPin, Screen, IInv, TypeOK, Fits, AppStates
    <3>3. (app.at \in SessionScreens) = (app'.at \in SessionScreens)
      BY <3>1, <3>2 DEF SessionScreens
    <3>4. CASE misses' = misses
      <4>1. Lockout!Write
        BY <1>2, <1>3, <2>2, <3>3, <3>4 DEF Lockout!Write
      <4>. QED BY <4>1 DEF Lockout!Next
    <3>5. CASE misses' # misses
      <4>1. misses' = misses + 1 /\ app.at = "EnterPin" /\ app'.at = "EnterPin"
        BY <1>5, <2>4, <3>5, GatePayload DEF WriteReturns, MigrateWritten, CheckSessionPin,
           FinalizeEnterPin, ParkVerifying, IInv, Staged
      <4>2. Lockout!Reject
        BY <1>1, <4>1, RejectRefines
      <4>. QED BY <4>2 DEF Lockout!Next
    <3>. QED BY <3>4, <3>5
  <2>. QED BY <2>3, <2>4
<1>. QED BY <1>4, <1>5

\* The wallet implements PinLockout: through begin_enter_pin, finalize_enter_pin,
\* persist_blob, boots and power-offs, its owner sees verdicts, writes and a lock
\* that is final.
THEOREM Refinement == Spec => ImplementsLockout
<1>1. Init => Lockout!Init
  <2> SUFFICES ASSUME Init PROVE Lockout!Init
    OBVIOUS
  <2>1. ~LockedOnDisk
    BY InitInvariant DEF IInv, NotInUse, Init, LockedOnDisk, IsImage
  <2>2. ~(app.at \in SessionScreens)
    BY PlainPayload DEF Init, Screens, SessionScreens
  <2>3. LockedOnDisk = FALSE /\ (app.at \in SessionScreens) = FALSE
    BY <2>1, <2>2
  <2>. QED BY <2>3 DEF Init, Lockout!Init
<1>2. IInv /\ [Next]_vars => [Lockout!Next]_Lockout!vars
  <2> SUFFICES ASSUME IInv, [Next]_vars PROVE Lockout!Next \/ UNCHANGED Lockout!vars
    OBVIOUS
  <2>1. CASE UNCHANGED vars
    <3>1. UNCHANGED <<misses, lost, unread, disk, app>>
      BY <2>1 DEF vars, diskVars
    <3>2. LockedOnDisk' = LockedOnDisk /\ (app'.at \in SessionScreens) = (app.at \in SessionScreens)
      BY <3>1, SameLock
    <3>. QED BY <3>1, <3>2 DEF Lockout!vars
  <2>2. CASE Next
    BY <2>2, QuietRefines, PowerRefines, AttemptRefines, WritesRefine DEF Next
  <2>. QED BY <2>1, <2>2
<1>. QED BY <1>1, <1>2, Invariance, PTL DEF Spec, ImplementsLockout, Lockout!Spec
=============================================================================
