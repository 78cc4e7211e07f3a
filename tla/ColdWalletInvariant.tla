------------------------ MODULE ColdWalletInvariant ------------------------
(***************************************************************************)
(* The inductive invariant of ColdWallet: why the properties hold.  None   *)
(* of them is inductive alone; the parts below are what each step relies   *)
(* on, and ColdWalletProofs shows that every step keeps them.              *)
(***************************************************************************)
EXTENDS ColdWalletProperties

\* Screens that choose a PIN, in a setup or for a change.
ChoosingPin == {"SetPin", "ConfirmPin", "PinMismatch", "PinConfirming"}

HasWallet(d) == IsImage(d) \/ IsLegacy(d)
Consistent(secrets) == secrets.seed.entropy = secrets.entropy

\* What each write in progress is about, and what a parked screen carries.
Staged ==
    /\ io = "migrate" => app.at = "Off" /\ image # None /\ ~image.locked
                         /\ image.failures = 0 /\ IsLegacy(disk)
    /\ io = "ahead" => app.at = "EnterPin" /\ ~image.locked
    /\ io = "reset" => app.at \in {"EnterPin", "PinVerifying"} /\ ~image.locked
                       /\ pin # None /\ app.digits = pin /\ failures = 0
    /\ io = "lock" => app.at \in {"EnterPin", "PinVerifying"} /\ image.locked
    /\ io = "save" => app.at = "PinConfirming" /\ image # None /\ ~image.locked
                      /\ pin # None /\ failures = 0
    /\ app.at \in {"ConfirmPin", "PinConfirming"} => app.pin \in Pins
    /\ app.at \in {"SetPin", "ConfirmPin"} => Len(app.digits) < PinLen
    /\ io = "ahead" \/ app.at = "PinVerifying" => Len(app.digits) = PinLen
    /\ app.at = "EnterPin" => app.gate \in Gates /\ (app.gate = "Unlock" <=> pin = None)
    /\ app.at = "PinVerifying" => app.gate = "Unlock" /\ (io # "reset" => pin = None)

\* What each screen has in hand: the secrets once they are chosen or restored,
\* the PIN once it has been set or verified, the image of a wallet at rest.
SetupScreens == {"Welcome", "NewWallet", "RestoreWallet", "EnterPassphrase"}

SecretsInHand ==
    /\ app.at \in {"NewWallet", "EnterPassphrase"} => entropy # None /\ words = entropy
    /\ app.at \in ChoosingPin \/ pin # None =>
          /\ entropy # None /\ words = entropy
          /\ seed # None /\ seed.entropy = entropy /\ derived = seed

PinInHand ==
    /\ app.at \in SessionScreens => pin # None
    /\ app.at \in SetupScreens \cup {"Off"} => pin = None

ImageInHand ==
    /\ app.at \in {"EnterPin", "PinVerifying"} => image # None
    /\ image # None /\ pin = None =>
          io = "migrate" \/ app.at \in {"EnterPin", "PinVerifying", "PinLocked"}
    /\ image # None /\ app.at # "Off" => salt = image.salt /\ image.failures = failures

\* The PIN of the session opens the image, and what is sealed in it is in RAM.
PinOpensImage ==
    pin # None =>
        /\ image # None /\ encKey = DeriveKey(pin, salt) /\ Decrypts(image, encKey)
        /\ image.secrets = [entropy |-> entropy, seed |-> seed]

Held == SecretsInHand /\ PinInHand /\ ImageInHand /\ PinOpensImage

\* Every image that exists was made by this program.
Genuine ==
    /\ image # None => image.aad = image.salt /\ Consistent(image.secrets)
    /\ HasWallet(disk) => Consistent(disk.secrets)
    /\ IsImage(disk) => disk.aad = disk.salt

\* The image in RAM is a later state of the wallet on disk.
SameWallet ==
    unread = 0 /\ HasWallet(disk) /\ (app.at # "Off" \/ io = "migrate") =>
        image # None /\ image.secrets = disk.secrets

\* A wallet locked on disk is not in use.
NotInUse == LockedOnDisk /\ unread = 0 => app.at \in {"Off", "PinLocked"} /\ io = "idle"

\* The wallet may ask for a PIN, now or later in this session.
Active ==
    app.at \in {"EnterPin", "PinVerifying"} \/ (pin # None /\ io # "save" /\ app.at # "PinLocked")

\* A PIN has been typed and its verdict is still to come.
InFlight == io \in {"ahead", "lock"} \/ (app.at = "PinVerifying" /\ io = "idle")
Written == io = "lock" \/ (app.at = "PinVerifying" /\ io = "idle")

DiskFailures == IF IsImage(disk) THEN disk.failures ELSE 0

\* The counter in RAM covers the verdicts given and the one to come; the counter
\* on disk covers the verdicts given and, once the write-ahead has returned, the
\* one to come; lost writes pay for the difference.
Counted ==
    /\ Active => misses + 1 <= PIN_MAX_ATTEMPTS + lost
    /\ Active /\ io # "reset" => misses <= failures + lost
    /\ Active /\ io # "reset" /\ InFlight => misses + 1 <= failures + lost
    /\ LockedOnDisk \/ misses <= DiskFailures + lost
    /\ Written => LockedOnDisk \/ misses + 1 <= DiskFailures + lost

IInv ==
    /\ TypeOK /\ Staged /\ Held /\ Genuine /\ SameWallet /\ NotInUse
    /\ GuessBound /\ Counted /\ DiskMirrorsRam /\ SignsWhatWasReviewed
=============================================================================
