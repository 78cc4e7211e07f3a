------------------------ MODULE ColdWalletProperties ------------------------
(***************************************************************************)
(* What the wallet core promises, as invariants, action properties and     *)
(* liveness properties of ColdWallet.                                      *)
(***************************************************************************)
EXTENDS ColdWallet

\* A payload of its type: a buffer never exceeds its array, and a page or a word
\* index never exceeds the last one.
Fits(a) ==
    /\ a \in AppStates
    /\ Len(a.text) <= MaxPass /\ Len(a.digits) <= PinLen
    /\ a.page <= LastPage \/ (a.at = "RestoreWallet" /\ a.page < WordCount)

AtRestOK ==
    /\ pin \in Pins \cup {None} /\ salt \in Salts \cup {None}
    /\ encKey \in Keys \cup {None} /\ image \in Image \cup {None}
    /\ failures \in 0..MaxU8 /\ locked \in BOOLEAN

SecretsOK ==
    /\ words \in Entropies \cup {None} /\ entropy \in Entropies \cup {None}
    /\ seed \in Seeds \cup {None} /\ derived \in Seeds \cup {None}

TxOK ==
    /\ psbt \in Psbts \cup {None} /\ scanError \in BOOLEAN
    /\ signed \in [psbt : Psbts, seed : Seeds] \cup {None}

DiskOK ==
    /\ io \in Writes /\ disk \in Image \cup LegacyImage \cup {None, Foreign}
    /\ misses \in Nat /\ lost \in 0..MaxLost /\ unread \in 0..MaxUnread

\* Every variable holds a value of its Rust type: above all, the failure counter
\* and its mirrors fit a u8.  (state.rs, ColdWallet; storage.rs, the header)
TypeOK == Fits(app) /\ AtRestOK /\ SecretsOK /\ TxOK /\ DiskOK

-----------------------------------------------------------------------------
(* The lockout *)

\* The wallet on disk refuses every further PIN.
LockedOnDisk == IsImage(disk) /\ disk.locked

\* Across any number of power-offs, also between the write-ahead and the
\* verdict, nobody is told more than PIN_MAX_ATTEMPTS times in a row that a PIN
\* is wrong; each write that persist_blob swallows an error of allows one more.
\* Whoever has been told that many times faces a wallet locked on disk.
\* (begin_enter_pin, finalize_enter_pin)
GuessBound ==
    /\ misses <= PIN_MAX_ATTEMPTS + lost
    /\ misses = PIN_MAX_ATTEMPTS + lost => LockedOnDisk

\* A lockout on disk is final: as long as every boot could read the file, no
\* sequence of touches, power-offs, PIN changes or lost writes ever alters a
\* locked one.  ("Permanent lockout", state.rs)
LockIsPermanent == [][LockedOnDisk /\ unread = 0 => UNCHANGED disk]_vars

\* While a PIN is being verified at cold start, the disk already counts the
\* attempt, unless the write was lost: cutting the power now cannot give it back.
\* ("The failure counter is persisted before the PIN is checked", README)
AttemptIsCounted ==
    Showing("PinVerifying") /\ lost = 0 => IsImage(disk) /\ disk.failures = failures

\* A gate opens to whoever has just typed the PIN of this wallet and to nobody
\* else: Home from cold start when the typed PIN opens the image read from disk,
\* the mnemonic and the PIN change when it equals the session's PIN.
GatesNeedThePin ==
    [][/\ app.at = "EnterPin" /\ app'.at \notin {"EnterPin", "PinVerifying", "PinLocked", "Off"}
             => pin # None /\ app.digits = pin
       /\ app.at = "PinVerifying" /\ app'.at \notin {"PinVerifying", "EnterPin", "PinLocked", "Off"}
             => image # None /\ Decrypts(image, DeriveKey(app.digits, salt))]_vars

-----------------------------------------------------------------------------
(* The secrets *)

\* Screens that can only be reached with the wallet unlocked.
SessionScreens == {"Home", "Receive", "SignScan", "SignReview", "SignResult", "Accounts",
                   "Settings", "Descriptor", "ShowMnemonic", "About"}

\* On every screen of the unlocked wallet, the words that would be shown as the
\* backup, the seed that signs, the address and descriptor given to senders, and
\* the secrets sealed in the image all belong to one mnemonic, and the PIN of the
\* session is the one that opens that image.
OneWallet ==
    app.at \in SessionScreens =>
        /\ words = entropy /\ seed.entropy = entropy /\ derived = seed
        /\ pin # None /\ image # None /\ encKey = DeriveKey(pin, salt)
        /\ salt = image.salt /\ Decrypts(image, encKey)
        /\ image.secrets = [entropy |-> entropy, seed |-> seed]

\* Unless a write was lost, what is on disk between two handlers is the image in
\* RAM: a power-off now comes back to the same wallet, counter and lock.
DiskMirrorsRam == io = "idle" /\ image # None /\ lost = 0 => disk = image

\* Neither a PIN change interrupted at any point, nor a migration, nor a setup
\* run again ever replaces the secrets of a wallet that every boot could read.
WalletIsKept ==
    [][(IsImage(disk) \/ IsLegacy(disk)) /\ unread = 0 =>
          (IsImage(disk') \/ IsLegacy(disk')) /\ disk'.secrets = disk.secrets]_disk

\* The contract of the lockout, which the wallet implements: open is a screen of
\* the session, locked is the flag on disk.
Lockout == INSTANCE PinLockout WITH
    Max <- PIN_MAX_ATTEMPTS, locked <- LockedOnDisk, open <- app.at \in SessionScreens
ImplementsLockout == Lockout!Spec

-----------------------------------------------------------------------------
(* The transaction in hand *)

\* A PSBT is in hand only while it is reviewed or its result is shown, and a
\* signature exists only on the result screen, made from the reviewed PSBT with
\* this wallet's seed: no path Home leaves either behind for the next scan.
SignsWhatWasReviewed ==
    /\ psbt # None <=> app.at \in {"SignReview", "SignResult"}
    /\ signed # None => app.at = "SignResult" /\ signed = [psbt |-> psbt, seed |-> seed]
    /\ scanError => app.at = "SignScan"

-----------------------------------------------------------------------------
(* Deferred work *)

\* A right PIN typed at cold start unlocks the wallet, whatever the counter says,
\* unless the power is cut first.
RightPinUnlocks ==
    Showing("PinVerifying") /\ image # None /\ Decrypts(image, DeriveKey(app.digits, salt))
        ~> app.at \in {"Home", "Off"}

\* A confirmed PIN ends with the wallet sealed under it, and every other pending
\* verdict or write ends too: the wallet is never parked on a spinner for ever.
PendingWorkEnds ==
    app.at \in {"PinVerifying", "PinConfirming"} \/ io # "idle"
        ~> io = "idle" /\ app.at \notin {"PinVerifying", "PinConfirming"}

-----------------------------------------------------------------------------
(* What the documents say without the exemption above, and the code does not  *)
(* keep: refuted by a run of its own.                                         *)

\* A lockout is permanent, with no exemption for a boot that cannot read the
\* file.  ("Permanent lockout after PIN_MAX_ATTEMPTS wrong attempts", state.rs;
\* load_wallet_image takes a read error for an absent wallet)
LockoutIsFinal == [][LockedOnDisk => UNCHANGED disk]_vars
=============================================================================
