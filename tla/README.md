# Formal models of cold-wallet

TLA+ models of the cold-wallet repository (a Bitcoin signing device in Rust: the
core `wallet-core`, and the desktop simulator `wallet-sim` that hosts it), model
checked with TLC and, where it matters most, proved with TLAPS. Paths below are
relative to the repository: `core/` stands for `wallet-core/src/`, `sim` for
`wallet-sim/src/main.rs`.

## 1. The system

| Part | State | Operations | Talks to |
|---|---|---|---|
| Wallet state (`core/state.rs`) | `ColdWallet`: screen, PIN, salt, key, failures, locked, image, words, entropy, seed, derived data, PSBT, signature, error flag | `new`, `from_disk_image`, `handle_event` | the four parts below; the host through `persist` |
| Screens (`core/state/machine.rs`) | `AppState`, with the payload of each variant | `step`: one function per screen; `shuffle` | pure but for the words; called by `handle_event`; hit tests of the layout |
| PIN and lockout (`core/state/security.rs`) | counter, lock, image | `begin_enter_pin`, `finalize_enter_pin`, `begin_confirm_pin`, `process_pending` | `storage.rs`, `crypto.rs`, `persist` |
| Session (`core/state/wallet.rs`) | derived data, PSBT, signature | `derive_address`, `load_psbt`, `do_sign` | `derive.rs`, `psbt.rs`, `signing.rs`, `base64.rs` |
| Word entry (`core/state/mnemonic.rs`) | the letters typed, the words confirmed | `find_matches`, `tapped_suggestion`, `generate_words`, `indices_to_entropy` | called by the restore screen |
| Image format (`core/storage.rs`) | 143 bytes, format v3 | `parse`, `try_decrypt`, `encrypt_into_blob`, `update_lockout` | `crypto.rs` |
| PSBT (`core/psbt.rs`), signing (`signing.rs`, `sighash.rs`), derivation (`derive.rs`) | none | pure functions | each other |
| Base64 (`core/base64.rs`) | none; the buffers of the scan and of the result are its callers' | `encode`, `decode` | `load_psbt`, `do_sign`; host tools write what it reads |
| Layout, keyboard (`core/layout.rs`, `keyboard.rs`) | none | areas and hit tests | the screens |
| Drawing (`core/draw/`) | none | `draw_ui` | the host's display; the same constants as the hit tests, in other files |
| Boot and storage (`sim`, 151-264) | `wallet.bin`, `wallet.bin.tmp` | `load_wallet_image`, `migrate_v1_to_v3`, `persist_blob` | file system |
| Event loop (`sim`, 266-433) | frame, SDL queue, file list, loaded file, what was exported | one turn per 16 ms | the wallet, SDL, the SD folder shared with the hot machine |

The wallet is single-threaded. What makes it hard is what happens around it:

* **Power.** The device may lose power between any two writes, and the lockout
  must survive that. A counter is therefore written before a PIN is checked.
* **Deferred work.** PBKDF2 takes a second and a half. The wallet parks itself in
  `PinVerifying` or `PinConfirming`, the host draws a spinner and then calls
  `process_pending`; the user keeps clicking meanwhile.
* **Silent failure.** `persist_blob` returns nothing; `load_wallet_image` takes a
  read error for an absent wallet; writes to the SD folder may fail half-way.
* **Two readings of one screen.** What is drawn where, and what a tap there does, is
  written in different files; so is the packing of words into bits and its inverse.
* **Foreign text.** A PSBT comes as Base64 text of some other tool, over a card.
* **Copies.** Image in RAM and on disk; words, entropy, seed and derived data;
  frame and state; the list as it was drawn and the folder as it is; `after`,
  a copy of the state from before the deferred work.

What makes each part correct:

* lockout: a bounded number of wrong verdicts in a row whatever the power does; a
  lock that is final; a right PIN that always opens; gates that open to the PIN only;
* session: one wallet in all its copies; only the reviewed PSBT is signed;
* storage: the file is a whole image at any time, and a save that was completed stays;
  no interruption replaces the wallet;
* signing: every signature verifies against the file it leaves in; the transaction comes back
  as it came, and of what other signers wrote the keys, UTXOs and key signatures of 64 bytes;
  a refused input withholds the file; the review adds up, and what it calls change can be spent again;
* touch: every button does what is drawn on it, and nothing else does anything; any word can
  be restored, and restoring keeps the words; a new wallet was backed up;
* Base64: what is loaded is what was exported, bit for bit; what was accepted leaves a text that can be read;
* event loop: a click acts on what its user saw, and a row loads the file it names; a signed file is
  named after what it was made from, and is written again if writing it failed; the user sees the verdict.

`PROJECT.json` lists every component and every hazard at its line.

## 2. The modules

| Module | Models | Role |
|---|---|---|
| `ColdWallet` | `core/state.rs`, `state/*.rs`, `storage.rs`, boot and migration of `sim` | the core state machine |
| `ColdWalletProperties` | | what the core promises |
| `PinLockout` | | abstract contract of the lockout; `ColdWallet` implements it |
| `ColdWalletInvariant` | | the inductive invariant `IInv` |
| `ColdWalletSteps`, `ColdWalletProofs` | | the proofs: what each step keeps, then the theorems |
| `MCColdWallet` | | small instances for TLC |
| `PersistBlob` | `persist_blob` and the file system under it | one action per system call |
| `AtomicRegister` | | abstract contract of `persist_blob`; `PersistBlob` implements it |
| `PersistBlobProofs` | | its proofs |
| `Signing` | `core/psbt.rs`, `signing.rs`, `sighash.rs`, `draw/sign_review.rs`, the window of `derive.rs` | a transaction from scan to signed file |
| `MCSigning` | | the files TLC tries |
| `SigningProofs` | | its proofs |
| `SimLoop` | the event loop of `sim` | clicks, frames, SD folder |
| `SimLoopProofs` | | its proofs |
| `Layout` | `core/layout.rs`, `keyboard.rs`, the hit tests, `shuffle` | areas in pixels |
| `Mnemonic` | `core/state/mnemonic.rs`, `indices_to_entropy` of `derive.rs` | words, prefixes and bits |
| `Touch` | `core/state/machine.rs` over the two above | a tap at a point, on every screen |
| `TouchProperties` | `core/draw/`, as far as it draws buttons | drawing against hit testing |
| `MCTouch` | | the instance for TLC |
| `TouchProofs` | | the proofs about words and buffers of the two above and `Mnemonic` |
| `ButtonProofs` | | the proofs about their buttons and areas |
| `Base64` | `core/base64.rs` | characters and bytes |
| `Exchange` | `load_psbt`, `do_sign`, `read_psbt_file`, the capacities of `core/psbt.rs` | a text from the host through the wallet |
| `MCExchange` | | the instance for TLC |
| `ExchangeProofs` | | the proofs about the two above |

### ColdWallet

`app` is `AppState` (a record: `at` is the variant, the other fields its payload).
The at-rest fields, the secrets and the transaction in hand are variables named
after the fields of the struct; `derived` stands for address, own keys and
descriptor, as the seed they were computed from. `disk` is what a boot would read:
`None`, `Foreign` (unknown size or version), a v1 file, or an image.

`handle_event` and `process_pending` are one action up to the first call of
`persist`, and one action from there to the next: `io` names the write in progress.

| `io` | the write | returns in |
|---|---|---|
| `ahead` | the counter before the check (`security.rs:38`) | `CheckSessionPin`, `ParkVerifying` |
| `reset` | the counter after a right PIN (`:65`) | `OpenGate` |
| `lock` | the lock after the last wrong PIN (`:79`) | `LockOut` |
| `save` | a new image (`:199`) | `SaveWritten` |
| `migrate` | the image made from a v1 file (`sim:213`) | `MigrateWritten` |

`PersistBlob(img)` there is the outcome of a whole `persist_blob`: the image is on
disk, or an error was swallowed and the old one still is (`lost` counts those).
A power-off before a write, during it, or after it is `PowerOff` before or after
the action that the write returns in.

Abstracted: a digit is what the shuffled pad returns for a tap; BIP39, BIP32,
PBKDF2 and the AEAD are injective constructors (a key opens exactly the images
sealed with the same PIN and salt); PSBTs are opaque, with a set of pairs
`Signable` that `sign_psbt` accepts; of a restore, which word is confirmed. `misses`,
`lost` and `unread` are history: wrong verdicts since the last right one, lost
writes, boots that could not read an existing file.

### PersistBlob

One action per system call of `persist_blob`, with its error path, and an
environment that may write the directory back early, cut the power (unsynced
contents become whole or torn; the directory reverts to what is stable) or kill
the process. Against `AtomicRegister`: `seen` is what a restart reads, `kept` what
a power cut may bring back.

### Signing

The opposite cut of the core: there a PSBT is opaque and the wallet is in full; here the
wallet is one seed and four screens, and the PSBT is its fields. `Parse` is what
`ParsedPsbt::parse` keeps, with its defaults (no UTXO is amount 0 and no script);
`EncodeSigned` is what `encode_signed` writes: the transaction as it came, a UTXO for every
input, keys and key signatures, and neither the sighash type nor the fields it does not know.
A key signature is kept only if it has 64 bytes (`KeySig`): one with a sighash byte is dropped, and so are
partial, script and final signatures, which stand in `rest` with all the other fields the parser ignores.
`KeySigsAreKept` says exactly this and no more.
`Review` is what `sign_review::draw` says: totals, warning, rows, notice. `Confirm` starts
`do_sign`; then one action per input of the loop of `sign_psbt`, `next` being its `i`:
`SkipInput` (`continue`), `SignInput`, `SignerFails` (the `if let Ok` that does not match),
`RefuseInput` (each early return); `Finish` is the end of `sign_psbt` and of `do_sign`.
Touches wait for the loop, as they do in the code: `Leave` needs `next = None`.

Abstracted: bytes, varints and buffers (a UTXO as long as the parser allows fits the
encoder's buffer); which error it was, as `do_sign` ignores it; private keys: a signature
is the output key it verifies under and the digest it signs. Keys, tweak and hashes are
injective constructors. `Position` is the only slot with a key, because keys are injective.
An unparsable file changes nothing here; the flag it sets is in `ColdWallet` and `SimLoop`.
`scanned` is history: the file the PSBT in hand came from.

### SimLoop

One turn of the loop: `Update` pushes the frame, `Collect` takes the queue, one
`HandleRow` or `HandleTouch` per click with all its side effects, `Resolve` for
`process_pending`, `Turn` for the sleep. Per click the code accesses the SD folder once
at most, so a change of the folder between two accesses is a change between two
actions. `window` is what the user sees, `display` what has been drawn; a click
records the frame it was aimed at, and whether a newer one was already drawn. The
wallet is reduced to the screens the loop tells apart; a click is one of four spots
of the layout: a PIN key that is also Home's Sign button and the second file row,
the upper half of that button (the first row), and the two navigation buttons.
`Resolve` takes any verdict: the loop does not depend on which.

### Layout, Mnemonic, Touch, TouchProperties

The same screens as in `ColdWallet`, cut the other way: there a digit, a word or a button is
an input; here the input is a point, and which button it hits is computed. `Layout` has the
areas as `layout.rs` computes them and the hit tables in the order of the `if`s, so an area
that lies under another one is found. `Touch!Step` maps a screen and a point to the *set* of
results, one operator per `step_` function: the verdict on a PIN, the entropy of a new
wallet, the draws of a shuffle and whether a scanned file loads are the choices.
`Touched` is a tap at one of `Points`; `ProcessPending` is the deferred work; there is no other
way for a screen to change. A tap on a row of the SD list never reaches `step`: the loop takes
it (`sim:306`), and `StepSignScan` says what may follow.

`TouchProperties!Drawn` is read from `draw/` alone: label, area and whether it is lit, per
screen. `ButtonsDoWhatTheySay` and `UnlitIsHarmless` compare it with `Step`, the first at every probe inside a
lit button, the second at all of them. The positions
of buttons inside a screen are the real ones; fonts, colours and the rest of the frame are left out.
`shown` is history: the numbered words of a new wallet that have been on screen.

`Mnemonic` is parameterised by the word list and by the sizes of a word, of an index and of a byte.
Both directions go through a row of bits: `Bits` lays numbers out, most significant bit first, and
`Numbers` cuts a row into numbers. `Pack` is the loop of `indices_to_entropy`; `GenerateWords`
follows BIP39, since the code calls a library for that direction. The first byte of SHA-256 is
a constant operator. Powers, shifts, `Number`, `FirstMatches` and `Shuffle` are recursive functions,
so that they can be proved about.

### Base64 and Exchange

`Base64` has text and bytes as sequences of numbers. `Encode` and `Decode` give each position
of the output from the positions of the input it is made of, which is what the loops compute
group by group; `Decodes` is whether there is an answer. In `Exchange` a host exports a
PSBT in the dialect of some tool (padded or not, either alphabet, a line end behind it, or
broken into lines) and the copy may stop anywhere (`Truncate`, repeated); `LoadPsbt` is
`read_psbt_file` with `load_psbt`, `DoSign` is `do_sign`, `BackHome` every way to Home and on to
the next scan. A PSBT is a header (its magic and the numbers of inputs and outputs) and one map for
each input and output: fields up to an `END`, one byte each. `Parses` wants all the maps, within `MAX_INPUTS` and
`MAX_OUTPUTS`. `Accepts` is `sign_psbt`: one input of ours that may not be signed refuses the PSBT, and so does
none that was signed; a refused PSBT leaves no text, and the result screen follows all the same. The signer may
fail at any set of inputs. `EncodeSigned` writes a PSBT anew from the fields that were parsed: a UTXO for every input, an empty
one if none came, our key, the new signature or the one that came, and nothing of the fields it does not
know nor of what follows the last map. So it may be longer or shorter than what came, and `MAX_SIGNED_RAW` must
have room for every input to be signed. Not in it: internal keys of others and the contents of fields (`Signing`
has them). The host is external. There is one file in a behaviour; `SimLoop` has several.

## 3. The runs

| Run | Shows | Size |
|---|---|---|
| `core` | all safety and the refinement of `PinLockout` | 564,036 states |
| `live` | a right PIN unlocks; no spinner for ever | 1,580 states |
| `persist` | storage, and the refinement of `AtomicRegister` | 1,115 states |
| `signing` | signatures, what comes back of others' data, the review | 59,728 states |
| `loop` | clicks, frames, rows, retries, files | 1,932,888 states |
| `loop_live` | the verdict is seen | 32,824 states |
| `touch` | buttons against areas, on every screen; restore; backup | 1,041 states |
| `exchange` | files, refusals and buffers of a transaction | 34,812 states |
| `lockout_final`, `descriptor_at_home`, `hint_shown`, `self_send_notice` | each refutes one sentence of the code's documentation (section 6) | |

Bounds of `core`: PINs of two digits over two (the first digit, the last, a right
and a wrong one); three attempts as in the code; a counter that saturates at 5,
so that crashes can drive it past the limit and into saturation; four mnemonic
pages as in the code; three words; a passphrase of at most one character (empty
and not); two mnemonics, two salts and two PSBTs (old and new); one lost write and
one unreadable boot, which is one more than none and enough to break each promise
that excludes them. Power-offs are not bounded. `misses` needs no bound: `GuessBound`
is what bounds it. The proofs do not depend on any of these values.

Bounds of `signing`: a window of two keys per branch, so that first and last index of both
branches and the index after them differ; every file with one or two inputs out of twelve
kinds (three of ours, without a signature and with one of 64 or 65 bytes; four of ours that are refused; one past the window; four
of others, with a signature of 64 or of 65 bytes, without our key, and with nothing) and
one or two outputs out of six (change, receive, past the window, foreign with our key named by
the host, of no value, of the largest value); files with three inputs, which the parser refuses. `AmountMax`
15 stands for `u64::MAX`, so that two amounts saturate; `SendMax` and `FeeMax` for the room in the
header. One failing signer: a second one adds nothing, since inputs are independent.

Bounds of `loop`: two files over two rows, PSBTs that can and cannot be signed,
contents that do not parse or cannot be read; two clicks not handled yet (one
being handled, one behind it in the batch or in the queue); one change of the folder; one
failed write. A restart is in `loop_live`. Three more bounds are in the guards:
`MaxQueue`, `MaxEdits`, `MaxFails`; `MaxRestarts` bounds restarts.

Bounds of `touch`: the layout is the real one, in pixels, so the properties that compare areas
have no bound but their probes: the four corners of every area of every screen, just inside and just
outside, which is where rectangles begin to differ. The steps of a behaviour land on one
point per area, which reaches every screen. Four words spelled with two letters, one a prefix of
three and one a beginning of another; three words of two bits in a mnemonic
and bytes of three bits, so that indices cross the bounds of bytes as 11 bits do; two entropies
with different words; a PIN of two digits, over the two keys that a point lands on; a passphrase of two characters,
so that empty, begun and full differ; a buffer as long as the longest word, as in the code (8).
Shuffles are complete for up to four keys (`PadsAreFair`); the theorem `ShufflesAreFair` covers the ten of the pad.
`step` gives a result for every tap, so `Touched` is always enabled.

Bounds of `exchange`: 10 bytes stand for the 4096 of `MAX_PSBT_RAW` (both leave a remainder of one byte in the last
group), two inputs and one output for the limits of the parser, two bytes for the 67 of a signature. Payloads have
one to twelve bytes, so every remainder occurs below, at and above the limit: all headers with up to three
inputs and two outputs followed by any two fields, and all transactions of one or two inputs, out of eight
kinds (signed in either order of fields, without UTXO, with a signature, refused for each reason, unknown), with an output of
three kinds. Two signed inputs and an output come with exactly 10 bytes and leave with exactly 14, the most the buffers hold.
A file broken into lines is read whole up to twelve bytes, and is refused. The unknown field is a byte
that uses both characters in which the alphabets differ. The theorems of section 4 have no such bound.

Deadlock is checked in every run: none of the models ever stops.

**Fairness.** `ColdWallet!FairSpec` assumes that a write returns and that a parked
wallet gets its `process_pending`. The loop justifies both: `persist_blob` is called
synchronously, and `process_pending` follows every parking click within the same
iteration (`sim:385`), which is what `VerdictIsSeen` checks from the side of the loop.
Nothing is assumed of the user, the power or the boots. `SimLoop!FairSpec` assumes that
the loop goes on; nothing of clicks, files or restarts.

## 4. What is proved

For all values of the constants that satisfy `LimitsAssumption` (sizes are
positive, the limit fits the counter's type), `NoneAssumption`, `BlobsAssumption` (`None`,
`Foreign` and `Torn` are not values of the types they are put beside), `WindowAssumption` (the
window is not empty), `FilesAssumption` (inputs and outputs of a file are sequences,
an output is an amount and a script, and so is a UTXO), `AmountAssumption` (amounts are
natural numbers), `SizesAssumption`, `WordListAssumption` and `ChecksumAssumption` (the bits of the words
fill the bytes, the list has a word for each index, a checksum is a byte), `TouchAssumption` and `ChoicesAssumption`
(buffers have room, a PIN has two digits or more, the pages hold the words evenly, an entropy has its length), `SpellingAssumption`
(the words fit the letter buffer, and one that begins another comes before it, as in alphabetical order), `Touch`'s `NoneAssumption` (`None` is not on any key), `FaultsAssumption`, `ListAssumption` (the SD folder is finite, names are ordered, as
`sort` orders them) and `ExchangeAssumption` (payloads and signatures are sequences
of bytes, a signature is not empty, capacities are sizes):

* `ColdWalletProofs`: `Invariance`, `TypeCorrect`, `GuessesAreBounded`, `AttemptsAreCounted`,
  `SessionIsOneWallet`, `DiskMirrorsRamAlways`, `SignedWasReviewed`, `LockoutIsPermanent`,
  `WalletIsAlwaysKept`, `GatesTakeThePin`, and `Refinement`: the core implements `PinLockout`.
* `PersistBlobProofs`: `AlwaysWhole`, `SavedStays`, and `RegisterRefinement`.
* `SigningProofs`: `SigningInvariance`, `SigningTypes`, `SignatureSafety`, `KeySigSafety`,
  `CompletenessOfSigning`, `ReviewAccountsForAll` and `ChangeCanBeSpent`, for any set
  of files, any number of inputs and outputs, any window and any largest amount.
* `SimLoopProofs`: `LoopInvariance`, `WindowIsCurrent`, `SignedIsSaved`, `ClicksKeepTheirMeaning`,
  `RowsLoadTheirFiles`, `SignedFilesAreReviewed`, for any folder, any number of rows, clicks, edits,
  failed writes and restarts.
* `TouchProofs`: `ShufflesAreFair`, for any number of keys, with `PadsAreDrawnFairly`; `TypeCorrect`, `NewWalletIsShown`, `RestoredWordsAreThePicked` and `EntropyOfWords`, for any word list, any
  number of words and pages, any size of a word, an index, a byte or a PIN, any checksum, and taps at any points.
* `ButtonProofs`: `EveryPixelIsHonest`, `ButtonsKeepTheirWord`, `OffTheButtonsNothingHappens`, `SecondTapCommitsNothing` and `WordsAreInReach`, for the
  areas of `core/layout.rs` as they are, every screen, and any word list, number of words and pages and size of a buffer.
* `ExchangeProofs`: `RoundTrip` (`decode` undoes `encode`, for bytes of any length and any value, and
  succeeds exactly when the buffer has room), and `BuffersHold`, `TypeCorrect`, `SignedComesBackAlways`, `LoadIsFaithful`,
  `EveryBitIsKept`, for any capacity, any payloads, any number of inputs, any length of a signature and any
  inputs that the signer fails at.

So every safety property of the passing runs is also a theorem.

**The argument for the core.** None of the properties is inductive alone. `IInv` adds:

* `Staged`: what each write in progress is about. `TypeOK` needs it (the pad is not
  full when a digit is added), and so does every action that a write returns in.
* `Held`: which secrets, PIN and image are in RAM on which screen, and that the
  PIN of the session opens the image. It needs `Genuine`: every image that exists
  was made by this program, so that what is decrypted is consistent.
* `SameWallet`: RAM is a later state of the wallet on disk. `WalletIsKept` follows, since
  only the image in RAM is ever written.
* `NotInUse`: a wallet locked on disk is powered off or shows the lock screen, hence
  nothing writes to it. `LockIsPermanent` follows.
* `Counted`: the heart of the lockout. The counter in RAM covers the verdicts given
  and the one in flight; the counter on disk covers the verdicts given and, once the
  write-ahead has returned, the one in flight; each lost write pays for a difference of
  one. A power-off loses the counter in RAM and a boot takes the one from disk: the second
  part makes the first true again. `GuessBound` alone is not inductive, because
  it says nothing of the disk.

`InitInvariant` and `NextInvariant` establish `IInv`; the step is split into one lemma per
part and, below, per group of actions (`Setup`, `PinPad`, `Browse`, `Power`, `Attempt`,
`ProcessPending`, `WriteReturns`). The action properties and the refinement use the invariant in
the state before the step. For the refinement each group maps to one abstract action
or to a stutter: navigation to `Close`, a verdict to `Accept` or `Reject`, a lone write to
`Write`, an unreadable boot to `MistakeForNew`.

**The argument for the storage.** Contents are synced before the rename, so what is
visible or stable is always a whole file (`PInv`); a completed save has synced the
directory, so visible and stable agree, and nothing but the next rename changes either.

**The argument for signing.** `SInv` says that the PSBT in RAM is the parse of the scanned file
but for its signatures (`IsScanned`); that a signature which did not come with the file is the
one `sign_psbt` makes for that input from the file alone (`SignaturesAreOurs`); and, while no signer
failed, that no input of ours before `next` is left out (`SignedBelow`). The digest reads
nothing that signing changes (`DigestIsFixed`), so the order of the inputs does not matter, and
`Encoded` shows that a verifier computes the same digest from the encoded file. `Fields` and
`SlotOfKey` are the lemmas on the parse and on the window. For the review, a total is a recursive function of a
number of entries: `SumsExist` and `LastSums` say that its partial sums exist and are what their
definition says, and an induction over the positions (`UpTo`, a set of positions that contains 0 and every successor)
does the rest. `SumSplit` splits the outputs into change and the others; `TotalIsExact` says that a saturating
total that fits in 64 bits is the sum, hence `ReviewAddsUp`. The theorem has the same
hypothesis as the property: an exact total past the largest amount saturates, and then
nothing is claimed.

**The argument for the loop.** Each of the properties speaks of one moment, and is kept by what was true
since an earlier one. `Picture` says that the frame drawn last is that of the state, but for the hint,
between any two steps, although only `Update` and the draws inside a click change it: each branch of a handler
either draws or leaves everything that its screen shows (`NowLooksTheSame`). `Aims` says that every click still waiting
was aimed at that frame, unless a newer one was drawn before it was shown, or a
click before it in the same batch swallowed the rest. `Session` ties the file under review, the PSBT in hand and the file
written; `TypeInv` needs the sorted list of the folder to be one of names (`ListingIsNames`).

**The argument for the screens.** Two halves. The words: a position in a row of bits is a group and a place in it
(`Position`, `Place`), so what `Bits` lays out is what `Numbers` cuts (`RowAndCut`, `CutAndRow`), provided that a number is
what its bits make (`NumberHasItsBits`, `BitsMakeTheNumber`: each by going through the bits one by one, which a set of the positions
done so far replaces an induction for). The bits of the words are those of the bytes (`Sizes`), and the round trip
of a mnemonic follows both ways (`WordsOfEntropy`, `EntropyOfWords`). The screens: `Fits` is what a screen may hold when it waits
for a tap, and each `step_` function gives only results that fit again (`StepSound`, one lemma per screen; `PadStep` and
`TypingSound` are the two kinds of typing; `ShuffleType`: a shuffled pad still has all its digits). A table of buttons gives the results
of one of them or none (`TapResults`), wherever the buttons are: the theorems of `TouchProofs` do not need the layout.
`BackupKept` is what `BackupWasShown` needs earlier: every page up to the one on the screen has been drawn. The page
number rises by one at most (`NewWalletComes`), and the pages hold each word once (`PagesHoldTheWords`).

For the shuffle, `Course` is the list of keys after each swap. A key behind the last swap stays (`Settled`), so that two
lists of draws with the same result agree from the last draw down (`DrawsDiffer`); and for any order wanted each
swap can fetch the key that belongs there, since it is not yet behind (`EveryOrder`). Both together are a bijection, and
there are finitely many draws (`FinitelyManyDraws`), so the numbers agree: `ShufflesAreFair`.

**The argument for the buttons.** Here the layout is needed, and nothing else: the invariant is still `Fits`. The areas are
reduced to pixels once (`FramePixels`, `HomePixels`, `SettingsPixels`, `RowPixels`, `PadPixels`, `OtherKeys`, `LetterPixels`), and four
lemmas say what a point hits: a key of the keyboard (`KeyOfPoint`), of the pad (`PadKeyOfPoint`), a slot of the strip
(`SlotOfPoint`), a row of Settings (`RowOfPoint`). Then one lemma per screen (`WelcomeHonest`, ..., `RestoreHonest`) compares what is drawn with
what a tap does, for every point of the plane: `TapsAreHonest`. `EveryPixelIsHonest` states it of the reachable states; the two
properties of the run follow, since their probes are among the points (`ProbesArePoints`). For `NoDeadEnd`, a word that is not on the strip is longer than what was typed: the strip shows the first
matches (`FirstMatchesAreShown`), a word equal to the text would be the first of them, as the list is in order, and
so its next letter has a key (`LetterHasKey`). For `BouncesAreHarmless`, `ScreenArrives` says how a screen is reached and what its
first tap at the same point may do: there the buffers are empty, so that no PIN is complete after one more digit
(`FirstDigit`: here a PIN needs two digits), and what led there does not overlap what commits (`EntranceArrives`);
`ResolvedArrives` says it after the deferred work, `AgainIsHarmless` concludes.

**The argument for Base64.** One group first: the octets of a group are its bytes (`GroupRoundTrip`),
because what an octet takes from a character is what was put there; then lengths, by the
remainder of the length by three (`Lengths`, `ByteIsCovered`, `CharOrPad`); then
`EncodedText` and `TrimmedText` say that character o of the text belongs to group o \div 4 and that
exactly the padding is stripped. No induction is needed, since each position of the output is
defined by itself. `DecodeBits` goes through the groups once more, bit by bit: a bit of the bytes
is a bit of the octets of its group (`GroupBits`), and what the end of the text leaves over has no byte (`LeftOver`).
For the exchange `EInv` adds to the types that there is a PSBT in hand on every
screen but the scan, one that parses, and no text before the result; `DecodedBytes` (an answer of `decode` fits its buffer) keeps it.
That the result of signing fits is an induction over the bytes that came (`SignedLength`): up to the end of a map, what
is written is no longer than what was read and a signature for each input so far (`Growth`). One map
grows by a signature at most (`InputMapLength`): each field written is one that was read, at a place of its own,
but for the signature, which needs a UTXO, and an empty UTXO, which is written only where there is no new
signature. There are no more such maps than the header says (`InputsCount`). With `LongerText`
(longer bytes have no shorter text) the text fits too, and `RoundTrip` gives the PSBT back. `LoadIsFaithful` needs what the file
went through: `History` says that it spells a beginning of what was sent, in some dialect (`Reads`), or
carries a line break where the decoder refuses it (`Broken`), and that it is all there if it was not cut. A cut may fall on
any character, on the line break too, after which the file reads again (`CutShort`); `ReadBack` is
what the decoder makes of such a text.

**Only model-checked.** Liveness (`RightPinUnlocks`, `PendingWorkEnds`, `VerdictIsSeen`), because
fairness and `ENABLED` are outside the prover's reach.

## 5. What is not modelled

* Arithmetic of the cryptography (`crypto.rs`, and that of `derive.rs`, `signing.rs`, `sighash.rs`): symbolic in the
  models, covered by published vectors in the unit tests.
* Wording, fonts, colours, QR codes, logging; the text of file names; scrubbing of memory in `Drop`.
* The generator behind `shuffle` (splitmix64, seeded by the host): the model takes any numbers.
* The bytes of a PSBT (varints, keys and values inside its maps) and of the image, and the checksum of the descriptor.
* A directory fsync that fails, followed by a restart and then by a power cut that
  brings back an older file: `PersistBlob` has it, `ColdWallet` does not follow it into
  the counter.
* The nonce of the image; corruption of the file by something other than this program.
* Deletion of a digit and the screens Receive, Accounts and Settings in `SimLoop`.

## 6. Where code and documents disagree

Each is a `violation` run; `PROJECT.json` quotes the lines.

1. The lockout is "permanent", unless a boot fails to read the file: a new setup may
   then replace it. What holds is `LockIsPermanent`, as long as every boot could read the file.
2. "Reaching Home" exports the descriptor, except when Home is reached by unlocking,
   the only way it is first reached: the loop looks at the state from before the deferred work.
3. The hint of a rejected PSBT is never drawn: the loop redraws when `AppState` changes,
   and the error flag is no part of it.
4. The notice "All outputs return to this wallet" stands for "no non-change outputs" and is
   decided by a sum of 0: it is also shown with a foreign output that carries no value. The row
   of that output is still shown as one that is not change.

More observations, on which no run is spent.

* The counter is "written before any decryption attempt", unless the write fails:
  `persist_blob` swallows the error. And it is "used for lockout enforcement before any decryption
  attempt": it is not; only `locked` is looked at, so after a power-off between the third attempt and the
  lock a fourth PIN is verified. What holds of both is `GuessBound`: three wrong verdicts
  in a row and no more, but for one for each lost write; and a right PIN still opens (`RightPinUnlocks`).
* A click between the drain and the next `window.update` is kept although the comment
  (`sim:411-418`) drops every click aimed at the screen left; what holds is
  `ClickMeansWhatWasSeen`: it is the only such moment.
* Totals past 64 bits saturate on both sides alike: inputs and outputs that both exceed the width show
  a fee of 0 and no warning, where
  `psbt.rs:155-157` expects one; `ReviewBalances` therefore speaks of totals that fit.
* On the third row of the two keyboards, between x = 510 and 760, the gaps between keys and what lies right of the
  keys act as Backspace (`keyboard.rs:33`) and nothing is drawn there. `HiddenBksp` is that band: a letter erased by any
  other area than a button that says so, or on any other screen, would break `UnlitIsHarmless`.
  Two dimmed buttons act: Cancel of a restore, and Prev on
  the first page of the words in Settings. `UnlitIsHarmless` lists them: there are no others.
* "already-signed input — keep it" (`psbt.rs:300`) holds for signatures of 64 bytes. A key signature with a sighash byte is dropped,
  and so are partial, script and final signatures: another signer's work of these kinds does not come back.
  `psbt.rs:8-11` says as much of unknown fields.
* Skip on the passphrase screen keeps what was typed and uses it (`machine.rs:116`).
* `decode` takes text without padding, with too much of it, and in the URL-safe alphabet; it turns down
  line breaks inside the text, which some tools write. Such a file is refused, never misread.
* Names of files are cut at a byte (`sign_scan.rs:51`), which ends the program if a long name has a character
  of several bytes there, and are drawn centred on the left edge of their row.

## 7. Plan

Done: `ColdWallet` with its contract and proofs; `PersistBlob` with its contract and proofs;
`SimLoop`, `Signing`, `Base64`, `Exchange` and `Touch` (with `Layout` and `Mnemonic`), each with its proofs.

Next, in this order:

1. An abstract signer (a reviewed transaction, a set of inputs, all signed or nothing) that both
   `Signing` and the signing actions of `ColdWallet` implement: it would replace `Signable` as the
   link between the two.
2. The core over a disk that a power cut can revert, and `SimLoop` over the core's own actions.
3. The key-value maps of a PSBT, byte by byte, with the limits of the parser.
