------------------------------ MODULE Signing ------------------------------
(***************************************************************************)
(* One transaction from scan to signed file: the fields ParsedPsbt keeps   *)
(* (wallet-core/src/psbt.rs), what the review screen says of them          *)
(* (draw/sign_review.rs), the loop of sign_psbt input by input             *)
(* (signing.rs, sighash.rs, derive.rs), and what encode_signed writes.     *)
(*                                                                         *)
(* Abstracted data: a PSBT is its fields, not its bytes.  Key derivation,  *)
(* the taproot tweak and the hashes are injective constructors.  A         *)
(* signature is the output key it verifies under, the digest it signs, and *)
(* its length: 64 bytes, or 65 with a sighash type of its own.             *)
(* Amounts keep their width: AmountMax stands for u64::MAX.                *)
(***************************************************************************)
EXTENDS Integers, Sequences

CONSTANTS
    None,                      \* Rust's None
    Files,                     \* the PSBTs that can be scanned
    KEY_WINDOW,                \* indexes per branch: 20 in the code
    MAX_INPUTS, MAX_OUTPUTS,   \* 5 and 8 in the code
    AmountMax,                 \* u64::MAX
    SendMax, FeeMax,           \* largest totals the header has room for
    MaxFaults                  \* calls of the BIP340 signer that may fail

VARIABLES
    screen,     \* the part of AppState this module sees
    scanned,    \* the file the transaction in hand came from
    psbt,       \* ColdWallet::psbt
    next,       \* the input sign_psbt is at; None outside it
    count,      \* inputs signed so far
    signed,     \* what signed_psbt_b64 encodes
    faults

\* A file is a transaction of inputs and outputs, and a map for each of them.
ASSUME FilesAssumption == \A f \in Files :
    /\ Len(f.tx.ins) \in Nat /\ Len(f.tx.outs) \in Nat
    /\ f.tx.ins = [i \in 1..Len(f.tx.ins) |-> f.tx.ins[i]]
    /\ f.tx.outs = [i \in 1..Len(f.tx.outs) |->
           [amount |-> f.tx.outs[i].amount, script |-> f.tx.outs[i].script]]
    /\ \A i \in 1..Len(f.tx.ins) : f.ins[i].utxo # None =>
           f.ins[i].utxo = [amount |-> f.ins[i].utxo.amount, script |-> f.ins[i].utxo.script]

ASSUME WindowAssumption == KEY_WINDOW \in Nat \ {0}
ASSUME FaultsAssumption == MaxFaults \in Nat

\* Amounts are u64 (amount_sats); an input without a UTXO has none.
ASSUME AmountAssumption ==
    /\ AmountMax \in Nat
    /\ \A f \in Files :
        /\ \A i \in 1..Len(f.tx.outs) : f.tx.outs[i].amount \in Nat
        /\ \A i \in 1..Len(f.tx.ins) : f.ins[i].utxo # None => f.ins[i].utxo.amount \in Nat

vars == <<screen, scanned, psbt, next, count, signed, faults>>

------------------------------------------------------------------------------
(* Keys and scripts *)

RECEIVE_BRANCH == 0
CHANGE_BRANCH == 1

KeyWindowSlots == [s \in 1..2 * KEY_WINDOW |->
    <<IF s <= KEY_WINDOW THEN RECEIVE_BRANCH ELSE CHANGE_BRANCH, (s - 1) % KEY_WINDOW>>]

\* The x-only internal key of the wallet at <<branch, index>>.
TapXonlyAt(slot) == [path |-> slot]

\* Q = P + H_TapTweak(P)G, as an injective constructor.
TaprootTweak(key) == [tweaked |-> key]

OwnInternalKeys == [s \in 1..2 * KEY_WINDOW |-> TapXonlyAt(KeyWindowSlots[s])]
OwnOutputKeys == [s \in 1..2 * KEY_WINDOW |-> TaprootTweak(TapXonlyAt(KeyWindowSlots[s]))]

\* `window.iter().position(..)`: where an internal key is in the window.
Position(key) == CHOOSE s \in 1..2 * KEY_WINDOW : OwnInternalKeys[s] = key

\* The same without the change branch: `tap_keypair` instead of `tap_keypair_at`.
SigningKeyOfReceiveBranch(slot) == TaprootTweak(TapXonlyAt(<<RECEIVE_BRANCH, slot[2]>>))

\* The output key that signatures of the tweaked key at a slot verify under.
SigningKey(slot) == TaprootTweak(TapXonlyAt(slot))

\* scriptPubKeys: a P2TR program, another script, or none (script_len = 0).
P2TR(outputKey) == [kind |-> "p2tr", program |-> outputKey]
NoScript == [kind |-> "none", program |-> None]
OtherScript == [kind |-> "other", program |-> None]

------------------------------------------------------------------------------
(* The file and its parse *)

\* A file: the unsigned transaction, a map per input, a map per output.  An input
\* of the transaction is its txid, vout and sequence, as one value; `header` is
\* version and locktime.  In an input map `sig` is TAP_KEY_SIG; `rest` are the
\* fields the parser ignores, among them partial, script and final signatures.
TooMany(f) == Len(f.tx.ins) > MAX_INPUTS \/ Len(f.tx.outs) > MAX_OUTPUTS

\* A signature made with the default sighash type.
Schnorr(key, digest) == [bytes |-> 64, by |-> key, of |-> digest]

\* The key signature of an input map, if the parser takes it: of 64 bytes only.
KeySig(in) == IF in.sig # None /\ in.sig.bytes = 64 THEN in.sig ELSE None

ParseInput(f, i) ==
    [outpoint |-> f.tx.ins[i],
     amount |-> IF f.ins[i].utxo = None THEN 0 ELSE f.ins[i].utxo.amount,
     script |-> IF f.ins[i].utxo = None THEN NoScript ELSE f.ins[i].utxo.script,
     key |-> f.ins[i].key, sig |-> KeySig(f.ins[i]), sighash |-> f.ins[i].sighash]

ParseOutput(f, i) ==
    [amount |-> f.tx.outs[i].amount, script |-> f.tx.outs[i].script, key |-> f.outs[i].key]

Parse(f) ==
    [txRaw |-> f.tx, header |-> f.tx.header,
     inputs |-> [i \in 1..Len(f.tx.ins) |-> ParseInput(f, i)],
     outputs |-> [i \in 1..Len(f.tx.outs) |-> ParseOutput(f, i)]]

\* An encoder that writes a signature only next to the internal key.
EncodeInputAfterKey(p, i) ==
    [utxo |-> [amount |-> p.inputs[i].amount, script |-> p.inputs[i].script],
     key |-> p.inputs[i].key, sig |-> IF p.inputs[i].key = None THEN None ELSE p.inputs[i].sig,
     sighash |-> None, rest |-> FALSE]

\* The signed file: the transaction as it came, every UTXO whether it came or
\* not, keys and signatures; the sighash type and unknown fields are dropped.
EncodeInput(p, i) ==
    [utxo |-> [amount |-> p.inputs[i].amount, script |-> p.inputs[i].script],
     key |-> p.inputs[i].key, sig |-> p.inputs[i].sig, sighash |-> None, rest |-> FALSE]

EncodeSigned(p) ==
    [tx |-> p.txRaw,
     ins |-> [i \in 1..Len(p.inputs) |-> EncodeInput(p, i)],
     outs |-> [i \in 1..Len(p.outputs) |-> [key |-> p.outputs[i].key]]]

------------------------------------------------------------------------------
(* The review screen *)

SaturatingAdd(a, b) == IF a + b > AmountMax THEN AmountMax ELSE a + b
SaturatingSub(a, b) == IF a < b THEN 0 ELSE a - b

Total(amounts) ==
    LET upTo[n \in 0..Len(amounts)] ==
            IF n = 0 THEN 0 ELSE SaturatingAdd(upTo[n - 1], amounts[n])
    IN  upTo[Len(amounts)]
TotalIn(p) == Total([i \in 1..Len(p.inputs) |-> p.inputs[i].amount])
TotalOut(p) == Total([i \in 1..Len(p.outputs) |-> p.outputs[i].amount])
Fee(p) == SaturatingSub(TotalIn(p), TotalOut(p))

\* A review that looks one index further for change than it does for inputs.
IsChangeAnyIndex(out) ==
    out.script.kind = "p2tr" /\ \E b \in {0, 1}, i \in 0..KEY_WINDOW :
        out.script.program = TaprootTweak(TapXonlyAt(<<b, i>>))

\* Change is recognised by its script alone, never by what the host says of it.
IsChange(out) ==
    \E s \in 1..2 * KEY_WINDOW : out.script = P2TR(OwnOutputKeys[s])

\* Without the rule of the quarter.
FeeIsAbnormalToSend(fee, send, totalIn) == send > 0 /\ fee > send

FeeIsAbnormal(fee, send, totalIn) == fee > totalIn \div 4 \/ (send > 0 /\ fee > send)

SendTotal(p) == Total([i \in 1..Len(p.outputs) |->
    IF IsChange(p.outputs[i]) THEN 0 ELSE p.outputs[i].amount])

\* A total that does not fit in the buffer is printed as "?".
Printed(n, limit) == IF n > limit THEN None ELSE n

Warning(p) ==
    CASE TotalOut(p) > TotalIn(p) -> "overflow"
      [] FeeIsAbnormal(Fee(p), SendTotal(p), TotalIn(p)) -> "high fee"
      [] OTHER -> "none"

Row(out) ==
    [address |-> out.script.program, amount |-> out.amount, change |-> IsChange(out)]

Review(p) ==
    [send |-> Printed(SendTotal(p), SendMax), fee |-> Printed(Fee(p), FeeMax),
     warning |-> Warning(p),
     rows |-> [i \in 1..Len(p.outputs) |-> Row(p.outputs[i])],
     allReturns |-> SendTotal(p) = 0 /\ Len(p.outputs) > 0]

------------------------------------------------------------------------------
(* The digest of sighash.rs *)

HashOutputs(p) == [i \in 1..Len(p.outputs) |->
    [amount |-> p.outputs[i].amount, script |-> p.outputs[i].script]]

TaprootSighash(p, i) ==
    [header |-> p.header,
     prevouts |-> [j \in 1..Len(p.inputs) |-> p.inputs[j].outpoint],
     amounts |-> [j \in 1..Len(p.inputs) |-> p.inputs[j].amount],
     scripts |-> [j \in 1..Len(p.inputs) |-> p.inputs[j].script],
     outputs |-> HashOutputs(p), index |-> i]

------------------------------------------------------------------------------
(* Scanning, reviewing, signing *)

Init ==
    /\ screen = "Home" /\ scanned = None /\ psbt = None
    /\ next = None /\ count = 0 /\ signed = None /\ faults = 0

OpenScan ==
    /\ screen = "Home" /\ screen' = "SignScan"
    /\ UNCHANGED <<scanned, psbt, next, count, signed, faults>>

Scan(f) ==
    /\ screen = "SignScan" /\ ~TooMany(f)
    /\ psbt' = Parse(f) /\ scanned' = f /\ screen' = "SignReview"
    /\ UNCHANGED <<next, count, signed, faults>>

\* Confirm shows the result screen and calls do_sign at once.
Confirm ==
    /\ screen = "SignReview"
    /\ screen' = "SignResult" /\ next' = 1 /\ count' = 0
    /\ UNCHANGED <<scanned, psbt, signed, faults>>

\* Leaving without clearing the signed file.
LeaveKeepsResult ==
    /\ screen # "Home" /\ next = None
    /\ screen' = "Home" /\ scanned' = None /\ psbt' = None /\ count' = 0
    /\ UNCHANGED <<next, signed, faults>>

\* Cancel on the review, Back on the others: leaving drops the transaction.
Leave ==
    /\ screen # "Home" /\ next = None
    /\ screen' = "Home" /\ scanned' = None /\ psbt' = None /\ signed' = None
    /\ count' = 0
    /\ UNCHANGED <<next, faults>>

AtInput == next # None /\ next <= Len(psbt.inputs)

\* The key of an input is in the derivation window.
IsOwn(input) == \E s \in 1..2 * KEY_WINDOW : OwnInternalKeys[s] = input.key

\* What sign_psbt demands of an input whose key it knows.
Acceptable(input) ==
    /\ input.script # NoScript
    /\ input.script = P2TR(TaprootTweak(input.key))
    /\ input.sighash \in {None, 0}

\* Not ours: left as it came.
SkipInput ==
    /\ AtInput /\ ~IsOwn(psbt.inputs[next])
    /\ next' = next + 1
    /\ UNCHANGED <<screen, scanned, psbt, count, signed, faults>>

SignInput ==
    /\ AtInput /\ IsOwn(psbt.inputs[next]) /\ Acceptable(psbt.inputs[next])
    /\ next' = next + 1
    /\ LET slot == KeyWindowSlots[Position(psbt.inputs[next].key)]
       IN psbt' = [psbt EXCEPT !.inputs[next].sig =
              Schnorr(SigningKey(slot), TaprootSighash(psbt, next))]
    /\ count' = count + 1
    /\ UNCHANGED <<screen, scanned, signed, faults>>

\* `if let Ok(sig)`: a failing signer leaves the input as it is, silently.
SignerFails ==
    /\ AtInput /\ IsOwn(psbt.inputs[next]) /\ Acceptable(psbt.inputs[next])
    /\ faults < MaxFaults /\ faults' = faults + 1
    /\ next' = next + 1
    /\ UNCHANGED <<screen, scanned, psbt, count, signed>>

\* Going on with the next input instead.
SkipRefused ==
    /\ AtInput /\ IsOwn(psbt.inputs[next]) /\ ~Acceptable(psbt.inputs[next])
    /\ next' = next + 1
    /\ UNCHANGED <<screen, scanned, psbt, count, signed, faults>>

\* An early return: nothing is encoded, signatures made so far stay in `psbt`.
RefuseInput ==
    /\ AtInput /\ IsOwn(psbt.inputs[next]) /\ ~Acceptable(psbt.inputs[next])
    /\ next' = None
    /\ UNCHANGED <<screen, scanned, psbt, count, signed, faults>>

\* After the loop: NoMatchingInput, or the signed file.
Finish ==
    /\ next # None /\ next > Len(psbt.inputs)
    /\ next' = None
    /\ signed' = IF count = 0 THEN signed ELSE EncodeSigned(psbt)
    /\ UNCHANGED <<screen, scanned, psbt, count, faults>>

SignPsbt == SkipInput \/ SignInput \/ SignerFails \/ RefuseInput \/ Finish

Next == OpenScan \/ (\E f \in Files : Scan(f)) \/ Confirm \/ Leave \/ SignPsbt

Spec == Init /\ [][Next]_vars

------------------------------------------------------------------------------
(* Properties *)

Slots == {RECEIVE_BRANCH, CHANGE_BRANCH} \X (0..KEY_WINDOW - 1)

\* A scanned file of which this wallet has signed some inputs.
PartlySigned(f) ==
    {[Parse(f) EXCEPT !.inputs = [i \in 1..Len(f.tx.ins) |->
         IF i \notin ours THEN ParseInput(f, i)
         ELSE [ParseInput(f, i) EXCEPT !.sig =
                  Schnorr(TaprootTweak(f.ins[i].key), TaprootSighash(Parse(f), i))]]]
        : ours \in SUBSET (1..Len(f.tx.ins))}

\* None is no transaction.
ASSUME NoneAssumption == \A f \in Files : None \notin PartlySigned(f)

\* Where the transaction is in its life; signing changes nothing but signatures.
TypeOK ==
    /\ screen \in {"Home", "SignScan", "SignReview", "SignResult"}
    /\ screen \in {"SignReview", "SignResult"} <=> psbt # None
    /\ next # None \/ signed # None => screen = "SignResult"
    /\ next \in Nat \cup {None} /\ count \in Nat /\ faults \in 0..MaxFaults
    /\ next # None => next <= Len(psbt.inputs) + 1 /\ count < next
    /\ psbt # None => psbt \in PartlySigned(scanned)

\* The digest that a verifier computes from a file alone (BIP341).
FileDigest(f, i) ==
    [header |-> f.tx.header, prevouts |-> f.tx.ins,
     amounts |-> [j \in 1..Len(f.tx.ins) |-> f.ins[j].utxo.amount],
     scripts |-> [j \in 1..Len(f.tx.ins) |-> f.ins[j].utxo.script],
     outputs |-> f.tx.outs, index |-> i]

Verifies(f, i) ==
    /\ f.ins[i].utxo.script = P2TR(f.ins[i].sig.by)
    /\ f.ins[i].sig.of = FileDigest(f, i)

\* Every signature this wallet puts into a file verifies against the transaction
\* and the UTXOs of that same file, under a key of the derivation window:
\* taproot_sighash, the slot found for an input, the tweak and encode_signed agree.
SignaturesVerify == signed # None =>
    \A i \in 1..Len(signed.ins) : signed.ins[i].sig \notin {None, scanned.ins[i].sig} =>
        /\ \E slot \in Slots : signed.ins[i].key = TapXonlyAt(slot)
        /\ Verifies(signed, i)

\* The file that leaves holds the transaction, the internal keys and the UTXOs
\* that came, and at the inputs of others their key signature of 64 bytes.
\* Nothing else that others put into the file comes back: a key signature with a
\* sighash byte is dropped, and partial, script and final signatures are (they
\* are in `rest`).  (ParsedPsbt::parse and encode_signed, psbt.rs)
KeySigsAreKept == signed # None =>
    /\ signed.tx = scanned.tx
    /\ \A i \in 1..Len(signed.outs) : signed.outs[i].key = scanned.outs[i].key
    /\ \A i \in 1..Len(signed.ins) :
        /\ signed.ins[i].key = scanned.ins[i].key
        /\ scanned.ins[i].utxo \in {None, signed.ins[i].utxo}
        /\ ~IsOwn(signed.ins[i]) =>
               LET came == scanned.ins[i].sig IN
               signed.ins[i].sig = IF came # None /\ came.bytes = 64 THEN came ELSE None

\* One input that sign_psbt refuses withholds the whole file: while the signer
\* itself never fails, a file is signed at every input of this wallet.
AllOrNothing == signed # None /\ faults = 0 =>
    \A i \in 1..Len(signed.ins) : IsOwn(signed.ins[i]) =>
        signed.ins[i].sig = Schnorr(TaprootTweak(signed.ins[i].key), FileDigest(signed, i))

\* Sums without a width, for comparison.
Exact(amounts) ==
    LET upTo[n \in 0..Len(amounts)] == IF n = 0 THEN 0 ELSE upTo[n - 1] + amounts[n]
    IN  upTo[Len(amounts)]
ExactIn == Exact([i \in 1..Len(psbt.inputs) |-> psbt.inputs[i].amount])
ExactOut == Exact([i \in 1..Len(psbt.outputs) |-> psbt.outputs[i].amount])
ExactChange(rows) ==
    Exact([i \in 1..Len(rows) |-> IF rows[i].change THEN rows[i].amount ELSE 0])

\* As long as the totals fit in 64 bits, the review screen accounts for all that
\* is spent: what is sent, the rows of change and the fee make up the inputs, a
\* transaction that spends more than it has is named, and a fee of more than a
\* quarter of the inputs is marked.
ReviewBalances ==
    screen = "SignReview" /\ ExactIn <= AmountMax /\ ExactOut <= AmountMax =>
        LET r == Review(psbt) IN
        /\ r.warning = "overflow" <=> ExactOut > ExactIn
        /\ r.warning # "overflow" /\ r.send # None /\ r.fee # None =>
               r.send + ExactChange(r.rows) + r.fee = ExactIn
        /\ 4 * (ExactIn - ExactOut) > ExactIn => r.warning = "high fee"

\* What the review calls change this wallet can spend again: an input that pays
\* from it passes every check of sign_psbt under some key of the window.
ChangeIsSpendable == screen = "SignReview" =>
    \A i \in 1..Len(psbt.outputs) : Review(psbt).rows[i].change =>
        \E slot \in Slots :
            LET input == [script |-> psbt.outputs[i].script, key |-> TapXonlyAt(slot), sighash |-> None]
            IN IsOwn(input) /\ Acceptable(input)

------------------------------------------------------------------------------
(* What the documents say and the code does not keep: refuted by a run *)

\* "All outputs return to this wallet" is shown for a self-send only.
\* ("Self-send notice (no non-change outputs)", draw/sign_review.rs; the code
\* looks at the sum of the other outputs, which an output of no value leaves at 0)
SelfSendNotice == screen = "SignReview" /\ Review(psbt).allReturns =>
    \A i \in 1..Len(psbt.outputs) : Review(psbt).rows[i].change
=============================================================================
