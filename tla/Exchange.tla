------------------------------ MODULE Exchange ------------------------------
(***************************************************************************)
(* A transaction on its way: the host exports a PSBT as Base64 text to the *)
(* SD folder, the wallet reads, decodes and parses it, signs it and leaves *)
(* the result as text again (read_psbt_file of the simulator, load_psbt    *)
(* and do_sign of state/wallet.rs, and the capacities of psbt.rs).         *)
(*                                                                         *)
(* The host is external: tools differ in padding, in the alphabet and in   *)
(* line ends, and a file may be cut short on its way.                      *)
(*                                                                         *)
(* A PSBT is its magic, the two counts of its transaction, and a map for   *)
(* each input and each output: fields, one byte each, up to an END.  The   *)
(* wallet reads the fields it knows and writes a PSBT of its own from      *)
(* them.  Which keys, UTXOs and signatures these are is the business of    *)
(* Signing; here an input is ours, or it is not, and what counts is what   *)
(* is written and how long it gets.                                        *)
(***************************************************************************)
EXTENDS Base64, FiniteSets

CONSTANTS
    None,
    Payloads,           \* what the host may export, sequences of bytes
    MAGIC,              \* the byte a PSBT begins with: five in the code
    SIG,                \* the field that signing adds to an input: 67 bytes in the code
    MAX_PSBT_RAW,       \* bytes of a PSBT: 4096 in the code
    MAX_INPUTS,         \* five in the code
    MAX_OUTPUTS         \* eight in the code

ASSUME ExchangeAssumption ==
    /\ MAGIC \in Byte /\ SIG \in Seq(Byte) /\ SIG # <<>>
    /\ {MAX_PSBT_RAW, MAX_INPUTS, MAX_OUTPUTS} \subseteq Nat
    /\ \A b \in Payloads : b \in Seq(Byte) /\ b # <<>>
    /\ None \notin Seq(Byte)

VARIABLES
    file,       \* the text in the folder
    sent,       \* history: the bytes the host exported to it
    wrapped,    \* history: whether the text is broken into lines
    cut,        \* history: whether the text lost its end
    app,        \* the screens of a transaction: SignScan, SignReview, SignResult
    psbt,       \* ColdWallet::psbt: the bytes of the PSBT in hand, or None
    scanError,  \* ColdWallet::scan_error_flag
    signed      \* ColdWallet::signed_psbt_b64, or None

hostVars == <<file, sent, wrapped, cut>>
walletVars == <<app, psbt, scanError, signed>>
vars == <<hostVars, walletVars>>

MAX_PSBT_B64 == B64Len(MAX_PSBT_RAW)
MAX_SIGNED_RAW == MAX_PSBT_RAW + MAX_INPUTS * Len(SIG)
\* Mutant: the buffer for the result has room for one signature.
MaxSignedForgetsInputs == B64Len(MAX_PSBT_RAW + Len(SIG))
MAX_SIGNED_B64 == B64Len(MAX_SIGNED_RAW)

-----------------------------------------------------------------------------
(* The host *)

NEWLINE == 10

\* One text in the dialects of several tools.
\* Without padding: one character for every six bits begun.
Bare(bytes) == SubSeq(Encode(bytes), 1, (8 * Len(bytes) + 5) \div 6)
UrlSafe(text) ==
    [i \in DOMAIN text |-> CASE text[i] = 43 -> 45 [] text[i] = 47 -> 95 [] OTHER -> text[i]]
Wrapped(text) == SubSeq(text, 1, 4) \o <<NEWLINE>> \o SubSeq(text, 5, Len(text))

\* One file in a behaviour: another one meets the same wallet (SimLoop has several).
Export(bytes) ==
    /\ sent = <<>>
    /\ LET text == Encode(bytes)
       IN  \/ /\ file' \in {text, Bare(bytes), UrlSafe(text), Append(text, NEWLINE)}
              /\ wrapped' = FALSE
           \/ /\ Len(text) > 4 /\ file' = Wrapped(text)
              /\ wrapped' = TRUE
    /\ sent' = bytes /\ cut' = FALSE
    /\ UNCHANGED walletVars

\* A copy that stopped early.
Truncate ==
    /\ file # <<>>
    /\ file' = Front(file) /\ cut' = TRUE
    /\ UNCHANGED <<sent, wrapped, walletVars>>

-----------------------------------------------------------------------------
(* What is in a PSBT *)

\* The end of a map, and the fields by their types: of an input the witness UTXO (that
\* of the key, if there is one), a sighash type other than the default, a key
\* signature that came with it, and an internal key of ours; of an output its internal
\* key.  Any other byte is a field the wallet does not know.
END      == 0
UTXO     == 1
SIGHASH  == 3
KEY_SIG  == 19
KEY      == 23
OUT_KEY  == 5
\* The UTXO that is written for an input without one: no amount, no script.
NO_UTXO  == 9

\* Behind the three bytes of the header, the ends of the maps; the first ones are
\* those of the inputs, the next ones those of the outputs.
Ends(b) == {e \in 4..Len(b) : b[e] = END}
Place(b, e) == Cardinality({f \in Ends(b) : f <= e})
InputEnds(b) == {e \in Ends(b) : Place(b, e) <= b[2]}
OutputEnds(b) == {e \in Ends(b) \ InputEnds(b) : Place(b, e) <= b[2] + b[3]}

\* The fields of the map that ends there.
Fields(b, e) == {b[j] : j \in {k \in 4..e - 1 : Ends(b) \cap k..e - 1 = {}}}

\* ParsedPsbt::parse: the magic, counts within bounds, and all the maps they promise.
\* What follows the last map is not looked at.
Parses(b) ==
    /\ Len(b) >= 3 /\ b[1] = MAGIC
    /\ b[2] <= MAX_INPUTS /\ b[3] <= MAX_OUTPUTS
    /\ b[2] + b[3] <= Cardinality(Ends(b))

\* sign_psbt, one input: ours by its key; refused without a UTXO or with a sighash type.
Ours(fields) == KEY \in fields
Signable(fields) == UTXO \in fields /\ SIGHASH \notin fields

\* sign_psbt: one input of ours that may not be signed refuses them all, and one must be
\* signed.  At an input of "failed" the signer gave no signature.
Accepts(b, failed) ==
    /\ \A e \in InputEnds(b) : Ours(Fields(b, e)) => Signable(Fields(b, e))
    /\ \E e \in InputEnds(b) \ failed : Ours(Fields(b, e))

Keep(field, fields) == IF field \in fields THEN <<field>> ELSE <<>>

\* encode_signed: the map of an input, of an output, and the whole.
InputMap(fields, signs) ==
    <<IF UTXO \in fields THEN UTXO ELSE NO_UTXO>> \o Keep(KEY, fields)
    \o (IF signs /\ Ours(fields) /\ Signable(fields) THEN SIG ELSE Keep(KEY_SIG, fields))
    \o <<END>>
OutputMap(fields) == Keep(OUT_KEY, fields) \o <<END>>

\* What is written by the time byte i has been read, without what came before.
Written(b, failed) ==
    [i \in 1..Len(b) |->
        IF i <= 3 THEN <<b[i]>>
        ELSE IF i \in InputEnds(b) THEN InputMap(Fields(b, i), i \notin failed)
        ELSE IF i \in OutputEnds(b) THEN OutputMap(Fields(b, i))
        ELSE <<>>]
EncodeSigned(b, failed) == FlattenSeq(Written(b, failed))

-----------------------------------------------------------------------------
(* The wallet *)

\* str::trim
Trim(text) ==
    IF ToSet(text) \subseteq {NEWLINE} THEN <<>>
    ELSE SubSeq(text, SelectInSeq(text, LAMBDA c : c # NEWLINE),
                      SelectLastInSeq(text, LAMBDA c : c # NEWLINE))

\* read_psbt_file: a file that is empty or too long is not read at all.
Readable(text) == text # <<>> /\ Len(text) <= MAX_PSBT_B64

\* PsbtScanned on the scan screen: load_psbt.
LoadPsbt ==
    /\ app = "SignScan"
    /\ LET text == Trim(file)
           good == Decodes(text, MAX_PSBT_RAW) /\ Parses(Decode(text))
       IN  /\ Readable(text)
           /\ app' = IF good THEN "SignReview" ELSE "SignScan"
           /\ psbt' = IF good THEN Decode(text) ELSE psbt
           /\ scanError' = ~good
    /\ UNCHANGED <<hostVars, signed>>

\* do_sign: a PSBT that sign_psbt refuses leaves no text, nor does one that would not
\* fit into the buffers; the result screen follows all the same.
SignWithout(failed) ==
    /\ app = "SignReview" /\ app' = "SignResult"
    /\ LET bin == EncodeSigned(psbt, failed)
       IN  signed' = IF /\ Accepts(psbt, failed)
                        /\ Len(bin) <= MAX_SIGNED_RAW
                        /\ B64Len(Len(bin)) <= MAX_SIGNED_B64
                     THEN Encode(bin) ELSE signed
    /\ UNCHANGED <<hostVars, psbt, scanError>>

\* Signing may fail at any inputs (`if let Ok(sig)` in sign_psbt).
DoSign ==
    /\ app = "SignReview"
    /\ \E failed \in SUBSET InputEnds(psbt) : SignWithout(failed)

\* Back to Home, which clears the transaction, and on to the next scan.
BackHome ==
    /\ app' = "SignScan" /\ psbt' = None /\ scanError' = FALSE /\ signed' = None
    /\ UNCHANGED hostVars

Init ==
    /\ file = <<>> /\ sent = <<>> /\ wrapped = FALSE /\ cut = FALSE
    /\ app = "SignScan" /\ psbt = None /\ scanError = FALSE /\ signed = None

Next ==
    \/ \E bytes \in Payloads : Export(bytes)
    \/ Truncate
    \/ LoadPsbt
    \/ DoSign
    \/ BackHome

Spec == Init /\ [][Next]_vars

-----------------------------------------------------------------------------
(* Properties *)

\* The types of the variables, with the capacity of every buffer.
TypeOK ==
    /\ file \in Seq(Byte) /\ sent \in Seq(Byte)
    /\ app \in {"SignScan", "SignReview", "SignResult"}
    /\ {wrapped, cut, scanError} \subseteq BOOLEAN
    /\ psbt # None => psbt \in Seq(Byte) /\ Len(psbt) <= MAX_PSBT_RAW
    /\ signed # None => signed \in Seq(Byte) /\ Len(signed) <= MAX_SIGNED_B64

\* What a load puts in hand is what the host exported, to the byte, in whichever
\* dialect; a file that lost its end yields a beginning of it and never other
\* bytes.  A whole file is turned down only if it is no PSBT, larger than the wallet
\* takes (up to the last byte, although the text of a PSBT one or two bytes too
\* large is no longer than the limit), or broken into lines (however short).
LoadsWhatWasSent ==
    [][LoadPsbt =>
          /\ psbt' # None => IsPrefix(psbt', sent) /\ (cut \/ psbt' = sent)
          /\ ~cut => (psbt' # None <=> Parses(sent) /\ Len(sent) <= MAX_PSBT_RAW /\ ~wrapped)]_vars

\* Bit k of a number, the lowest one being the first.
Bit(v, k) == (v \div <<1, 2, 4, 8, 16, 32, 64, 128>>[k]) % 2

\* Bit i of a sequence of numbers of w bits, most significant first.
BitOf(s, i, w) == Bit(s[i \div w + 1], w - (i % w))

\* Decoding is bit for bit: every bit of the bytes is the bit in its place in the
\* characters, and fewer bits than one character are left over at the end, so no
\* character is dropped.
BitForBit ==
    Decodes(file, MAX_PSBT_RAW) =>
        LET bytes  == Decode(file)
            values == [i \in DOMAIN Trimmed(file) |-> Val(file[i])]
        IN  /\ \A i \in 0..8 * Len(bytes) - 1 : BitOf(bytes, i, 8) = BitOf(values, i, 6)
            /\ 6 * Len(values) - 8 * Len(bytes) \in 0..5

\* Signing leaves a text exactly if sign_psbt accepts the PSBT; who reads the text gets
\* back the PSBT that encode_signed writes from what was parsed, with the signatures.
\* So no buffer on the way is too small for anything that was accepted, although
\* every input may grow by a signature and one without a UTXO gets an empty one.
SignedComesBack ==
    [][app = "SignReview" =>
          \A failed \in SUBSET InputEnds(psbt) :
             SignWithout(failed) =>
                IF Accepts(psbt, failed)
                THEN /\ signed' # None /\ Decodes(signed', MAX_SIGNED_RAW)
                     /\ Decode(signed') = EncodeSigned(psbt, failed)
                ELSE signed' = None]_vars
=============================================================================
