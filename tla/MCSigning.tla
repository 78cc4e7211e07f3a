----------------------------- MODULE MCSigning -----------------------------
(***************************************************************************)
(* Signing on every file of one or two inputs and outputs of the kinds      *)
(* below.                                                                  *)
(***************************************************************************)
EXTENDS Signing

CONSTANT stranger

\* Signatures that come with the file: with the default sighash type, and with
\* one of their own.
hostSig == Schnorr(stranger, stranger)
longSig == [hostSig EXCEPT !.bytes = 65]

own(branch, index) == TapXonlyAt(<<branch, index>>)
PayTo(key) == P2TR(TaprootTweak(key))

Utxo(amount, script) == [amount |-> amount, script |-> script]
In(utxo, key, sig, sighash) ==
    [utxo |-> utxo, key |-> key, sig |-> sig, sighash |-> sighash, rest |-> TRUE]

\* Ours; ours and refused for each reason; not ours, of each kind.
MCIns == {
    In(Utxo(8, PayTo(own(0, 0))), own(0, 0), None, None),
    In(Utxo(5, PayTo(own(1, 1))), own(1, 1), longSig, 0),
    In(Utxo(15, PayTo(own(1, 0))), own(1, 0), hostSig, None),
    In(None, own(0, 0), None, None),
    In(Utxo(8, PayTo(own(0, 1))), own(0, 0), None, None),
    In(Utxo(8, OtherScript), own(0, 1), None, None),
    In(Utxo(8, PayTo(own(0, 0))), own(0, 0), None, 1),
    In(Utxo(4, PayTo(own(0, KEY_WINDOW))), own(0, KEY_WINDOW), None, None),
    In(Utxo(4, PayTo(stranger)), stranger, hostSig, None),
    In(Utxo(4, PayTo(stranger)), stranger, longSig, 1),
    In(Utxo(4, PayTo(own(0, 0))), None, hostSig, None),
    In(None, None, None, None)}

Out(amount, script, key) ==
    [tx |-> [amount |-> amount, script |-> script], map |-> [key |-> key]]

MCOuts == {
    Out(3, PayTo(own(1, 0)), own(1, 0)),
    Out(6, PayTo(own(0, 1)), None),
    Out(4, PayTo(own(1, KEY_WINDOW)), own(1, KEY_WINDOW)),
    Out(6, PayTo(stranger), own(1, 0)),
    Out(0, OtherScript, None),
    Out(15, OtherScript, None)}

OneOrTwo(S) == {<<x>> : x \in S} \cup {<<x, y>> : x, y \in S}

FileOf(ins, outs) ==
    [tx |-> [header |-> 0, ins |-> [i \in 1..Len(ins) |-> i],
             outs |-> [i \in 1..Len(outs) |-> outs[i].tx]],
     ins |-> ins, outs |-> [i \in 1..Len(outs) |-> outs[i].map]]

\* One input more than the parser takes.
Oversized == {FileOf(<<x, x, x>>, <<y>>) : x \in MCIns, y \in MCOuts}

MCFiles == Oversized \cup {FileOf(ins, outs) : ins \in OneOrTwo(MCIns), outs \in OneOrTwo(MCOuts)}
=============================================================================
