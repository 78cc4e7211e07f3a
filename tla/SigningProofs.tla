--------------------------- MODULE SigningProofs ---------------------------
(***************************************************************************)
(* What leaves the signer, for any set of well-formed files, any window    *)
(* and any number of inputs: signatures that verify, on the transaction    *)
(* that was scanned, at every input of the wallet or not at all.           *)
(***************************************************************************)
EXTENDS Signing, WellFoundedInduction, TLAPS

Loaded == screen \in {"SignReview", "SignResult"}

Inputs == 1..Len(scanned.tx.ins)

\* The signature sign_psbt makes for input i of the file in hand.
OwnSignature(i) ==
    Schnorr(TaprootTweak(scanned.ins[i].key), TaprootSighash(Parse(scanned), i))

\* sign_psbt knows the key of input i of the file in hand, and accepts the input.
Signable(i) == IsOwn(ParseInput(scanned, i)) /\ Acceptable(ParseInput(scanned, i))

\* The transaction in hand is the scanned one but for its signatures.
IsScanned ==
    /\ scanned \in Files
    /\ psbt = [Parse(scanned) EXCEPT !.inputs =
           [i \in Inputs |-> [ParseInput(scanned, i) EXCEPT !.sig = psbt.inputs[i].sig]]]

\* A signature that did not come with the file was made from the file.
SignaturesAreOurs == \A i \in Inputs :
    \/ psbt.inputs[i].sig = KeySig(scanned.ins[i])
    \/ Signable(i) /\ psbt.inputs[i].sig = OwnSignature(i)

\* While the signer never fails, no input of the wallet below n is left out.
SignedBelow(n) == \A i \in Inputs :
    faults = 0 /\ i < n /\ IsOwn(ParseInput(scanned, i)) => psbt.inputs[i].sig = OwnSignature(i)

\* A file to hand out is the encoding of the transaction in hand, fully signed.
ResultIsComplete ==
    /\ screen = "SignResult" /\ next = None /\ signed = EncodeSigned(psbt)
    /\ SignedBelow(Len(scanned.tx.ins) + 1)

SInv ==
    /\ Loaded => IsScanned /\ SignaturesAreOurs
    /\ next # None => screen = "SignResult" /\ next \in Nat \ {0} /\ SignedBelow(next)
    /\ signed # None => ResultIsComplete
    /\ faults \in Nat

------------------------------------------------------------------------------
(* The transaction in hand, field by field *)

\* Writing a signature into an input leaves its other fields.
LEMMA OtherFields ==
    ASSUME NEW a, NEW b, NEW c, NEW d, NEW e, NEW f, NEW x, NEW in,
           in = [[outpoint |-> a, amount |-> b, script |-> c, key |-> d, sig |-> e, sighash |-> f]
                    EXCEPT !.sig = x]
    PROVE  /\ in.outpoint = a /\ in.amount = b /\ in.script = c
           /\ in.key = d /\ in.sighash = f /\ in.sig = x
  OBVIOUS

\* The signature written last stays.
LEMMA LastSignature ==
    ASSUME NEW i, NEW x, NEW y
    PROVE  /\ [[ParseInput(scanned, i) EXCEPT !.sig = x] EXCEPT !.sig = y]
                  = [ParseInput(scanned, i) EXCEPT !.sig = y]
           /\ [ParseInput(scanned, i) EXCEPT !.sig = y].sig = y
<1>1. ASSUME NEW a, NEW b, NEW c, NEW d, NEW e, NEW f, NEW in,
             in = [outpoint |-> a, amount |-> b, script |-> c, key |-> d, sig |-> e, sighash |-> f]
      PROVE  /\ [[in EXCEPT !.sig = x] EXCEPT !.sig = y] = [in EXCEPT !.sig = y]
             /\ [in EXCEPT !.sig = y].sig = y
  BY <1>1
<1>. QED BY <1>1 DEF ParseInput

\* The signature a file came with is the one its parse has.
LEMMA ScannedSignature ==
    ASSUME NEW i
    PROVE  [ParseInput(scanned, i) EXCEPT !.sig = KeySig(scanned.ins[i])] = ParseInput(scanned, i)
<1>1. ASSUME NEW a, NEW b, NEW c, NEW d, NEW e, NEW f, NEW in,
             in = [outpoint |-> a, amount |-> b, script |-> c, key |-> d, sig |-> e, sighash |-> f]
      PROVE  [in EXCEPT !.sig = e] = in
  BY <1>1
<1>. QED BY <1>1 DEF ParseInput

\* What stays of the parse whatever was signed.
LEMMA Fields ==
    ASSUME IsScanned
    PROVE  /\ Len(scanned.tx.ins) \in Nat
           /\ psbt.txRaw = scanned.tx /\ psbt.header = scanned.tx.header
           /\ Len(psbt.inputs) = Len(scanned.tx.ins)
           /\ psbt.outputs = Parse(scanned).outputs
           /\ Len(psbt.outputs) = Len(scanned.tx.outs)
           /\ \A i \in Inputs :
                  /\ psbt.inputs[i] = [ParseInput(scanned, i) EXCEPT !.sig = psbt.inputs[i].sig]
                  /\ psbt.inputs[i].outpoint = scanned.tx.ins[i]
                  /\ psbt.inputs[i].amount = ParseInput(scanned, i).amount
                  /\ psbt.inputs[i].script = ParseInput(scanned, i).script
                  /\ psbt.inputs[i].key = scanned.ins[i].key
                  /\ psbt.inputs[i].sighash = scanned.ins[i].sighash
<1>1. Len(scanned.tx.ins) \in Nat /\ Len(scanned.tx.outs) \in Nat
  BY FilesAssumption DEF IsScanned
<1>2. /\ psbt.txRaw = scanned.tx /\ psbt.header = scanned.tx.header
      /\ psbt.outputs = Parse(scanned).outputs
      /\ psbt.inputs =
             [i \in Inputs |-> [ParseInput(scanned, i) EXCEPT !.sig = psbt.inputs[i].sig]]
  BY DEF IsScanned, Parse
<1>3. Len(psbt.inputs) = Len(scanned.tx.ins)
  BY <1>1, <1>2 DEF Inputs
<1>4. Len(psbt.outputs) = Len(scanned.tx.outs)
  BY <1>1, <1>2 DEF Parse
<1>5. ASSUME NEW i \in Inputs
      PROVE  psbt.inputs[i] = [ParseInput(scanned, i) EXCEPT !.sig = psbt.inputs[i].sig]
  BY <1>2
<1>6. ASSUME NEW i \in Inputs
      PROVE  /\ psbt.inputs[i].outpoint = scanned.tx.ins[i]
             /\ psbt.inputs[i].amount = ParseInput(scanned, i).amount
             /\ psbt.inputs[i].script = ParseInput(scanned, i).script
             /\ psbt.inputs[i].key = scanned.ins[i].key
             /\ psbt.inputs[i].sighash = scanned.ins[i].sighash
  <2> DEFINE amount == ParseInput(scanned, i).amount
             script == ParseInput(scanned, i).script
  <2>1. ParseInput(scanned, i) =
            [outpoint |-> scanned.tx.ins[i], amount |-> amount, script |-> script,
             key |-> scanned.ins[i].key, sig |-> KeySig(scanned.ins[i]),
             sighash |-> scanned.ins[i].sighash]
    BY DEF ParseInput
  <2> HIDE DEF amount, script
  <2>2. psbt.inputs[i] =
            [[outpoint |-> scanned.tx.ins[i], amount |-> amount, script |-> script,
              key |-> scanned.ins[i].key, sig |-> KeySig(scanned.ins[i]),
              sighash |-> scanned.ins[i].sighash] EXCEPT !.sig = psbt.inputs[i].sig]
    BY <1>5, <2>1
  <2>3. /\ psbt.inputs[i].outpoint = scanned.tx.ins[i]
        /\ psbt.inputs[i].amount = amount /\ psbt.inputs[i].script = script
        /\ psbt.inputs[i].key = scanned.ins[i].key
        /\ psbt.inputs[i].sighash = scanned.ins[i].sighash
    BY <2>2, OtherFields
  <2>. QED BY <2>3 DEF amount, script
<1>. QED BY <1>1, <1>2, <1>3, <1>4, <1>5, <1>6

\* The digest depends on nothing that signing changes.
LEMMA DigestIsFixed ==
    ASSUME IsScanned, NEW i \in Inputs
    PROVE  TaprootSighash(psbt, i) = TaprootSighash(Parse(scanned), i)
<1>1. /\ Parse(scanned).header = scanned.tx.header
      /\ Parse(scanned).inputs = [j \in Inputs |-> ParseInput(scanned, j)]
      /\ Len(Parse(scanned).inputs) = Len(scanned.tx.ins)
  BY Fields DEF Parse, Inputs
<1>2. HashOutputs(psbt) = HashOutputs(Parse(scanned))
  BY Fields DEF HashOutputs
<1>3. \A j \in Inputs : ParseInput(scanned, j).outpoint = scanned.tx.ins[j]
  BY DEF ParseInput
<1>4. ASSUME NEW j \in Inputs
      PROVE  /\ psbt.inputs[j].outpoint = Parse(scanned).inputs[j].outpoint
             /\ psbt.inputs[j].amount = Parse(scanned).inputs[j].amount
             /\ psbt.inputs[j].script = Parse(scanned).inputs[j].script
  <2>1. Parse(scanned).inputs[j] = ParseInput(scanned, j)
    BY <1>1
  <2>2. /\ psbt.inputs[j].outpoint = scanned.tx.ins[j]
        /\ psbt.inputs[j].amount = ParseInput(scanned, j).amount
        /\ psbt.inputs[j].script = ParseInput(scanned, j).script
    BY Fields
  <2>3. ParseInput(scanned, j).outpoint = scanned.tx.ins[j]
    BY <1>3
  <2>. QED BY Zenon, <2>1, <2>2, <2>3
<1>5. 1..Len(psbt.inputs) = Inputs /\ 1..Len(Parse(scanned).inputs) = Inputs
  BY <1>1, Fields DEF Inputs
<1>6. /\ [j \in 1..Len(psbt.inputs) |-> psbt.inputs[j].outpoint]
           = [j \in 1..Len(Parse(scanned).inputs) |-> Parse(scanned).inputs[j].outpoint]
      /\ [j \in 1..Len(psbt.inputs) |-> psbt.inputs[j].amount]
           = [j \in 1..Len(Parse(scanned).inputs) |-> Parse(scanned).inputs[j].amount]
      /\ [j \in 1..Len(psbt.inputs) |-> psbt.inputs[j].script]
           = [j \in 1..Len(Parse(scanned).inputs) |-> Parse(scanned).inputs[j].script]
  BY <1>4, <1>5
<1>. QED BY <1>1, <1>2, <1>6, Fields DEF TaprootSighash

\* The slots of the window are on its two branches.
LEMMA SlotInWindow ==
    ASSUME NEW s \in 1..2 * KEY_WINDOW
    PROVE  KeyWindowSlots[s] \in Slots
<1>1. (s - 1) % KEY_WINDOW \in 0..KEY_WINDOW - 1
  BY WindowAssumption
<1>. QED BY <1>1 DEF KeyWindowSlots, Slots, RECEIVE_BRANCH, CHANGE_BRANCH

\* The slot found for a key of the window derives that key again.
LEMMA SlotOfKey ==
    ASSUME NEW input, IsOwn(input)
    PROVE  /\ SigningKey(KeyWindowSlots[Position(input.key)]) = TaprootTweak(input.key)
           /\ \E slot \in Slots : input.key = TapXonlyAt(slot)
<1>1. Position(input.key) \in 1..2 * KEY_WINDOW /\ OwnInternalKeys[Position(input.key)] = input.key
  BY DEF IsOwn, Position
<1>2. TapXonlyAt(KeyWindowSlots[Position(input.key)]) = input.key
  BY <1>1 DEF OwnInternalKeys
<1>. QED BY <1>1, <1>2, SlotInWindow DEF SigningKey

\* An input in hand is one of the file's, and sign_psbt judges both alike.
LEMMA JudgedAlike ==
    ASSUME IsScanned, NEW i \in Inputs
    PROVE  /\ IsOwn(psbt.inputs[i]) <=> IsOwn(ParseInput(scanned, i))
           /\ Acceptable(psbt.inputs[i]) <=> Acceptable(ParseInput(scanned, i))
<1>1. /\ ParseInput(scanned, i).key = scanned.ins[i].key
      /\ ParseInput(scanned, i).sighash = scanned.ins[i].sighash
  BY DEF ParseInput
<1>. QED BY <1>1, Fields DEF IsOwn, Acceptable

------------------------------------------------------------------------------
(* The invariant *)

\* It holds before anything is scanned.
LEMMA SInit == Init => SInv
  BY DEF Init, SInv, Loaded

\* A file just parsed carries the signatures it came with and no other.
LEMMA SScan ==
    ASSUME NEW f \in Files, SInv, Scan(f)
    PROVE  SInv'
<1>1. psbt' = Parse(f) /\ scanned' = f /\ f \in Files /\ Len(f.tx.ins) \in Nat
  BY FilesAssumption DEF Scan
<1>2. ASSUME NEW i \in 1..Len(f.tx.ins)
      PROVE  /\ Parse(f).inputs[i] = ParseInput(f, i)
             /\ ParseInput(f, i).sig = KeySig(f.ins[i])
             /\ [ParseInput(f, i) EXCEPT !.sig = ParseInput(f, i).sig] = ParseInput(f, i)
  BY DEF Parse, ParseInput
<1>3. Parse(f).inputs = [i \in 1..Len(f.tx.ins) |->
          [ParseInput(f, i) EXCEPT !.sig = Parse(f).inputs[i].sig]]
  <2>1. Parse(f).inputs = [i \in 1..Len(f.tx.ins) |-> ParseInput(f, i)]
    BY DEF Parse
  <2>. QED BY <1>2, <2>1
<1>4. Parse(f) = [Parse(f) EXCEPT !.inputs = Parse(f).inputs]
  BY DEF Parse
<1>5. IsScanned'
  BY <1>1, <1>3, <1>4 DEF IsScanned, Inputs
<1>6. SignaturesAreOurs'
  BY <1>1, <1>2 DEF SignaturesAreOurs, Inputs
<1>7. next = None /\ signed = None
  BY DEF SInv, ResultIsComplete, Scan
<1>. QED BY <1>5, <1>6, <1>7 DEF Scan, SInv, Loaded

\* The signature made at an input is the wallet's signature of that input, and
\* nothing else in the transaction changes.
LEMMA SSign ==
    ASSUME SInv, SignInput
    PROVE  SInv'
<1>1. /\ next \in Inputs /\ next # None /\ screen = "SignResult"
      /\ IsScanned /\ SignaturesAreOurs /\ SignedBelow(next) /\ signed = None
  BY Fields DEF SInv, SignInput, AtInput, Loaded, Inputs, ResultIsComplete
<1>2. UNCHANGED <<screen, scanned, signed, faults>> /\ next' = next + 1
  BY DEF SignInput
<1>3. IsOwn(psbt.inputs[next]) /\ Signable(next)
  BY <1>1, JudgedAlike DEF SignInput, Signable
<1> DEFINE sig == OwnSignature(next)
<1>4. psbt' = [psbt EXCEPT !.inputs[next].sig = sig]
  <2>1. SigningKey(KeyWindowSlots[Position(psbt.inputs[next].key)])
            = TaprootTweak(scanned.ins[next].key)
    <3>1. psbt.inputs[next].key = scanned.ins[next].key
      BY <1>1, Fields
    <3>2. SigningKey(KeyWindowSlots[Position(psbt.inputs[next].key)])
              = TaprootTweak(psbt.inputs[next].key)
      BY <1>3, SlotOfKey
    <3>. QED BY <3>1, <3>2
  <2>2. TaprootSighash(psbt, next) = TaprootSighash(Parse(scanned), next)
    BY <1>1, DigestIsFixed
  <2>. QED BY <2>1, <2>2 DEF SignInput, OwnSignature
<1> HIDE DEF sig
<1>5. psbt.inputs = [i \in Inputs |-> [ParseInput(scanned, i) EXCEPT !.sig = psbt.inputs[i].sig]]
  BY <1>1 DEF IsScanned, Parse
<1>6. /\ psbt' = [Parse(scanned) EXCEPT !.inputs = psbt'.inputs]
      /\ psbt'.inputs = [psbt.inputs EXCEPT ![next].sig = sig]
  <2>1. psbt = [Parse(scanned) EXCEPT !.inputs = psbt.inputs]
    BY <1>1, <1>5 DEF IsScanned
  <2>. QED BY <1>4, <2>1 DEF Parse
<1>7. /\ psbt'.inputs = [i \in Inputs |->
             [ParseInput(scanned, i) EXCEPT !.sig = psbt'.inputs[i].sig]]
      /\ \A i \in Inputs : psbt'.inputs[i].sig = IF i = next THEN sig ELSE psbt.inputs[i].sig
  <2>1. psbt'.inputs = [i \in Inputs |->
            IF i = next THEN [psbt.inputs[i] EXCEPT !.sig = sig] ELSE psbt.inputs[i]]
    BY <1>1, <1>5, <1>6
  <2>2. ASSUME NEW i \in Inputs
        PROVE  /\ psbt'.inputs[i] = [ParseInput(scanned, i) EXCEPT !.sig = psbt'.inputs[i].sig]
               /\ psbt'.inputs[i].sig = IF i = next THEN sig ELSE psbt.inputs[i].sig
    <3>1. psbt.inputs[i] = [ParseInput(scanned, i) EXCEPT !.sig = psbt.inputs[i].sig]
      BY <1>5
    <3>2. CASE i = next
      <4>1. psbt'.inputs[i] = [[ParseInput(scanned, i) EXCEPT !.sig = psbt.inputs[i].sig]
                                  EXCEPT !.sig = sig]
        BY <2>1, <3>1, <3>2
      <4>2. psbt'.inputs[i] = [ParseInput(scanned, i) EXCEPT !.sig = sig]
        BY <4>1, LastSignature
      <4>3. psbt'.inputs[i].sig = sig
        BY <4>2, LastSignature
      <4>. QED BY <4>2, <4>3, <3>2
    <3>3. CASE i # next
      BY <2>1, <3>1, <3>3
    <3>. QED BY <3>2, <3>3
  <2>. QED BY <2>1, <2>2
<1>8. IsScanned'
  BY <1>1, <1>2, <1>6, <1>7 DEF IsScanned, Inputs
<1>9. SignaturesAreOurs'
  BY <1>1, <1>2, <1>3, <1>7 DEF SignaturesAreOurs, Inputs, Signable, OwnSignature, sig
<1>10. SignedBelow(next)'
  BY <1>1, <1>2, <1>7 DEF SignedBelow, Inputs, OwnSignature, sig
<1>. QED BY <1>1, <1>2, <1>8, <1>9, <1>10 DEF SInv, Loaded

\* The inductive step, one case per action.
LEMMA SNext == SInv /\ [Next]_vars => SInv'
<1> SUFFICES ASSUME SInv, [Next]_vars PROVE SInv'
  OBVIOUS
<1>1. CASE UNCHANGED vars
  BY <1>1 DEF vars, SInv, Loaded, IsScanned, SignaturesAreOurs, SignedBelow, ResultIsComplete,
              Inputs, OwnSignature, Signable
<1>2. CASE OpenScan
  BY <1>2 DEF OpenScan, SInv, Loaded, ResultIsComplete
<1>3. ASSUME NEW f \in Files, Scan(f) PROVE SInv'
  BY <1>3, SScan
<1>4. CASE Confirm
  <2>1. screen' = "SignResult" /\ next' = 1 /\ UNCHANGED <<scanned, psbt, signed, faults>>
    BY <1>4 DEF Confirm
  <2>2. IsScanned /\ SignaturesAreOurs /\ signed = None
    BY <1>4 DEF Confirm, SInv, Loaded, ResultIsComplete
  <2>3. IsScanned' /\ SignaturesAreOurs'
    BY <2>1, <2>2 DEF IsScanned, SignaturesAreOurs, Inputs, Signable, OwnSignature
  <2>4. SignedBelow(next)'
    BY <2>1 DEF SignedBelow, Inputs
  <2>. QED BY <2>1, <2>2, <2>3, <2>4 DEF SInv
<1>5. CASE Leave
  BY <1>5 DEF Leave, SInv, Loaded
<1>6. CASE SignInput
  BY <1>6, SSign
<1>7. ASSUME SkipInput \/ SignerFails \/ RefuseInput \/ Finish PROVE SInv'
  <2>1. /\ next # None /\ next \in Nat \ {0} /\ screen = "SignResult" /\ signed = None
        /\ IsScanned /\ SignaturesAreOurs /\ SignedBelow(next) /\ faults \in Nat
    BY <1>7 DEF SInv, Loaded, ResultIsComplete, SkipInput, SignerFails, RefuseInput, Finish, AtInput
  <2>2. UNCHANGED <<screen, scanned, psbt>>
    BY <1>7 DEF SkipInput, SignerFails, RefuseInput, Finish
  <2>3. IsScanned' /\ SignaturesAreOurs'
    BY <2>1, <2>2 DEF IsScanned, SignaturesAreOurs, Inputs, Signable, OwnSignature
  <2>4. CASE SkipInput
    <3>1. next \in Inputs /\ ~IsOwn(psbt.inputs[next])
      BY <2>1, <2>4, Fields DEF SkipInput, AtInput, Inputs
    <3>2. ~IsOwn(ParseInput(scanned, next))
      BY <2>1, <3>1, JudgedAlike
    <3>3. next' = next + 1 /\ UNCHANGED <<signed, faults>>
      BY <2>4 DEF SkipInput
    <3>4. SignedBelow(next)'
      BY <2>1, <2>2, <3>2, <3>3 DEF SignedBelow, Inputs, OwnSignature
    <3>. QED BY <2>1, <2>2, <2>3, <3>3, <3>4 DEF SInv
  <2>5. CASE SignerFails
    <3>1. next' = next + 1 /\ faults' = faults + 1 /\ signed' = signed
      BY <2>5 DEF SignerFails
    <3>2. SignedBelow(next)'
      BY <2>1, <3>1 DEF SignedBelow
    <3>. QED BY <2>1, <2>2, <2>3, <3>1, <3>2 DEF SInv
  <2>6. CASE RefuseInput
    BY <2>1, <2>2, <2>3, <2>6 DEF RefuseInput, SInv
  <2>7. CASE Finish
    <3>1. /\ next > Len(scanned.tx.ins) /\ Len(scanned.tx.ins) \in Nat
          /\ next' = None /\ faults' = faults /\ signed' \in {None, EncodeSigned(psbt)}
      BY <2>1, <2>7, Fields DEF Finish
    <3>2. SignedBelow(Len(scanned.tx.ins) + 1)'
      BY <2>1, <2>2, <3>1 DEF SignedBelow, Inputs, OwnSignature
    <3>3. signed' # None => signed' = EncodeSigned(psbt)'
      BY <2>2, <3>1 DEF EncodeSigned, EncodeInput
    <3>. QED BY <2>1, <2>2, <2>3, <3>1, <3>2, <3>3 DEF SInv, ResultIsComplete
  <2>. QED BY <1>7, <2>4, <2>5, <2>6, <2>7
<1>. QED BY <1>1, <1>2, <1>3, <1>4, <1>5, <1>6, <1>7 DEF Next, SignPsbt

\* The file handed out, field by field.
LEMMA Encoded ==
    ASSUME IsScanned, signed = EncodeSigned(psbt)
    PROVE  /\ signed.tx = scanned.tx /\ Len(signed.ins) = Len(scanned.tx.ins)
           /\ \A i \in Inputs :
                  /\ signed.ins[i].utxo.amount = ParseInput(scanned, i).amount
                  /\ signed.ins[i].utxo.script = ParseInput(scanned, i).script
                  /\ signed.ins[i].key = scanned.ins[i].key
                  /\ signed.ins[i].sig = psbt.inputs[i].sig
                  /\ signed.ins[i].utxo = [amount |-> signed.ins[i].utxo.amount,
                                           script |-> signed.ins[i].utxo.script]
           /\ \A i \in 1..Len(signed.outs) : signed.outs[i].key = scanned.outs[i].key
           /\ \A i \in Inputs : FileDigest(signed, i) = TaprootSighash(Parse(scanned), i)
<1>1. /\ Len(scanned.tx.ins) \in Nat /\ 1..Len(psbt.inputs) = Inputs
      /\ signed.tx = scanned.tx
      /\ signed.ins = [i \in Inputs |-> EncodeInput(psbt, i)]
  BY Fields DEF EncodeSigned, Inputs
<1>2. Len(signed.ins) = Len(scanned.tx.ins)
  BY <1>1 DEF Inputs
<1>3. ASSUME NEW i \in Inputs
      PROVE  /\ signed.ins[i].utxo.amount = ParseInput(scanned, i).amount
             /\ signed.ins[i].utxo.script = ParseInput(scanned, i).script
             /\ signed.ins[i].key = scanned.ins[i].key
             /\ signed.ins[i].sig = psbt.inputs[i].sig
             /\ signed.ins[i].utxo = [amount |-> signed.ins[i].utxo.amount,
                                      script |-> signed.ins[i].utxo.script]
  <2>1. signed.ins[i] =
            [utxo |-> [amount |-> psbt.inputs[i].amount, script |-> psbt.inputs[i].script],
             key |-> psbt.inputs[i].key, sig |-> psbt.inputs[i].sig,
             sighash |-> None, rest |-> FALSE]
    BY <1>1 DEF EncodeInput
  <2>2. /\ psbt.inputs[i].amount = ParseInput(scanned, i).amount
        /\ psbt.inputs[i].script = ParseInput(scanned, i).script
        /\ psbt.inputs[i].key = scanned.ins[i].key
    BY Fields
  <2>3. /\ signed.ins[i].utxo.amount = psbt.inputs[i].amount
        /\ signed.ins[i].utxo.script = psbt.inputs[i].script
        /\ signed.ins[i].key = psbt.inputs[i].key /\ signed.ins[i].sig = psbt.inputs[i].sig
        /\ signed.ins[i].utxo =
               [amount |-> psbt.inputs[i].amount, script |-> psbt.inputs[i].script]
    BY <2>1
  <2>. QED BY <2>2, <2>3
<1>4. ASSUME NEW i \in Inputs
      PROVE  FileDigest(signed, i) = TaprootSighash(Parse(scanned), i)
  <2>1. /\ Parse(scanned).header = scanned.tx.header
        /\ Parse(scanned).inputs = [j \in Inputs |-> ParseInput(scanned, j)]
        /\ 1..Len(Parse(scanned).inputs) = Inputs
    BY <1>1 DEF Parse, Inputs
  <2>2. HashOutputs(Parse(scanned)) = scanned.tx.outs
    <3>1. Len(scanned.tx.outs) \in Nat
      BY FilesAssumption DEF IsScanned
    <3>2. /\ Parse(scanned).outputs = [j \in 1..Len(scanned.tx.outs) |-> ParseOutput(scanned, j)]
          /\ 1..Len(Parse(scanned).outputs) = 1..Len(scanned.tx.outs)
      BY <3>1 DEF Parse
    <3>3. HashOutputs(Parse(scanned)) = [j \in 1..Len(scanned.tx.outs) |->
              [amount |-> scanned.tx.outs[j].amount, script |-> scanned.tx.outs[j].script]]
      BY <3>2 DEF HashOutputs, ParseOutput
    <3>. QED BY <3>3, FilesAssumption DEF IsScanned
  <2>3. [j \in Inputs |-> Parse(scanned).inputs[j].outpoint] = scanned.tx.ins
    <3>1. \A j \in Inputs : Parse(scanned).inputs[j].outpoint = scanned.tx.ins[j]
      BY <2>1 DEF ParseInput
    <3>2. scanned.tx.ins = [j \in Inputs |-> scanned.tx.ins[j]]
      BY FilesAssumption DEF IsScanned, Inputs
    <3>. QED BY <3>1, <3>2
  <2>4. /\ [j \in Inputs |-> Parse(scanned).inputs[j].amount]
              = [j \in Inputs |-> signed.ins[j].utxo.amount]
        /\ [j \in Inputs |-> Parse(scanned).inputs[j].script]
              = [j \in Inputs |-> signed.ins[j].utxo.script]
    <3>1. \A j \in Inputs :
              /\ Parse(scanned).inputs[j].amount = signed.ins[j].utxo.amount
              /\ Parse(scanned).inputs[j].script = signed.ins[j].utxo.script
      <4>1. \A j \in Inputs : Parse(scanned).inputs[j] = ParseInput(scanned, j)
        BY <2>1
      <4>. QED BY <1>3, <4>1
    <3>. QED BY <3>1
  <2>. QED BY <1>1, <2>1, <2>2, <2>3, <2>4 DEF FileDigest, TaprootSighash, Inputs
<1>5. ASSUME NEW i \in 1..Len(signed.outs) PROVE signed.outs[i].key = scanned.outs[i].key
  <2>1. /\ Len(scanned.tx.outs) \in Nat /\ Len(psbt.outputs) = Len(scanned.tx.outs)
        /\ psbt.outputs = [j \in 1..Len(scanned.tx.outs) |-> ParseOutput(scanned, j)]
    BY Fields, FilesAssumption DEF IsScanned, Parse
  <2>2. signed.outs = [j \in 1..Len(scanned.tx.outs) |-> [key |-> psbt.outputs[j].key]]
    BY <2>1 DEF EncodeSigned
  <2>3. i \in 1..Len(scanned.tx.outs)
    BY <2>1, <2>2
  <2>4. psbt.outputs[i] = ParseOutput(scanned, i) /\ signed.outs[i] = [key |-> psbt.outputs[i].key]
    BY <2>1, <2>2, <2>3
  <2>5. ParseOutput(scanned, i).key = scanned.outs[i].key
    BY DEF ParseOutput
  <2>6. signed.outs[i].key = psbt.outputs[i].key
    BY <2>4
  <2>. QED BY <2>4, <2>5, <2>6
<1>. QED BY <1>1, <1>2, <1>3, <1>4, <1>5

\* What the invariant says of a signature in the file that is handed out.
LEMMA Handed ==
    ASSUME SInv, signed # None
    PROVE  /\ IsScanned /\ SignaturesAreOurs /\ signed = EncodeSigned(psbt)
           /\ SignedBelow(Len(scanned.tx.ins) + 1) /\ Len(scanned.tx.ins) \in Nat
           /\ 1..Len(signed.ins) = Inputs
           /\ \A i \in Inputs : OwnSignature(i) =
                  Schnorr(TaprootTweak(signed.ins[i].key), FileDigest(signed, i))
<1>1. /\ IsScanned /\ SignaturesAreOurs /\ signed = EncodeSigned(psbt)
      /\ SignedBelow(Len(scanned.tx.ins) + 1)
  BY DEF SInv, Loaded, ResultIsComplete
<1>. QED BY <1>1, Encoded, Fields DEF Inputs, OwnSignature

\* A signature that did not come with the file verifies.
LEMMA HandedVerifies == SInv => SignaturesVerify
<1> SUFFICES ASSUME SInv, signed # None, NEW i \in Inputs,
                    signed.ins[i].sig \notin {None, scanned.ins[i].sig}
             PROVE  (\E slot \in Slots : signed.ins[i].key = TapXonlyAt(slot)) /\ Verifies(signed, i)
  BY Handed DEF SignaturesVerify
<1>1. Signable(i) /\ signed.ins[i].sig = OwnSignature(i)
  BY Handed, Encoded DEF SignaturesAreOurs, KeySig
<1>2. signed.ins[i].key = ParseInput(scanned, i).key
  BY Handed, Encoded DEF ParseInput
<1>3. \E slot \in Slots : signed.ins[i].key = TapXonlyAt(slot)
  BY <1>1, <1>2, SlotOfKey DEF Signable
<1>4. signed.ins[i].utxo.script = P2TR(TaprootTweak(signed.ins[i].key))
  BY <1>1, <1>2, Handed, Encoded DEF Signable, Acceptable
<1>5. /\ signed.ins[i].sig.by = TaprootTweak(signed.ins[i].key)
      /\ signed.ins[i].sig.of = FileDigest(signed, i)
  BY <1>1, Handed DEF Schnorr
<1>. QED BY <1>3, <1>4, <1>5 DEF Verifies

\* Inputs of others keep the key signature of 64 bytes they came with, and all
\* inputs and outputs their keys and UTXOs.
LEMMA HandedKeeps == SInv => KeySigsAreKept
<1> SUFFICES ASSUME SInv, signed # None PROVE KeySigsAreKept
  BY DEF KeySigsAreKept
<1>1. ASSUME NEW i \in Inputs, ~IsOwn(signed.ins[i])
      PROVE  signed.ins[i].sig = KeySig(scanned.ins[i])
  <2>1. signed.ins[i].key = ParseInput(scanned, i).key
    BY Handed, Encoded DEF ParseInput
  <2>2. ~Signable(i)
    BY <1>1, <2>1 DEF Signable, IsOwn
  <2>. QED BY <2>2, Handed, Encoded DEF SignaturesAreOurs
<1>2. ASSUME NEW i \in Inputs, scanned.ins[i].utxo # None
      PROVE  signed.ins[i].utxo = scanned.ins[i].utxo
  <2>1. /\ signed.ins[i].utxo.amount = scanned.ins[i].utxo.amount
        /\ signed.ins[i].utxo.script = scanned.ins[i].utxo.script
    BY <1>2, Handed, Encoded DEF ParseInput
  <2>2. signed.ins[i].utxo = [amount |-> signed.ins[i].utxo.amount,
                              script |-> signed.ins[i].utxo.script]
    BY Handed, Encoded
  <2>3. scanned.ins[i].utxo = [amount |-> scanned.ins[i].utxo.amount,
                               script |-> scanned.ins[i].utxo.script]
    BY <1>2, Handed, FilesAssumption DEF IsScanned, Inputs
  <2>. QED BY <2>1, <2>2, <2>3
<1>. QED BY <1>1, <1>2, Handed, Encoded DEF KeySigsAreKept, KeySig

\* With a signer that never failed, no input of the wallet is left out.
LEMMA HandedIsComplete == SInv => AllOrNothing
<1> SUFFICES ASSUME SInv, signed # None, faults = 0, NEW i \in Inputs, IsOwn(signed.ins[i])
             PROVE  signed.ins[i].sig =
                        Schnorr(TaprootTweak(signed.ins[i].key), FileDigest(signed, i))
  BY Handed DEF AllOrNothing
<1>1. signed.ins[i].key = ParseInput(scanned, i).key
  BY Handed, Encoded DEF ParseInput
<1>2. IsOwn(ParseInput(scanned, i)) /\ i < Len(scanned.tx.ins) + 1
  BY <1>1, Handed DEF IsOwn, Inputs
<1>3. psbt.inputs[i].sig = OwnSignature(i)
  BY <1>2, Handed DEF SignedBelow
<1>. QED BY <1>3, Handed, Encoded

------------------------------------------------------------------------------
(* Types *)

\* What is in hand is the scanned file with some inputs signed by this wallet.
LEMMA InHand ==
    ASSUME IsScanned, SignaturesAreOurs
    PROVE  psbt \in PartlySigned(scanned) /\ psbt # None
<1> DEFINE ours == {i \in Inputs : psbt.inputs[i].sig # KeySig(scanned.ins[i])}
           ins == [i \in Inputs |-> IF i \notin ours THEN ParseInput(scanned, i)
                                    ELSE [ParseInput(scanned, i) EXCEPT !.sig = OwnSignature(i)]]
<1>1. ASSUME NEW i \in Inputs
      PROVE  [ParseInput(scanned, i) EXCEPT !.sig = psbt.inputs[i].sig] = ins[i]
  <2>1. CASE i \in ours
    BY <2>1 DEF SignaturesAreOurs
  <2>2. CASE i \notin ours
    <3>1. psbt.inputs[i].sig = KeySig(scanned.ins[i])
      BY <2>2
    <3>2. [ParseInput(scanned, i) EXCEPT !.sig = KeySig(scanned.ins[i])] = ParseInput(scanned, i)
      BY ScannedSignature
    <3>. QED BY <2>2, <3>1, <3>2
  <2>. QED BY <2>1, <2>2
<1>2. psbt = [Parse(scanned) EXCEPT !.inputs =
                 [i \in Inputs |-> [ParseInput(scanned, i) EXCEPT !.sig = psbt.inputs[i].sig]]]
  BY DEF IsScanned
<1>3. [i \in Inputs |-> [ParseInput(scanned, i) EXCEPT !.sig = psbt.inputs[i].sig]] = ins
  <2> HIDE DEF ours
  <2>. QED BY <1>1
<1>4. psbt = [Parse(scanned) EXCEPT !.inputs = ins]
  <2> HIDE DEF ins
  <2>. QED BY <1>2, <1>3
<1>5. ours \in SUBSET (1..Len(scanned.tx.ins))
  BY DEF Inputs
<1>6. psbt \in PartlySigned(scanned)
  <2> HIDE DEF ours
  <2>. QED BY <1>4, <1>5 DEF PartlySigned, OwnSignature, Inputs
<1>. QED BY <1>6, NoneAssumption DEF IsScanned

\* Counters and screens.
Progress ==
    /\ screen \in {"Home", "SignScan", "SignReview", "SignResult"}
    /\ ~Loaded => psbt = None
    /\ next # None => next <= Len(scanned.tx.ins) + 1 /\ count < next
    /\ count \in Nat /\ faults \in 0..MaxFaults

\* They are kept together with what is in hand.
LEMMA ProgressNext == SInv /\ Progress /\ [Next]_vars => Progress'
<1> SUFFICES ASSUME SInv, Progress, [Next]_vars PROVE Progress'
  OBVIOUS
<1>1. CASE UNCHANGED vars
  BY <1>1 DEF vars, Progress, Loaded
<1>2. CASE OpenScan
  BY <1>2 DEF OpenScan, Progress, Loaded, SInv
<1>3. ASSUME NEW f \in Files, Scan(f) PROVE Progress'
  <2>1. next = None
    BY <1>3 DEF Scan, SInv
  <2>. QED BY <1>3, <2>1 DEF Scan, Progress, Loaded
<1>4. CASE Confirm
  <2>1. Len(scanned.tx.ins) \in Nat
    BY <1>4, FilesAssumption DEF Confirm, SInv, Loaded, IsScanned
  <2>. QED BY <1>4, <2>1 DEF Confirm, Progress, Loaded
<1>5. CASE Leave
  BY <1>5 DEF Leave, Progress, Loaded
<1>6. CASE SkipInput \/ SignInput \/ SignerFails
  <2>1. /\ next # None /\ next \in Nat /\ screen = "SignResult"
        /\ next <= Len(scanned.tx.ins) /\ Len(scanned.tx.ins) \in Nat
    BY <1>6, Fields DEF SkipInput, SignInput, SignerFails, AtInput, SInv, Loaded
  <2>2. /\ next' = next + 1 /\ count' \in {count, count + 1} /\ screen' = screen
        /\ scanned' = scanned
    BY <1>6 DEF SkipInput, SignInput, SignerFails
  <2>3. faults' \in 0..MaxFaults
    BY <1>6, FaultsAssumption DEF SkipInput, SignInput, SignerFails, Progress
  <2>. QED BY <2>1, <2>2, <2>3 DEF Progress, Loaded
<1>7. CASE RefuseInput \/ Finish
  BY <1>7 DEF RefuseInput, Finish, Progress, Loaded
<1>. QED BY <1>1, <1>2, <1>3, <1>4, <1>5, <1>6, <1>7 DEF Next, SignPsbt

\* Both together are the types.
LEMMA TypesHold == SInv /\ Progress => TypeOK
<1> SUFFICES ASSUME SInv, Progress PROVE TypeOK
  OBVIOUS
<1>1. Loaded => psbt \in PartlySigned(scanned) /\ psbt # None
  BY InHand DEF SInv
<1>2. Loaded <=> psbt # None
  BY <1>1 DEF Progress
<1>3. next # None \/ signed # None => screen = "SignResult"
  BY DEF SInv, ResultIsComplete
<1>4. next # None => next <= Len(psbt.inputs) + 1 /\ count < next
  BY <1>3, Fields DEF SInv, Progress, Loaded
<1>5. next \in Nat \cup {None}
  BY DEF SInv
<1>. QED BY <1>1, <1>2, <1>3, <1>4, <1>5 DEF TypeOK, Progress, Loaded

-----------------------------------------------------------------------------
(* Sums *)

\* What holds at 0 and passes from each number to the next holds up to n.
LEMMA UpTo ==
    ASSUME NEW n \in Nat, NEW P, 0 \in P, \A i \in 1..n : i - 1 \in P => i \in P
    PROVE  n \in P /\ \A i \in 0..n : i \in P
<1> DEFINE Bad == {i \in 0..n : i \notin P}
<1>1. ASSUME Bad # {} PROVE FALSE
  <2>1. IsWellFoundedOn(OpToRel(<, Nat), Nat)
    BY NatLessThanWellFounded
  <2>2. Bad \in SUBSET Nat
    OBVIOUS
  <2> HIDE DEF Bad
  <2>3. PICK i \in Bad : \A j \in Bad : ~(<<j, i>> \in OpToRel(<, Nat))
    BY <1>1, <2>1, <2>2, WFMin
  <2>4. \A j \in Bad : ~(j < i)
    BY <2>2, <2>3 DEF OpToRel
  <2>5. i \in 1..n /\ i \notin P
    BY DEF Bad
  <2>6. i - 1 \in 0..n /\ i - 1 < i
    BY <2>5
  <2>7. i - 1 \in P
    BY <2>4, <2>6 DEF Bad
  <2>. QED BY <2>5, <2>7
<1>. QED BY <1>1

\* The partial sums of n amounts, exact and with saturation.
Sums(a, n, e) ==
    e \in [0..n -> Nat] /\ e[0] = 0 /\ \A i \in 1..n : e[i] = e[i - 1] + a[i]
SaturatedSums(a, n, s) ==
    s \in [0..n -> Nat] /\ s[0] = 0 /\ \A i \in 1..n : s[i] = SaturatingAdd(s[i - 1], a[i])

\* A saturating sum is a number.
LEMMA SaturatingNat ==
    ASSUME NEW x \in Nat, NEW y \in Nat
    PROVE  SaturatingAdd(x, y) \in Nat
BY AmountAssumption DEF SaturatingAdd

\* Amounts have partial sums.
LEMMA SumsExist ==
    ASSUME NEW n \in Nat, NEW a \in [1..n -> Nat]
    PROVE  (\E e : Sums(a, n, e)) /\ (\E s : SaturatedSums(a, n, s))
<1> DEFINE P == {k \in 0..n : (\E e : Sums(a, k, e)) /\ (\E s : SaturatedSums(a, k, s))}
<1>1. 0 \in P
  <2>1. Sums(a, 0, [i \in 0..0 |-> 0]) /\ SaturatedSums(a, 0, [i \in 0..0 |-> 0])
    BY DEF Sums, SaturatedSums
  <2>. QED BY <2>1
<1>2. ASSUME NEW k \in 1..n, k - 1 \in P PROVE k \in P
  <2>1. PICK e : Sums(a, k - 1, e)
    BY <1>2
  <2>2. PICK s : SaturatedSums(a, k - 1, s)
    BY <1>2
  <2> DEFINE e2 == [i \in 0..k |-> IF i = k THEN e[k - 1] + a[k] ELSE e[i]]
             s2 == [i \in 0..k |-> IF i = k THEN SaturatingAdd(s[k - 1], a[k]) ELSE s[i]]
  <2>3. a[k] \in Nat /\ e[k - 1] \in Nat /\ s[k - 1] \in Nat
        /\ \A i \in 0..k : i # k => i \in 0..(k - 1) /\ e[i] \in Nat /\ s[i] \in Nat
    BY <2>1, <2>2 DEF Sums, SaturatedSums
  <2>4. e2 \in [0..k -> Nat] /\ s2 \in [0..k -> Nat]
    <3>1. e[k - 1] + a[k] \in Nat /\ SaturatingAdd(s[k - 1], a[k]) \in Nat
      <4>1. a[k] \in Nat /\ e[k - 1] \in Nat /\ s[k - 1] \in Nat
        BY <2>3
      <4>2. SaturatingAdd(s[k - 1], a[k]) \in Nat
        BY <4>1, SaturatingNat
      <4>. QED BY <4>1, <4>2
    <3>. QED BY <2>3, <3>1
  <2>5. ASSUME NEW i \in 1..k
        PROVE  e2[i] = e2[i - 1] + a[i] /\ s2[i] = SaturatingAdd(s2[i - 1], a[i])
    <3>1. i - 1 \in 0..k /\ i - 1 # k /\ i \in 0..k
      OBVIOUS
    <3>2. CASE i = k
      BY <3>1, <3>2
    <3>3. CASE i # k
      <4>1. i \in 1..(k - 1)
        BY <3>3
      <4>2. e[i] = e[i - 1] + a[i] /\ s[i] = SaturatingAdd(s[i - 1], a[i])
        BY <2>1, <2>2, <4>1 DEF Sums, SaturatedSums
      <4>. QED BY <3>1, <3>3, <4>2
    <3>. QED BY <3>2, <3>3
  <2>6. 0 \in 0..k /\ 0 # k
    OBVIOUS
  <2>7. e2[0] = 0 /\ s2[0] = 0
    BY <2>1, <2>2, <2>6 DEF Sums, SaturatedSums
  <2> HIDE DEF e2, s2
  <2>8. Sums(a, k, e2) /\ SaturatedSums(a, k, s2)
    BY <2>4, <2>5, <2>7 DEF Sums, SaturatedSums
  <2>. QED BY <2>8
<1> HIDE DEF P
<1>3. n \in P
  BY <1>1, <1>2, UpTo
<1>. QED BY <1>3 DEF P

\* Exact and Total are the last of such sums.
LEMMA LastSums ==
    ASSUME NEW n \in Nat, NEW a \in [1..n -> Nat]
    PROVE  /\ \E e : Sums(a, n, e) /\ Exact(a) = e[n]
           /\ \E s : SaturatedSums(a, n, s) /\ Total(a) = s[n]
<1>1. Len(a) = n
  OBVIOUS
<1>2. \E e : Sums(a, n, e) /\ Exact(a) = e[n]
  <2> DEFINE D(f) == f = [i \in 0..n |-> IF i = 0 THEN 0 ELSE f[i - 1] + a[i]]
             f == CHOOSE f : D(f)
  <2>1. PICK e : Sums(a, n, e)
    BY SumsExist
  <2>2. D(e)
    <3>1. \A i \in 0..n : e[i] = IF i = 0 THEN 0 ELSE e[i - 1] + a[i]
      BY <2>1 DEF Sums
    <3>2. e = [i \in 0..n |-> e[i]]
      BY <2>1 DEF Sums
    <3>. QED BY <3>1, <3>2
  <2>3. D(f)
    <3> HIDE DEF D
    <3>. QED BY <2>2
  <2>4. Exact(a) = f[n]
    BY <1>1 DEF Exact
  <2> HIDE DEF f
  <2>5. f[0] = 0 /\ \A i \in 1..n : f[i] = f[i - 1] + a[i]
    BY <2>3
  <2> DEFINE P == {i \in 0..n : f[i] \in Nat}
  <2>6. 0 \in P
    BY <2>5
  <2>7. ASSUME NEW i \in 1..n, i - 1 \in P PROVE i \in P
    <3>1. f[i] = f[i - 1] + a[i] /\ f[i - 1] \in Nat /\ a[i] \in Nat
      BY <2>5, <2>7
    <3>. QED BY <3>1
  <2>8. \A i \in 0..n : i \in P
    <3> HIDE DEF P
    <3>. QED BY <2>6, <2>7, UpTo
  <2>9. f \in [0..n -> Nat]
    BY <2>3, <2>8
  <2>. QED BY <2>4, <2>5, <2>9 DEF Sums
<1>3. \E s : SaturatedSums(a, n, s) /\ Total(a) = s[n]
  <2> DEFINE D(f) == f = [i \in 0..n |-> IF i = 0 THEN 0 ELSE SaturatingAdd(f[i - 1], a[i])]
             f == CHOOSE f : D(f)
  <2>1. PICK s : SaturatedSums(a, n, s)
    BY SumsExist
  <2>2. D(s)
    <3>1. \A i \in 0..n : s[i] = IF i = 0 THEN 0 ELSE SaturatingAdd(s[i - 1], a[i])
      BY <2>1 DEF SaturatedSums
    <3>2. s = [i \in 0..n |-> s[i]]
      BY <2>1 DEF SaturatedSums
    <3>. QED BY <3>1, <3>2
  <2>3. D(f)
    <3> HIDE DEF D
    <3>. QED BY <2>2
  <2>4. Total(a) = f[n]
    BY <1>1 DEF Total
  <2> HIDE DEF f
  <2>5. f[0] = 0 /\ \A i \in 1..n : f[i] = SaturatingAdd(f[i - 1], a[i])
    BY <2>3
  <2> DEFINE P == {i \in 0..n : f[i] \in Nat}
  <2>6. 0 \in P
    BY <2>5
  <2>7. ASSUME NEW i \in 1..n, i - 1 \in P PROVE i \in P
    <3>1. f[i] = SaturatingAdd(f[i - 1], a[i]) /\ f[i - 1] \in Nat /\ a[i] \in Nat
      BY <2>5, <2>7
    <3>2. f[i] \in Nat
      BY <3>1, SaturatingNat
    <3>. QED BY <3>2
  <2>8. \A i \in 0..n : i \in P
    <3> HIDE DEF P
    <3>. QED BY <2>6, <2>7, UpTo
  <2>9. f \in [0..n -> Nat]
    BY <2>3, <2>8
  <2>. QED BY <2>4, <2>5, <2>9 DEF SaturatedSums
<1>. QED BY <1>2, <1>3

\* A total that fits in 64 bits is the exact sum.
LEMMA TotalIsExact ==
    ASSUME NEW n \in Nat, NEW a \in [1..n -> Nat], Exact(a) <= AmountMax
    PROVE  Total(a) = Exact(a)
<1>1. PICK e : Sums(a, n, e) /\ Exact(a) = e[n]
  BY LastSums
<1>2. PICK s : SaturatedSums(a, n, s) /\ Total(a) = s[n]
  BY LastSums
<1> DEFINE P == {i \in 0..n : e[i] <= AmountMax => s[i] = e[i]}
<1>3. 0 \in P
  BY <1>1, <1>2 DEF Sums, SaturatedSums
<1>4. ASSUME NEW i \in 1..n, i - 1 \in P PROVE i \in P
  <2>1. e[i] = e[i - 1] + a[i] /\ s[i] = SaturatingAdd(s[i - 1], a[i])
        /\ e[i - 1] \in Nat /\ a[i] \in Nat /\ AmountMax \in Nat
    <3>1. i - 1 \in 0..n
      OBVIOUS
    <3>. QED BY <1>1, <1>2, <3>1, AmountAssumption DEF Sums, SaturatedSums
  <2>2. e[i] <= AmountMax => s[i - 1] = e[i - 1]
    BY <1>4, <2>1
  <2>. QED BY <2>1, <2>2 DEF SaturatingAdd
<1>5. n \in P
  <2> HIDE DEF P
  <2>. QED BY <1>3, <1>4, UpTo
<1>. QED BY <1>1, <1>2, <1>5

\* Where amounts are split in two, so is their sum.
LEMMA SumSplit ==
    ASSUME NEW n \in Nat, NEW a \in [1..n -> Nat], NEW b \in [1..n -> Nat],
           NEW c \in [1..n -> Nat], \A i \in 1..n : c[i] = a[i] + b[i]
    PROVE  /\ Exact(c) = Exact(a) + Exact(b)
           /\ Exact(a) \in Nat /\ Exact(b) \in Nat /\ Exact(c) \in Nat
<1>1. PICK e : Sums(a, n, e) /\ Exact(a) = e[n]
  BY LastSums
<1>2. PICK f : Sums(b, n, f) /\ Exact(b) = f[n]
  BY LastSums
<1>3. PICK g : Sums(c, n, g) /\ Exact(c) = g[n]
  BY LastSums
<1> DEFINE P == {i \in 0..n : g[i] = e[i] + f[i]}
<1>4. 0 \in P
  BY <1>1, <1>2, <1>3 DEF Sums
<1>5. ASSUME NEW i \in 1..n, i - 1 \in P PROVE i \in P
  <2>1. /\ e[i] = e[i - 1] + a[i] /\ f[i] = f[i - 1] + b[i] /\ g[i] = g[i - 1] + c[i]
        /\ e[i - 1] \in Nat /\ f[i - 1] \in Nat /\ a[i] \in Nat /\ b[i] \in Nat
        /\ c[i] = a[i] + b[i]
    <3>1. i - 1 \in 0..n
      OBVIOUS
    <3>. QED BY <1>1, <1>2, <1>3, <3>1 DEF Sums
  <2>2. g[i - 1] = e[i - 1] + f[i - 1]
    BY <1>5
  <2> DEFINE w == e[i - 1]
             x == f[i - 1]
             y == a[i]
             z == b[i]
  <2>3. /\ w \in Nat /\ x \in Nat /\ y \in Nat /\ z \in Nat
        /\ e[i] = w + y /\ f[i] = x + z /\ g[i] = (w + x) + (y + z)
    BY <2>1, <2>2
  <2>4. (w + x) + (y + z) = (w + y) + (x + z)
    <3> HIDE DEF w, x, y, z
    <3>. QED BY <2>3
  <2>5. g[i] = e[i] + f[i]
    <3> HIDE DEF w, x, y, z
    <3>. QED BY <2>3, <2>4
  <2>6. i \in 0..n
    OBVIOUS
  <2>. QED BY <2>5, <2>6
<1>6. n \in P
  <2> HIDE DEF P
  <2>. QED BY <1>4, <1>5, UpTo
<1>. QED BY <1>1, <1>2, <1>3, <1>6 DEF Sums

------------------------------------------------------------------------------
(* The review *)

\* The amounts in hand are numbers.
LEMMA AmountsInHand ==
    ASSUME IsScanned
    PROVE  /\ Len(psbt.inputs) \in Nat /\ Len(psbt.outputs) \in Nat
           /\ \A i \in 1..Len(psbt.inputs) : psbt.inputs[i].amount \in Nat
           /\ \A i \in 1..Len(psbt.outputs) : psbt.outputs[i].amount \in Nat
<1>1. /\ scanned \in Files /\ Len(scanned.tx.ins) \in Nat /\ Len(scanned.tx.outs) \in Nat
  BY FilesAssumption DEF IsScanned
<1>2. ASSUME NEW i \in Inputs PROVE psbt.inputs[i].amount \in Nat
  <2>1. psbt.inputs[i].amount =
            IF scanned.ins[i].utxo = None THEN 0 ELSE scanned.ins[i].utxo.amount
    BY Fields DEF ParseInput
  <2>. QED BY <1>1, <2>1, AmountAssumption DEF Inputs
<1>3. ASSUME NEW i \in 1..Len(scanned.tx.outs) PROVE psbt.outputs[i].amount \in Nat
  <2>1. psbt.outputs[i] = ParseOutput(scanned, i)
    BY <1>1, Fields DEF Parse
  <2>2. psbt.outputs[i].amount = scanned.tx.outs[i].amount
    BY <2>1 DEF ParseOutput
  <2>. QED BY <1>1, <2>2, AmountAssumption
<1>. QED BY <1>1, <1>2, <1>3, Fields DEF Inputs

\* The review adds up.
LEMMA ReviewAddsUp == SInv => ReviewBalances
<1> SUFFICES ASSUME SInv, screen = "SignReview", ExactIn <= AmountMax, ExactOut <= AmountMax
             PROVE  LET r == Review(psbt) IN
                    /\ r.warning = "overflow" <=> ExactOut > ExactIn
                    /\ r.warning # "overflow" /\ r.send # None /\ r.fee # None =>
                           r.send + ExactChange(r.rows) + r.fee = ExactIn
                    /\ 4 * (ExactIn - ExactOut) > ExactIn => r.warning = "high fee"
  BY DEF ReviewBalances
<1> DEFINE n == Len(psbt.inputs)
           m == Len(psbt.outputs)
           ins == [i \in 1..n |-> psbt.inputs[i].amount]
           outs == [i \in 1..m |-> psbt.outputs[i].amount]
           send == [i \in 1..m |-> IF IsChange(psbt.outputs[i]) THEN 0 ELSE psbt.outputs[i].amount]
           change == [i \in 1..m |-> IF IsChange(psbt.outputs[i]) THEN psbt.outputs[i].amount ELSE 0]
           r == Review(psbt)
<1>1. IsScanned
  BY DEF SInv, Loaded
<1>2. /\ n \in Nat /\ m \in Nat /\ ins \in [1..n -> Nat] /\ outs \in [1..m -> Nat]
      /\ send \in [1..m -> Nat] /\ change \in [1..m -> Nat]
      /\ \A i \in 1..m : outs[i] = send[i] + change[i]
  <2>1. /\ n \in Nat /\ m \in Nat
        /\ \A i \in 1..n : psbt.inputs[i].amount \in Nat
        /\ \A i \in 1..m : psbt.outputs[i].amount \in Nat
    BY <1>1, AmountsInHand
  <2>. QED BY <2>1
<1>3. /\ TotalIn(psbt) = Total(ins) /\ TotalOut(psbt) = Total(outs) /\ SendTotal(psbt) = Total(send)
      /\ ExactIn = Exact(ins) /\ ExactOut = Exact(outs)
  BY DEF TotalIn, TotalOut, SendTotal, ExactIn, ExactOut
<1>4. ExactChange(r.rows) = Exact(change)
  <2>1. r.rows = [i \in 1..m |-> Row(psbt.outputs[i])]
    BY DEF Review
  <2>2. Len(r.rows) = m
    BY <1>2, <2>1
  <2>3. \A i \in 1..m : r.rows[i].change = IsChange(psbt.outputs[i])
                        /\ r.rows[i].amount = psbt.outputs[i].amount
    BY <2>1 DEF Row
  <2> HIDE DEF r, m
  <2>4. [i \in 1..m |-> IF r.rows[i].change THEN r.rows[i].amount ELSE 0] = change
    BY <2>3 DEF change
  <2>. QED BY <2>2, <2>4 DEF ExactChange
<1>5. /\ r.send = Printed(SendTotal(psbt), SendMax) /\ r.fee = Printed(Fee(psbt), FeeMax)
      /\ r.warning = Warning(psbt)
  BY DEF Review
<1> HIDE DEF n, m, ins, outs, send, change, r
<1>6. /\ Exact(outs) = Exact(send) + Exact(change)
      /\ Exact(outs) \in Nat /\ Exact(send) \in Nat /\ Exact(change) \in Nat
  BY <1>2, SumSplit
<1>7. Exact(ins) \in Nat
  <2>1. PICK e : Sums(ins, n, e) /\ Exact(ins) = e[n]
    BY <1>2, LastSums
  <2>. QED BY <1>2, <2>1 DEF Sums
<1>8. TotalIn(psbt) = ExactIn /\ TotalOut(psbt) = ExactOut /\ SendTotal(psbt) = Exact(send)
  <2>1. Exact(send) <= AmountMax
    BY <1>3, <1>6, AmountAssumption
  <2>. QED BY <1>2, <1>3, <2>1, TotalIsExact
<1>9. Fee(psbt) = IF ExactIn < ExactOut THEN 0 ELSE ExactIn - ExactOut
  BY <1>8 DEF Fee, SaturatingSub
<1>10. r.warning = "overflow" <=> ExactOut > ExactIn
  <2>1. CASE ExactOut > ExactIn
    <3>1. ~FeeIsAbnormal(Fee(psbt), SendTotal(psbt), TotalIn(psbt))
      <4>1. Fee(psbt) = 0 /\ TotalIn(psbt) \in Nat /\ SendTotal(psbt) \in Nat
        BY <1>3, <1>6, <1>7, <1>8, <1>9, <2>1
      <4>. QED BY <4>1 DEF FeeIsAbnormal
    <3>. QED BY <1>5, <1>8, <2>1, <3>1 DEF Warning
  <2>2. CASE ~(ExactOut > ExactIn)
    <3>1. Warning(psbt) \in {"high fee", "none"}
      BY <1>8, <2>2 DEF Warning
    <3>. QED BY <1>5, <2>2, <3>1
  <2>. QED BY <2>1, <2>2
<1>11. ASSUME r.warning # "overflow", r.send # None, r.fee # None
       PROVE  r.send + ExactChange(r.rows) + r.fee = ExactIn
  <2>1. r.send = Exact(send) /\ r.fee = Fee(psbt)
    BY <1>5, <1>8, <1>11 DEF Printed
  <2>2. ~(ExactOut > ExactIn) /\ ExactIn \in Nat /\ ExactOut \in Nat
    BY <1>3, <1>6, <1>7, <1>10, <1>11
  <2>. QED BY <1>3, <1>4, <1>6, <1>9, <2>1, <2>2
<1>12. ASSUME 4 * (ExactIn - ExactOut) > ExactIn
       PROVE  r.warning = "high fee"
  <2>1. ExactIn \in Nat /\ ExactOut \in Nat
    BY <1>3, <1>6, <1>7
  <2>2. ~(ExactOut > ExactIn) /\ ExactIn - ExactOut > ExactIn \div 4
    BY <1>12, <2>1
  <2>3. Fee(psbt) > TotalIn(psbt) \div 4
    BY <1>8, <1>9, <2>1, <2>2
  <2>. QED BY <1>5, <1>8, <2>2, <2>3 DEF Warning, FeeIsAbnormal
<1>. QED BY <1>10, <1>11, <1>12 DEF r

\* What is marked as change pays to a key that sign_psbt finds and accepts.
LEMMA ChangeIsOurs == SInv => ChangeIsSpendable
<1> SUFFICES ASSUME SInv, screen = "SignReview", NEW i \in 1..Len(psbt.outputs),
                    Review(psbt).rows[i].change
             PROVE  \E slot \in Slots :
                        LET input == [script |-> psbt.outputs[i].script, key |-> TapXonlyAt(slot),
                                      sighash |-> None]
                        IN IsOwn(input) /\ Acceptable(input)
  BY DEF ChangeIsSpendable
<1>1. IsChange(psbt.outputs[i])
  BY DEF Review, Row
<1>2. PICK s \in 1..2 * KEY_WINDOW : psbt.outputs[i].script = P2TR(OwnOutputKeys[s])
  BY <1>1 DEF IsChange
<1> DEFINE slot == KeyWindowSlots[s]
           input == [script |-> psbt.outputs[i].script, key |-> TapXonlyAt(slot), sighash |-> None]
<1>3. slot \in Slots
  BY SlotInWindow
<1>4. IsOwn(input)
  BY DEF IsOwn, OwnInternalKeys
<1>5. Acceptable(input)
  <2>1. psbt.outputs[i].script = P2TR(TaprootTweak(TapXonlyAt(slot)))
    BY <1>2 DEF OwnOutputKeys
  <2>2. P2TR(TaprootTweak(TapXonlyAt(slot))) # NoScript
    <3>1. P2TR(TaprootTweak(TapXonlyAt(slot))).kind = "p2tr" /\ NoScript.kind = "none"
      BY DEF P2TR, NoScript
    <3>. QED BY <3>1
  <2> HIDE DEF slot
  <2>. QED BY <2>1, <2>2 DEF Acceptable
<1>. QED BY <1>3, <1>4, <1>5

-----------------------------------------------------------------------------
(* The theorems *)

\* Every reachable state satisfies the invariant: what is in hand is what was
\* scanned, and its signatures are the scanned ones or the wallet's.
THEOREM SigningInvariance == Spec => []SInv
<1>1. Init => SInv
  BY SInit
<1>2. SInv /\ [Next]_vars => SInv'
  BY SNext
<1>. QED BY <1>1, <1>2, PTL DEF Spec

\* The transaction in hand is at every moment the scanned file with some inputs
\* signed by this wallet, from its scan until it is left (load_psbt, do_sign).
THEOREM SigningTypes == Spec => []TypeOK
<1>1. Init => SInv /\ Progress
  BY SInit, FaultsAssumption DEF Init, Progress, Loaded
<1>2. SInv /\ Progress /\ [Next]_vars => SInv' /\ Progress'
  BY SNext, ProgressNext
<1>. QED BY <1>1, <1>2, TypesHold, PTL DEF Spec

\* Every signature that sign_psbt puts into a file verifies against that file,
\* for every window, every number of inputs and every file.
THEOREM SignatureSafety == Spec => []SignaturesVerify
BY SigningInvariance, HandedVerifies, PTL

\* Signing keeps the scanned transaction, all internal keys and UTXOs, and of
\* other signers their key signatures of 64 bytes, and no others (psbt.rs).
THEOREM KeySigSafety == Spec => []KeySigsAreKept
BY SigningInvariance, HandedKeeps, PTL

\* A refused input withholds the file: it is signed at all inputs of the wallet.
THEOREM CompletenessOfSigning == Spec => []AllOrNothing
BY SigningInvariance, HandedIsComplete, PTL

\* As long as the totals fit in 64 bits, the review accounts for all that is
\* spent: what is sent, the rows of change and the fee make up the inputs, and
\* both warnings come when they must (sign_review.rs, total_in, total_out).
THEOREM ReviewAccountsForAll == Spec => []ReviewBalances
BY SigningInvariance, ReviewAddsUp, PTL

\* An output the review calls change can be spent by this wallet: sign_psbt finds
\* its key and accepts an input that pays from it (is_change, sign_psbt).
THEOREM ChangeCanBeSpent == Spec => []ChangeIsSpendable
BY SigningInvariance, ChangeIsOurs, PTL
=============================================================================
