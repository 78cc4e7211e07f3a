----------------------------- MODULE MCExchange -----------------------------
(* A small instance of Exchange: PSBTs of up to ten bytes are accepted, with two   *)
(* inputs and one output; up to twelve bytes are sent, so that every remainder     *)
(* occurs on both sides of the limit.  Two inputs that are signed and an output    *)
(* fill both buffers to the last byte.  The unknown field is a byte that gives     *)
(* both characters the alphabets differ in.                                        *)
EXTENDS Exchange

UNKNOWN == 254

MCSig == <<KEY_SIG, UNKNOWN>>

\* Headers, with counts within the bounds and beyond them, and fields at random.
Headers == {<<MAGIC, n, m>> : n \in 0..3, m \in 0..2} \cup {<<END, 0, 0>>}
Scraps == UNION {[1..n -> {END, UTXO, KEY, UNKNOWN}] : n \in 0..2}

\* Whole transactions of one and of two inputs, with an output.
InputMaps == {<<END>>, <<UTXO, KEY, END>>, <<KEY, UTXO, END>>, <<KEY, END>>, <<KEY_SIG, END>>,
              <<UTXO, KEY_SIG, KEY, END>>, <<UTXO, SIGHASH, KEY, END>>, <<UNKNOWN, END>>}
OutputMaps == {<<END>>, <<OUT_KEY, END>>, <<UNKNOWN, END>>}
Whole ==
    {<<MAGIC, 1, 1>> \o a \o c : a \in InputMaps, c \in OutputMaps}
    \cup {<<MAGIC, 2, 1>> \o a \o b \o c : a \in InputMaps, b \in InputMaps, c \in OutputMaps}

MCPayloads ==
    {<<MAGIC>>, <<MAGIC, 0>>, <<MAGIC, 3, 0, END, END, END>>, <<MAGIC, 0, 2, END, END>>}
    \cup {h \o s : h \in Headers, s \in Scraps}
    \cup {w \in Whole : Len(w) <= 12}
=============================================================================
