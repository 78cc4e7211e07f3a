---------------------------- MODULE MCColdWallet ----------------------------
(***************************************************************************)
(* ColdWallet on small instances.                                          *)
(***************************************************************************)
EXTENDS ColdWalletInvariant

CONSTANTS SignableEntropy   \* the entropy whose key window matches the PSBTs

\* PSBTs pay from keys of one wallet, without a passphrase.
MCSignable == {<<p, ToSeed(SignableEntropy, <<>>)>> : p \in Psbts}
=============================================================================
