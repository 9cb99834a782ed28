----------------------------- MODULE MCWallet -----------------------------
(* Small instances of Wallet: four concurrent calls on one wallet, with a  *)
(* column so narrow that credits overflow it.                              *)
EXTENDS Wallet
=============================================================================
