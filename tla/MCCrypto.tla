------------------------------ MODULE MCCrypto ------------------------------
(* Crypto with the values of MCCrypto.cfg. *)
EXTENDS Crypto
=============================================================================
