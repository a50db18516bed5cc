---------------------------- MODULE MCCredentials ---------------------------
(* Credentials with a handful of flows and calls.                          *)
EXTENDS Credentials, TLC

(* Calls differ in nothing but their names, and so do nonces.              *)
MCSymmetry == Permutations(Call) \cup Permutations(Nonce)
=============================================================================
