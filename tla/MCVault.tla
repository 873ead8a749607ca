------------------------------ MODULE MCVault ------------------------------
(***************************************************************************)
(* Turns over two sessions, messages with one or two sensitive values.     *)
(***************************************************************************)
EXTENDS Vault, TLC

CONSTANTS v1, v2

MCMessages == {<<v1>>, <<v1, v2>>, <<v2, v1, v2>>}

Interchangeable == Permutations(Turns) \cup Permutations(Tokens)
=============================================================================
