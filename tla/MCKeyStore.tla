----------------------------- MODULE MCKeyStore -----------------------------
(* The key store on small instances: no key is special.                      *)
EXTENDS KeyStore, TLC

Symmetry == Permutations(Keys)
=============================================================================
