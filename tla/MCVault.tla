------------------------------- MODULE MCVault -------------------------------
(***************************************************************************)
(* Vault for TLC.  Passwords are never compared with each other once a row *)
(* has its salt, so the passwords, the values and the callers are          *)
(* interchangeable.                                                        *)
(***************************************************************************)
EXTENDS Vault, TLC

Symmetry ==
    Permutations(Callers) \cup Permutations(Names) \cup Permutations(Values)
        \cup Permutations(Passwords)
=============================================================================
