----------------------------- MODULE MCAccounts -----------------------------
(***************************************************************************)
(* Instances of Accounts for TLC.                                          *)
(***************************************************************************)
EXTENDS Accounts, TLC

CONSTANTS u1, u2, u3, r1, r2

Slots == Permutations({r1, r2})

=============================================================================
