--------------------------- MODULE MCKycDocuments ---------------------------
(***************************************************************************)
(* Instances of KycDocuments for TLC.                                      *)
(***************************************************************************)
EXTENDS KycDocuments, TLC

CONSTANTS d1, d2, d3, d4, d5, r1, r2, r3

Sym == Permutations({d1, d2, d3, d4, d5}) \cup Permutations({r1, r2, r3})

=============================================================================
