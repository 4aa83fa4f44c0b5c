----------------------------- MODULE MCKycCase -----------------------------
(***************************************************************************)
(* Instances of KycCase for TLC.                                           *)
(***************************************************************************)
EXTENDS KycCase, TLC

CONSTANTS c1, c2, u1, officer, r1, r2, t1, t2

\* Both cases belong to one user, so that the one-open-case index matters;
\* the user may hold the reviewer permission too.
OneOwner == (c1 :> u1) @@ (c2 :> u1)

OneCase == c1 :> u1

\* Ids, timestamps and slots are only ever compared for equality.
Sym1 == Permutations({c1, c2}) \cup Permutations({t1, t2})
Sym2 == Sym1 \cup Permutations({r1, r2})

=============================================================================
