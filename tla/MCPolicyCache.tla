--------------------------- MODULE MCPolicyCache ---------------------------
(***************************************************************************)
(* Instances of PolicyCache for TLC.                                       *)
(***************************************************************************)
EXTENDS PolicyCache, TLC

CONSTANTS i1, i2, r1, r2, v1, v2

\* Instances are alike, and so are slots.
Symmetric == Permutations({i1, i2}) \cup Permutations({r1, r2})

=============================================================================
