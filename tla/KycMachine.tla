----------------------------- MODULE KycMachine -----------------------------
(***************************************************************************)
(* The KYC state machine of packages/domain/src/states.ts and the rule by  *)
(* which KycService moves a case through it (directly, or through          *)
(* IN_REVIEW).  No state of its own: the constant operators every KYC      *)
(* module shares.                                                          *)
(***************************************************************************)

KycStates == {"DRAFT", "SUBMITTED", "IN_REVIEW", "MORE_INFO_REQUIRED",
              "APPROVED", "REJECTED", "EXPIRED"}

OpenStatuses == {"DRAFT", "SUBMITTED", "IN_REVIEW", "MORE_INFO_REQUIRED"}

\* The status of a case row that does not exist yet.
NoStatus == "NONE"

Successors(s) ==
  CASE s = "DRAFT"              -> {"SUBMITTED"}
    [] s = "SUBMITTED"          -> {"IN_REVIEW"}
    [] s = "IN_REVIEW"          -> {"APPROVED", "REJECTED", "MORE_INFO_REQUIRED", "EXPIRED"}
    [] s = "MORE_INFO_REQUIRED" -> {"SUBMITTED"}
    [] s = "REJECTED"           -> {"DRAFT"}
    [] s = "EXPIRED"            -> {"DRAFT"}
    [] s = "APPROVED"           -> {"EXPIRED"}
    [] OTHER                    -> {}

CanTransition(from, to) == to \in Successors(from)

\* Mutant of TransitionAllowed: no hop through IN_REVIEW.
DirectOnly(from, to) == CanTransition(from, to)

\* KycService.transition: the move is accepted when it is one step of the
\* machine, or two steps through IN_REVIEW; otherwise it throws.
TransitionAllowed(from, to) ==
  \/ CanTransition(from, to)
  \/ CanTransition(from, "IN_REVIEW") /\ CanTransition("IN_REVIEW", to)

=============================================================================
