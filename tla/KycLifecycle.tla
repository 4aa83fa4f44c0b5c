---------------------------- MODULE KycLifecycle ----------------------------
(***************************************************************************)
(* What the KYC workflow promises about a case, without requests, checks   *)
(* or callbacks: section 7 of docs/STATE_MACHINES.md as the API offers it. *)
(* An approval or a rejection is final, a tier is granted once and only by *)
(* an approval, and a user has one open case at a time.                    *)
(***************************************************************************)
EXTENDS Naturals, KycMachine

CONSTANTS Cases, Owner, Tiers

VARIABLES status, tier

Init ==
  /\ status = [c \in Cases |-> NoStatus]
  /\ tier = [c \in Cases |-> 0]

IsOpen(c) == status[c] \in OpenStatuses

Start(c) ==
  /\ status[c] = NoStatus
  /\ \A d \in Cases : Owner[d] = Owner[c] => ~IsOpen(d)
  /\ status' = [status EXCEPT ![c] = "DRAFT"]
  /\ UNCHANGED tier

Submit(c) ==
  /\ status[c] \in {"DRAFT", "MORE_INFO_REQUIRED"}
  /\ status' = [status EXCEPT ![c] = "SUBMITTED"]
  /\ UNCHANGED tier

SendToReview(c) ==
  /\ status[c] = "SUBMITTED"
  /\ status' = [status EXCEPT ![c] = "IN_REVIEW"]
  /\ UNCHANGED tier

UnderReview(c) == status[c] \in {"SUBMITTED", "IN_REVIEW"}

Approve(c, t) ==
  /\ UnderReview(c)
  /\ status' = [status EXCEPT ![c] = "APPROVED"]
  /\ tier' = [tier EXCEPT ![c] = t]

Refuse(c) ==
  /\ UnderReview(c)
  /\ \E s \in {"REJECTED", "MORE_INFO_REQUIRED"} : status' = [status EXCEPT ![c] = s]
  /\ UNCHANGED tier

Next ==
  \E c \in Cases :
    \/ Start(c) \/ Submit(c) \/ SendToReview(c) \/ Refuse(c)
    \/ \E t \in Tiers : Approve(c, t)

Spec == Init /\ [][Next]_<<status, tier>>

=============================================================================
