--------------------------- MODULE DomainMachines ---------------------------
(***************************************************************************)
(* The state machines of packages/domain/src/states.ts other than the KYC  *)
(* one: rounds, investments, deposits, withdrawals, referral rewards and   *)
(* deliveries.  Their services are not written yet ("the API is the only   *)
(* caller"), so the caller is external: it moves one entity wherever       *)
(* assertTransition lets it.                                               *)
(***************************************************************************)

VARIABLES
  entity,   \* which machine the entity follows, and its state
  passed    \* history: the states the entity has been in

machineVars == <<entity, passed>>

RoundMachine ==
  [DRAFT |-> {"SCHEDULED", "ARCHIVED"}, SCHEDULED |-> {"OPEN", "CANCELLED"},
   OPEN |-> {"CLOSED_TO_NEW"}, CLOSED_TO_NEW |-> {"SETTLING"},
   SETTLING |-> {"SETTLED"}, SETTLED |-> {}, ARCHIVED |-> {}, CANCELLED |-> {}]

InvestmentMachine ==
  [CHECKOUT_INITIATED |-> {"PAYMENT_PENDING", "FAILED"},
   PAYMENT_PENDING |-> {"PAYMENT_VERIFIED", "PAYMENT_EXPIRED", "FAILED"},
   PAYMENT_EXPIRED |-> {"REFUND_INITIATED"},
   PAYMENT_VERIFIED |-> {"ACTIVE", "REFUND_INITIATED"},
   ACTIVE |-> {"MATURITY_DUE", "REVIEW_REQUIRED"},
   MATURITY_DUE |-> {"COMPLETED", "SETTLEMENT_PENDING"},
   SETTLEMENT_PENDING |-> {"COMPLETED", "REVIEW_REQUIRED"},
   REFUND_INITIATED |-> {"REFUNDED", "REFUND_FAILED"},
   REFUND_FAILED |-> {"REFUND_INITIATED", "OPS_ESCALATED"},
   REVIEW_REQUIRED |-> {"COMPLETED", "REFUND_INITIATED"},
   COMPLETED |-> {}, REFUNDED |-> {}, OPS_ESCALATED |-> {}, FAILED |-> {}]

DepositMachine ==
  [INTENT_CREATED |-> {"VERIFIED", "PROVIDER_FAILED", "CANCELLED_BY_USER", "EXPIRED"},
   VERIFIED |-> {"CREDITED"}, CREDITED |-> {"REVERSED"}, REVERSED |-> {},
   PROVIDER_FAILED |-> {}, CANCELLED_BY_USER |-> {}, EXPIRED |-> {}]

\* Mutant of WithdrawalMachine: a request is rejected and "released" before
\* anything was reserved.
ReleaseUnreserved ==
  [REQUESTED |-> {"FUNDS_RESERVED", "REJECTED", "REJECTED_RELEASED"},
   FUNDS_RESERVED |-> {"PENDING_MANUAL_PAYOUT", "REJECTED_RELEASED"},
   PENDING_MANUAL_PAYOUT |-> {"COMPLETED", "REJECTED_RELEASED", "FAILED_RELEASED"},
   COMPLETED |-> {}, REJECTED |-> {}, REJECTED_RELEASED |-> {}, FAILED_RELEASED |-> {}]

WithdrawalMachine ==
  [REQUESTED |-> {"FUNDS_RESERVED", "REJECTED"},
   FUNDS_RESERVED |-> {"PENDING_MANUAL_PAYOUT", "REJECTED_RELEASED"},
   PENDING_MANUAL_PAYOUT |-> {"COMPLETED", "REJECTED_RELEASED", "FAILED_RELEASED"},
   COMPLETED |-> {}, REJECTED |-> {}, REJECTED_RELEASED |-> {}, FAILED_RELEASED |-> {}]

RewardMachine ==
  [PENDING |-> {"CREDITED", "DISQUALIFIED", "REVERSED"}, CREDITED |-> {"REVERSED"},
   REVERSED |-> {}, DISQUALIFIED |-> {}]

\* Mutant of DeliveryMachine: a target no machine has.
DeliveryMisspelt ==
  [PENDING |-> {"DISPATCHING"}, DISPATCHING |-> {"SENT", "RETRY", "FAILED"},
   RETRY_SCHEDULED |-> {"DISPATCHING", "FAILED"}, SENT |-> {}, FAILED |-> {}]

DeliveryMachine ==
  [PENDING |-> {"DISPATCHING"}, DISPATCHING |-> {"SENT", "RETRY_SCHEDULED", "FAILED"},
   RETRY_SCHEDULED |-> {"DISPATCHING", "FAILED"}, SENT |-> {}, FAILED |-> {}]

machines ==
  [investment_round |-> RoundMachine, investment |-> InvestmentMachine,
   deposit |-> DepositMachine, withdrawal |-> WithdrawalMachine,
   referral_reward |-> RewardMachine, notification_delivery |-> DeliveryMachine]

\* Where an entity starts: a wallet-funded investment is born ACTIVE.
FirstStates ==
  [investment_round |-> {"DRAFT"}, investment |-> {"CHECKOUT_INITIATED", "ACTIVE"},
   deposit |-> {"INTENT_CREATED"}, withdrawal |-> {"REQUESTED"},
   referral_reward |-> {"PENDING"}, notification_delivery |-> {"PENDING"}]

MachinesTypeOK ==
  /\ entity.machine \in DOMAIN machines
  /\ entity.state \in DOMAIN machines[entity.machine]
  /\ passed \subseteq DOMAIN machines[entity.machine]

MachinesInit ==
  \E name \in DOMAIN machines : \E s \in FirstStates[name] :
    entity = [machine |-> name, state |-> s] /\ passed = {s}

MachinesNext ==
  \E s \in machines[entity.machine][entity.state] :
    /\ entity' = [entity EXCEPT !.state = s]
    /\ passed' = passed \cup {s}

MachinesSpec == MachinesInit /\ [][MachinesNext]_machineVars

(***************************************************************************)
(* Properties                                                              *)
(***************************************************************************)
\* Money moves once, whatever the path (the "money-moving" states of
\* states.ts): a withdrawal releases or pays out what it reserved, an
\* investment is paid or refunded but never both, and what is reversed was
\* credited or still pending.
MoneyMovesOnce ==
  LET Both(a, b) == a \in passed /\ b \in passed IN
  /\ entity.machine = "withdrawal" =>
       /\ ~Both("COMPLETED", "REJECTED_RELEASED") /\ ~Both("COMPLETED", "FAILED_RELEASED")
       /\ passed \cap {"COMPLETED", "REJECTED_RELEASED", "FAILED_RELEASED"} # {} =>
            "FUNDS_RESERVED" \in passed /\ "REJECTED" \notin passed
  /\ entity.machine = "investment" => ~Both("COMPLETED", "REFUNDED")
  /\ entity.machine = "deposit" /\ "REVERSED" \in passed => "CREDITED" \in passed
  /\ entity.machine = "referral_reward" => ~Both("DISQUALIFIED", "CREDITED")
=============================================================================
