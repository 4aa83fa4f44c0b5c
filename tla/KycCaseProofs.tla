--------------------------- MODULE KycCaseProofs ---------------------------
(***************************************************************************)
(* Theorems about KycCase, for every set of users, cases and requests and  *)
(* every bound.                                                            *)
(***************************************************************************)
EXTENDS KycCase, TLAPS

(***************************************************************************)
(* The inductive invariant: rows refer to rows that exist, and a request   *)
(* at a step has read what the steps before it read.                       *)
(***************************************************************************)
ChecksLinked ==
  \A k \in CheckIds :
    /\ checks[k].status # "NONE" =>
         checks[k].case \in Cases /\ cases[checks[k].case].status # NoStatus
    /\ checks[k].hasJob => checks[k].status # "NONE" /\ jobs[k] # NoOutcome
    /\ jobs[k] # NoOutcome => checks[k].status # "NONE"

WithCase == {"submit_insert", "submit_call", "submit_commit", "callback_case",
             "callback_apply", "sync_check", "sync_fetch", "sync_apply", "decide_commit"}
WithCheck == {"submit_call", "submit_commit", "callback_check", "callback_case",
              "callback_apply", "callback_fail", "sync_fetch", "sync_apply"}
OfCallback == {"callback_check", "callback_case", "callback_apply", "callback_fail"}
Judging == {"callback_case", "callback_apply", "sync_fetch", "sync_apply"}

Submitting(r) == req[r].at \in {"submit_call", "submit_commit"}

RequestLinked(r) ==
  LET q == req[r] IN
  /\ q.at \in WithCase => q.case \in Cases /\ cases[q.case].status # NoStatus
  /\ q.at \in WithCheck => q.check \in CheckIds /\ checks[q.check].status # "NONE"
  /\ q.at \in OfCallback => /\ q.stamp \in Stamps
                            /\ q.outcome \in Outcomes
                            /\ q.outcome \in {"PENDING", jobs[q.check]}
  /\ q.at = "sync_apply" => q.outcome \in Finals /\ q.outcome = jobs[q.check]
  /\ q.at \in Judging => checks[q.check].hasJob /\ checks[q.check].case = q.case
  /\ q.at = "submit_call" => jobs[q.check] = NoOutcome
  /\ q.at = "submit_commit" => jobs[q.check] # NoOutcome
  /\ Submitting(r) => ~checks[q.check].hasJob /\ checks[q.check].case = q.case

RequestsLinked == \A r \in Requests : RequestLinked(r)

SubmitsDistinct ==
  \A r, q \in Requests :
    r # q /\ Submitting(r) /\ Submitting(q) => req[r].check # req[q].check

Inv == TypeOK /\ ChecksLinked /\ RequestsLinked /\ SubmitsDistinct

(***************************************************************************)
(* Type correctness                                                        *)
(***************************************************************************)

LEMMA FieldTypes ==
  ASSUME TypeOK
  PROVE  /\ \A c \in Cases : /\ cases[c] \in CaseRow
                             /\ cases[c].status \in KycStates \cup {NoStatus}
                             /\ cases[c].requestedTier \in Nat
         /\ \A k \in CheckIds : /\ checks[k] \in CheckRow
                                /\ checks[k].case \in Cases \cup {NoCase}
                                /\ jobs[k] \in Outcomes \cup {NoOutcome}
         /\ \A r \in Requests : /\ req[r] \in Request
                                /\ req[r].seen \in KycStates \cup {NoStatus}
                                /\ req[r].prior \in Nat
BY DEF TypeOK, CaseRow, CheckRow, Request

LEMMA LengthTyped == TypeOK => \A c \in Cases : Len(decisions[c]) \in Nat
BY DEF TypeOK

\* Finishing a request keeps the slots typed.
LEMMA FinishTyped ==
  ASSUME TypeOK, NEW r \in Requests, Finish(r)
  PROVE  req' \in [Requests -> Request]
<1>1. Idle \in Request
  BY DEF Idle, Request, Steps, NoStatus, NoOutcome
<1> QED
  BY <1>1 DEF TypeOK, Finish

\* Storing a decision keeps cases, checks and decisions typed.
LEMMA DecideTyped ==
  ASSUME TypeOK, NEW c \in Cases, NEW seen \in KycStates \cup {NoStatus}, NEW to \in KycStates,
         NEW prior \in Nat, NEW tier \in Nat, NEW source \in {"PROVIDER", "ADMIN"},
         NEW k \in CheckIds \cup {0},
         Decide(c, seen, prior, to, tier, source, k)
  PROVE  cases' \in [Cases -> CaseRow] /\ decisions' \in [Cases -> Seq(DecisionRow)]
<1>1. Decided(cases[c], to, tier) \in CaseRow
  BY DEF TypeOK, CaseRow, Decided
<1>2. [from |-> seen, to |-> to, source |-> source, check |-> k, prior |-> prior] \in DecisionRow
  BY DEF DecisionRow
<1>3. decisions[c] \in Seq(DecisionRow)
  BY DEF TypeOK
<1>4. Append(decisions[c], [from |-> seen, to |-> to, source |-> source, check |-> k, prior |-> prior])
        \in Seq(DecisionRow)
  BY <1>2, <1>3
<1> QED
  BY <1>1, <1>4 DEF TypeOK, Decide

LEMMA ApplyTyped ==
  ASSUME TypeOK, NEW c \in Cases, NEW seen \in KycStates \cup {NoStatus}, NEW prior \in Nat,
         NEW k \in CheckIds, NEW o \in Outcomes, ApplyDecision(c, seen, prior, k, o)
  PROVE  /\ cases' \in [Cases -> CaseRow]
         /\ checks' \in [CheckIds -> CheckRow]
         /\ decisions' \in [Cases -> Seq(DecisionRow)]
<1>1. CheckStatusFor(o) \in {"PENDING", "COMPLETED", "FAILED"}
  BY DEF CheckStatusFor
<1>2. [checks[k] EXCEPT !.status = CheckStatusFor(o), !.outcome = o] \in CheckRow
  BY <1>1 DEF TypeOK, CheckRow
<1>3. checks' \in [CheckIds -> CheckRow]
  BY <1>2 DEF TypeOK, ApplyDecision
<1>4. CASE NoMove(seen, o) /\ UNCHANGED <<cases, decisions>>
  BY <1>3, <1>4 DEF TypeOK
<1>5. CASE ~NoMove(seen, o) /\ Decide(c, seen, prior, TargetOf(o), cases[c].requestedTier, "PROVIDER", k)
  <2>1. TargetOf(o) \in KycStates
    BY <1>5 DEF TargetOf, NoMove, KycStates
  <2> QED
    BY <1>3, <1>5, <2>1, DecideTyped, FieldTypes
<1> QED
  BY <1>4, <1>5 DEF ApplyDecision

LEMMA SettleTyped ==
  ASSUME TypeOK, NEW r \in Requests, NEW s \in {"IGNORED", "DUPLICATE", "PROCESSED", "FAILED"},
         SettleEvent(r, s)
  PROVE  events' \in [CheckIds \X Stamps -> EventRow]
<1>1. Event(r) \in CheckIds \X Stamps =>
        [events[Event(r)] EXCEPT !.status = s] \in EventRow
  BY DEF TypeOK, EventRow
<1> QED
  BY <1>1 DEF TypeOK, SettleEvent

LEMMA TypeStep == Inv /\ [Next]_vars => TypeOK'
<1> SUFFICES ASSUME Inv, [Next]_vars PROVE TypeOK'
  OBVIOUS
<1>0. TypeOK /\ ChecksLinked /\ \A r \in Requests : RequestLinked(r)
  BY DEF Inv, RequestsLinked
<1>1. ASSUME NEW c \in Cases, NEW tier \in RequestedTiers, StartCase(c, tier)
      PROVE  TypeOK'
  <2>1. "DRAFT" \in KycStates /\ tier \in Nat
    BY TierAssumption DEF KycStates
  <2>2. [cases[c] EXCEPT !.status = "DRAFT", !.requestedTier = tier] \in CaseRow
    BY <1>0, <2>1 DEF TypeOK, CaseRow
  <2> QED
    BY <1>0, <1>1, <2>2 DEF TypeOK, StartCase
<1>2. ASSUME NEW r \in Requests, NEW c \in Cases, SubmitRead(r, c) \/ SyncRead(r, c)
      PROVE  TypeOK'
  <2>1. \A s \in Steps :
          [req[r] EXCEPT !.at = s, !.case = c, !.seen = cases[c].status] \in Request
    BY <1>0, FieldTypes DEF Request
  <2> QED
    BY <1>0, <1>2, <2>1 DEF TypeOK, SubmitRead, SyncRead, rows, Steps
<1>3. ASSUME NEW r \in Requests, NEW k \in CheckIds, NEW t \in Stamps, CallbackReceive(r, k, t)
      PROVE  TypeOK'
  <2>1. PICK o \in {"PENDING", jobs[k]} :
          /\ events' = [events EXCEPT ![<<k, t>>] = [status |-> "RECEIVED", outcome |-> o]]
          /\ req' = [req EXCEPT ![r] = [@ EXCEPT !.at = "callback_check", !.check = k,
                                               !.stamp = t, !.outcome = o]]
    BY <1>3 DEF CallbackReceive
  <2>2. o \in Outcomes \cup {NoOutcome}
    BY <1>0, FieldTypes DEF Outcomes
  <2>3. [status |-> "RECEIVED", outcome |-> o] \in EventRow
    BY <2>2 DEF EventRow
  <2>4. "callback_check" \in Steps
    BY DEF Steps
  <2>5. [req[r] EXCEPT !.at = "callback_check", !.check = k, !.stamp = t, !.outcome = o] \in Request
    BY <1>0, <2>2, <2>4, FieldTypes DEF Request
  <2> QED
    BY <1>0, <1>3, <2>1, <2>3, <2>5 DEF TypeOK, CallbackReceive
<1>4. ASSUME NEW r \in Requests, NEW a \in Reviewers, NEW c \in Cases, DecideRead(r, a, c)
      PROVE  TypeOK'
  <2>1. "decide_commit" \in Steps
    BY DEF Steps
  <2>2. [req[r] EXCEPT !.at = "decide_commit", !.case = c, !.seen = cases[c].status,
                       !.prior = Len(decisions[c])] \in Request
    BY <1>0, <2>1, FieldTypes, LengthTyped DEF Request
  <2> QED
    BY <1>0, <1>4, <2>2 DEF TypeOK, DecideRead, rows
<1>5. ASSUME NEW r \in Requests, SubmitInsert(r)
      PROVE  TypeOK'
  <2>1. PICK k \in CheckIds :
          /\ checks' = [checks EXCEPT ![k] = [@ EXCEPT !.status = "PENDING", !.case = req[r].case]]
          /\ req' = [req EXCEPT ![r] = [@ EXCEPT !.at = "submit_call", !.check = k]]
    BY <1>5 DEF SubmitInsert
  <2>2. req[r].case \in Cases
    BY <1>0, <1>5 DEF SubmitInsert, RequestLinked, WithCase
  <2>3. [checks[k] EXCEPT !.status = "PENDING", !.case = req[r].case] \in CheckRow
    BY <1>0, <2>2, FieldTypes DEF CheckRow
  <2>4. "submit_call" \in Steps
    BY DEF Steps
  <2>5. [req[r] EXCEPT !.at = "submit_call", !.check = k] \in Request
    BY <1>0, <2>4, FieldTypes DEF Request
  <2> QED
    BY <1>0, <1>5, <2>1, <2>3, <2>5 DEF TypeOK, SubmitInsert
<1>6. ASSUME NEW r \in Requests, SubmitAccepted(r)
      PROVE  TypeOK'
  <2>1. "submit_commit" \in Steps /\ "PENDING" \in Outcomes
    BY DEF Steps, Outcomes
  <2>2. [req[r] EXCEPT !.at = "submit_commit"] \in Request
    BY <1>0, <2>1, FieldTypes DEF Request
  <2> QED
    BY <1>0, <1>6, <2>1, <2>2 DEF TypeOK, SubmitAccepted, rows
<1>7. ASSUME NEW r \in Requests, SubmitFails(r)
      PROVE  TypeOK'
  <2>1. req[r].check \in CheckIds
    BY <1>0, <1>7 DEF SubmitFails, RequestLinked, WithCheck
  <2>2. [checks[req[r].check] EXCEPT !.status = "FAILED"] \in CheckRow
    BY <1>0, <2>1, FieldTypes DEF CheckRow
  <2>3. checks' \in [CheckIds -> CheckRow] /\ jobs' \in [CheckIds -> Outcomes \cup {NoOutcome}]
    BY <1>0, <1>7, <2>1, <2>2 DEF TypeOK, SubmitFails, Outcomes
  <2>4. req' \in [Requests -> Request]
    BY <1>0, <1>7, FinishTyped DEF SubmitFails
  <2> QED
    BY <1>0, <1>7, <2>3, <2>4 DEF TypeOK, SubmitFails
<1>8. ASSUME NEW r \in Requests, SubmitCommit(r)
      PROVE  TypeOK'
  <2>1. req[r].check \in CheckIds /\ req[r].case \in Cases
    BY <1>0, <1>8 DEF SubmitCommit, RequestLinked, WithCheck, WithCase
  <2>2. [checks[req[r].check] EXCEPT !.hasJob = TRUE] \in CheckRow
    BY <1>0, <2>1, FieldTypes DEF CheckRow
  <2>3. [cases[req[r].case] EXCEPT !.status = "SUBMITTED"] \in CaseRow
    BY <1>0, <2>1, FieldTypes DEF CaseRow, KycStates
  <2>4. req' \in [Requests -> Request]
    BY <1>0, <1>8, FinishTyped DEF SubmitCommit
  <2> QED
    BY <1>0, <1>8, <2>1, <2>2, <2>3, <2>4 DEF TypeOK, SubmitCommit
<1>9. ASSUME NEW r \in Requests,
             CallbackUnknownJob(r) \/ CallbackDuplicate(r) \/ CallbackMarkFailed(r)
      PROVE  TypeOK'
  <2>1. req' \in [Requests -> Request]
    BY <1>0, <1>9, FinishTyped DEF CallbackUnknownJob, CallbackDuplicate, CallbackMarkFailed
  <2>2. events' \in [CheckIds \X Stamps -> EventRow]
    BY <1>0, <1>9, SettleTyped DEF CallbackUnknownJob, CallbackDuplicate, CallbackMarkFailed
  <2> QED
    BY <1>0, <1>9, <2>1, <2>2
       DEF TypeOK, CallbackUnknownJob, CallbackDuplicate, CallbackMarkFailed
<1>10. ASSUME NEW r \in Requests, CallbackCheckPending(r)
       PROVE  TypeOK'
  <2>1. req[r].check \in CheckIds /\ "callback_case" \in Steps
    BY <1>0, <1>10 DEF CallbackCheckPending, RequestLinked, WithCheck, Steps
  <2>2. [req[r] EXCEPT !.at = "callback_case", !.case = checks[req[r].check].case] \in Request
    BY <1>0, <2>1, FieldTypes DEF Request
  <2> QED
    BY <1>0, <1>10, <2>2 DEF TypeOK, CallbackCheckPending, rows
<1>11. ASSUME NEW r \in Requests, CallbackReadCase(r)
       PROVE  TypeOK'
  <2>1. req[r].case \in Cases /\ "callback_apply" \in Steps
    BY <1>0, <1>11 DEF CallbackReadCase, RequestLinked, WithCase, Steps
  <2>2. [req[r] EXCEPT !.at = "callback_apply", !.seen = cases[req[r].case].status,
                       !.prior = Len(decisions[req[r].case])] \in Request
    BY <1>0, <2>1, FieldTypes, LengthTyped DEF Request
  <2> QED
    BY <1>0, <1>11, <2>2 DEF TypeOK, CallbackReadCase, rows
<1>12. ASSUME NEW r \in Requests, CallbackApply(r)
       PROVE  TypeOK'
  <2>1. req[r].case \in Cases /\ req[r].check \in CheckIds /\ req[r].outcome \in Outcomes
    BY <1>0, <1>12 DEF CallbackApply, RequestLinked, WithCase, WithCheck, OfCallback
  <2>2. /\ cases' \in [Cases -> CaseRow]
        /\ checks' \in [CheckIds -> CheckRow]
        /\ decisions' \in [Cases -> Seq(DecisionRow)]
    BY <1>0, <1>12, <2>1, ApplyTyped, FieldTypes DEF CallbackApply
  <2>3. req' \in [Requests -> Request] /\ events' \in [CheckIds \X Stamps -> EventRow]
    BY <1>0, <1>12, FinishTyped, SettleTyped DEF CallbackApply
  <2> QED
    BY <1>0, <1>12, <2>2, <2>3 DEF TypeOK, CallbackApply
<1>13. ASSUME NEW r \in Requests, CallbackRollback(r)
       PROVE  TypeOK'
  <2>1. "callback_fail" \in Steps
    BY DEF Steps
  <2>2. [req[r] EXCEPT !.at = "callback_fail"] \in Request
    BY <1>0, <2>1, FieldTypes DEF Request
  <2> QED
    BY <1>0, <1>13, <2>2 DEF TypeOK, CallbackRollback, rows
<1>14. ASSUME NEW r \in Requests, SyncPick(r) \/ SyncFetch(r)
       PROVE  TypeOK'
  <2>1. CASE SyncPick(r)
    <3>1. PICK k \in CheckIds :
            req' = [req EXCEPT ![r] = [@ EXCEPT !.at = "sync_fetch", !.check = k]]
      BY <2>1 DEF SyncPick
    <3>2. "sync_fetch" \in Steps
      BY DEF Steps
    <3>3. [req[r] EXCEPT !.at = "sync_fetch", !.check = k] \in Request
      BY <1>0, <3>2, FieldTypes DEF Request
    <3> QED
      BY <1>0, <2>1, <3>1, <3>3 DEF TypeOK, SyncPick, rows
  <2>2. CASE SyncFetch(r)
    <3>1. jobs[req[r].check] \in Outcomes /\ "sync_apply" \in Steps /\ req[r].case \in Cases
      BY <1>0, <2>2, FinalsAssumption DEF SyncFetch, Outcomes, Steps, RequestLinked, WithCase
    <3>2. [req[r] EXCEPT !.at = "sync_apply", !.outcome = jobs[req[r].check],
                         !.prior = Len(decisions[req[r].case])] \in Request
      BY <1>0, <3>1, FieldTypes, LengthTyped DEF Request
    <3> QED
      BY <1>0, <2>2, <3>2 DEF TypeOK, SyncFetch, rows
  <2> QED
    BY <1>14, <2>1, <2>2
<1>15. ASSUME NEW r \in Requests, SyncApply(r)
       PROVE  TypeOK'
  <2>1. req[r].case \in Cases /\ req[r].check \in CheckIds /\ req[r].outcome \in Outcomes
    BY <1>0, <1>15, FinalsAssumption DEF SyncApply, RequestLinked, WithCase, WithCheck, Outcomes
  <2>2. /\ cases' \in [Cases -> CaseRow]
        /\ checks' \in [CheckIds -> CheckRow]
        /\ decisions' \in [Cases -> Seq(DecisionRow)]
    BY <1>0, <1>15, <2>1, ApplyTyped, FieldTypes DEF SyncApply
  <2>3. req' \in [Requests -> Request]
    BY <1>0, <1>15, FinishTyped DEF SyncApply
  <2> QED
    BY <1>0, <1>15, <2>2, <2>3 DEF TypeOK, SyncApply
<1>16. ASSUME NEW r \in Requests, DecideCommit(r)
       PROVE  TypeOK'
  <2>1. req[r].case \in Cases
    BY <1>0, <1>16 DEF DecideCommit, RequestLinked, WithCase
  <2>2. PICK to \in AdminTargets, tier \in AdminTiers \cup {cases[req[r].case].requestedTier} :
          Decide(req[r].case, req[r].seen, req[r].prior, to, tier, "ADMIN", 0)
    BY <1>16 DEF DecideCommit
  <2>3. tier \in Nat /\ to \in KycStates
    BY <1>0, <2>1, TierAssumption, FieldTypes DEF AdminTargets, KycStates
  <2>4. cases' \in [Cases -> CaseRow] /\ decisions' \in [Cases -> Seq(DecisionRow)]
    BY <1>0, <2>1, <2>2, <2>3, DecideTyped, FieldTypes
  <2>5. req' \in [Requests -> Request]
    BY <1>0, <1>16, FinishTyped DEF DecideCommit
  <2> QED
    BY <1>0, <1>16, <2>4, <2>5 DEF TypeOK, DecideCommit
<1>17. ASSUME NEW r \in Requests, \/ SubmitRefused(r) \/ SyncNothing(r) \/ SyncUndecided(r) \/ SyncRollback(r)
                                 \/ DecideRollback(r) \/ Crash(r)
       PROVE  TypeOK'
  <2>1. req' \in [Requests -> Request]
    BY <1>0, <1>17, FinishTyped DEF SubmitRefused, SyncNothing, SyncUndecided, SyncRollback, DecideRollback, Crash
  <2> QED
    BY <1>0, <1>17, <2>1
       DEF TypeOK, SubmitRefused, SyncNothing, SyncUndecided, SyncRollback, DecideRollback, Crash, rows
<1>18. ASSUME NEW k \in CheckIds, ProviderDecides(k)
       PROVE  TypeOK'
  BY <1>0, <1>18, FinalsAssumption DEF TypeOK, ProviderDecides, Outcomes, rows
<1>19. CASE UNCHANGED vars
  BY <1>0, <1>19 DEF TypeOK, vars
<1>20. QED
  BY <1>1, <1>2, <1>3, <1>4, <1>5, <1>6, <1>7, <1>8, <1>9, <1>10, <1>11, <1>12, <1>13, <1>14,
     <1>15, <1>16, <1>17, <1>18, <1>19 DEF Next, Handler

(***************************************************************************)
(* What no step undoes                                                     *)
(***************************************************************************)

\* Rows are never deleted, a check keeps its case and its job id, the
\* provider does not take a verdict back, and the job of a check is settled
\* by the request that inserted it.
Frame ==
  /\ \A c \in Cases : cases[c].status # NoStatus => cases'[c].status # NoStatus
  /\ \A k \in CheckIds :
       /\ checks[k].status # "NONE" =>
            checks'[k].status # "NONE" /\ checks'[k].case = checks[k].case
       /\ checks[k].hasJob => checks'[k].hasJob
       /\ jobs[k] # NoOutcome => jobs'[k] # NoOutcome
       /\ jobs[k] \notin {"PENDING", NoOutcome} => jobs'[k] = jobs[k]
  /\ \A q \in Requests : req'[q] = req[q] /\ Submitting(q) =>
       LET k == req[q].check IN
       /\ ~checks[k].hasJob => ~checks'[k].hasJob
       /\ jobs[k] = NoOutcome => jobs'[k] = NoOutcome

LEMMA DecideFrame ==
  ASSUME TypeOK, NEW c \in Cases, NEW seen, NEW to \in KycStates, NEW prior, NEW tier, NEW source,
         NEW k, Decide(c, seen, prior, to, tier, source, k)
  PROVE  \A d \in Cases : cases[d].status # NoStatus => cases'[d].status # NoStatus
<1>1. Decided(cases[c], to, tier).status = to
  BY DEF TypeOK, CaseRow, Decided
<1>2. to # NoStatus
  BY DEF KycStates, NoStatus
<1> QED
  BY <1>1, <1>2 DEF TypeOK, Decide

LEMMA ApplyFrame ==
  ASSUME TypeOK, NEW c \in Cases, NEW seen, NEW prior, NEW k \in CheckIds, NEW o \in Outcomes,
         ApplyDecision(c, seen, prior, k, o)
  PROVE  /\ \A d \in Cases : cases[d].status # NoStatus => cases'[d].status # NoStatus
         /\ \A j \in CheckIds : /\ checks'[j].case = checks[j].case
                                /\ checks'[j].hasJob = checks[j].hasJob
                                /\ checks[j].status # "NONE" => checks'[j].status # "NONE"
<1>1. CheckStatusFor(o) # "NONE"
  BY DEF CheckStatusFor
<1>2. \A j \in CheckIds : /\ checks'[j].case = checks[j].case
                          /\ checks'[j].hasJob = checks[j].hasJob
                          /\ checks[j].status # "NONE" => checks'[j].status # "NONE"
  BY <1>1 DEF TypeOK, CheckRow, ApplyDecision
<1>3. \A d \in Cases : cases[d].status # NoStatus => cases'[d].status # NoStatus
  <2>1. CASE UNCHANGED cases
    BY <2>1
  <2>2. CASE ~NoMove(seen, o) /\ Decide(c, seen, prior, TargetOf(o), cases[c].requestedTier, "PROVIDER", k)
    <3>1. TargetOf(o) \in KycStates
      BY <2>2 DEF TargetOf, NoMove, KycStates
    <3> QED
      BY <2>2, <3>1, DecideFrame
  <2> QED
    BY <2>1, <2>2 DEF ApplyDecision
<1> QED
  BY <1>2, <1>3

LEMMA FrameStep == Inv /\ [Next]_vars => Frame
<1> SUFFICES ASSUME Inv, [Next]_vars PROVE Frame
  OBVIOUS
<1>0. TypeOK /\ ChecksLinked /\ (\A r \in Requests : RequestLinked(r)) /\ SubmitsDistinct
  BY DEF Inv, RequestsLinked
<1>1. CASE UNCHANGED <<cases, checks, jobs>>
  BY <1>1 DEF Frame
<1>2. ASSUME NEW c \in Cases, NEW tier \in RequestedTiers, StartCase(c, tier)
      PROVE  Frame
  BY <1>0, <1>2 DEF TypeOK, CaseRow, StartCase, Frame, NoStatus
<1>3. ASSUME NEW r \in Requests, SubmitInsert(r)
      PROVE  Frame
  <2>1. PICK k \in CheckIds :
          /\ NextCheck(k)
          /\ checks' = [checks EXCEPT ![k] = [@ EXCEPT !.status = "PENDING", !.case = req[r].case]]
    BY <1>3 DEF SubmitInsert
  <2>2. checks[k].status = "NONE"
    BY <2>1, BoundAssumption DEF NextCheck, CheckIds
  <2>3. \A j \in CheckIds : checks'[j].hasJob = checks[j].hasJob
    BY <1>0, <2>1 DEF TypeOK, CheckRow
  <2>4. \A j \in CheckIds \ {k} : checks'[j] = checks[j]
    BY <1>0, <2>1 DEF TypeOK
  <2>5. \A q \in Requests : Submitting(q) => req[q].check \in CheckIds
    BY <1>0 DEF RequestLinked, WithCheck, Submitting
  <2> QED
    BY <1>3, <2>2, <2>3, <2>4, <2>5 DEF SubmitInsert, Frame
<1>4. ASSUME NEW r \in Requests, SubmitAccepted(r) \/ SubmitFails(r)
      PROVE  Frame
  <2>1. /\ req[r].check \in CheckIds
        /\ jobs[req[r].check] = NoOutcome
        /\ Submitting(r)
        /\ UNCHANGED cases
    BY <1>0, <1>4 DEF SubmitAccepted, SubmitFails, RequestLinked, WithCheck, Submitting, rows
  <2>2. req'[r] # req[r]
    BY <1>0, <1>4 DEF TypeOK, Request, SubmitAccepted, SubmitFails, Finish, Idle
  <2>3. \A q \in Requests : req'[q] = req[q] /\ Submitting(q) => req[q].check # req[r].check
    BY <1>0, <2>1, <2>2 DEF SubmitsDistinct
  <2>4. \A j \in CheckIds \ {req[r].check} : jobs'[j] = jobs[j]
    BY <1>0, <1>4, <2>1 DEF TypeOK, SubmitAccepted, SubmitFails
  <2>7. \/ UNCHANGED checks
        \/ checks' = [checks EXCEPT ![req[r].check] = [@ EXCEPT !.status = "FAILED"]]
    BY <1>4 DEF SubmitAccepted, SubmitFails, rows
  <2>8. ASSUME NEW j \in CheckIds
        PROVE  /\ checks'[j].hasJob = checks[j].hasJob
               /\ checks'[j].case = checks[j].case
               /\ checks[j].status # "NONE" => checks'[j].status # "NONE"
    <3>1. checks[j] \in CheckRow /\ checks \in [CheckIds -> CheckRow]
      BY <1>0 DEF TypeOK
    <3>2. CASE j # req[r].check
      BY <2>1, <2>7, <3>1, <3>2
    <3>3. CASE j = req[r].check
      BY <2>1, <2>7, <3>1, <3>3 DEF CheckRow
    <3> QED
      BY <3>2, <3>3
  <2>5. \A q \in Requests : Submitting(q) => req[q].check \in CheckIds
    BY <1>0 DEF RequestLinked, WithCheck, Submitting
  <2>6. jobs'[req[r].check] \in {jobs[req[r].check], "PENDING"} /\ "PENDING" # NoOutcome
    BY <1>0, <1>4, <2>1 DEF TypeOK, SubmitAccepted, SubmitFails, NoOutcome
  <2> QED
    BY <2>1, <2>3, <2>4, <2>5, <2>6, <2>8 DEF Frame
<1>5. ASSUME NEW r \in Requests, SubmitCommit(r)
      PROVE  Frame
  <2>1. req[r].check \in CheckIds /\ req[r].case \in Cases /\ Submitting(r) /\ UNCHANGED jobs
    BY <1>0, <1>5 DEF SubmitCommit, RequestLinked, WithCheck, WithCase, Submitting
  <2>2. req'[r] # req[r]
    BY <1>0, <1>5 DEF TypeOK, Request, SubmitCommit, Finish, Idle
  <2>3. \A q \in Requests : req'[q] = req[q] /\ Submitting(q) => req[q].check # req[r].check
    BY <1>0, <2>1, <2>2 DEF SubmitsDistinct
  <2>4. /\ \A j \in CheckIds \ {req[r].check} : checks'[j] = checks[j]
        /\ \A j \in CheckIds : /\ checks[j].hasJob => checks'[j].hasJob
                               /\ checks'[j].case = checks[j].case
                               /\ checks'[j].status = checks[j].status
    BY <1>0, <1>5, <2>1 DEF TypeOK, CheckRow, SubmitCommit
  <2>5. \A c \in Cases : cases[c].status # NoStatus => cases'[c].status # NoStatus
    BY <1>0, <1>5, <2>1 DEF TypeOK, CaseRow, SubmitCommit, NoStatus
  <2>6. \A q \in Requests : Submitting(q) => req[q].check \in CheckIds
    BY <1>0 DEF RequestLinked, WithCheck, Submitting
  <2> QED
    BY <2>1, <2>3, <2>4, <2>5, <2>6 DEF Frame
<1>6. ASSUME NEW r \in Requests, CallbackApply(r) \/ SyncApply(r)
      PROVE  Frame
  <2>1. req[r].case \in Cases /\ req[r].check \in CheckIds /\ req[r].outcome \in Outcomes
    BY <1>0, <1>6, FinalsAssumption
       DEF CallbackApply, SyncApply, RequestLinked, WithCase, WithCheck, OfCallback, Outcomes
  <2>2. ApplyDecision(req[r].case, req[r].seen, req[r].prior, req[r].check, req[r].outcome) /\ UNCHANGED jobs
    BY <1>6 DEF CallbackApply, SyncApply
  <2>3. \A q \in Requests : Submitting(q) => req[q].check \in CheckIds
    BY <1>0 DEF RequestLinked, WithCheck, Submitting
  <2> QED
    BY <1>0, <2>1, <2>2, <2>3, ApplyFrame DEF Frame
<1>7. ASSUME NEW r \in Requests, DecideCommit(r)
      PROVE  Frame
  <2>1. PICK to \in AdminTargets, tier \in AdminTiers \cup {cases[req[r].case].requestedTier} :
          Decide(req[r].case, req[r].seen, req[r].prior, to, tier, "ADMIN", 0)
    BY <1>7 DEF DecideCommit
  <2>2. req[r].case \in Cases /\ to \in KycStates
    BY <1>0, <1>7 DEF DecideCommit, RequestLinked, WithCase, AdminTargets, KycStates
  <2> QED
    BY <1>0, <1>7, <2>1, <2>2, DecideFrame DEF DecideCommit, Frame
<1>8. ASSUME NEW k \in CheckIds, ProviderDecides(k)
      PROVE  Frame
  <2>1. \A j \in CheckIds : jobs'[j] = jobs[j] \/ (jobs[j] = "PENDING" /\ jobs'[j] \in Finals)
    BY <1>0, <1>8 DEF TypeOK, ProviderDecides
  <2>2. "PENDING" \notin Finals /\ NoOutcome \notin Finals /\ "PENDING" # NoOutcome
    BY FinalsAssumption DEF NoOutcome
  <2>3. \A q \in Requests : Submitting(q) => req[q].check \in CheckIds
    BY <1>0 DEF RequestLinked, WithCheck, Submitting
  <2> QED
    BY <1>8, <2>1, <2>2, <2>3 DEF ProviderDecides, Frame, rows
<1>9. ASSUME NEW r \in Requests,
             \/ \E c \in Cases : SubmitRead(r, c) \/ SyncRead(r, c)
             \/ \E k \in CheckIds, t \in Stamps : CallbackReceive(r, k, t)
             \/ \E a \in Reviewers, c \in Cases : DecideRead(r, a, c)
             \/ SubmitRefused(r) \/ CallbackUnknownJob(r) \/ CallbackDuplicate(r)
             \/ CallbackCheckPending(r) \/ CallbackReadCase(r) \/ CallbackRollback(r)
             \/ CallbackMarkFailed(r) \/ SyncPick(r) \/ SyncNothing(r) \/ SyncFetch(r)
             \/ SyncUndecided(r) \/ SyncRollback(r)
             \/ DecideRollback(r) \/ Crash(r)
      PROVE  UNCHANGED <<cases, checks, jobs>>
  BY <1>9 DEF SubmitRead, SyncRead, CallbackReceive, DecideRead, SubmitRefused, CallbackUnknownJob,
              CallbackDuplicate, CallbackCheckPending, CallbackReadCase, CallbackRollback,
              CallbackMarkFailed, SyncPick, SyncNothing, SyncFetch, SyncUndecided, SyncRollback, DecideRollback, Crash, rows
<1> QED
  BY <1>1, <1>2, <1>3, <1>4, <1>5, <1>6, <1>7, <1>8, <1>9 DEF Next, Handler, vars

(***************************************************************************)
(* The links between rows and requests are kept                            *)
(***************************************************************************)

\* A check appears for a case that exists, gets its job id from the request
\* that called the provider, and a job only for a stored check.
Growth ==
  \A k \in CheckIds :
    /\ checks'[k].status # "NONE" =>
         \/ checks[k].status # "NONE"
         \/ checks'[k].case \in Cases /\ cases[checks'[k].case].status # NoStatus
    /\ checks'[k].hasJob => \/ checks[k].hasJob
                            \/ checks[k].status # "NONE" /\ jobs[k] # NoOutcome
    /\ jobs'[k] # NoOutcome => jobs[k] # NoOutcome \/ checks[k].status # "NONE"

LEMMA GrowthStep == Inv /\ [Next]_vars => Growth
<1> SUFFICES ASSUME Inv, [Next]_vars PROVE Growth
  OBVIOUS
<1>0. TypeOK /\ ChecksLinked /\ (\A r \in Requests : RequestLinked(r))
  BY DEF Inv, RequestsLinked
<1>1. CASE UNCHANGED <<checks, jobs>>
  BY <1>1 DEF Growth
<1>2. ASSUME NEW r \in Requests, SubmitInsert(r)
      PROVE  Growth
  <2>1. PICK k \in CheckIds :
          checks' = [checks EXCEPT ![k] = [@ EXCEPT !.status = "PENDING", !.case = req[r].case]]
    BY <1>2 DEF SubmitInsert
  <2>2. req[r].case \in Cases /\ cases[req[r].case].status # NoStatus
    BY <1>0, <1>2 DEF SubmitInsert, RequestLinked, WithCase
  <2>3. checks'[k].case = req[r].case
    BY <1>0, <2>1 DEF TypeOK, CheckRow
  <2>4. \A j \in CheckIds : checks'[j].hasJob = checks[j].hasJob
    BY <1>0, <2>1 DEF TypeOK, CheckRow
  <2>5. \A j \in CheckIds \ {k} : checks'[j] = checks[j]
    BY <1>0, <2>1 DEF TypeOK
  <2> QED
    BY <1>2, <2>2, <2>3, <2>4, <2>5 DEF SubmitInsert, Growth
<1>3. ASSUME NEW r \in Requests, SubmitAccepted(r) \/ SubmitFails(r) \/ SubmitCommit(r)
      PROVE  Growth
  <2> DEFINE k == req[r].check
  <2>1. k \in CheckIds /\ checks[k].status # "NONE"
    BY <1>0, <1>3 DEF SubmitAccepted, SubmitFails, SubmitCommit, RequestLinked, WithCheck
  <2>2. \A j \in CheckIds \ {k} : checks'[j] = checks[j] /\ jobs'[j] = jobs[j]
    BY <1>0, <1>3, <2>1 DEF TypeOK, SubmitAccepted, SubmitFails, SubmitCommit, rows
  <2>3. CASE SubmitCommit(r)
    BY <1>0, <2>1, <2>2, <2>3 DEF SubmitCommit, RequestLinked, Growth
  <2>4. CASE SubmitAccepted(r)
    BY <2>1, <2>2, <2>4 DEF SubmitAccepted, Growth, rows
  <2>5. CASE SubmitFails(r)
    <3>1. checks'[k].hasJob = checks[k].hasJob
      BY <1>0, <2>1, <2>5 DEF TypeOK, CheckRow, SubmitFails
    <3> QED
      BY <2>1, <2>2, <3>1 DEF Growth
  <2> QED
    BY <1>3, <2>3, <2>4, <2>5
<1>4. ASSUME NEW r \in Requests, CallbackApply(r) \/ SyncApply(r)
      PROVE  Growth
  <2>1. req[r].check \in CheckIds /\ checks[req[r].check].status # "NONE"
    BY <1>0, <1>4 DEF CallbackApply, SyncApply, RequestLinked, WithCheck
  <2> DEFINE row == [checks[req[r].check] EXCEPT !.status = CheckStatusFor(req[r].outcome),
                                                 !.outcome = req[r].outcome]
  <2>4. row.hasJob = checks[req[r].check].hasJob
    BY <1>0, <2>1 DEF TypeOK, CheckRow
  <2>5. checks' = [checks EXCEPT ![req[r].check] = row]
    BY <1>4 DEF CallbackApply, SyncApply, ApplyDecision
  <2> HIDE DEF row
  <2>2. \A j \in CheckIds : /\ checks'[j].hasJob = checks[j].hasJob
                            /\ j # req[r].check => checks'[j] = checks[j]
    BY <1>0, <2>1, <2>4, <2>5 DEF TypeOK
  <2>3. UNCHANGED jobs
    BY <1>4 DEF CallbackApply, SyncApply
  <2> QED
    BY <2>1, <2>2, <2>3 DEF Growth
<1>5. ASSUME NEW k \in CheckIds, ProviderDecides(k)
      PROVE  Growth
  <2>1. \A j \in CheckIds : jobs'[j] = jobs[j] \/ jobs[j] = "PENDING"
    BY <1>0, <1>5 DEF TypeOK, ProviderDecides
  <2> QED
    BY <1>5, <2>1 DEF ProviderDecides, Growth, rows, NoOutcome
<1>6. ASSUME NEW r \in Requests,
             \/ \E c \in Cases : SubmitRead(r, c) \/ SyncRead(r, c)
             \/ \E k \in CheckIds, t \in Stamps : CallbackReceive(r, k, t)
             \/ \E a \in Reviewers, c \in Cases : DecideRead(r, a, c)
             \/ SubmitRefused(r) \/ CallbackUnknownJob(r) \/ CallbackDuplicate(r)
             \/ CallbackCheckPending(r) \/ CallbackReadCase(r) \/ CallbackRollback(r)
             \/ CallbackMarkFailed(r) \/ SyncPick(r) \/ SyncNothing(r) \/ SyncFetch(r)
             \/ SyncUndecided(r) \/ SyncRollback(r)
             \/ DecideCommit(r) \/ DecideRollback(r) \/ Crash(r)
      PROVE  UNCHANGED <<checks, jobs>>
  BY <1>6 DEF SubmitRead, SyncRead, CallbackReceive, DecideRead, SubmitRefused, CallbackUnknownJob,
              CallbackDuplicate, CallbackCheckPending, CallbackReadCase, CallbackRollback,
              CallbackMarkFailed, SyncPick, SyncNothing, SyncFetch, SyncUndecided, SyncRollback, DecideCommit,
              DecideRollback, Crash, rows
<1>7. ASSUME NEW c \in Cases, NEW tier \in RequestedTiers, StartCase(c, tier)
      PROVE  UNCHANGED <<checks, jobs>>
  BY <1>7 DEF StartCase
<1> QED
  BY <1>1, <1>2, <1>3, <1>4, <1>5, <1>6, <1>7 DEF Next, Handler, vars

LEMMA ChecksStep == Inv /\ Frame /\ Growth => ChecksLinked'
<1> SUFFICES ASSUME Inv, Frame, Growth, NEW k \in CheckIds
             PROVE  (/\ checks[k].status # "NONE" =>
                          checks[k].case \in Cases /\ cases[checks[k].case].status # NoStatus
                     /\ checks[k].hasJob => checks[k].status # "NONE" /\ jobs[k] # NoOutcome
                     /\ jobs[k] # NoOutcome => checks[k].status # "NONE")'
  BY DEF ChecksLinked
<1>1. checks[k].status # "NONE" =>
         checks[k].case \in Cases /\ cases[checks[k].case].status # NoStatus
  BY DEF Inv, ChecksLinked
<1>2. /\ checks[k].hasJob => checks[k].status # "NONE" /\ jobs[k] # NoOutcome
      /\ jobs[k] # NoOutcome => checks[k].status # "NONE"
  BY DEF Inv, ChecksLinked
<1> QED
  BY <1>1, <1>2 DEF Frame, Growth

\* A slot that does not move stays linked.
LEMMA OthersLinked ==
  ASSUME Inv, Frame, NEW q \in Requests, req'[q] = req[q]
  PROVE  RequestLinked(q)'
<1> DEFINE k == req[q].check
<1>0. TypeOK /\ RequestLinked(q)
  BY DEF Inv, RequestsLinked
<1>1. req[q].at \in WithCase =>
        req[q].case \in Cases /\ cases'[req[q].case].status # NoStatus
  BY <1>0 DEF RequestLinked, Frame
<1>2. req[q].at \in WithCheck => k \in CheckIds /\ checks'[k].status # "NONE"
  BY <1>0 DEF RequestLinked, Frame
<1>3. req[q].at \in OfCallback => req[q].outcome \in {"PENDING", jobs'[k]}
  <2>1. req[q].at \in OfCallback => k \in CheckIds /\ NoOutcome \notin Outcomes
    BY <1>0 DEF RequestLinked, OfCallback, WithCheck, NoOutcome, Outcomes
  <2> QED
    BY <1>0, <2>1 DEF RequestLinked, Frame
<1>4. req[q].at = "sync_apply" => req[q].outcome = jobs'[k]
  <2>1. NoOutcome \notin Finals /\ "PENDING" \notin Finals
    BY FinalsAssumption DEF NoOutcome
  <2>2. req[q].at = "sync_apply" => k \in CheckIds
    BY <1>0 DEF RequestLinked, WithCheck
  <2> QED
    BY <1>0, <2>1, <2>2 DEF RequestLinked, Frame
<1>5. req[q].at \in Judging => checks'[k].hasJob /\ checks'[k].case = req[q].case
  <2>1. req[q].at \in Judging => k \in CheckIds /\ checks[k].status # "NONE"
    BY <1>0 DEF RequestLinked, WithCheck, Judging
  <2> QED
    BY <1>0, <2>1 DEF RequestLinked, Frame
<1>6. Submitting(q) => k \in CheckIds /\ checks[k].status # "NONE"
  BY <1>0 DEF RequestLinked, WithCheck, Submitting
<1>7. Submitting(q) => ~checks'[k].hasJob /\ checks'[k].case = req[q].case
  BY <1>0, <1>6 DEF RequestLinked, Frame
<1>8. /\ req[q].at = "submit_call" => jobs'[k] = NoOutcome
      /\ req[q].at = "submit_commit" => jobs'[k] # NoOutcome
  BY <1>0, <1>6 DEF RequestLinked, Frame, Submitting
<1> QED
  BY <1>0, <1>1, <1>2, <1>3, <1>4, <1>5, <1>7, <1>8 DEF RequestLinked, Submitting

\* What a step of request r does to the slots.
Moved(r) ==
  /\ \A q \in Requests \ {r} : req'[q] = req[q]
  /\ RequestLinked(r)'
  /\ Submitting(r)' => \/ Submitting(r) /\ req'[r].check = req[r].check
                       \/ checks[req'[r].check].status = "NONE"

LEMMA MovedKeeps ==
  ASSUME Inv, Frame, NEW r \in Requests, Moved(r)
  PROVE  RequestsLinked' /\ SubmitsDistinct'
<1>1. RequestsLinked'
  BY OthersLinked DEF Moved, RequestsLinked
<1>2. \A q \in Requests : Submitting(q) => checks[req[q].check].status # "NONE"
  BY DEF Inv, RequestsLinked, RequestLinked, Submitting, WithCheck
<1>3. ASSUME NEW q \in Requests \ {r}, Submitting(q)', Submitting(r)'
      PROVE  req'[q].check # req'[r].check
  <2>1. req'[q] = req[q] /\ Submitting(q)
    BY <1>3 DEF Moved, Submitting
  <2> QED
    BY <1>2, <1>3, <2>1 DEF Moved, Inv, SubmitsDistinct
<1>4. ASSUME NEW p \in Requests \ {r}, NEW q \in Requests \ {r}, p # q,
             Submitting(p)', Submitting(q)'
      PROVE  req'[p].check # req'[q].check
  <2>1. req'[p] = req[p] /\ req'[q] = req[q] /\ Submitting(p) /\ Submitting(q)
    BY <1>4 DEF Moved, Submitting
  <2> QED
    BY <1>4, <2>1 DEF Inv, SubmitsDistinct
<1>5. SubmitsDistinct'
  BY <1>3, <1>4 DEF SubmitsDistinct
<1> QED
  BY <1>1, <1>5

\* A free slot is linked to nothing.
LEMMA FinishMoves ==
  ASSUME TypeOK, NEW r \in Requests, Finish(r)
  PROVE  Moved(r)
<1>1. req'[r] = Idle /\ \A q \in Requests \ {r} : req'[q] = req[q]
  BY DEF TypeOK, Finish
<1>2. ~Submitting(r)'
  BY <1>1 DEF Submitting, Idle
<1>3. RequestLinked(r)'
  BY <1>1 DEF RequestLinked, Idle, WithCase, WithCheck, OfCallback, Judging, Submitting
<1> QED
  BY <1>1, <1>2, <1>3 DEF Moved

\* A slot that takes up its next step is linked to what it has just read.
LEMMA HandlerMoves ==
  ASSUME Inv, NEW r \in Requests,
         \/ \E c \in Cases : SubmitRead(r, c) \/ SyncRead(r, c)
         \/ \E k \in CheckIds, t \in Stamps : CallbackReceive(r, k, t)
         \/ \E a \in Reviewers, c \in Cases : DecideRead(r, a, c)
         \/ SubmitInsert(r) \/ SubmitAccepted(r) \/ CallbackCheckPending(r)
         \/ CallbackReadCase(r) \/ CallbackRollback(r) \/ SyncPick(r) \/ SyncFetch(r)
  PROVE  Moved(r)
<1> USE DEF WithCase, WithCheck, OfCallback, Judging, Submitting
<1>0. TypeOK /\ RequestLinked(r) /\ req[r] \in Request /\ NoOutcome \notin Outcomes
  BY DEF Inv, RequestsLinked, TypeOK, NoOutcome, Outcomes
<1>1. ASSUME NEW c \in Cases, SubmitRead(r, c) \/ SyncRead(r, c)
      PROVE  Moved(r)
  <2>1. PICK s \in {"submit_insert", "sync_check"} :
          req' = [req EXCEPT ![r] = [@ EXCEPT !.at = s, !.case = c, !.seen = cases[c].status]]
    BY <1>1 DEF SubmitRead, SyncRead
  <2>2. cases[c].status # NoStatus /\ UNCHANGED <<cases, checks, jobs>>
    BY <1>1 DEF SubmitRead, SyncRead, Submittable, Open, OpenStatuses, NoStatus, rows
  <2>3. req'[r].at = s /\ req'[r].case = c /\ \A q \in Requests \ {r} : req'[q] = req[q]
    BY <1>0, <2>1 DEF TypeOK, Request
  <2> QED
    BY <2>2, <2>3 DEF Moved, RequestLinked
<1>2. ASSUME NEW a \in Reviewers, NEW c \in Cases, DecideRead(r, a, c)
      PROVE  Moved(r)
  <2>2. cases[c].status # NoStatus /\ UNCHANGED <<cases, checks, jobs>>
    BY <1>2 DEF DecideRead, Decidable, NoStatus, rows
  <2>3. req'[r].at = "decide_commit" /\ req'[r].case = c /\ \A q \in Requests \ {r} : req'[q] = req[q]
    BY <1>0, <1>2 DEF DecideRead, TypeOK, Request
  <2> QED
    BY <2>2, <2>3 DEF Moved, RequestLinked
<1>3. ASSUME NEW k \in CheckIds, NEW t \in Stamps, CallbackReceive(r, k, t)
      PROVE  Moved(r)
  <2>1. PICK o \in {"PENDING", jobs[k]} :
          req' = [req EXCEPT ![r] = [@ EXCEPT !.at = "callback_check", !.check = k,
                                             !.stamp = t, !.outcome = o]]
    BY <1>3 DEF CallbackReceive
  <2>2. checks[k].status # "NONE" /\ UNCHANGED <<cases, checks, jobs>> /\ o \in Outcomes
    BY <1>0, <1>3 DEF CallbackReceive, Inv, ChecksLinked, TypeOK, Outcomes
  <2>3. /\ req'[r].at = "callback_check" /\ req'[r].check = k
        /\ req'[r].stamp = t /\ req'[r].outcome = o
        /\ \A q \in Requests \ {r} : req'[q] = req[q]
    BY <1>0, <2>1 DEF TypeOK, Request
  <2> QED
    BY <2>2, <2>3 DEF Moved, RequestLinked
<1>4. ASSUME SubmitInsert(r)
      PROVE  Moved(r)
  <2>1. PICK k \in CheckIds :
          /\ NextCheck(k)
          /\ checks' = [checks EXCEPT ![k] = [@ EXCEPT !.status = "PENDING", !.case = req[r].case]]
          /\ req' = [req EXCEPT ![r] = [@ EXCEPT !.at = "submit_call", !.check = k]]
    BY <1>4 DEF SubmitInsert
  <2>2. checks[k].status = "NONE"
    BY <2>1, BoundAssumption DEF NextCheck, CheckIds
  <2>3. jobs[k] = NoOutcome /\ ~checks[k].hasJob
    BY <1>0, <2>2 DEF Inv, ChecksLinked, TypeOK, CheckRow
  <2>4. /\ req'[r].at = "submit_call" /\ req'[r].check = k /\ req'[r].case = req[r].case
        /\ \A q \in Requests \ {r} : req'[q] = req[q]
    BY <1>0, <2>1 DEF TypeOK, Request
  <2>5. checks'[k].status = "PENDING" /\ checks'[k].case = req[r].case
    BY <1>0, <2>1 DEF TypeOK, CheckRow
  <2>6. checks'[k].hasJob = checks[k].hasJob
    BY <1>0, <2>1 DEF TypeOK, CheckRow
  <2>7. req[r].case \in Cases /\ cases[req[r].case].status # NoStatus
    BY <1>0, <1>4 DEF SubmitInsert, RequestLinked
  <2>8. UNCHANGED <<cases, jobs>>
    BY <1>4 DEF SubmitInsert
  <2> QED
    BY <2>2, <2>3, <2>4, <2>5, <2>6, <2>7, <2>8 DEF Moved, RequestLinked
<1>5. ASSUME SubmitAccepted(r)
      PROVE  Moved(r)
  <2>1. /\ req'[r].at = "submit_commit" /\ req'[r].check = req[r].check /\ req'[r].case = req[r].case
        /\ \A q \in Requests \ {r} : req'[q] = req[q]
    BY <1>0, <1>5 DEF SubmitAccepted, TypeOK, Request
  <2>2. req[r].check \in CheckIds /\ UNCHANGED <<cases, checks>> /\ req[r].at = "submit_call"
    BY <1>0, <1>5 DEF SubmitAccepted, RequestLinked, rows
  <2>3. jobs'[req[r].check] # NoOutcome
    BY <1>0, <1>5, <2>2 DEF SubmitAccepted, TypeOK, NoOutcome
  <2> QED
    BY <1>0, <2>1, <2>2, <2>3 DEF Moved, RequestLinked
<1>6. ASSUME CallbackCheckPending(r)
      PROVE  Moved(r)
  <2>1. /\ req[r].at = "callback_check" /\ UNCHANGED <<cases, checks, jobs>>
        /\ checks[req[r].check].hasJob
    BY <1>6 DEF CallbackCheckPending, rows
  <2>2. /\ req'[r].at = "callback_case" /\ req'[r].check = req[r].check
        /\ req'[r].case = checks[req[r].check].case
        /\ req'[r].stamp = req[r].stamp /\ req'[r].outcome = req[r].outcome
        /\ \A q \in Requests \ {r} : req'[q] = req[q]
    BY <1>0, <1>6 DEF CallbackCheckPending, TypeOK, Request
  <2>3. checks[req[r].check].case \in Cases /\ cases[checks[req[r].check].case].status # NoStatus
    BY <1>0, <2>1 DEF RequestLinked, Inv, ChecksLinked
  <2> QED
    BY <1>0, <2>1, <2>2, <2>3 DEF Moved, RequestLinked
<1>7. ASSUME CallbackReadCase(r) \/ CallbackRollback(r)
      PROVE  Moved(r)
  <2>1. PICK s \in {"callback_apply", "callback_fail"}, v \in KycStates \cup {NoStatus},
               n \in Nat :
          /\ req' = [req EXCEPT ![r] = [@ EXCEPT !.at = s, !.seen = v, !.prior = n]]
          /\ s = "callback_apply" => req[r].at = "callback_case"
    <3>1. CASE CallbackReadCase(r)
      <4>1. /\ cases[req[r].case].status \in KycStates \cup {NoStatus}
            /\ Len(decisions[req[r].case]) \in Nat
        BY <1>0, <3>1, FieldTypes, LengthTyped DEF CallbackReadCase, RequestLinked, WithCase
      <4> QED
        BY <3>1, <4>1 DEF CallbackReadCase
    <3>2. CASE CallbackRollback(r)
      <4>1. [req[r] EXCEPT !.at = "callback_fail"]
              = [req[r] EXCEPT !.at = "callback_fail", !.seen = req[r].seen,
                               !.prior = req[r].prior]
        BY <1>0 DEF Request
      <4> QED
        BY <1>0, <3>2, <4>1, FieldTypes DEF CallbackRollback
    <3> QED
      BY <1>7, <3>1, <3>2
  <2>2. /\ UNCHANGED <<cases, checks, jobs>>
        /\ req[r].at \in {"callback_case", "callback_apply"}
    BY <1>7 DEF CallbackReadCase, CallbackRollback, rows
  <2>3. /\ req'[r].at = s /\ req'[r].check = req[r].check /\ req'[r].case = req[r].case
        /\ req'[r].stamp = req[r].stamp /\ req'[r].outcome = req[r].outcome
        /\ \A q \in Requests \ {r} : req'[q] = req[q]
    BY <1>0, <2>1 DEF TypeOK, Request
  <2> QED
    BY <1>0, <2>1, <2>2, <2>3 DEF Moved, RequestLinked
<1>8. ASSUME SyncPick(r)
      PROVE  Moved(r)
  <2>1. PICK k \in CheckIds :
          /\ Refreshable(req[r].case, k)
          /\ req' = [req EXCEPT ![r] = [@ EXCEPT !.at = "sync_fetch", !.check = k]]
    BY <1>8 DEF SyncPick
  <2>2. checks[k].case = req[r].case /\ checks[k].status = "PENDING" /\ checks[k].hasJob
    BY <2>1 DEF Refreshable, NewestPending, PendingChecks
  <2>3. /\ req'[r].at = "sync_fetch" /\ req'[r].check = k /\ req'[r].case = req[r].case
        /\ \A q \in Requests \ {r} : req'[q] = req[q]
    BY <1>0, <2>1 DEF TypeOK, Request
  <2>4. req[r].case \in Cases /\ cases[req[r].case].status # NoStatus /\ UNCHANGED <<cases, checks, jobs>>
    BY <1>0, <1>8 DEF SyncPick, RequestLinked, rows
  <2> QED
    BY <2>2, <2>3, <2>4 DEF Moved, RequestLinked
<1>9. ASSUME SyncFetch(r)
      PROVE  Moved(r)
  <2>1. /\ req[r].at = "sync_fetch" /\ jobs[req[r].check] \in Finals
        /\ UNCHANGED <<cases, checks, jobs>>
    BY <1>9 DEF SyncFetch, rows
  <2>2. /\ req'[r].at = "sync_apply" /\ req'[r].check = req[r].check
        /\ req'[r].case = req[r].case /\ req'[r].outcome = jobs[req[r].check]
        /\ \A q \in Requests \ {r} : req'[q] = req[q]
    BY <1>0, <1>9 DEF SyncFetch, TypeOK, Request
  <2> QED
    BY <1>0, <2>1, <2>2 DEF Moved, RequestLinked
<1> QED
  BY <1>1, <1>2, <1>3, <1>4, <1>5, <1>6, <1>7, <1>8, <1>9

LEMMA InvStep == Inv /\ [Next]_vars => Inv'
<1> SUFFICES ASSUME Inv, [Next]_vars PROVE Inv'
  OBVIOUS
<1>1. TypeOK' /\ Frame /\ ChecksLinked'
  BY TypeStep, FrameStep, GrowthStep, ChecksStep
<1>2. ASSUME NEW r \in Requests,
             \/ SubmitFails(r) \/ SubmitCommit(r) \/ SubmitRefused(r) \/ CallbackUnknownJob(r)
             \/ CallbackDuplicate(r) \/ CallbackApply(r) \/ CallbackMarkFailed(r) \/ SyncNothing(r)
             \/ SyncUndecided(r) \/ SyncApply(r) \/ SyncRollback(r) \/ DecideCommit(r) \/ DecideRollback(r) \/ Crash(r)
      PROVE  Moved(r)
  <2>1. Finish(r)
    BY <1>2 DEF SubmitFails, SubmitCommit, SubmitRefused, CallbackUnknownJob, CallbackDuplicate,
                CallbackApply, CallbackMarkFailed, SyncNothing, SyncUndecided, SyncApply, SyncRollback,
                DecideCommit, DecideRollback, Crash
  <2> QED
    BY <2>1, FinishMoves DEF Inv
<1>3. CASE UNCHANGED req
  <2>1. RequestsLinked'
    BY <1>1, <1>3, OthersLinked DEF RequestsLinked
  <2>2. SubmitsDistinct'
    BY <1>3 DEF Inv, SubmitsDistinct, Submitting
  <2> QED
    BY <1>1, <2>1, <2>2 DEF Inv
<1>4. ASSUME NEW r \in Requests, Moved(r)
      PROVE  Inv'
  BY <1>1, <1>4, MovedKeeps DEF Inv
<1>5. CASE \E c \in Cases, tier \in RequestedTiers : StartCase(c, tier)
  BY <1>3, <1>5 DEF StartCase
<1>6. CASE \E k \in CheckIds : ProviderDecides(k)
  BY <1>3, <1>6 DEF ProviderDecides
<1> QED
  BY <1>2, <1>3, <1>4, <1>5, <1>6, HandlerMoves DEF Next, Handler, vars

LEMMA InvInit == Init => Inv
<1> SUFFICES ASSUME Init PROVE Inv
  OBVIOUS
<1>1. TypeOK
  <2>1. Idle \in Request
    BY DEF Idle, Request, Steps, NoStatus, NoOutcome
  <2>2. cases \in [Cases -> CaseRow] /\ checks \in [CheckIds -> CheckRow]
    BY DEF Init, CaseRow, CheckRow
  <2>3. decisions \in [Cases -> Seq(DecisionRow)]
    BY DEF Init
  <2>4. events \in [CheckIds \X Stamps -> EventRow]
    BY DEF Init, EventRow
  <2> QED
    BY <2>1, <2>2, <2>3, <2>4 DEF Init, TypeOK
<1>2. ChecksLinked
  BY DEF Init, ChecksLinked
<1>3. RequestsLinked /\ SubmitsDistinct
  BY DEF Init, RequestsLinked, RequestLinked, SubmitsDistinct, Submitting, Idle, WithCase, WithCheck,
         OfCallback, Judging
<1> QED
  BY <1>1, <1>2, <1>3 DEF Inv

\* Rows and requests refer to rows that exist, in every reachable state: the
\* foreign keys hold, so the branch of handleProviderCallback for a check
\* without its case is never taken.
THEOREM Linked == Spec => []Inv
<1> QED
  BY InvInit, InvStep, PTL DEF Spec

\* Every row of every table and every request in flight keeps its type: in
\* particular a status column only ever holds a status of its enum.
THEOREM TypeCorrect == Spec => []TypeOK
<1>1. Inv => TypeOK
  BY DEF Inv
<1> QED
  BY <1>1, Linked, PTL

=============================================================================
