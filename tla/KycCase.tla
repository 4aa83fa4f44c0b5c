------------------------------ MODULE KycCase ------------------------------
(***************************************************************************)
(* The KYC case workflow of apps/api/src/modules/kyc/kyc.service.ts: the   *)
(* rows of kyc_cases, kyc_checks, kyc_decisions and webhook_events, the    *)
(* provider's jobs, and the API requests in flight.                        *)
(*                                                                         *)
(* A handler is split where it awaits: a request slot remembers what the   *)
(* handler has read so far (its snapshot of the case status above all) and *)
(* any other request may run before its next database statement.  A        *)
(* database transaction is one step; it commits whole or not at all.       *)
(* Writes address a row by its id only, as the code's do.                  *)
(***************************************************************************)
EXTENDS Naturals, Sequences, FiniteSets, KycMachine

CONSTANTS
  Users,          \* people with an account
  Cases,          \* ids of kyc_cases rows
  Owner,          \* the user each case id belongs to (user_id is never updated)
  Reviewers,      \* holders of kyc.review; some may be users with a case
  MaxChecks,      \* bound: kyc_checks rows ever inserted
  Stamps,         \* values of a callback's Response-Timestamp header
  MaxEvents,      \* bound: webhook_events rows ever inserted
  Requests,       \* slots for API requests in flight at once
  RequestedTiers, \* tiers of the kyc.tiers policy a user may ask for
  AdminTiers,     \* tiers an officer may grant explicitly
  Finals,         \* final outcomes the provider may reach
  Faults,         \* TRUE when requests may die half way and the database may fail
  NoCase, NoStamp

ASSUME OwnerAssumption == Owner \in [Cases -> Users] /\ NoCase \notin Cases /\ NoStamp \notin Stamps
ASSUME BoundAssumption == MaxChecks \in Nat /\ MaxEvents \in Nat
ASSUME TierAssumption == RequestedTiers \subseteq Nat /\ AdminTiers \subseteq Nat
ASSUME FinalsAssumption == Finals \subseteq {"APPROVED", "REJECTED", "NEEDS_REVIEW", "ERROR"}
ASSUME FaultsAssumption == Faults \in BOOLEAN

VARIABLES
  cases,      \* kyc_cases
  checks,     \* kyc_checks; ids in the order of created_at
  decisions,  \* kyc_decisions of each case, in the order they committed
  events,     \* webhook_events, by job and Response-Timestamp
  jobs,       \* the provider's view of the job of each check (external)
  req         \* what each request in flight has read

vars == <<cases, checks, decisions, events, jobs, req>>
rows == <<cases, checks, decisions, events>>

CheckIds == 1..MaxChecks
Outcomes == {"APPROVED", "REJECTED", "NEEDS_REVIEW", "ERROR", "PENDING"}
NoOutcome == "NONE"

(***************************************************************************)
(* Rows                                                                    *)
(***************************************************************************)
CaseRow == [status : KycStates \cup {NoStatus}, requestedTier : Nat,
            currentTier : Nat, closedAt : BOOLEAN]

CheckRow == [status : {"NONE", "PENDING", "COMPLETED", "FAILED"},
             case : Cases \cup {NoCase}, hasJob : BOOLEAN,
             outcome : Outcomes \cup {NoOutcome}]

\* A decision bears the time its transaction began (created_at).  That is surely
\* later than the times of the decisions that had committed when its request made
\* its last step before, the first `prior` ones; the transactions that commit
\* between that step and its own commit may have begun before it or after.
DecisionRow == [from : KycStates \cup {NoStatus}, to : KycStates,
                source : {"PROVIDER", "ADMIN"}, check : CheckIds \cup {0}, prior : Nat]

EventRow == [status : {"NONE", "RECEIVED", "IGNORED", "DUPLICATE", "PROCESSED", "FAILED"},
             outcome : Outcomes \cup {NoOutcome}]

Steps == {"idle", "submit_insert", "submit_call", "submit_commit",
          "callback_check", "callback_case", "callback_apply", "callback_fail",
          "sync_check", "sync_fetch", "sync_apply", "decide_commit"}

Request == [at : Steps, case : Cases \cup {NoCase}, seen : KycStates \cup {NoStatus},
            prior : Nat, check : CheckIds \cup {0}, stamp : Stamps \cup {NoStamp},
            outcome : Outcomes \cup {NoOutcome}]

Idle == [at |-> "idle", case |-> NoCase, seen |-> NoStatus, prior |-> 0, check |-> 0,
         stamp |-> NoStamp, outcome |-> NoOutcome]

TypeOK ==
  /\ cases \in [Cases -> CaseRow]
  /\ checks \in [CheckIds -> CheckRow]
  /\ decisions \in [Cases -> Seq(DecisionRow)]
  /\ events \in [CheckIds \X Stamps -> EventRow]
  /\ jobs \in [CheckIds -> Outcomes \cup {NoOutcome}]
  /\ req \in [Requests -> Request]

Init ==
  /\ cases = [c \in Cases |-> [status |-> NoStatus, requestedTier |-> 0,
                               currentTier |-> 0, closedAt |-> FALSE]]
  /\ checks = [k \in CheckIds |-> [status |-> "NONE", case |-> NoCase,
                                   hasJob |-> FALSE, outcome |-> NoOutcome]]
  /\ decisions = [c \in Cases |-> <<>>]
  /\ events = [e \in CheckIds \X Stamps |-> [status |-> "NONE", outcome |-> NoOutcome]]
  /\ jobs = [k \in CheckIds |-> NoOutcome]
  /\ req = [r \in Requests |-> Idle]

\* The handler returns or throws, and its slot is free again.
Finish(r) == req' = [req EXCEPT ![r] = Idle]

Open(c) == cases[c].status \in OpenStatuses

\* Mutant of IndexAllows: the index is checked when a case is inserted only.
IndexOnInsertOnly(c, s) ==
  s = "DRAFT" => \A d \in Cases \ {c} : Owner[d] = Owner[c] => ~Open(d)

\* The partial unique index kyc_one_open_case_uq: a row may be inserted or
\* updated with status s only if the user has no other open case.
IndexAllows(c, s) ==
  s \in OpenStatuses => \A d \in Cases \ {c} : Owner[d] = Owner[c] => ~Open(d)

(***************************************************************************)
(* startCase: one INSERT; the index refuses a second open case.            *)
(***************************************************************************)
StartCase(c, tier) ==
  /\ cases[c].status = NoStatus
  /\ IndexAllows(c, "DRAFT")
  /\ cases' = [cases EXCEPT ![c] = [@ EXCEPT !.status = "DRAFT",
                                             !.requestedTier = tier]]
  /\ UNCHANGED <<checks, decisions, events, jobs, req>>

(***************************************************************************)
(* submitIdVerification: read the case, insert a check, call the provider, *)
(* then commit the job id and the new status in one transaction.           *)
(***************************************************************************)
Submittable == {"DRAFT", "MORE_INFO_REQUIRED"}

SubmitRead(r, c) ==
  /\ req[r] = Idle
  /\ cases[c].status \in Submittable
  /\ \E k \in CheckIds : checks[k].status = "NONE"   \* bound: MaxChecks
  /\ req' = [req EXCEPT ![r] = [@ EXCEPT !.at = "submit_insert",
                                         !.case = c,
                                         !.seen = cases[c].status]]
  /\ UNCHANGED <<rows, jobs>>

\* The ids are used in order, so the newest check has the largest id.
NextCheck(k) == \A j \in CheckIds : (checks[j].status = "NONE") <=> (j >= k)

SubmitInsert(r) ==
  /\ req[r].at = "submit_insert"
  /\ \E k \in CheckIds :
       /\ NextCheck(k)
       /\ checks' = [checks EXCEPT ![k] =
                   [@ EXCEPT !.status = "PENDING",
                             !.case = req[r].case]]
       /\ req' = [req EXCEPT ![r] = [@ EXCEPT !.at = "submit_call", !.check = k]]
  /\ UNCHANGED <<cases, decisions, events, jobs>>

SubmitAccepted(r) ==
  /\ req[r].at = "submit_call"
  /\ jobs' = [jobs EXCEPT ![req[r].check] = "PENDING"]
  /\ req' = [req EXCEPT ![r] = [@ EXCEPT !.at = "submit_commit"]]
  /\ UNCHANGED rows

\* The call fails: refused, or timed out with the job created all the same.
SubmitFails(r) ==
  /\ req[r].at = "submit_call"
  /\ \/ UNCHANGED jobs
     \/ jobs' = [jobs EXCEPT ![req[r].check] = "PENDING"]
  /\ checks' = [checks EXCEPT ![req[r].check] = [@ EXCEPT !.status = "FAILED"]]
  /\ Finish(r)
  /\ UNCHANGED <<cases, decisions, events>>

\* The domain assertion runs on the status read at the start; the UPDATE
\* names only the case id, so it overwrites whatever status is there now.
SubmitCommit(r) ==
  /\ req[r].at = "submit_commit"
  /\ CanTransition(req[r].seen, "SUBMITTED")
  /\ IndexAllows(req[r].case, "SUBMITTED")
  /\ checks' = [checks EXCEPT ![req[r].check] = [@ EXCEPT !.hasJob = TRUE]]
  /\ cases' = [cases EXCEPT ![req[r].case] = [@ EXCEPT !.status = "SUBMITTED"]]
  /\ Finish(r)
  /\ UNCHANGED <<decisions, events, jobs>>

\* The case was closed meanwhile and the user opened another one: the index
\* refuses the UPDATE and the whole transaction, the job id included.
SubmitRefused(r) ==
  /\ req[r].at = "submit_commit"
  /\ ~IndexAllows(req[r].case, "SUBMITTED")
  /\ Finish(r)
  /\ UNCHANGED <<rows, jobs>>

(***************************************************************************)
(* applyDecision, run inside the caller's transaction on the case and the  *)
(* check the caller has read.                                              *)
(***************************************************************************)
\* Mutants of CheckStatusFor: the outcome itself is stored; an ERROR leaves
\* the check PENDING so that it may be tried again.
OutcomeAsStatus(o) == o
ErrorStaysPending(o) == IF o \in {"ERROR", "PENDING"} THEN "PENDING" ELSE "COMPLETED"

CheckStatusFor(o) ==
  CASE o = "ERROR"   -> "FAILED"
    [] o = "PENDING" -> "PENDING"
    [] OTHER         -> "COMPLETED"

TargetOf(o) ==
  CASE o = "APPROVED"     -> "APPROVED"
    [] o = "REJECTED"     -> "REJECTED"
    [] o = "NEEDS_REVIEW" -> "IN_REVIEW"
    [] o = "ERROR"        -> "MORE_INFO_REQUIRED"
    [] OTHER              -> NoStatus

\* No transition to make: the outcome has no target, or the case was already
\* seen there.
NoMove(seen, o) == TargetOf(o) \in {NoStatus, seen}

\* Mutant of Decided: every decision grants its tier.
DecidedWithTier(row, to, tier) ==
  [row EXCEPT !.status = to,
              !.currentTier = tier,
              !.closedAt = @ \/ to \in {"APPROVED", "REJECTED"}]

\* The row a decision leaves: the tier is granted on APPROVED only.
Decided(row, to, tier) ==
  [row EXCEPT !.status = to,
              !.currentTier = IF to = "APPROVED" THEN tier ELSE @,
              !.closedAt = @ \/ to \in {"APPROVED", "REJECTED"}]

\* Mutants of Decide: the domain guard is dropped; a request for information
\* leaves no decision row; the row names the state passed through.
DecideUnguarded(c, seen, prior, to, tier, source, k) ==
  /\ IndexAllows(c, to)
  /\ cases' = [cases EXCEPT ![c] = Decided(@, to, tier)]
  /\ decisions' = [decisions EXCEPT ![c] =
                     Append(@, [from |-> seen, to |-> to, source |-> source, check |-> k,
                                prior |-> prior])]

DecideUnrecorded(c, seen, prior, to, tier, source, k) ==
  /\ TransitionAllowed(seen, to)
  /\ IndexAllows(c, to)
  /\ cases' = [cases EXCEPT ![c] = Decided(@, to, tier)]
  /\ decisions' = [decisions EXCEPT ![c] =
                     IF to = "MORE_INFO_REQUIRED" THEN @
                     ELSE Append(@, [from |-> seen, to |-> to, source |-> source, check |-> k,
                                     prior |-> prior])]

DecideFromReview(c, seen, prior, to, tier, source, k) ==
  /\ TransitionAllowed(seen, to)
  /\ IndexAllows(c, to)
  /\ cases' = [cases EXCEPT ![c] = Decided(@, to, tier)]
  /\ decisions' = [decisions EXCEPT ![c] =
                     Append(@, [from |-> IF CanTransition(seen, to) THEN seen ELSE "IN_REVIEW",
                                to |-> to, source |-> source, check |-> k, prior |-> prior])]

\* A decision that moves case c from the status the handler saw.
Decide(c, seen, prior, to, tier, source, k) ==
  /\ TransitionAllowed(seen, to)
  /\ IndexAllows(c, to)
  /\ cases' = [cases EXCEPT ![c] = Decided(@, to, tier)]
  /\ decisions' = [decisions EXCEPT ![c] =
                     Append(@, [from |-> seen, to |-> to, source |-> source, check |-> k,
                                prior |-> prior])]

CanApply(c, seen, o) ==
  \/ NoMove(seen, o)
  \/ TransitionAllowed(seen, TargetOf(o)) /\ IndexAllows(c, TargetOf(o))

ApplyDecision(c, seen, prior, k, o) ==
  /\ checks' = [checks EXCEPT ![k] = [@ EXCEPT !.status = CheckStatusFor(o),
                                               !.outcome = o]]
  /\ \/ NoMove(seen, o) /\ UNCHANGED <<cases, decisions>>
     \/ /\ ~NoMove(seen, o)
        /\ Decide(c, seen, prior, TargetOf(o), cases[c].requestedTier, "PROVIDER", k)

(***************************************************************************)
(* handleProviderCallback: store the event, find the check, read the case, *)
(* apply the decision; a failed transaction marks the event FAILED.        *)
(***************************************************************************)

\* Mutant of NewEvent: without webhook_uq every delivery is taken up.
AnyEvent(k, t) == TRUE

\* A signed callback about job k arrives with a timestamp no event row has
\* yet.  One with a known timestamp hits webhook_uq and changes nothing.
NewEvent(k, t) == events[<<k, t>>].status = "NONE"

CallbackReceive(r, k, t) ==
  /\ req[r] = Idle
  /\ jobs[k] # NoOutcome
  /\ NewEvent(k, t)
  /\ Cardinality({e \in DOMAIN events : events[e].status # "NONE"}) < MaxEvents
  /\ \E o \in {"PENDING", jobs[k]} :
       /\ events' = [events EXCEPT ![<<k, t>>] = [status |-> "RECEIVED", outcome |-> o]]
       /\ req' = [req EXCEPT ![r] = [@ EXCEPT !.at = "callback_check",
                                              !.check = k,
                                              !.stamp = t,
                                              !.outcome = o]]
  /\ UNCHANGED <<cases, checks, decisions, jobs>>

Event(r) == <<req[r].check, req[r].stamp>>

SettleEvent(r, s) == events' = [events EXCEPT ![Event(r)] =
                              [@ EXCEPT !.status = s]]

\* The lookup is by provider_job_id: before the submit transaction commits
\* there is no such check and the callback is dropped.
CallbackUnknownJob(r) ==
  /\ req[r].at = "callback_check"
  /\ ~checks[req[r].check].hasJob
  /\ SettleEvent(r, "IGNORED")
  /\ Finish(r)
  /\ UNCHANGED <<cases, checks, decisions, jobs>>

\* Mutant of AlreadyDecided: no look at the status of the check.
NeverDecided(k) == FALSE

AlreadyDecided(k) == checks[k].status # "PENDING"

CallbackDuplicate(r) ==
  /\ req[r].at = "callback_check"
  /\ checks[req[r].check].hasJob
  /\ AlreadyDecided(req[r].check)
  /\ SettleEvent(r, "DUPLICATE")
  /\ Finish(r)
  /\ UNCHANGED <<cases, checks, decisions, jobs>>

CallbackCheckPending(r) ==
  /\ req[r].at = "callback_check"
  /\ checks[req[r].check].hasJob
  /\ ~AlreadyDecided(req[r].check)
  /\ req' = [req EXCEPT ![r] = [@ EXCEPT !.at = "callback_case",
                                         !.case = checks[req[r].check].case]]
  /\ UNCHANGED <<rows, jobs>>

CallbackReadCase(r) ==
  /\ req[r].at = "callback_case"
  /\ req' = [req EXCEPT ![r] = [@ EXCEPT !.at = "callback_apply",
                                         !.seen = cases[req[r].case].status,
                                         !.prior = Len(decisions[req[r].case])]]
  /\ UNCHANGED <<rows, jobs>>

CallbackApply(r) ==
  /\ req[r].at = "callback_apply"
  /\ ApplyDecision(req[r].case, req[r].seen, req[r].prior, req[r].check, req[r].outcome)
  /\ SettleEvent(r, "PROCESSED")
  /\ Finish(r)
  /\ UNCHANGED jobs

\* An illegal transition, the index or the database fails the transaction.
CallbackRollback(r) ==
  /\ req[r].at = "callback_apply"
  /\ Faults \/ ~CanApply(req[r].case, req[r].seen, req[r].outcome)
  /\ req' = [req EXCEPT ![r] = [@ EXCEPT !.at = "callback_fail"]]
  /\ UNCHANGED <<rows, jobs>>

\* Mutant of CallbackMarkFailed: the catch block forgets the event.
CallbackForgetFailed(r) ==
  /\ req[r].at = "callback_fail"
  /\ Finish(r)
  /\ UNCHANGED <<rows, jobs>>

CallbackMarkFailed(r) ==
  /\ req[r].at = "callback_fail"
  /\ SettleEvent(r, "FAILED")
  /\ Finish(r)
  /\ UNCHANGED <<cases, checks, decisions, jobs>>

(***************************************************************************)
(* syncFromProvider: read the case, pick its newest PENDING check, ask the *)
(* provider, apply the answer.                                             *)
(***************************************************************************)
SyncRead(r, c) ==
  /\ req[r] = Idle
  /\ Open(c)
  /\ req' = [req EXCEPT ![r] = [@ EXCEPT !.at = "sync_check",
                                         !.case = c,
                                         !.seen = cases[c].status]]
  /\ UNCHANGED <<rows, jobs>>

PendingChecks(c) == {k \in CheckIds : checks[k].case = c /\ checks[k].status = "PENDING"}

\* Mutant of NewestPending: the query does not name the case.
NewestPendingOfAll(c, k) ==
  LET pending == {j \in CheckIds : checks[j].status = "PENDING"}
  IN  k \in pending /\ \A j \in pending : j <= k

\* Another: the query sorts the other way.
OldestPending(c, k) ==
  k \in PendingChecks(c) /\ \A j \in PendingChecks(c) : k <= j

NewestPending(c, k) ==
  k \in PendingChecks(c) /\ \A j \in PendingChecks(c) : j <= k

\* The check the refresh asks about: the newest PENDING one, if it has a job.
Refreshable(c, k) == NewestPending(c, k) /\ checks[k].hasJob

SyncPick(r) ==
  /\ req[r].at = "sync_check"
  /\ \E k \in CheckIds :
       /\ Refreshable(req[r].case, k)
       /\ req' = [req EXCEPT ![r] = [@ EXCEPT !.at = "sync_fetch", !.check = k]]
  /\ UNCHANGED <<rows, jobs>>

SyncNothing(r) ==
  /\ req[r].at = "sync_check"
  /\ ~\E k \in CheckIds : Refreshable(req[r].case, k)
  /\ Finish(r)
  /\ UNCHANGED <<rows, jobs>>

\* The provider answers with its verdict.
SyncFetch(r) ==
  /\ req[r].at = "sync_fetch"
  /\ jobs[req[r].check] \in Finals
  /\ req' = [req EXCEPT ![r] = [@ EXCEPT !.at = "sync_apply",
                                         !.outcome = jobs[req[r].check],
                                         !.prior = Len(decisions[req[r].case])]]
  /\ UNCHANGED <<rows, jobs>>

\* It has none yet: only the time of the sync is recorded.
SyncUndecided(r) ==
  /\ req[r].at = "sync_fetch"
  /\ jobs[req[r].check] \notin Finals
  /\ Finish(r)
  /\ UNCHANGED <<rows, jobs>>

SyncApply(r) ==
  /\ req[r].at = "sync_apply"
  /\ ApplyDecision(req[r].case, req[r].seen, req[r].prior, req[r].check, req[r].outcome)
  /\ Finish(r)
  /\ UNCHANGED <<events, jobs>>

SyncRollback(r) ==
  /\ req[r].at = "sync_apply"
  /\ ~CanApply(req[r].case, req[r].seen, req[r].outcome)
  /\ Finish(r)
  /\ UNCHANGED <<rows, jobs>>

(***************************************************************************)
(* decide: an officer reads the case and commits a decision on it.         *)
(***************************************************************************)
Decidable == {"SUBMITTED", "IN_REVIEW", "MORE_INFO_REQUIRED"}

DecideRead(r, a, c) ==
  /\ req[r] = Idle
  /\ Owner[c] # a
  /\ cases[c].status \in Decidable
  /\ req' = [req EXCEPT ![r] = [@ EXCEPT !.at = "decide_commit",
                                         !.case = c,
                                         !.seen = cases[c].status,
                                         !.prior = Len(decisions[c])]]
  /\ UNCHANGED <<rows, jobs>>

AdminTargets == {"APPROVED", "REJECTED", "MORE_INFO_REQUIRED"}

DecideCommit(r) ==
  /\ req[r].at = "decide_commit"
  /\ \E to \in AdminTargets, tier \in AdminTiers \cup {cases[req[r].case].requestedTier} :
       Decide(req[r].case, req[r].seen, req[r].prior, to, tier, "ADMIN", 0)
  /\ Finish(r)
  /\ UNCHANGED <<checks, events, jobs>>

\* The machine refuses every move from MORE_INFO_REQUIRED, the index a case
\* reopened beside another open one: the transaction throws.
DecideRollback(r) ==
  /\ req[r].at = "decide_commit"
  /\ \E to \in AdminTargets :
       ~(TransitionAllowed(req[r].seen, to) /\ IndexAllows(req[r].case, to))
  /\ Finish(r)
  /\ UNCHANGED <<rows, jobs>>

(***************************************************************************)
(* The environment and the next-state relation                             *)
(***************************************************************************)

\* The provider reaches its verdict on a job (external).
ProviderDecides(k) ==
  /\ jobs[k] = "PENDING"
  /\ \E o \in Finals : jobs' = [jobs EXCEPT ![k] = o]
  /\ UNCHANGED <<rows, req>>

\* The instance serving a request dies, or a statement outside the caught
\* ones fails: what the request has committed stays, the rest never happens.
Crash(r) ==
  /\ Faults
  /\ req[r] # Idle
  /\ Finish(r)
  /\ UNCHANGED <<rows, jobs>>

\* What the handler of a started request does next.
Handler(r) ==
  \/ SubmitInsert(r) \/ SubmitAccepted(r) \/ SubmitFails(r)
  \/ SubmitCommit(r) \/ SubmitRefused(r)
  \/ CallbackUnknownJob(r) \/ CallbackDuplicate(r) \/ CallbackCheckPending(r)
  \/ CallbackReadCase(r) \/ CallbackApply(r) \/ CallbackRollback(r) \/ CallbackMarkFailed(r)
  \/ SyncPick(r) \/ SyncNothing(r) \/ SyncFetch(r) \/ SyncUndecided(r)
  \/ SyncApply(r) \/ SyncRollback(r)
  \/ DecideCommit(r) \/ DecideRollback(r)

Next ==
  \/ \E c \in Cases, tier \in RequestedTiers : StartCase(c, tier)
  \/ \E r \in Requests :
       \/ \E c \in Cases : SubmitRead(r, c) \/ SyncRead(r, c)
       \/ \E k \in CheckIds, t \in Stamps : CallbackReceive(r, k, t)
       \/ \E a \in Reviewers, c \in Cases : DecideRead(r, a, c)
       \/ Handler(r) \/ Crash(r)
  \/ \E k \in CheckIds : ProviderDecides(k)

Spec == Init /\ [][Next]_vars

(***************************************************************************)
(* Safety, for any number of requests in flight                            *)
(***************************************************************************)

\* A user never has two open cases, although submits, provider decisions and
\* requests for more information reopen or move rows by id alone.
OneOpenCase ==
  \A c, d \in Cases : c # d /\ Owner[c] = Owner[d] => ~(Open(c) /\ Open(d))

\* created_at is the time a transaction began, so decision j surely bears a later
\* time than decision i only if i had committed when the request of j read the
\* case: of overlapping transactions either may.
Later(c, j, i) == i <= decisions[c][j].prior

\* Audit trail: a case that has left DRAFT and SUBMITTED stands where one of its
\* latest decisions put it, one that no decision is surely later than (decide,
\* applyDecision).
StatusHasDecision ==
  \A c \in Cases :
    cases[c].status \notin {NoStatus, "DRAFT", "SUBMITTED"} =>
      \E i \in 1..Len(decisions[c]) :
        /\ decisions[c][i].to = cases[c].status
        /\ \A j \in 1..Len(decisions[c]) : ~Later(c, j, i)

\* Evidence: a decision attributed to the provider names a check of the same
\* case, and the verdict is the one the provider reached on that check's job.
ProviderDecisionsAreTheProviders ==
  \A c \in Cases : \A i \in 1..Len(decisions[c]) :
    LET d == decisions[c][i] IN
    d.source = "PROVIDER" =>
      /\ d.check \in CheckIds
      /\ checks[d.check].case = c
      /\ checks[d.check].hasJob
      /\ TargetOf(jobs[d.check]) = d.to

\* A tier is held only by a case that some decision approved.
TierNeedsApproval ==
  \A c \in Cases :
    cases[c].currentTier > 0 =>
      \E i \in 1..Len(decisions[c]) : decisions[c][i].to = "APPROVED"

\* Exactly-once bookkeeping of deliveries: a settled webhook event is never
\* taken up again, however often the provider redelivers it.
EventsSettleOnce ==
  [][\A e \in CheckIds \X Stamps :
       events[e].status \notin {"NONE", "RECEIVED"} => events'[e] = events[e]]_vars

\* A status change the machine does not allow comes only from a request that
\* commits on a status it read earlier and that has changed since.
LegalMove(c) ==
  \/ cases'[c].status = cases[c].status
  \/ cases[c].status = NoStatus /\ cases'[c].status = "DRAFT"
  \/ TransitionAllowed(cases[c].status, cases'[c].status)

StaleCommit(c) ==
  \E r \in Requests :
    /\ req[r].at \in {"submit_commit", "callback_apply", "sync_apply", "decide_commit"}
    /\ req[r].case = c
    /\ req[r].seen # cases[c].status

IllegalMovesAreStale == [][\A c \in Cases : LegalMove(c) \/ StaleCommit(c)]_vars

(***************************************************************************)
(* Safety, when requests are served one at a time                          *)
(***************************************************************************)

\* The promise of docs/STATE_MACHINES.md: every move of a case is a move of
\* the machine.
StatusFollowsMachine == [][\A c \in Cases : LegalMove(c)]_vars

\* A verdict is recorded on a check once.
CheckDecidedOnce ==
  \A c \in Cases : \A i, j \in 1..Len(decisions[c]) :
    i # j /\ decisions[c][i].check = decisions[c][j].check => decisions[c][i].check = 0

\* What the comment on redeliveries says: a verdict delivered again under a
\* new timestamp is not applied a second time.
Delivered(k, t) ==
  events[<<k, t>>].status = "PROCESSED" /\ events[<<k, t>>].outcome # "PENDING"

RedeliveryAppliesNothing ==
  \A k \in CheckIds : \A t, u \in Stamps :
    t # u /\ Delivered(k, t) /\ Delivered(k, u) =>
      \A c \in Cases : \A i, j \in 1..Len(decisions[c]) :
        decisions[c][i].check = k /\ decisions[c][j].check = k => i = j

\* A processed callback that carried a verdict has left it on its check.
ProcessedMeansRecorded ==
  \A k \in CheckIds, t \in Stamps :
    Delivered(k, t) => checks[k].outcome = events[<<k, t>>].outcome /\ checks[k].status # "PENDING"

\* The history is one path: each decision starts where the one before it
\* left the case, or at SUBMITTED after a request for more information.
HistoryIsAPath ==
  \A c \in Cases : \A i \in 1..(Len(decisions[c]) - 1) :
    \/ decisions[c][i + 1].from = decisions[c][i].to
    \/ decisions[c][i].to = "MORE_INFO_REQUIRED" /\ decisions[c][i + 1].from = "SUBMITTED"

\* A submitted case is never stranded: the refresh has a job to ask the provider
\* about, whatever submits failed or died and left behind, and whatever the
\* checks of earlier submissions have become.
SubmittedIsRefreshable ==
  \A c \in Cases :
    cases[c].status = "SUBMITTED" => \E k \in CheckIds : Refreshable(c, k)

\* KycPolicyService.evaluate reads the highest tier of a user's approved cases.
ApprovedTiers(u) ==
  {cases[c].currentTier : c \in {d \in Cases : Owner[d] = u /\ cases[d].status = "APPROVED"}}

\* The withdrawal gate, once open for a tier, does not close again: nothing
\* revokes an approval.
ApprovalIsKept ==
  [][\A u \in Users : ApprovedTiers(u) \subseteq ApprovedTiers(u)']_vars

\* Under one request at a time the workflow is the case lifecycle promised to
\* users: KycLifecycle, on the status and the tier of each row.
Lifecycle ==
  INSTANCE KycLifecycle WITH
    Tiers <- RequestedTiers \cup AdminTiers,
    status <- [c \in Cases |-> cases[c].status],
    tier <- [c \in Cases |-> cases[c].currentTier]

RefinesLifecycle == Lifecycle!Spec

(***************************************************************************)
(* Liveness, when no request dies                                          *)
(***************************************************************************)

\* A started handler runs to its end: Node resumes it when its await settles
\* and every provider call has a timeout.
HandlersRun == \A r \in Requests : WF_vars(Handler(r))

FairSpec == Spec /\ HandlersRun

\* Every callback that was stored is settled one way or another.
CallbacksSettle ==
  \A e \in CheckIds \X Stamps :
    events[e].status = "RECEIVED" ~> events[e].status # "RECEIVED"

ProviderAnswers == WF_vars(\E k \in CheckIds : ProviderDecides(k))
KeepsRefreshing(c) == SF_vars(\E r \in Requests : SyncRead(r, c))

\* A lost or ignored callback is no loss as long as the provider decides and
\* someone keeps pressing refresh: a submitted case does not stay submitted.
RefreshDecidesCase ==
  \A c \in Cases :
    ProviderAnswers /\ KeepsRefreshing(c) =>
      (cases[c].status = "SUBMITTED" ~> cases[c].status # "SUBMITTED")

=============================================================================
