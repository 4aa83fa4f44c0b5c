--------------------------- MODULE KycCaseSafety ---------------------------
(***************************************************************************)
(* The safety properties of KycCase, for every set of users, cases and     *)
(* requests in flight: a case row is written in three places only, an      *)
(* event is settled by the request that stored it.  Those that need        *)
(* requests served one at a time (OneByOne) follow: then what a request    *)
(* has read is still so when it commits (Turns), and KycCase implements    *)
(* KycLifecycle.                                                           *)
(***************************************************************************)
EXTENDS KycCaseProofs

(***************************************************************************)
(* The three writers of a case row                                         *)
(***************************************************************************)

\* The statuses of a check that is no longer pending.
Done == {"COMPLETED", "FAILED"}

\* Case c alone is written, to status s, and the index has agreed.
Writes(c, s) ==
  /\ c \in Cases
  /\ IndexAllows(c, s)
  /\ cases'[c].status = s
  /\ \A d \in Cases \ {c} : cases'[d] = cases[d]

Started(c) ==
  /\ Writes(c, "DRAFT")
  /\ cases[c].status = NoStatus
  /\ cases'[c].currentTier = cases[c].currentTier
  /\ cases'[c].requestedTier \in RequestedTiers
  /\ UNCHANGED decisions

Submitted(r) ==
  /\ req[r].at = "submit_commit"
  /\ Writes(req[r].case, "SUBMITTED")
  /\ TransitionAllowed(req[r].seen, "SUBMITTED")
  /\ cases'[req[r].case].currentTier = cases[req[r].case].currentTier
  /\ cases'[req[r].case].requestedTier = cases[req[r].case].requestedTier
  /\ UNCHANGED decisions

\* Case c is moved from the status seen to another, with its decision row.
Ruled(c, seen, prior, to, source, k) ==
  /\ Writes(c, to)
  /\ TransitionAllowed(seen, to)
  /\ cases'[c].currentTier \in
       IF to = "APPROVED" THEN AdminTiers \cup {cases[c].requestedTier} ELSE {cases[c].currentTier}
  /\ cases'[c].requestedTier = cases[c].requestedTier
  /\ decisions' = [decisions EXCEPT ![c] =
                     Append(@, [from |-> seen, to |-> to, source |-> source, check |-> k,
                                prior |-> prior])]

Judged(r, to, source, k) ==
  /\ req[r].at \in {"callback_apply", "sync_apply", "decide_commit"}
  /\ to \in {"APPROVED", "REJECTED", "IN_REVIEW", "MORE_INFO_REQUIRED"}
  /\ Ruled(req[r].case, req[r].seen, req[r].prior, to, source, k)
  /\ \/ source = "ADMIN" /\ k = 0
     \/ /\ source = "PROVIDER"
        /\ req[r].at # "decide_commit"
        /\ k = req[r].check
        /\ checks'[k].status \in Done
        /\ k \in CheckIds
        /\ checks[k].hasJob
        /\ checks[k].case = req[r].case
        /\ jobs[k] \notin {"PENDING", NoOutcome}
        /\ TargetOf(jobs[k]) = to

LEMMA DecideWrites ==
  ASSUME TypeOK, NEW c \in Cases, NEW seen \in KycStates \cup {NoStatus}, NEW prior, NEW to \in KycStates,
         NEW tier \in AdminTiers \cup {cases[c].requestedTier},
         NEW source \in {"PROVIDER", "ADMIN"}, NEW k \in CheckIds \cup {0},
         Decide(c, seen, prior, to, tier, source, k)
  PROVE  Ruled(c, seen, prior, to, source, k)
<1>1. /\ Decided(cases[c], to, tier).status = to
      /\ Decided(cases[c], to, tier).currentTier = IF to = "APPROVED" THEN tier ELSE cases[c].currentTier
      /\ Decided(cases[c], to, tier).requestedTier = cases[c].requestedTier
  BY DEF TypeOK, CaseRow, Decided
<1>2. cases'[c] = Decided(cases[c], to, tier) /\ \A d \in Cases \ {c} : cases'[d] = cases[d]
  BY DEF TypeOK, Decide
<1> QED
  BY <1>1, <1>2 DEF Decide, Writes, Ruled

LEMMA ApplyWrites ==
  ASSUME Inv, NEW r \in Requests, CallbackApply(r) \/ SyncApply(r)
  PROVE  \/ UNCHANGED <<cases, decisions>>
         \/ \E to \in KycStates, k \in CheckIds : Judged(r, to, "PROVIDER", k)
<1> DEFINE q == req[r]
           o == q.outcome
<1>0. TypeOK /\ RequestLinked(r)
  BY DEF Inv, RequestsLinked
<1>1. /\ q.at \in {"callback_apply", "sync_apply"}
      /\ ApplyDecision(q.case, q.seen, q.prior, q.check, o)
  BY DEF CallbackApply, SyncApply
<1>2. /\ q.case \in Cases /\ q.check \in CheckIds /\ o \in {"PENDING", jobs[q.check]}
      /\ checks[q.check].hasJob /\ checks[q.check].case = q.case /\ jobs[q.check] # NoOutcome
  BY <1>0, <1>1 DEF RequestLinked, WithCase, WithCheck, OfCallback, Judging, Inv, ChecksLinked
<1>3. CASE NoMove(q.seen, o)
  BY <1>1, <1>3 DEF ApplyDecision
<1>4. CASE ~NoMove(q.seen, o)
  <2>1. Decide(q.case, q.seen, q.prior, TargetOf(o), cases[q.case].requestedTier, "PROVIDER", q.check)
    BY <1>1, <1>4 DEF ApplyDecision
  <2>2. TargetOf(o) \in {"APPROVED", "REJECTED", "IN_REVIEW", "MORE_INFO_REQUIRED"} /\ o # "PENDING"
    BY <1>4 DEF TargetOf, NoMove
  <2>6. q.seen \in KycStates \cup {NoStatus} /\ cases[q.case].requestedTier \in Nat
    BY <1>0, <1>2, FieldTypes
  <2>3. o = jobs[q.check]
    BY <1>2, <2>2
  <2>4. TargetOf(o) \in KycStates
    BY <2>2 DEF KycStates
  <2>7. checks'[q.check].status \in Done
    BY <1>0, <1>1, <1>2, <2>2 DEF ApplyDecision, CheckStatusFor, TypeOK, CheckRow, Done
  <2>5. Judged(r, TargetOf(o), "PROVIDER", q.check)
    <3>1. Ruled(q.case, q.seen, q.prior, TargetOf(o), "PROVIDER", q.check)
      BY <1>0, <1>2, <2>1, <2>4, <2>6, DecideWrites
    <3> QED
      BY <1>1, <1>2, <2>2, <2>3, <2>7, <3>1 DEF Judged
  <2> QED
    BY <1>2, <2>4, <2>5
<1> QED
  BY <1>3, <1>4

\* A step leaves cases and decisions alone, or is one of the three writers.
LEMMA CaseWriters ==
  ASSUME Inv, [Next]_vars
  PROVE  \/ UNCHANGED <<cases, decisions>>
         \/ \E c \in Cases : Started(c)
         \/ \E r \in Requests : Submitted(r)
         \/ \E r \in Requests, to \in KycStates, source \in {"PROVIDER", "ADMIN"},
               k \in CheckIds \cup {0} : Judged(r, to, source, k)
<1>0. TypeOK /\ (\A r \in Requests : RequestLinked(r))
  BY DEF Inv, RequestsLinked
<1>1. ASSUME NEW c \in Cases, NEW tier \in RequestedTiers, StartCase(c, tier)
      PROVE  Started(c)
  BY <1>0, <1>1 DEF TypeOK, CaseRow, StartCase, Started, Writes
<1>2. ASSUME NEW r \in Requests, SubmitCommit(r)
      PROVE  Submitted(r)
  <2>1. req[r].case \in Cases
    BY <1>0, <1>2 DEF SubmitCommit, RequestLinked, WithCase
  <2>2. [cases[req[r].case] EXCEPT !.status = "SUBMITTED"].status = "SUBMITTED"
    BY <1>0, <2>1 DEF TypeOK, CaseRow
  <2>3. /\ [cases[req[r].case] EXCEPT !.status = "SUBMITTED"].currentTier
            = cases[req[r].case].currentTier
        /\ [cases[req[r].case] EXCEPT !.status = "SUBMITTED"].requestedTier
            = cases[req[r].case].requestedTier
    BY <1>0, <2>1 DEF TypeOK, CaseRow
  <2>4. /\ cases'[req[r].case] = [cases[req[r].case] EXCEPT !.status = "SUBMITTED"]
        /\ \A d \in Cases \ {req[r].case} : cases'[d] = cases[d]
    BY <1>0, <1>2, <2>1 DEF TypeOK, SubmitCommit
  <2>5. Writes(req[r].case, "SUBMITTED")
    BY <1>2, <2>1, <2>2, <2>4 DEF SubmitCommit, Writes
  <2> QED
    BY <1>2, <2>3, <2>4, <2>5 DEF SubmitCommit, Submitted, TransitionAllowed
<1>3. ASSUME NEW r \in Requests, DecideCommit(r)
      PROVE  \E to \in KycStates : Judged(r, to, "ADMIN", 0)
  <2>1. PICK to \in AdminTargets, tier \in AdminTiers \cup {cases[req[r].case].requestedTier} :
          Decide(req[r].case, req[r].seen, req[r].prior, to, tier, "ADMIN", 0)
    BY <1>3 DEF DecideCommit
  <2>2. /\ req[r].case \in Cases /\ to \in KycStates
        /\ req[r].seen \in KycStates \cup {NoStatus}
    <3>1. req[r].case \in Cases /\ to \in KycStates
      BY <1>0, <1>3 DEF DecideCommit, RequestLinked, WithCase, AdminTargets, KycStates
    <3> QED
      BY <1>0, <3>1, FieldTypes
  <2>3. Ruled(req[r].case, req[r].seen, req[r].prior, to, "ADMIN", 0)
    BY <1>0, <2>1, <2>2, DecideWrites
  <2>4. Judged(r, to, "ADMIN", 0)
    BY <1>3, <2>3 DEF Judged, DecideCommit, AdminTargets
  <2> QED
    BY <2>2, <2>4
<1>4. ASSUME NEW r \in Requests,
             \/ \E c \in Cases : SubmitRead(r, c) \/ SyncRead(r, c)
             \/ \E k \in CheckIds, t \in Stamps : CallbackReceive(r, k, t)
             \/ \E a \in Reviewers, c \in Cases : DecideRead(r, a, c)
             \/ SubmitInsert(r) \/ SubmitAccepted(r) \/ SubmitFails(r)
             \/ SubmitRefused(r) \/ CallbackUnknownJob(r) \/ CallbackDuplicate(r)
             \/ CallbackCheckPending(r) \/ CallbackReadCase(r) \/ CallbackRollback(r)
             \/ CallbackMarkFailed(r) \/ SyncPick(r) \/ SyncNothing(r) \/ SyncFetch(r)
             \/ SyncUndecided(r) \/ SyncRollback(r)
             \/ DecideRollback(r) \/ Crash(r)
      PROVE  UNCHANGED <<cases, decisions>>
  BY <1>4 DEF SubmitRead, SyncRead, CallbackReceive, DecideRead, SubmitInsert, SubmitAccepted,
              SubmitFails, SubmitRefused, CallbackUnknownJob,
              CallbackDuplicate, CallbackCheckPending, CallbackReadCase, CallbackRollback,
              CallbackMarkFailed, SyncPick, SyncNothing, SyncFetch, SyncUndecided, SyncRollback,
              DecideRollback, Crash, rows
<1>5. ASSUME NEW k \in CheckIds, ProviderDecides(k)
      PROVE  UNCHANGED <<cases, decisions>>
  BY <1>5 DEF ProviderDecides, rows
<1>6. ASSUME NEW r \in Requests,
             (CallbackApply(r) \/ SyncApply(r)) \/ DecideCommit(r)
      PROVE  \/ UNCHANGED <<cases, decisions>>
             \/ \E to \in KycStates, source \in {"PROVIDER", "ADMIN"}, k \in CheckIds \cup {0} :
                  Judged(r, to, source, k)
  BY <1>3, <1>6, ApplyWrites
<1> QED
  BY <1>1, <1>2, <1>4, <1>5, <1>6 DEF Next, Handler, vars

(***************************************************************************)
(* One open case per user                                                  *)
(***************************************************************************)

LEMMA WritesOneOpen ==
  ASSUME OneOpenCase, NEW c, NEW s, Writes(c, s)
  PROVE  OneOpenCase'
<1> SUFFICES ASSUME NEW a \in Cases, NEW b \in Cases, a # b, Owner[a] = Owner[b]
             PROVE  ~(Open(a) /\ Open(b))'
  BY DEF OneOpenCase
<1>1. CASE a # c /\ b # c
  BY <1>1 DEF Writes, OneOpenCase, Open
<1>2. CASE a = c
  BY <1>2 DEF Writes, IndexAllows, Open
<1>3. CASE b = c
  BY <1>3 DEF Writes, IndexAllows, Open
<1> QED
  BY <1>1, <1>2, <1>3

\* No user ever has two open cases, however starts, submits, callbacks, syncs
\* and officers' decisions overlap: the unique index is asked on every write.
THEOREM OneOpen == Spec => []OneOpenCase
<1>1. Init => OneOpenCase
  BY DEF Init, OneOpenCase, Open, OpenStatuses, NoStatus
<1>2. Inv /\ OneOpenCase /\ [Next]_vars => OneOpenCase'
  <2> SUFFICES ASSUME Inv, OneOpenCase, [Next]_vars PROVE OneOpenCase'
    OBVIOUS
  <2>1. CASE UNCHANGED <<cases, decisions>>
    BY <2>1 DEF OneOpenCase, Open
  <2> QED
    BY <2>1, CaseWriters, WritesOneOpen DEF Started, Submitted, Judged, Ruled
<1> QED
  BY <1>1, <1>2, Linked, PTL DEF Spec

(***************************************************************************)
(* The audit trail                                                         *)
(***************************************************************************)

\* The new row of a decision follows the rows there were.
Appended(r, to, source, k) ==
  LET c == req[r].case IN
  /\ \A d \in Cases \ {c} : decisions'[d] = decisions[d]
  /\ Len(decisions'[c]) = Len(decisions[c]) + 1
  /\ \A i \in 1..Len(decisions[c]) : decisions'[c][i] = decisions[c][i]
  /\ decisions'[c][Len(decisions[c]) + 1]
       = [from |-> req[r].seen, to |-> to, source |-> source, check |-> k,
                   prior |-> req[r].prior]

LEMMA JudgedAppends ==
  ASSUME TypeOK, NEW r \in Requests, NEW to \in KycStates,
         NEW source \in {"PROVIDER", "ADMIN"}, NEW k \in CheckIds \cup {0}, Judged(r, to, source, k)
  PROVE  Appended(r, to, source, k)
<1> DEFINE c == req[r].case
           new == [from |-> req[r].seen, to |-> to, source |-> source, check |-> k,
                   prior |-> req[r].prior]
<1>1. c \in Cases /\ decisions[c] \in Seq(DecisionRow)
  BY DEF Judged, Ruled, Writes, TypeOK
<1>2. decisions'[c] = Append(decisions[c], new) /\ \A d \in Cases \ {c} : decisions'[d] = decisions[d]
  BY <1>1 DEF Judged, Ruled, TypeOK
<1> HIDE DEF new
<1>3. /\ Len(Append(decisions[c], new)) = Len(decisions[c]) + 1
      /\ \A i \in 1..Len(decisions[c]) : Append(decisions[c], new)[i] = decisions[c][i]
      /\ Append(decisions[c], new)[Len(decisions[c]) + 1] = new
  BY <1>1
<1> QED
  BY <1>2, <1>3 DEF new, Appended

\* The decision that committed last is the one behind the status.
LastNames ==
  \A c \in Cases :
    cases[c].status \notin {NoStatus, "DRAFT", "SUBMITTED"} =>
      /\ decisions[c] # <<>>
      /\ decisions[c][Len(decisions[c])].to = cases[c].status

LEMMA LastNamesStep == Inv /\ LastNames /\ [Next]_vars => LastNames'
<1> SUFFICES ASSUME Inv, LastNames, [Next]_vars, NEW c \in Cases,
                    cases'[c].status \notin {NoStatus, "DRAFT", "SUBMITTED"}
             PROVE  /\ decisions'[c] # <<>>
                    /\ decisions'[c][Len(decisions'[c])].to = cases'[c].status
  BY DEF LastNames
<1>0. TypeOK /\ decisions[c] \in Seq(DecisionRow)
  BY DEF Inv, TypeOK
<1>1. CASE cases'[c] = cases[c] /\ decisions'[c] = decisions[c]
  BY <1>1 DEF LastNames
<1>2. ASSUME NEW d \in Cases, Started(d)
      PROVE  cases'[c] = cases[c] /\ decisions'[c] = decisions[c]
  BY <1>2 DEF Started, Writes
<1>3. ASSUME NEW r \in Requests, Submitted(r)
      PROVE  cases'[c] = cases[c] /\ decisions'[c] = decisions[c]
  BY <1>3 DEF Submitted, Writes
<1>4. ASSUME NEW r \in Requests, NEW to \in KycStates, NEW source \in {"PROVIDER", "ADMIN"},
             NEW k \in CheckIds \cup {0}, Judged(r, to, source, k)
      PROVE  /\ decisions'[c] # <<>>
             /\ decisions'[c][Len(decisions'[c])].to = cases'[c].status
  <2>1. CASE c # req[r].case
    <3>1. cases'[c] = cases[c] /\ decisions'[c] = decisions[c]
      BY <1>0, <1>4, <2>1 DEF Judged, Ruled, Writes, TypeOK
    <3> QED
      BY <1>1, <3>1
  <2>2. CASE c = req[r].case
    <3> DEFINE new == [from |-> req[r].seen, to |-> to, source |-> source, check |-> k,
                 prior |-> req[r].prior]
    <3>1. decisions'[c] = Append(decisions[c], new) /\ cases'[c].status = to
      BY <1>0, <1>4, <2>2 DEF Judged, Ruled, Writes, TypeOK
    <3>2. new.to = to
      OBVIOUS
    <3> HIDE DEF new
    <3>3. /\ Append(decisions[c], new) # <<>>
          /\ Append(decisions[c], new)[Len(Append(decisions[c], new))] = new
      BY <1>0
    <3> QED
      BY <3>1, <3>2, <3>3
  <2> QED
    BY <2>1, <2>2
<1> QED
  BY <1>1, <1>2, <1>3, <1>4, CaseWriters

\* A request about to commit has counted decisions there are, and a decision
\* counts decisions before it only.
PriorsBefore ==
  /\ \A r \in Requests :
       req[r].at \in {"callback_apply", "sync_apply", "decide_commit"} =>
         req[r].prior <= Len(decisions[req[r].case])
  /\ \A c \in Cases : \A j \in 1..Len(decisions[c]) : decisions[c][j].prior < j

Committing == {"callback_apply", "sync_apply", "decide_commit"}

\* A request counts the decisions as it gets ready to commit.
LEMMA CountsAll ==
  ASSUME Inv, [Next]_vars, NEW r \in Requests, req'[r] # req[r], req'[r].at \in Committing
  PROVE  /\ req'[r].case \in Cases /\ UNCHANGED decisions
         /\ req'[r].prior = Len(decisions[req'[r].case])
<1>0. /\ req \in [Requests -> Request] /\ req[r] \in Request /\ RequestLinked(r)
      /\ Idle.at \notin Committing
  BY FieldTypes DEF Inv, TypeOK, RequestsLinked, Idle, Committing
<1>1. PICK q \in Requests :
        \/ \E c \in Cases : SubmitRead(q, c) \/ SyncRead(q, c)
        \/ \E k \in CheckIds, t \in Stamps : CallbackReceive(q, k, t)
        \/ \E a \in Reviewers, c \in Cases : DecideRead(q, a, c)
        \/ Handler(q) \/ Crash(q)
  <2>1. ~UNCHANGED vars
    BY DEF vars
  <2>2. ASSUME NEW c \in Cases, NEW tier \in RequestedTiers, StartCase(c, tier) PROVE FALSE
    BY <2>2 DEF StartCase
  <2>3. ASSUME NEW k \in CheckIds, ProviderDecides(k) PROVE FALSE
    BY <2>3 DEF ProviderDecides
  <2> QED BY <2>1, <2>2, <2>3 DEF Next
<1>2. ASSUME NEW c \in Cases, SubmitRead(q, c) \/ SyncRead(q, c) PROVE FALSE
  <2>1. r = q
    BY <1>0, <1>2 DEF SubmitRead, SyncRead
  <2>2. req'[r].at \in {"submit_insert", "sync_check"}
    <3>1. CASE SubmitRead(q, c)
      BY <1>0, <2>1, <3>1 DEF SubmitRead, Request
    <3>2. CASE SyncRead(q, c)
      BY <1>0, <2>1, <3>2 DEF SyncRead, Request
    <3> QED BY <1>2, <3>1, <3>2
  <2> QED BY <2>2 DEF Committing
<1>3. ASSUME NEW k \in CheckIds, NEW t \in Stamps, CallbackReceive(q, k, t) PROVE FALSE
  BY <1>0, <1>3 DEF CallbackReceive, Committing, Request
<1>4. ASSUME Finish(q) PROVE FALSE
  BY <1>0, <1>4 DEF Finish
<1>5. CASE SubmitInsert(q) \/ SubmitAccepted(q) \/ CallbackCheckPending(q) \/ CallbackRollback(q)
           \/ SyncPick(q)
  <2>1. r = q
    BY <1>0, <1>5 DEF SubmitInsert, SubmitAccepted, CallbackCheckPending, CallbackRollback, SyncPick
  <2>2. CASE SubmitInsert(q) \/ SubmitAccepted(q)
    <3>1. req'[r].at \in {"submit_call", "submit_commit"}
      <4>1. CASE SubmitInsert(q)
        BY <1>0, <2>1, <4>1 DEF SubmitInsert, Request
      <4>2. CASE SubmitAccepted(q)
        BY <1>0, <2>1, <4>2 DEF SubmitAccepted, Request
      <4> QED BY <2>2, <4>1, <4>2
    <3> QED BY <3>1 DEF Committing
  <2>3. CASE CallbackCheckPending(q) \/ CallbackRollback(q)
    <3>1. req'[r].at \in {"callback_case", "callback_fail"}
      <4>1. CASE CallbackCheckPending(q)
        BY <1>0, <2>1, <4>1 DEF CallbackCheckPending, Request
      <4>2. CASE CallbackRollback(q)
        BY <1>0, <2>1, <4>2 DEF CallbackRollback, Request
      <4> QED BY <2>3, <4>1, <4>2
    <3> QED BY <3>1 DEF Committing
  <2>4. CASE SyncPick(q)
    BY <1>0, <2>1, <2>4 DEF SyncPick, Committing, Request
  <2> QED BY <1>5, <2>2, <2>3, <2>4
<1>6. CASE CallbackReadCase(q)
  <2>1. r = q
    BY <1>0, <1>6 DEF CallbackReadCase
  <2>2. req[r].case \in Cases
    BY <1>0, <1>6, <2>1 DEF CallbackReadCase, RequestLinked, WithCase
  <2> QED BY <1>0, <1>6, <2>1, <2>2 DEF CallbackReadCase, Request, rows
<1>7. CASE SyncFetch(q)
  <2>1. r = q
    BY <1>0, <1>7 DEF SyncFetch
  <2>2. req[r].case \in Cases
    BY <1>0, <1>7, <2>1 DEF SyncFetch, RequestLinked, WithCase
  <2> QED BY <1>0, <1>7, <2>1, <2>2 DEF SyncFetch, Request, rows
<1>8. ASSUME NEW a \in Reviewers, NEW c \in Cases, DecideRead(q, a, c)
      PROVE  /\ req'[r].case \in Cases /\ UNCHANGED decisions
             /\ req'[r].prior = Len(decisions[req'[r].case])
  <2>1. r = q
    BY <1>0, <1>8 DEF DecideRead
  <2> QED BY <1>0, <1>8, <2>1 DEF DecideRead, Request, rows
<1>9. ASSUME Handler(q),
             ~(SubmitInsert(q) \/ SubmitAccepted(q) \/ CallbackCheckPending(q)
               \/ CallbackRollback(q) \/ SyncPick(q) \/ CallbackReadCase(q) \/ SyncFetch(q))
      PROVE  Finish(q)
  BY <1>9 DEF Handler, SubmitFails, SubmitCommit, SubmitRefused, CallbackUnknownJob,
              CallbackDuplicate, CallbackApply, CallbackMarkFailed, SyncNothing, SyncUndecided,
              SyncApply, SyncRollback, DecideCommit, DecideRollback
<1>10. ASSUME Crash(q) PROVE Finish(q)
  BY <1>10 DEF Crash
<1> QED
  BY <1>1, <1>2, <1>3, <1>4, <1>5, <1>6, <1>7, <1>8, <1>9, <1>10

LEMMA PriorsStep == Inv /\ PriorsBefore /\ [Next]_vars => PriorsBefore'
<1> SUFFICES ASSUME Inv, PriorsBefore, [Next]_vars PROVE PriorsBefore'
  OBVIOUS
<1>0. /\ TypeOK /\ \A r \in Requests : RequestLinked(r)
      /\ \A c \in Cases : decisions[c] \in Seq(DecisionRow) /\ Len(decisions[c]) \in Nat
      /\ \A r \in Requests : req[r].prior \in Nat
  BY FieldTypes, LengthTyped DEF Inv, RequestsLinked, TypeOK
<1>1. \/ UNCHANGED decisions
      \/ \E r \in Requests, to \in KycStates, source \in {"PROVIDER", "ADMIN"},
            k \in CheckIds \cup {0} :
           Appended(r, to, source, k) /\ req[r].at \in Committing /\ req[r].case \in Cases
  <2>1. ASSUME NEW r \in Requests, NEW to \in KycStates, NEW source \in {"PROVIDER", "ADMIN"},
               NEW k \in CheckIds \cup {0}, Judged(r, to, source, k)
        PROVE  Appended(r, to, source, k) /\ req[r].at \in Committing /\ req[r].case \in Cases
    <3>1. req[r].at \in Committing /\ req[r].case \in Cases
      BY <2>1 DEF Judged, Ruled, Writes, Committing
    <3> QED BY <1>0, <2>1, <3>1, JudgedAppends
  <2>2. ASSUME (\E c \in Cases : Started(c)) \/ (\E r \in Requests : Submitted(r))
        PROVE  UNCHANGED decisions
    BY <2>2 DEF Started, Submitted
  <2> QED BY <2>1, <2>2, CaseWriters
<1>2. ASSUME NEW c \in Cases
      PROVE  /\ Len(decisions[c]) <= Len(decisions'[c])
             /\ \A j \in 1..Len(decisions'[c]) : decisions'[c][j].prior < j
  <2>1. \A j \in 1..Len(decisions[c]) : decisions[c][j].prior < j
    BY DEF PriorsBefore
  <2>2. CASE UNCHANGED decisions
    BY <1>0, <2>1, <2>2
  <2>3. ASSUME NEW r \in Requests, NEW to, NEW source, NEW k, Appended(r, to, source, k),
               req[r].at \in Committing, req[r].case \in Cases
        PROVE  /\ Len(decisions[c]) <= Len(decisions'[c])
               /\ \A j \in 1..Len(decisions'[c]) : decisions'[c][j].prior < j
    <3>1. CASE c # req[r].case
      BY <1>0, <2>1, <2>3, <3>1 DEF Appended
    <3>2. CASE c = req[r].case
      <4>1. req[r].prior <= Len(decisions[c])
        BY <2>3, <3>2 DEF PriorsBefore, Committing
      <4>2. /\ Len(decisions'[c]) = Len(decisions[c]) + 1
            /\ \A j \in 1..Len(decisions[c]) : decisions'[c][j] = decisions[c][j]
            /\ decisions'[c][Len(decisions[c]) + 1].prior = req[r].prior
        BY <2>3, <3>2 DEF Appended
      <4> QED BY <1>0, <2>1, <4>1, <4>2
    <3> QED BY <3>1, <3>2
  <2> QED BY <1>1, <2>2, <2>3
<1>3. ASSUME NEW r \in Requests, req'[r].at \in Committing
      PROVE  req'[r].prior <= Len(decisions'[req'[r].case])
  <2>1. CASE req'[r] # req[r]
    BY <1>0, <1>3, <2>1, CountsAll
  <2>2. CASE req'[r] = req[r]
    <3>1. req[r].case \in Cases /\ req[r].prior <= Len(decisions[req[r].case])
      BY <1>0, <1>3, <2>2 DEF PriorsBefore, Committing, RequestLinked, WithCase
    <3>2. Len(decisions[req[r].case]) <= Len(decisions'[req[r].case])
      BY <1>2, <3>1
    <3>3. Len(decisions'[req[r].case]) \in Nat
      <4>1. TypeOK'
        BY TypeStep
      <4> QED BY <3>1, <4>1 DEF TypeOK
    <3> QED BY <1>0, <2>2, <3>1, <3>2, <3>3
  <2> QED BY <2>1, <2>2
<1> QED BY <1>2, <1>3 DEF PriorsBefore, Committing

\* The decision behind the status of a case is one of its latest, until the user
\* submits again: whichever decisions overtake one another, none is in the trail
\* that was surely made after the one the status is from.
THEOREM DecisionBehindStatus == Spec => []StatusHasDecision
<1>1. Init => LastNames /\ PriorsBefore
  BY DEF Init, LastNames, PriorsBefore, NoStatus, Idle
<1>2. Inv /\ LastNames /\ PriorsBefore => StatusHasDecision
  <2> SUFFICES ASSUME Inv, LastNames, PriorsBefore, NEW c \in Cases,
                      cases[c].status \notin {NoStatus, "DRAFT", "SUBMITTED"}
               PROVE  \E i \in 1..Len(decisions[c]) :
                        /\ decisions[c][i].to = cases[c].status
                        /\ \A j \in 1..Len(decisions[c]) : ~Later(c, j, i)
    BY DEF StatusHasDecision
  <2> DEFINE n == Len(decisions[c])
  <2>1. decisions[c] \in Seq(DecisionRow) /\ decisions[c] # <<>> /\ decisions[c][n].to = cases[c].status
    BY DEF Inv, TypeOK, LastNames
  <2>2. n \in 1..n /\ n \in Nat
    BY <2>1
  <2>3. ASSUME NEW j \in 1..n PROVE ~Later(c, j, n)
    <3>1. decisions[c][j] \in DecisionRow /\ j \in Nat /\ j <= n
      BY <2>1, <2>2
    <3>2. decisions[c][j].prior \in Nat /\ decisions[c][j].prior < j
      BY <3>1 DEF PriorsBefore, DecisionRow
    <3> QED BY <2>2, <3>1, <3>2 DEF Later
  <2> QED BY <2>1, <2>2, <2>3
<1> QED
  BY <1>1, <1>2, LastNamesStep, PriorsStep, Linked, PTL DEF Spec

(***************************************************************************)
(* Where illegal moves come from                                           *)
(***************************************************************************)

\* Whenever a case makes a move its machine does not have, a request is
\* committing on a status it read before the case changed: the domain guard
\* is right about what was read and blind to what is there.
THEOREM OnlyStaleCommitsMoveIllegally == Spec => IllegalMovesAreStale
<1>1. Inv /\ [Next]_vars => [\A c \in Cases : LegalMove(c) \/ StaleCommit(c)]_vars
  <2> SUFFICES ASSUME Inv, [Next]_vars, NEW c \in Cases
               PROVE  LegalMove(c) \/ StaleCommit(c)
    OBVIOUS
  <2>1. CASE UNCHANGED <<cases, decisions>>
    BY <2>1 DEF LegalMove
  <2>2. ASSUME NEW d \in Cases, Started(d)
        PROVE  LegalMove(c)
    BY <2>2 DEF Started, Writes, LegalMove
  <2>3. ASSUME NEW r \in Requests, NEW to,
               req[r].at \in {"submit_commit", "callback_apply", "sync_apply", "decide_commit"},
               Writes(req[r].case, to), TransitionAllowed(req[r].seen, to)
        PROVE  LegalMove(c) \/ StaleCommit(c)
    <3>1. CASE c # req[r].case
      BY <2>3, <3>1 DEF Writes, LegalMove
    <3>2. CASE c = req[r].case /\ req[r].seen = cases[c].status
      BY <2>3, <3>2 DEF Writes, LegalMove
    <3>3. CASE c = req[r].case /\ req[r].seen # cases[c].status
      BY <2>3, <3>3 DEF StaleCommit
    <3> QED
      BY <3>1, <3>2, <3>3
  <2>4. ASSUME NEW r \in Requests, Submitted(r)
        PROVE  LegalMove(c) \/ StaleCommit(c)
    BY <2>3, <2>4 DEF Submitted
  <2>5. ASSUME NEW r \in Requests, NEW to \in KycStates, NEW source \in {"PROVIDER", "ADMIN"},
               NEW k \in CheckIds \cup {0}, Judged(r, to, source, k)
        PROVE  LegalMove(c) \/ StaleCommit(c)
    BY <2>3, <2>5 DEF Judged, Ruled
  <2> QED
    BY <2>1, <2>2, <2>4, <2>5, CaseWriters
<1> QED
  BY <1>1, Linked, PTL DEF Spec, IllegalMovesAreStale

(***************************************************************************)
(* Evidence and entitlement                                                *)
(***************************************************************************)

Evidenced(c, d) ==
  d.source = "PROVIDER" =>
    /\ d.check \in CheckIds
    /\ checks[d.check].case = c
    /\ checks[d.check].hasJob
    /\ TargetOf(jobs[d.check]) = d.to

\* Every decision recorded as the provider's can be traced: it names a check
\* of the same case that the provider accepted, and the provider's verdict on
\* that check is the one recorded, whatever callbacks and syncs raced.
THEOREM ProviderEvidence == Spec => []ProviderDecisionsAreTheProviders
<1>1. Init => ProviderDecisionsAreTheProviders
  BY DEF Init, ProviderDecisionsAreTheProviders
<1>2. Inv /\ ProviderDecisionsAreTheProviders /\ [Next]_vars => ProviderDecisionsAreTheProviders'
  <2> SUFFICES ASSUME Inv, ProviderDecisionsAreTheProviders, [Next]_vars,
                      NEW c \in Cases, NEW i \in 1..Len(decisions'[c])
               PROVE  Evidenced(c, decisions[c][i])'
    BY DEF ProviderDecisionsAreTheProviders, Evidenced
  <2>0. TypeOK /\ Frame /\ ChecksLinked /\ decisions[c] \in Seq(DecisionRow) /\ i \in Nat
    BY FrameStep DEF Inv, TypeOK
  <2>1. ASSUME i \in 1..Len(decisions[c]), decisions'[c][i] = decisions[c][i]
        PROVE  Evidenced(c, decisions[c][i])'
    <3> DEFINE d == decisions[c][i]
    <3>1. Evidenced(c, d) /\ d.to \in KycStates
      <4>1. d \in DecisionRow
        BY <2>0, <2>1
      <4>2. d.to \in KycStates
        BY <4>1 DEF DecisionRow
      <4>3. Evidenced(c, d)
        BY <2>1 DEF ProviderDecisionsAreTheProviders, Evidenced
      <4> QED
        BY <4>2, <4>3
    <3>2. d.source = "PROVIDER" =>
            checks[d.check].status # "NONE" /\ jobs[d.check] \notin {"PENDING", NoOutcome}
      BY <2>0, <3>1 DEF Evidenced, ChecksLinked, TargetOf, KycStates, NoStatus, NoOutcome
    <3> HIDE DEF d
    <3>3. d.source = "PROVIDER" => checks'[d.check].case = c /\ checks'[d.check].hasJob
      BY <2>0, <3>1, <3>2 DEF Evidenced, Frame
    <3>4. d.source = "PROVIDER" => jobs'[d.check] = jobs[d.check]
      BY <2>0, <3>1, <3>2 DEF Evidenced, Frame
    <3> QED
      BY <2>1, <3>1, <3>3, <3>4 DEF Evidenced, d
  <2>2. CASE UNCHANGED decisions
    BY <2>1, <2>2
  <2>3. ASSUME NEW r \in Requests, NEW to \in KycStates, NEW source \in {"PROVIDER", "ADMIN"},
               NEW k \in CheckIds \cup {0}, Judged(r, to, source, k)
        PROVE  Evidenced(c, decisions[c][i])'
    <3>0. Appended(r, to, source, k)
      BY <2>0, <2>3, JudgedAppends
    <3>1. CASE c # req[r].case \/ i \in 1..Len(decisions[c])
      BY <2>0, <2>1, <2>3, <3>0, <3>1 DEF Appended
    <3>2. CASE c = req[r].case /\ i = Len(decisions[c]) + 1
      <4>1. decisions'[c][i] = [from |-> req[r].seen, to |-> to, source |-> source, check |-> k,
                   prior |-> req[r].prior]
        BY <3>0, <3>2 DEF Appended
      <4>2. source = "PROVIDER" =>
              /\ k \in CheckIds /\ checks[k].hasJob /\ checks[k].case = c
              /\ jobs[k] \notin {"PENDING", NoOutcome} /\ TargetOf(jobs[k]) = to
        BY <2>3, <3>2 DEF Judged
      <4>3. source = "PROVIDER" =>
              checks'[k].hasJob /\ checks'[k].case = c /\ jobs'[k] = jobs[k]
        BY <2>0, <4>2 DEF Frame, ChecksLinked
      <4> QED
        BY <4>1, <4>2, <4>3 DEF Evidenced
    <3>3. c = req[r].case => Len(decisions'[c]) = Len(decisions[c]) + 1
      BY <3>0 DEF Appended
    <3> QED
      BY <2>0, <3>1, <3>2, <3>3
  <2> QED
    BY <2>2, <2>3, CaseWriters DEF Started, Submitted
<1> QED
  BY <1>1, <1>2, Linked, PTL DEF Spec

\* No one holds a tier without an approval in the history of the case: the
\* withdrawal gate never opens on a case that was only submitted or refused.
THEOREM TierFromApproval == Spec => []TierNeedsApproval
<1>1. Init => TierNeedsApproval
  BY DEF Init, TierNeedsApproval
<1>2. Inv /\ TierNeedsApproval /\ [Next]_vars => TierNeedsApproval'
  <2> SUFFICES ASSUME Inv, TierNeedsApproval, [Next]_vars,
                      NEW c \in Cases, cases'[c].currentTier > 0
               PROVE  \E i \in 1..Len(decisions'[c]) : decisions'[c][i].to = "APPROVED"
    BY DEF TierNeedsApproval
  <2>0. TypeOK /\ decisions[c] \in Seq(DecisionRow) /\ Len(decisions[c]) \in Nat
    BY DEF Inv, TypeOK
  <2>1. CASE cases'[c].currentTier = cases[c].currentTier /\ UNCHANGED decisions
    BY <2>1 DEF TierNeedsApproval
  <2>2. ASSUME NEW d \in Cases, Started(d)
        PROVE  cases'[c].currentTier = cases[c].currentTier /\ UNCHANGED decisions
    BY <2>2 DEF Started, Writes
  <2>3. ASSUME NEW r \in Requests, Submitted(r)
        PROVE  cases'[c].currentTier = cases[c].currentTier /\ UNCHANGED decisions
    BY <2>3 DEF Submitted, Writes
  <2>4. ASSUME NEW r \in Requests, NEW to \in KycStates,
               NEW source \in {"PROVIDER", "ADMIN"}, NEW k \in CheckIds \cup {0},
               Judged(r, to, source, k)
        PROVE  \E i \in 1..Len(decisions'[c]) : decisions'[c][i].to = "APPROVED"
    <3>0. Appended(r, to, source, k)
      BY <2>0, <2>4, JudgedAppends
    <3>1. CASE c = req[r].case /\ to = "APPROVED"
      <4>1. decisions'[c][Len(decisions[c]) + 1].to = to
        BY <2>0, <3>0, <3>1 DEF Appended
      <4>2. Len(decisions[c]) + 1 \in 1..Len(decisions'[c])
        BY <2>0, <3>0, <3>1 DEF Appended
      <4> QED
        BY <3>1, <4>1, <4>2
    <3>2. CASE c # req[r].case \/ to # "APPROVED"
      <4>1. cases'[c].currentTier = cases[c].currentTier
        BY <2>4, <3>2 DEF Judged, Ruled, Writes
      <4>2. PICK i \in 1..Len(decisions[c]) : decisions[c][i].to = "APPROVED"
        BY <4>1 DEF TierNeedsApproval
      <4>3. decisions'[c][i] = decisions[c][i] /\ i \in 1..Len(decisions'[c])
        BY <2>0, <3>0, <4>2 DEF Appended
      <4> QED
        BY <4>2, <4>3
    <3> QED
      BY <3>1, <3>2
  <2>5. CASE UNCHANGED <<cases, decisions>>
    BY <2>1, <2>5
  <2> QED
    BY <2>1, <2>2, <2>3, <2>4, <2>5, CaseWriters
<1> QED
  BY <1>1, <1>2, Linked, PTL DEF Spec

(***************************************************************************)
(* Deliveries, for any number of requests in flight                        *)
(***************************************************************************)

Receiving(r) == req[r].at \in OfCallback

\* A callback in flight holds an event of its own, not settled yet, with the
\* outcome it was delivered with.
EventsHeld ==
  /\ \A r \in Requests : Receiving(r) =>
       events[Event(r)].status = "RECEIVED" /\ events[Event(r)].outcome = req[r].outcome
  /\ \A r, q \in Requests : r # q /\ Receiving(r) /\ Receiving(q) => Event(r) # Event(q)

\* A request goes on with the event it holds, or holds none.
KeepsItsEvent(q) ==
  req'[q].at \in OfCallback =>
    /\ Receiving(q)
    /\ req'[q].check = req[q].check /\ req'[q].stamp = req[q].stamp
    /\ req'[q].outcome = req[q].outcome

Settles(r, s) ==
  /\ Receiving(r)
  /\ SettleEvent(r, s) /\ Finish(r)
  /\ s = "PROCESSED" => CallbackApply(r)

\* An event is stored by a delivery, settled by the request that stored it, or
\* left alone.
EventWrites ==
  \/ UNCHANGED events /\ \A q \in Requests : KeepsItsEvent(q)
  \/ \E r \in Requests, k \in CheckIds, t \in Stamps : CallbackReceive(r, k, t)
  \/ \E r \in Requests, s \in {"IGNORED", "DUPLICATE", "PROCESSED", "FAILED"} : Settles(r, s)

LEMMA EventWriters == ASSUME Inv, [Next]_vars PROVE EventWrites
<1>0. TypeOK
  BY DEF Inv
<1>1. CASE UNCHANGED <<events, req>>
  BY <1>1 DEF EventWrites, KeepsItsEvent, Receiving
<1>2. ASSUME NEW r \in Requests,
             CallbackUnknownJob(r) \/ CallbackDuplicate(r) \/ CallbackApply(r) \/ CallbackMarkFailed(r)
      PROVE  EventWrites
  BY <1>2 DEF CallbackUnknownJob, CallbackDuplicate, CallbackApply, CallbackMarkFailed,
              EventWrites, Settles, Receiving, OfCallback
<1>3. ASSUME NEW r \in Requests, UNCHANGED events,
             \A q \in Requests \ {r} : req'[q] = req[q], KeepsItsEvent(r)
      PROVE  EventWrites
  BY <1>3 DEF EventWrites, KeepsItsEvent, Receiving
<1>4. ASSUME NEW r \in Requests,
             \/ \E c \in Cases : SubmitRead(r, c) \/ SyncRead(r, c)
             \/ \E a \in Reviewers, c \in Cases : DecideRead(r, a, c)
             \/ SubmitInsert(r) \/ SubmitAccepted(r) \/ SyncPick(r) \/ SyncFetch(r)
             \/ CallbackCheckPending(r) \/ CallbackReadCase(r) \/ CallbackRollback(r)
      PROVE  EventWrites
  <2>1. UNCHANGED events /\ \A q \in Requests \ {r} : req'[q] = req[q]
    BY <1>0, <1>4 DEF SubmitRead, SyncRead, DecideRead, SubmitInsert, SubmitAccepted, SyncPick,
       SyncFetch, CallbackCheckPending, CallbackReadCase, CallbackRollback, rows, TypeOK
  <2>2. req[r] \in Request
    BY <1>0, FieldTypes
  <2>3. CASE \/ \E c \in Cases : SubmitRead(r, c) \/ SyncRead(r, c)
             \/ \E a \in Reviewers, c \in Cases : DecideRead(r, a, c)
             \/ SubmitInsert(r) \/ SubmitAccepted(r) \/ SyncPick(r) \/ SyncFetch(r)
    <3>1. req'[r].at \notin OfCallback
      <4>1. ASSUME NEW c \in Cases, SubmitRead(r, c) PROVE req'[r].at \notin OfCallback
        BY <1>0, <2>2, <4>1 DEF SubmitRead, OfCallback, TypeOK, Request
      <4>7. ASSUME NEW c \in Cases, SyncRead(r, c) PROVE req'[r].at \notin OfCallback
        BY <1>0, <2>2, <4>7 DEF SyncRead, OfCallback, TypeOK, Request
      <4>2. CASE \E a \in Reviewers, c \in Cases : DecideRead(r, a, c)
        BY <1>0, <2>2, <4>2 DEF DecideRead, OfCallback, TypeOK, Request
      <4>3. CASE SubmitInsert(r)
        BY <1>0, <2>2, <4>3 DEF SubmitInsert, OfCallback, TypeOK, Request
      <4>4. CASE SubmitAccepted(r)
        BY <1>0, <2>2, <4>4 DEF SubmitAccepted, OfCallback, TypeOK, Request
      <4>5. CASE SyncPick(r)
        BY <1>0, <2>2, <4>5 DEF SyncPick, OfCallback, TypeOK, Request
      <4>6. CASE SyncFetch(r)
        BY <1>0, <2>2, <4>6 DEF SyncFetch, OfCallback, TypeOK, Request
      <4> QED
        BY <2>3, <4>1, <4>2, <4>3, <4>4, <4>5, <4>6, <4>7
    <3> QED
      BY <1>3, <2>1, <3>1 DEF KeepsItsEvent
  <2>4. CASE CallbackCheckPending(r) \/ CallbackReadCase(r) \/ CallbackRollback(r)
    <3>1. KeepsItsEvent(r)
      <4>1. CASE CallbackCheckPending(r)
        <5> DEFINE row == [req[r] EXCEPT !.at = "callback_case", !.case = checks[req[r].check].case]
        <5>1. req'[r] = row
          BY <1>0, <4>1 DEF CallbackCheckPending, TypeOK
        <5>2. row.check = req[r].check /\ row.stamp = req[r].stamp /\ row.outcome = req[r].outcome
          BY <2>2 DEF Request
        <5> QED
          BY <4>1, <5>1, <5>2 DEF CallbackCheckPending, KeepsItsEvent, Receiving, OfCallback
      <4>2. CASE CallbackReadCase(r)
        <5> DEFINE row == [req[r] EXCEPT !.at = "callback_apply", !.seen = cases[req[r].case].status,
                                         !.prior = Len(decisions[req[r].case])]
        <5>1. req'[r] = row
          BY <1>0, <4>2 DEF CallbackReadCase, TypeOK
        <5>2. row.check = req[r].check /\ row.stamp = req[r].stamp /\ row.outcome = req[r].outcome
          BY <2>2 DEF Request
        <5> QED
          BY <4>2, <5>1, <5>2 DEF CallbackReadCase, KeepsItsEvent, Receiving, OfCallback
      <4>3. CASE CallbackRollback(r)
        <5> DEFINE row == [req[r] EXCEPT !.at = "callback_fail"]
        <5>1. req'[r] = row
          BY <1>0, <4>3 DEF CallbackRollback, TypeOK
        <5>2. row.check = req[r].check /\ row.stamp = req[r].stamp /\ row.outcome = req[r].outcome
          BY <2>2 DEF Request
        <5> QED
          BY <4>3, <5>1, <5>2 DEF CallbackRollback, KeepsItsEvent, Receiving, OfCallback
      <4> QED
        BY <2>4, <4>1, <4>2, <4>3
    <3> QED
      BY <1>3, <2>1, <3>1
  <2> QED
    BY <1>4, <2>3, <2>4
<1>5. ASSUME NEW r \in Requests,
             \/ SubmitFails(r) \/ SubmitCommit(r) \/ SubmitRefused(r) \/ SyncNothing(r)
             \/ SyncUndecided(r) \/ SyncApply(r) \/ SyncRollback(r)
             \/ DecideCommit(r) \/ DecideRollback(r) \/ Crash(r)
      PROVE  EventWrites
  <2>1. UNCHANGED events /\ Finish(r)
    BY <1>5 DEF SubmitFails, SubmitCommit, SubmitRefused, SyncNothing, SyncUndecided, SyncApply,
       SyncRollback, DecideCommit, DecideRollback, Crash, rows
  <2>2. req'[r].at \notin OfCallback /\ \A q \in Requests \ {r} : req'[q] = req[q]
    BY <1>0, <2>1 DEF Finish, Idle, OfCallback, TypeOK
  <2> QED
    BY <1>3, <2>1, <2>2 DEF KeepsItsEvent
<1>6. ASSUME NEW r \in Requests, NEW k \in CheckIds, NEW t \in Stamps, CallbackReceive(r, k, t)
      PROVE  EventWrites
  BY <1>6 DEF EventWrites
<1>7. ASSUME NEW k \in CheckIds, ProviderDecides(k) PROVE EventWrites
  BY <1>1, <1>7 DEF ProviderDecides, rows
<1>8. ASSUME NEW c \in Cases, NEW tier \in RequestedTiers, StartCase(c, tier) PROVE EventWrites
  BY <1>1, <1>8 DEF StartCase
<1> QED
  BY <1>1, <1>2, <1>4, <1>5, <1>6, <1>7, <1>8 DEF Next, Handler, vars

\* What an event is after a delivery, and after its settling.
Stored(r, k, t) ==
  /\ events[<<k, t>>].status = "NONE"
  /\ events'[<<k, t>>].status = "RECEIVED" /\ events'[<<k, t>>].outcome = req'[r].outcome
  /\ req'[r].check = k /\ req'[r].stamp = t
  /\ ~Receiving(r)
  /\ \A e \in CheckIds \X Stamps : e # <<k, t>> => events'[e] = events[e]
  /\ \A q \in Requests \ {r} : req'[q] = req[q]

LEMMA DeliveryStores ==
  ASSUME TypeOK, NEW r \in Requests, NEW k \in CheckIds, NEW t \in Stamps, CallbackReceive(r, k, t)
  PROVE  Stored(r, k, t)
<1>1. PICK o \in {"PENDING", jobs[k]} :
        /\ events' = [events EXCEPT ![<<k, t>>] = [status |-> "RECEIVED", outcome |-> o]]
        /\ req' = [req EXCEPT ![r] = [@ EXCEPT !.at = "callback_check", !.check = k,
                                             !.stamp = t, !.outcome = o]]
  BY DEF CallbackReceive
<1>2. <<k, t>> \in CheckIds \X Stamps /\ req[r] \in Request
  BY FieldTypes
<1>3. /\ events'[<<k, t>>] = [status |-> "RECEIVED", outcome |-> o]
      /\ \A e \in CheckIds \X Stamps : e # <<k, t>> => events'[e] = events[e]
  BY <1>1, <1>2 DEF TypeOK
<1>4. /\ req'[r].check = k /\ req'[r].stamp = t /\ req'[r].outcome = o
      /\ \A q \in Requests \ {r} : req'[q] = req[q]
  BY <1>1, <1>2 DEF TypeOK, Request
<1> QED
  BY <1>3, <1>4 DEF CallbackReceive, NewEvent, Receiving, Idle, OfCallback, Stored

LEMMA SettlingSettles ==
  ASSUME TypeOK, \A q \in Requests : RequestLinked(q), EventsHeld, NEW r \in Requests,
         NEW s \in {"IGNORED", "DUPLICATE", "PROCESSED", "FAILED"}, Settles(r, s)
  PROVE  /\ Event(r) \in CheckIds \X Stamps
         /\ events'[Event(r)].status = s /\ events'[Event(r)].outcome = events[Event(r)].outcome
         /\ \A e \in CheckIds \X Stamps : e # Event(r) => events'[e] = events[e]
         /\ req'[r].at \notin OfCallback
         /\ \A q \in Requests \ {r} : req'[q] = req[q]
<1>1. req[r].check \in CheckIds /\ req[r].stamp \in Stamps
  BY DEF Settles, Receiving, RequestLinked, WithCheck, OfCallback
<1>2. Event(r) \in CheckIds \X Stamps
  BY <1>1 DEF Event
<1>3. events[Event(r)] \in EventRow
  BY <1>2 DEF TypeOK
<1> DEFINE e0 == Event(r)
<1>4. events' = [events EXCEPT ![e0] = [@ EXCEPT !.status = s]] /\ req' = [req EXCEPT ![r] = Idle]
  BY DEF Settles, SettleEvent, Finish
<1> HIDE DEF e0
<1>5. /\ events'[e0] = [events[e0] EXCEPT !.status = s]
      /\ \A e \in CheckIds \X Stamps : e # e0 => events'[e] = events[e]
  BY <1>2, <1>4 DEF TypeOK, e0
<1>6. events'[e0].status = s /\ events'[e0].outcome = events[e0].outcome
  BY <1>3, <1>5 DEF EventRow, e0
<1>7. req'[r].at \notin OfCallback /\ \A q \in Requests \ {r} : req'[q] = req[q]
  BY <1>4 DEF TypeOK, Idle, OfCallback
<1> QED
  BY <1>2, <1>5, <1>6, <1>7 DEF e0

LEMMA EventsHeldStep == Inv /\ EventsHeld /\ [Next]_vars => EventsHeld'
<1> SUFFICES ASSUME Inv, EventsHeld, [Next]_vars PROVE EventsHeld'
  OBVIOUS
<1>0. TypeOK /\ \A q \in Requests : RequestLinked(q)
  BY DEF Inv, RequestsLinked
<1>1. CASE UNCHANGED events /\ \A q \in Requests : KeepsItsEvent(q)
  BY <1>1 DEF EventsHeld, KeepsItsEvent, Receiving, Event
<1>2. ASSUME NEW r \in Requests, NEW k \in CheckIds, NEW t \in Stamps, CallbackReceive(r, k, t)
      PROVE  EventsHeld'
  <2>0. Stored(r, k, t)
    BY <1>0, <1>2, DeliveryStores
  <2>1. Event(r)' = <<k, t>>
    BY <2>0 DEF Event, Stored
  <2>2. ASSUME NEW q \in Requests \ {r}, Receiving(q)'
        PROVE  /\ Receiving(q) /\ Event(q)' = Event(q) /\ Event(q) # <<k, t>>
               /\ events'[Event(q)] = events[Event(q)] /\ req'[q] = req[q]
    <3>1. req'[q] = req[q] /\ Receiving(q) /\ Event(q)' = Event(q)
      BY <2>0, <2>2 DEF Receiving, Event, Stored
    <3>2. Event(q) \in CheckIds \X Stamps
      BY <1>0, <3>1 DEF Receiving, RequestLinked, WithCheck, OfCallback, Event
    <3>3. Event(q) # <<k, t>>
      BY <2>0, <3>1 DEF EventsHeld, Stored
    <3> QED
      BY <2>0, <3>1, <3>2, <3>3 DEF Stored
  <2>3. ASSUME NEW q \in Requests, Receiving(q)'
        PROVE  (events[Event(q)].status = "RECEIVED" /\ events[Event(q)].outcome = req[q].outcome)'
    <3>1. CASE q = r
      BY <2>0, <2>1, <3>1 DEF Stored
    <3>2. CASE q # r
      BY <2>2, <2>3, <3>2 DEF EventsHeld
    <3> QED
      BY <3>1, <3>2
  <2>4. ASSUME NEW p \in Requests, NEW q \in Requests, p # q, Receiving(p)', Receiving(q)'
        PROVE  Event(p)' # Event(q)'
    BY <2>1, <2>2, <2>4 DEF EventsHeld
  <2> QED
    BY <2>3, <2>4 DEF EventsHeld
<1>3. ASSUME NEW r \in Requests, NEW s \in {"IGNORED", "DUPLICATE", "PROCESSED", "FAILED"}, Settles(r, s)
      PROVE  EventsHeld'
  <2>1. ASSUME NEW q \in Requests, Receiving(q)'
        PROVE  /\ Receiving(q) /\ Event(q)' = Event(q) /\ q # r
               /\ events'[Event(q)] = events[Event(q)] /\ req'[q] = req[q]
    <3>1. q # r /\ req'[q] = req[q]
      BY <1>0, <1>3, <2>1, SettlingSettles DEF Receiving
    <3>2. Receiving(q) /\ Event(q)' = Event(q)
      BY <2>1, <3>1 DEF Receiving, Event
    <3>3. Event(q) \in CheckIds \X Stamps
      BY <1>0, <3>2 DEF Receiving, RequestLinked, WithCheck, OfCallback, Event
    <3>4. Event(q) # Event(r)
      BY <1>3, <3>1, <3>2 DEF EventsHeld, Settles
    <3> QED
      BY <1>0, <1>3, <3>1, <3>2, <3>3, <3>4, SettlingSettles
  <2> QED
    BY <2>1 DEF EventsHeld
<1> QED
  BY <1>1, <1>2, <1>3, EventWriters DEF EventWrites

LEMMA EventsAlwaysHeld == Spec => [](Inv /\ EventsHeld)
<1>1. Init => EventsHeld
  BY DEF Init, EventsHeld, Receiving, OfCallback, Idle
<1> QED
  BY <1>1, EventsHeldStep, Linked, PTL DEF Spec

\* A settled event is never taken up again, however many deliveries, retries
\* and instances there are: the request that stored it is the only one that
\* settles it.
THEOREM DeliveriesSettleOnce == Spec => EventsSettleOnce
<1>1. Inv /\ EventsHeld /\ [Next]_vars =>
        [\A e \in CheckIds \X Stamps :
           events[e].status \notin {"NONE", "RECEIVED"} => events'[e] = events[e]]_vars
  <2> SUFFICES ASSUME Inv, EventsHeld, [Next]_vars, NEW e \in CheckIds \X Stamps,
                      events[e].status \notin {"NONE", "RECEIVED"}
               PROVE  events'[e] = events[e]
    OBVIOUS
  <2>0. TypeOK /\ \A q \in Requests : RequestLinked(q)
    BY DEF Inv, RequestsLinked
  <2>1. CASE UNCHANGED events
    BY <2>1
  <2>2. ASSUME NEW r \in Requests, NEW k \in CheckIds, NEW t \in Stamps, CallbackReceive(r, k, t)
        PROVE  events'[e] = events[e]
    BY <2>0, <2>2, DeliveryStores DEF Stored
  <2>3. ASSUME NEW r \in Requests, NEW s \in {"IGNORED", "DUPLICATE", "PROCESSED", "FAILED"}, Settles(r, s)
        PROVE  events'[e] = events[e]
    <3>1. events[Event(r)].status = "RECEIVED"
      BY <2>3 DEF Settles, EventsHeld
    <3> QED
      BY <2>0, <2>3, <3>1, SettlingSettles
  <2> QED
    BY <2>1, <2>2, <2>3, EventWriters DEF EventWrites
<1> QED
  BY <1>1, EventsAlwaysHeld, PTL DEF Spec, EventsSettleOnce

(***************************************************************************)
(* One request at a time: what a request has read is still so              *)
(***************************************************************************)

OneByOne == \A r, q \in Requests : r = q

Watching == WithCase \ {"callback_case"}
Asking == Judging \cup {"submit_call", "submit_commit"}

UpToDate(r) ==
  LET q == req[r] IN
  /\ q.at \in Watching => q.seen = cases[q.case].status
  /\ q.at \in Asking => checks[q.check].status = "PENDING"

Turns == \A r \in Requests : UpToDate(r)

\* A request that does not go on has nothing to be up to date about.
LEMMA FinishUpToDate ==
  ASSUME TypeOK, NEW r \in Requests, Finish(r) PROVE UpToDate(r)'
<1>1. req'[r].at = "idle"
  BY DEF TypeOK, Finish, Idle
<1> QED
  BY <1>1 DEF UpToDate, Watching, Asking, WithCase, Judging

LEMMA SubmitUpToDate ==
  ASSUME Inv, NEW r \in Requests, UpToDate(r), SubmitInsert(r) \/ SubmitAccepted(r)
  PROVE  UpToDate(r)'
<1>0. TypeOK /\ req[r] \in Request /\ RequestLinked(r)
  BY FieldTypes DEF Inv, RequestsLinked
<1>1. CASE SubmitInsert(r)
  <2>1. PICK k \in CheckIds :
          /\ checks' = [checks EXCEPT ![k] = [@ EXCEPT !.status = "PENDING", !.case = req[r].case]]
          /\ req' = [req EXCEPT ![r] = [@ EXCEPT !.at = "submit_call", !.check = k]]
    BY <1>1 DEF SubmitInsert
  <2>2. checks[k] \in CheckRow
    BY <1>0 DEF TypeOK
  <2>3. checks'[k].status = "PENDING"
    BY <1>0, <2>1, <2>2 DEF TypeOK, CheckRow
  <2>4. /\ req'[r].at = "submit_call" /\ req'[r].check = k
        /\ req'[r].case = req[r].case /\ req'[r].seen = req[r].seen
    BY <1>0, <2>1 DEF TypeOK, Request
  <2> QED
    BY <1>1, <2>3, <2>4 DEF SubmitInsert, UpToDate, Watching, Asking, WithCase, Judging
<1>2. CASE SubmitAccepted(r)
  <2>1. /\ req'[r].at = "submit_commit" /\ req'[r].check = req[r].check
        /\ req'[r].case = req[r].case /\ req'[r].seen = req[r].seen
    BY <1>0, <1>2 DEF SubmitAccepted, TypeOK, Request
  <2> QED
    BY <1>2, <2>1 DEF SubmitAccepted, UpToDate, Watching, Asking, WithCase, Judging, rows
<1> QED
  BY <1>1, <1>2

LEMMA ReadUpToDate ==
  ASSUME Inv, NEW r \in Requests, UpToDate(r),
         \/ \E c \in Cases : SubmitRead(r, c) \/ SyncRead(r, c)
         \/ \E a \in Reviewers, c \in Cases : DecideRead(r, a, c)
         \/ \E k \in CheckIds, t \in Stamps : CallbackReceive(r, k, t)
  PROVE  UpToDate(r)'
<1>0. TypeOK /\ req[r] \in Request
  BY FieldTypes DEF Inv
<1>1. ASSUME NEW c \in Cases, NEW s \in {"submit_insert", "sync_check"},
             req' = [req EXCEPT ![r] = [@ EXCEPT !.at = s, !.case = c, !.seen = cases[c].status]],
             UNCHANGED rows
      PROVE  UpToDate(r)'
  <2>1. req'[r].at = s /\ req'[r].case = c /\ req'[r].seen = cases[c].status
    BY <1>0, <1>1 DEF TypeOK, Request
  <2> QED
    BY <1>1, <2>1 DEF UpToDate, Watching, Asking, WithCase, Judging, rows
<1>2. ASSUME NEW c \in Cases, SubmitRead(r, c) PROVE UpToDate(r)'
  BY <1>1, <1>2 DEF SubmitRead
<1>3. ASSUME NEW c \in Cases, SyncRead(r, c) PROVE UpToDate(r)'
  BY <1>1, <1>3 DEF SyncRead
<1>4. ASSUME NEW a \in Reviewers, NEW c \in Cases, DecideRead(r, a, c) PROVE UpToDate(r)'
  <2>1. req'[r].at = "decide_commit" /\ req'[r].case = c /\ req'[r].seen = cases[c].status
    BY <1>0, <1>4 DEF DecideRead, TypeOK, Request
  <2> QED
    BY <1>4, <2>1 DEF DecideRead, UpToDate, Watching, Asking, WithCase, Judging, rows
<1>5. ASSUME NEW k \in CheckIds, NEW t \in Stamps, CallbackReceive(r, k, t) PROVE UpToDate(r)'
  <2>1. req'[r].at = "callback_check"
    <3>1. PICK o \in {"PENDING", jobs[k]} :
            req' = [req EXCEPT ![r] = [@ EXCEPT !.at = "callback_check", !.check = k,
                                                 !.stamp = t, !.outcome = o]]
      BY <1>5 DEF CallbackReceive
    <3> QED
      BY <1>0, <3>1 DEF TypeOK, Request
  <2> QED
    BY <2>1 DEF UpToDate, Watching, Asking, WithCase, Judging
<1> QED
  BY <1>2, <1>3, <1>4, <1>5

LEMMA CallbackUpToDate ==
  ASSUME Inv, NEW r \in Requests, UpToDate(r),
         CallbackCheckPending(r) \/ CallbackReadCase(r) \/ CallbackRollback(r)
  PROVE  UpToDate(r)'
<1>0. TypeOK /\ req[r] \in Request /\ RequestLinked(r)
  BY FieldTypes DEF Inv, RequestsLinked
<1>1. CASE CallbackCheckPending(r)
  <2>1. req'[r].at = "callback_case" /\ req'[r].check = req[r].check
    BY <1>0, <1>1 DEF CallbackCheckPending, TypeOK, Request
  <2> QED
    BY <1>1, <2>1 DEF CallbackCheckPending, AlreadyDecided, UpToDate, Watching, Asking, Judging, rows
<1>2. CASE CallbackReadCase(r)
  <2>1. /\ req'[r].at = "callback_apply" /\ req'[r].check = req[r].check
        /\ req'[r].case = req[r].case /\ req'[r].seen = cases[req[r].case].status
    BY <1>0, <1>2 DEF CallbackReadCase, TypeOK, Request
  <2> QED
    BY <1>2, <2>1 DEF CallbackReadCase, UpToDate, Asking, Judging, rows
<1>3. CASE CallbackRollback(r)
  <2>1. req'[r].at = "callback_fail"
    BY <1>0, <1>3 DEF CallbackRollback, TypeOK, Request
  <2> QED
    BY <2>1 DEF UpToDate, Watching, Asking, WithCase, Judging
<1> QED
  BY <1>1, <1>2, <1>3

LEMMA SyncUpToDate ==
  ASSUME Inv, NEW r \in Requests, UpToDate(r), SyncPick(r) \/ SyncFetch(r)
  PROVE  UpToDate(r)'
<1>0. TypeOK /\ req[r] \in Request /\ RequestLinked(r)
  BY FieldTypes DEF Inv, RequestsLinked
<1>1. CASE SyncPick(r)
  <2>1. PICK k \in CheckIds :
          /\ Refreshable(req[r].case, k)
          /\ req' = [req EXCEPT ![r] = [@ EXCEPT !.at = "sync_fetch", !.check = k]]
    BY <1>1 DEF SyncPick
  <2>2. /\ req'[r].at = "sync_fetch" /\ req'[r].check = k
        /\ req'[r].case = req[r].case /\ req'[r].seen = req[r].seen
    BY <1>0, <2>1 DEF TypeOK, Request
  <2>3. checks[k].status = "PENDING"
    BY <2>1 DEF Refreshable, NewestPending, PendingChecks
  <2> QED
    BY <1>1, <2>2, <2>3 DEF SyncPick, UpToDate, Watching, Asking, WithCase, Judging, rows
<1>2. CASE SyncFetch(r)
  <2>1. /\ req'[r].at = "sync_apply" /\ req'[r].check = req[r].check
        /\ req'[r].case = req[r].case /\ req'[r].seen = req[r].seen
    BY <1>0, <1>2 DEF SyncFetch, TypeOK, Request
  <2> QED
    BY <1>2, <2>1 DEF SyncFetch, UpToDate, Watching, Asking, WithCase, Judging, rows
<1> QED
  BY <1>1, <1>2

LEMMA TurnsStep == ASSUME OneByOne, Inv, Turns, [Next]_vars PROVE Turns'
<1> SUFFICES ASSUME NEW r \in Requests PROVE UpToDate(r)'
  BY DEF Turns
<1>0. TypeOK /\ RequestLinked(r) /\ UpToDate(r)
  BY DEF Inv, RequestsLinked, Turns
<1>1. CASE UNCHANGED <<cases, checks, req>>
  BY <1>0, <1>1 DEF UpToDate
<1>2. ASSUME NEW c \in Cases, NEW tier \in RequestedTiers, StartCase(c, tier) PROVE UpToDate(r)'
  <2>1. \A d \in Cases : cases[d].status # NoStatus => cases'[d] = cases[d]
    BY <1>0, <1>2 DEF StartCase, TypeOK
  <2>2. UNCHANGED <<checks, req>>
    BY <1>2 DEF StartCase
  <2> QED
    BY <1>0, <2>1, <2>2 DEF UpToDate, RequestLinked, Watching
<1>3. ASSUME NEW k \in CheckIds, ProviderDecides(k) PROVE UpToDate(r)'
  BY <1>1, <1>3 DEF ProviderDecides, rows
<1>4. ASSUME NEW q \in Requests,
             \/ SubmitFails(q) \/ SubmitCommit(q) \/ SubmitRefused(q)
             \/ CallbackUnknownJob(q) \/ CallbackDuplicate(q) \/ CallbackApply(q) \/ CallbackMarkFailed(q)
             \/ SyncNothing(q) \/ SyncUndecided(q) \/ SyncApply(q) \/ SyncRollback(q)
             \/ DecideCommit(q) \/ DecideRollback(q) \/ Crash(q)
      PROVE  UpToDate(r)'
  <2>1. Finish(r)
    BY <1>4 DEF OneByOne, SubmitFails, SubmitCommit, SubmitRefused, CallbackUnknownJob,
       CallbackDuplicate, CallbackApply, CallbackMarkFailed, SyncNothing, SyncUndecided,
       SyncApply, SyncRollback, DecideCommit, DecideRollback, Crash
  <2> QED
    BY <1>0, <2>1, FinishUpToDate
<1>5. ASSUME NEW q \in Requests,
             \/ SubmitInsert(q) \/ SubmitAccepted(q)
             \/ CallbackCheckPending(q) \/ CallbackReadCase(q) \/ CallbackRollback(q)
             \/ SyncPick(q) \/ SyncFetch(q)
      PROVE  UpToDate(r)'
  <2>1. q = r
    BY DEF OneByOne
  <2> QED
    BY <1>0, <1>5, <2>1, SubmitUpToDate, CallbackUpToDate, SyncUpToDate
<1>6. ASSUME NEW q \in Requests,
             \/ \E c \in Cases : SubmitRead(q, c) \/ SyncRead(q, c)
             \/ \E a \in Reviewers, c \in Cases : DecideRead(q, a, c)
             \/ \E k \in CheckIds, t \in Stamps : CallbackReceive(q, k, t)
      PROVE  UpToDate(r)'
  <2>1. q = r
    BY DEF OneByOne
  <2> QED
    BY <1>0, <1>6, <2>1, ReadUpToDate
<1> QED
  BY <1>1, <1>2, <1>3, <1>4, <1>5, <1>6 DEF Next, Handler, vars

LEMMA TurnsAlways == ASSUME OneByOne PROVE Spec => [](Inv /\ EventsHeld /\ Turns)
<1>1. Init => Turns
  BY DEF Init, Turns, UpToDate, Watching, Asking, WithCase, Judging, Idle
<1>2. Inv /\ Turns /\ [Next]_vars => Turns'
  BY TurnsStep
<1> QED
  BY <1>1, <1>2, EventsAlwaysHeld, PTL DEF Spec

\* A check once settled is never written again.
LEMMA ChecksKeep ==
  ASSUME Inv, Turns, [Next]_vars, NEW k \in CheckIds, checks[k].status \in Done
  PROVE  checks'[k].status = checks[k].status /\ checks'[k].outcome = checks[k].outcome
<1>0. TypeOK /\ (\A r \in Requests : RequestLinked(r)) /\ checks[k] \in CheckRow
  BY FieldTypes DEF Inv, RequestsLinked
<1>1. CASE UNCHANGED checks
  BY <1>1
<1>2. ASSUME NEW r \in Requests, SubmitInsert(r) PROVE checks'[k] = checks[k]
  <2>1. PICK j \in CheckIds :
          /\ NextCheck(j)
          /\ checks' = [checks EXCEPT ![j] = [@ EXCEPT !.status = "PENDING", !.case = req[r].case]]
    BY <1>2 DEF SubmitInsert
  <2>2. checks[j].status = "NONE"
    BY <2>1, BoundAssumption DEF NextCheck, CheckIds
  <2> QED
    BY <1>0, <2>1, <2>2 DEF TypeOK, Done
<1>3. ASSUME NEW r \in Requests, SubmitFails(r) \/ CallbackApply(r) \/ SyncApply(r)
      PROVE  checks'[k] = checks[k]
  <2>1. checks[req[r].check].status = "PENDING"
    BY <1>3 DEF SubmitFails, CallbackApply, SyncApply, Turns, UpToDate, Asking, Judging
  <2>2. k # req[r].check
    BY <2>1 DEF Done
  <2> QED
    BY <1>0, <1>3, <2>2 DEF SubmitFails, CallbackApply, SyncApply, ApplyDecision, TypeOK
<1>4. ASSUME NEW r \in Requests, SubmitCommit(r)
      PROVE  checks'[k].status = checks[k].status /\ checks'[k].outcome = checks[k].outcome
  BY <1>0, <1>4 DEF SubmitCommit, TypeOK, CheckRow
<1>5. ASSUME NEW r \in Requests,
             \/ \E c \in Cases : SubmitRead(r, c) \/ SyncRead(r, c)
             \/ \E j \in CheckIds, t \in Stamps : CallbackReceive(r, j, t)
             \/ \E a \in Reviewers, c \in Cases : DecideRead(r, a, c)
             \/ SubmitAccepted(r) \/ SubmitRefused(r) \/ CallbackUnknownJob(r) \/ CallbackDuplicate(r)
             \/ CallbackCheckPending(r) \/ CallbackReadCase(r) \/ CallbackRollback(r)
             \/ CallbackMarkFailed(r) \/ SyncPick(r) \/ SyncNothing(r) \/ SyncFetch(r)
             \/ SyncUndecided(r) \/ SyncRollback(r) \/ DecideCommit(r)
             \/ DecideRollback(r) \/ Crash(r)
      PROVE  UNCHANGED checks
  BY <1>5 DEF SubmitRead, SyncRead, CallbackReceive, DecideRead, SubmitAccepted,
              SubmitRefused, CallbackUnknownJob,
              CallbackDuplicate, CallbackCheckPending, CallbackReadCase, CallbackRollback,
              CallbackMarkFailed, SyncPick, SyncNothing, SyncFetch, SyncUndecided, SyncRollback,
              DecideCommit, DecideRollback, Crash, rows
<1>6. ASSUME NEW j \in CheckIds, ProviderDecides(j) PROVE UNCHANGED checks
  BY <1>6 DEF ProviderDecides, rows
<1>7. ASSUME NEW c \in Cases, NEW tier \in RequestedTiers, StartCase(c, tier) PROVE UNCHANGED checks
  BY <1>7 DEF StartCase
<1> QED
  BY <1>1, <1>2, <1>3, <1>4, <1>5, <1>6, <1>7 DEF Next, Handler, vars

(***************************************************************************)
(* One request at a time: verdicts                                         *)
(***************************************************************************)

\* A decision that names a check names a settled one.
SettledEvidence ==
  \A c \in Cases : \A i \in 1..Len(decisions[c]) :
    LET k == decisions[c][i].check IN
    k # 0 => k \in CheckIds /\ checks[k].status \in Done

\* A step leaves the decisions alone, or a request appends one to its case.
LEMMA DecisionWriters ==
  ASSUME Inv, [Next]_vars
  PROVE  \/ UNCHANGED decisions
         \/ \E r \in Requests, to \in KycStates, source \in {"PROVIDER", "ADMIN"},
               k \in CheckIds \cup {0} : Judged(r, to, source, k) /\ Appended(r, to, source, k)
BY CaseWriters, JudgedAppends DEF Started, Submitted, Inv

\* The check a request judges by is pending, and settled by the judgement.
LEMMA JudgedCheck ==
  ASSUME Turns, NEW r \in Requests, NEW to \in KycStates, NEW source \in {"PROVIDER", "ADMIN"},
         NEW k \in CheckIds \cup {0}, Judged(r, to, source, k), k # 0
  PROVE  k \in CheckIds /\ checks[k].status = "PENDING" /\ checks'[k].status \in Done
BY DEF Judged, Turns, UpToDate, Asking, Judging

LEMMA SettledEvidenceStep ==
  Inv /\ Turns /\ SettledEvidence /\ [Next]_vars => SettledEvidence'
<1> SUFFICES ASSUME Inv, Turns, SettledEvidence, [Next]_vars,
                    NEW c \in Cases, NEW i \in 1..Len(decisions'[c]), decisions'[c][i].check # 0
             PROVE  /\ decisions'[c][i].check \in CheckIds
                    /\ checks'[decisions'[c][i].check].status \in Done
  BY DEF SettledEvidence
<1>0. decisions[c] \in Seq(DecisionRow) /\ i \in Nat
  BY DEF Inv, TypeOK
<1>1. ASSUME i \in 1..Len(decisions[c]), decisions'[c][i] = decisions[c][i]
      PROVE  /\ decisions'[c][i].check \in CheckIds
             /\ checks'[decisions'[c][i].check].status \in Done
  <2>1. decisions[c][i].check \in CheckIds /\ checks[decisions[c][i].check].status \in Done
    BY <1>1 DEF SettledEvidence
  <2> QED
    BY <1>1, <2>1, ChecksKeep
<1>2. CASE UNCHANGED decisions
  BY <1>1, <1>2
<1>3. ASSUME NEW r \in Requests, NEW to \in KycStates, NEW source \in {"PROVIDER", "ADMIN"},
             NEW k \in CheckIds \cup {0}, Judged(r, to, source, k), Appended(r, to, source, k)
      PROVE  /\ decisions'[c][i].check \in CheckIds
             /\ checks'[decisions'[c][i].check].status \in Done
  <2>1. CASE c # req[r].case \/ i \in 1..Len(decisions[c])
    BY <1>0, <1>1, <1>3, <2>1 DEF Appended
  <2>2. CASE c = req[r].case /\ i = Len(decisions[c]) + 1
    <3>1. decisions'[c][i].check = k
      BY <1>3, <2>2 DEF Appended
    <3> QED
      BY <1>3, <3>1, JudgedCheck
  <2>3. c = req[r].case => Len(decisions'[c]) = Len(decisions[c]) + 1
    BY <1>3 DEF Appended
  <2> QED
    BY <1>0, <2>1, <2>2, <2>3
<1> QED
  BY <1>2, <1>3, DecisionWriters

LEMMA SettledEvidenceAlways ==
  ASSUME OneByOne PROVE Spec => [](Inv /\ EventsHeld /\ Turns /\ SettledEvidence)
<1>1. Init => SettledEvidence
  BY DEF Init, SettledEvidence
<1> QED
  BY <1>1, SettledEvidenceStep, TurnsAlways, PTL DEF Spec

\* Served one at a time, callbacks, redeliveries and refreshes record the
\* verdict on a check once: whoever comes second finds it settled.
THEOREM VerdictsRecordedOnce == ASSUME OneByOne PROVE Spec => []CheckDecidedOnce
<1>1. Init => CheckDecidedOnce
  BY DEF Init, CheckDecidedOnce
<1>2. Inv /\ Turns /\ SettledEvidence /\ CheckDecidedOnce /\ [Next]_vars => CheckDecidedOnce'
  <2> SUFFICES ASSUME Inv, Turns, SettledEvidence, CheckDecidedOnce, [Next]_vars,
                      NEW c \in Cases, NEW i \in 1..Len(decisions'[c]),
                      NEW j \in 1..Len(decisions'[c]), i # j,
                      decisions'[c][i].check = decisions'[c][j].check
               PROVE  decisions'[c][i].check = 0
    BY DEF CheckDecidedOnce
  <2>0. decisions[c] \in Seq(DecisionRow) /\ i \in Nat /\ j \in Nat
    BY DEF Inv, TypeOK
  <2>1. CASE decisions'[c] = decisions[c]
    BY <2>1 DEF CheckDecidedOnce
  <2>2. ASSUME NEW r \in Requests, NEW to \in KycStates, NEW source \in {"PROVIDER", "ADMIN"},
               NEW k \in CheckIds \cup {0}, Judged(r, to, source, k), Appended(r, to, source, k)
        PROVE  decisions'[c][i].check = 0
    <3>1. CASE c # req[r].case
      BY <2>1, <2>2, <3>1 DEF Appended
    <3>2. CASE c = req[r].case
      <4> DEFINE n == Len(decisions[c])
      <4>0. /\ Len(decisions'[c]) = n + 1 /\ decisions'[c][n + 1].check = k
            /\ \A m \in 1..n : decisions'[c][m] = decisions[c][m]
            /\ n \in Nat
        BY <2>0, <2>2, <3>2 DEF Appended
      <4>1. \A m \in 1..n : decisions[c][m].check # 0 => decisions[c][m].check # k
        BY <2>2, JudgedCheck DEF SettledEvidence, Done
      <4> HIDE DEF n
      <4>2. CASE i \in 1..n /\ j \in 1..n
        BY <4>0, <4>2 DEF CheckDecidedOnce, n
      <4>3. CASE i = n + 1 \/ j = n + 1
        <5>1. CASE i = n + 1 /\ j \in 1..n
          BY <4>0, <4>1, <5>1
        <5>2. CASE j = n + 1 /\ i \in 1..n
          BY <4>0, <4>1, <5>2
        <5> QED
          BY <2>0, <4>0, <4>3, <5>1, <5>2
      <4> QED
        BY <2>0, <4>0, <4>2, <4>3
    <3> QED
      BY <3>1, <3>2
  <2> QED
    BY <2>1, <2>2, DecisionWriters
<1> QED
  BY <1>1, <1>2, SettledEvidenceAlways, PTL DEF Spec

\* A callback that was processed with a verdict has settled its check so.
Recorded(k, t) ==
  Delivered(k, t) => checks[k].status \in Done /\ checks[k].outcome = events[<<k, t>>].outcome

LEMMA CallbackRecords ==
  ASSUME Inv, EventsHeld, NEW r \in Requests, CallbackApply(r), req[r].outcome # "PENDING"
  PROVE  /\ checks'[req[r].check].status \in Done
         /\ checks'[req[r].check].outcome = events[Event(r)].outcome
<1> DEFINE k == req[r].check
<1>0. TypeOK /\ RequestLinked(r) /\ req[r].at = "callback_apply"
  BY DEF Inv, RequestsLinked, CallbackApply
<1>1. k \in CheckIds /\ checks[k] \in CheckRow
  BY <1>0, FieldTypes DEF RequestLinked, WithCheck
<1>2. events[Event(r)].outcome = req[r].outcome
  BY <1>0 DEF EventsHeld, Receiving, OfCallback
<1>3. checks' = [checks EXCEPT ![k] = [@ EXCEPT !.status = CheckStatusFor(req[r].outcome),
                                               !.outcome = req[r].outcome]]
  BY DEF CallbackApply, ApplyDecision
<1>4. checks'[k].status = CheckStatusFor(req[r].outcome) /\ checks'[k].outcome = req[r].outcome
  <2> HIDE DEF k
  <2> QED
    BY <1>0, <1>1, <1>3 DEF TypeOK, CheckRow
<1>5. CheckStatusFor(req[r].outcome) \in Done
  BY DEF CheckStatusFor, Done
<1> QED
  BY <1>2, <1>4, <1>5

\* Served one at a time, no processed callback with a verdict leaves its check
\* waiting or with another outcome: a later answer finds the check settled.
THEOREM ProcessedIsRecorded == ASSUME OneByOne PROVE Spec => []ProcessedMeansRecorded
<1> DEFINE AllRecorded == \A k \in CheckIds, t \in Stamps : Recorded(k, t)
<1>1. Init => AllRecorded
  BY DEF Init, Recorded, Delivered
<1>2. Inv /\ EventsHeld /\ Turns /\ AllRecorded /\ [Next]_vars => AllRecorded'
  <2> SUFFICES ASSUME Inv, EventsHeld, Turns, AllRecorded, [Next]_vars,
                      NEW k \in CheckIds, NEW t \in Stamps, Delivered(k, t)'
               PROVE  (checks[k].status \in Done /\ checks[k].outcome = events[<<k, t>>].outcome)'
    BY DEF Recorded
  <2>0. TypeOK /\ \A q \in Requests : RequestLinked(q)
    BY DEF Inv, RequestsLinked
  <2>1. CASE events'[<<k, t>>] = events[<<k, t>>]
    <3>1. checks[k].status \in Done /\ checks[k].outcome = events[<<k, t>>].outcome
      BY <2>1 DEF Recorded, Delivered
    <3> QED
      BY <2>1, <3>1, ChecksKeep
  <2>2. ASSUME NEW r \in Requests, NEW j \in CheckIds, NEW u \in Stamps, CallbackReceive(r, j, u)
        PROVE  events'[<<k, t>>] = events[<<k, t>>]
    BY <2>0, <2>2, DeliveryStores DEF Stored, Delivered
  <2>3. ASSUME NEW r \in Requests, NEW s \in {"IGNORED", "DUPLICATE", "PROCESSED", "FAILED"},
               Settles(r, s)
        PROVE  (checks[k].status \in Done /\ checks[k].outcome = events[<<k, t>>].outcome)'
    <3>1. CASE Event(r) # <<k, t>>
      BY <2>0, <2>1, <2>3, <3>1, SettlingSettles
    <3>2. CASE Event(r) = <<k, t>>
      <4>1. events'[<<k, t>>].status = s /\ events'[<<k, t>>].outcome = events[<<k, t>>].outcome
        BY <2>0, <2>3, <3>2, SettlingSettles
      <4>2. events[<<k, t>>].outcome = req[r].outcome /\ req[r].check = k
        BY <2>3, <3>2 DEF Settles, EventsHeld, Event
      <4>3. CallbackApply(r) /\ req[r].outcome # "PENDING"
        BY <2>3, <4>1, <4>2 DEF Delivered, Settles
      <4> QED
        BY <3>2, <4>1, <4>2, <4>3, CallbackRecords
    <3> QED
      BY <3>1, <3>2
  <2> QED
    BY <2>1, <2>2, <2>3, EventWriters DEF EventWrites
<1>3. AllRecorded => ProcessedMeansRecorded
  BY DEF Recorded, ProcessedMeansRecorded, Done
<1> QED
  BY <1>1, <1>2, <1>3, TurnsAlways, PTL DEF Spec

(***************************************************************************)
(* One request at a time: the moves of a case                              *)
(***************************************************************************)

Verdicts == {"APPROVED", "REJECTED", "IN_REVIEW", "MORE_INFO_REQUIRED"}

\* The latest decision says where the case is, or asked for what was submitted.
LastWord(c) ==
  decisions[c] # <<>> =>
    LET to == decisions[c][Len(decisions[c])].to IN
    /\ to \in Verdicts
    /\ to = cases[c].status \/ (to = "MORE_INFO_REQUIRED" /\ cases[c].status = "SUBMITTED")

\* A commit moves the case from where it is.
LEMMA CommitsAreCurrent ==
  ASSUME Turns, NEW r \in Requests,
         req[r].at \in {"submit_commit", "callback_apply", "sync_apply", "decide_commit"}
  PROVE  req[r].seen = cases[req[r].case].status
BY DEF Turns, UpToDate, Watching, WithCase

LEMMA LastWordStep == Inv /\ Turns /\ (\A c \in Cases : LastWord(c)) /\ [Next]_vars
                        => (\A c \in Cases : LastWord(c))'
<1> SUFFICES ASSUME Inv, Turns, \A c \in Cases : LastWord(c), [Next]_vars, NEW c \in Cases
             PROVE  LastWord(c)'
  OBVIOUS
<1>0. TypeOK /\ decisions[c] \in Seq(DecisionRow) /\ LastWord(c)
  BY DEF Inv, TypeOK
<1>1. CASE cases'[c] = cases[c] /\ decisions'[c] = decisions[c]
  BY <1>0, <1>1 DEF LastWord
<1>2. ASSUME NEW d \in Cases, Started(d) PROVE LastWord(c)'
  <2>1. CASE d # c
    BY <1>1, <1>2, <2>1 DEF Started, Writes
  <2>2. CASE d = c
    <3>1. decisions[c] = <<>>
      BY <1>0, <1>2, <2>2 DEF Started, LastWord, Verdicts, NoStatus
    <3> QED
      BY <1>2, <3>1 DEF Started, LastWord
  <2> QED
    BY <2>1, <2>2
<1>3. ASSUME NEW r \in Requests, Submitted(r) PROVE LastWord(c)'
  <2>1. CASE req[r].case # c
    BY <1>1, <1>3, <2>1 DEF Submitted, Writes
  <2>2. CASE req[r].case = c
    <3>1. req[r].seen = cases[c].status
      BY <1>3, <2>2, CommitsAreCurrent DEF Submitted
    <3>2. cases[c].status \in {"DRAFT", "MORE_INFO_REQUIRED"}
      BY <1>3, <3>1 DEF Submitted, TransitionAllowed, CanTransition, Successors
    <3>3. cases'[c].status = "SUBMITTED" /\ decisions'[c] = decisions[c]
      BY <1>3, <2>2 DEF Submitted, Writes
    <3> QED
      BY <1>0, <3>2, <3>3 DEF LastWord, Verdicts
  <2> QED
    BY <2>1, <2>2
<1>4. ASSUME NEW r \in Requests, NEW to \in KycStates, NEW source \in {"PROVIDER", "ADMIN"},
             NEW k \in CheckIds \cup {0}, Judged(r, to, source, k)
      PROVE  LastWord(c)'
  <2>0. Appended(r, to, source, k)
    BY <1>0, <1>4, JudgedAppends
  <2>1. CASE req[r].case # c
    BY <1>1, <1>4, <2>0, <2>1 DEF Judged, Ruled, Writes, Appended
  <2>2. CASE req[r].case = c
    <3>1. decisions'[c][Len(decisions'[c])].to = to
      BY <1>0, <2>0, <2>2 DEF Appended
    <3>2. cases'[c].status = to /\ to \in Verdicts
      BY <1>4, <2>2 DEF Judged, Ruled, Writes, Verdicts
    <3> QED
      BY <3>1, <3>2 DEF LastWord
  <2> QED
    BY <2>1, <2>2
<1> QED
  BY <1>1, <1>2, <1>3, <1>4, CaseWriters

LEMMA LastWordAlways ==
  ASSUME OneByOne PROVE Spec => [](Inv /\ Turns /\ \A c \in Cases : LastWord(c))
<1>1. Init => \A c \in Cases : LastWord(c)
  BY DEF Init, LastWord
<1> QED
  BY <1>1, LastWordStep, TurnsAlways, PTL DEF Spec

\* Served one at a time, the decision rows of a case are one path: each
\* starts where the one before it ended, or at SUBMITTED after the user has
\* answered a request for more information.
THEOREM HistoryIsOnePath == ASSUME OneByOne PROVE Spec => []HistoryIsAPath
<1>1. Init => HistoryIsAPath
  BY DEF Init, HistoryIsAPath
<1>2. Inv /\ Turns /\ (\A c \in Cases : LastWord(c)) /\ HistoryIsAPath /\ [Next]_vars
        => HistoryIsAPath'
  <2> SUFFICES ASSUME Inv, Turns, \A c \in Cases : LastWord(c), HistoryIsAPath, [Next]_vars,
                      NEW c \in Cases, NEW i \in 1..(Len(decisions'[c]) - 1)
               PROVE  \/ decisions'[c][i + 1].from = decisions'[c][i].to
                      \/ /\ decisions'[c][i].to = "MORE_INFO_REQUIRED"
                         /\ decisions'[c][i + 1].from = "SUBMITTED"
    BY DEF HistoryIsAPath
  <2>0. TypeOK /\ decisions[c] \in Seq(DecisionRow) /\ i \in Nat /\ Len(decisions[c]) \in Nat
    BY DEF Inv, TypeOK
  <2>1. CASE decisions'[c] = decisions[c]
    BY <2>1 DEF HistoryIsAPath
  <2>2. ASSUME NEW r \in Requests, NEW to \in KycStates, NEW source \in {"PROVIDER", "ADMIN"},
               NEW k \in CheckIds \cup {0}, Judged(r, to, source, k), Appended(r, to, source, k)
        PROVE  \/ decisions'[c][i + 1].from = decisions'[c][i].to
               \/ /\ decisions'[c][i].to = "MORE_INFO_REQUIRED"
                  /\ decisions'[c][i + 1].from = "SUBMITTED"
    <3>1. CASE c # req[r].case
      BY <2>1, <2>2, <3>1 DEF Appended
    <3>2. CASE c = req[r].case
      <4> DEFINE n == Len(decisions[c])
      <4>0. /\ Len(decisions'[c]) = n + 1 /\ n \in Nat
            /\ \A m \in 1..n : decisions'[c][m] = decisions[c][m]
            /\ decisions'[c][n + 1].from = req[r].seen
        BY <2>0, <2>2, <3>2 DEF Appended
      <4>1. CASE i + 1 \in 1..n
        <5>1. /\ i \in 1..(n - 1)
              /\ decisions'[c][i] = decisions[c][i] /\ decisions'[c][i + 1] = decisions[c][i + 1]
          BY <2>0, <4>0, <4>1
        <5> QED
          BY <5>1 DEF HistoryIsAPath
      <4>2. CASE i = n
        <5>1. decisions'[c][i] = decisions[c][n] /\ decisions[c] # <<>>
          BY <2>0, <4>0, <4>2
        <5>2. req[r].seen = cases[c].status
          BY <2>2, <3>2, CommitsAreCurrent DEF Judged
        <5>3. LastWord(c)
          OBVIOUS
        <5> QED
          BY <4>0, <4>2, <5>1, <5>2, <5>3 DEF LastWord
      <4> QED
        BY <2>0, <4>0, <4>1, <4>2
    <3> QED
      BY <3>1, <3>2
  <2> QED
    BY <2>1, <2>2, DecisionWriters
<1> QED
  BY <1>1, <1>2, LastWordAlways, PTL DEF Spec

\* Served one at a time, no step touches an approved case.
LEMMA ApprovedStays ==
  ASSUME Inv, Turns, [Next]_vars, NEW c \in Cases, cases[c].status = "APPROVED"
  PROVE  cases'[c] = cases[c]
<1>1. ASSUME NEW d \in Cases, Started(d) PROVE cases'[c] = cases[c]
  BY <1>1 DEF Started, Writes, NoStatus
<1>2. ASSUME NEW r \in Requests, Submitted(r) PROVE cases'[c] = cases[c]
  <2>1. req[r].case # c
    BY <1>2, CommitsAreCurrent DEF Submitted, TransitionAllowed, CanTransition, Successors
  <2> QED
    BY <1>2, <2>1 DEF Submitted, Writes
<1>3. ASSUME NEW r \in Requests, NEW to \in KycStates, NEW source \in {"PROVIDER", "ADMIN"},
             NEW k \in CheckIds \cup {0}, Judged(r, to, source, k)
      PROVE  cases'[c] = cases[c]
  <2>1. req[r].case # c
    <3>1. req[r].seen # "APPROVED"
      BY <1>3 DEF Judged, Ruled, TransitionAllowed, CanTransition, Successors
    <3> QED
      BY <1>3, <3>1, CommitsAreCurrent DEF Judged
  <2> QED
    BY <1>3, <2>1 DEF Judged, Ruled, Writes
<1> QED
  BY <1>1, <1>2, <1>3, CaseWriters

\* Served one at a time, nothing takes back an approved tier: the withdrawal
\* gate, once open, stays open.
THEOREM TiersAreKept == ASSUME OneByOne PROVE Spec => ApprovalIsKept
<1>1. Inv /\ Turns /\ [Next]_vars =>
        [\A u \in Users : ApprovedTiers(u) \subseteq ApprovedTiers(u)']_vars
  <2> SUFFICES ASSUME Inv, Turns, [Next]_vars, NEW u \in Users,
                      NEW c \in Cases, Owner[c] = u, cases[c].status = "APPROVED"
               PROVE  cases[c].currentTier \in ApprovedTiers(u)'
    BY DEF ApprovedTiers
  <2>1. cases'[c] = cases[c]
    BY ApprovedStays
  <2> QED
    BY <2>1 DEF ApprovedTiers
<1> QED
  BY <1>1, TurnsAlways, PTL DEF Spec, ApprovalIsKept

(***************************************************************************)
(* One request at a time: KycCase implements KycLifecycle                  *)
(***************************************************************************)

\* A case that was started asks for a tier of the policy.
TiersKnown == \A c \in Cases : cases[c].status # NoStatus => cases[c].requestedTier \in RequestedTiers

LEMMA TiersKnownStep == Inv /\ TiersKnown /\ [Next]_vars => TiersKnown'
<1> SUFFICES ASSUME Inv, TiersKnown, [Next]_vars, NEW c \in Cases, cases'[c].status # NoStatus
             PROVE  cases'[c].requestedTier \in RequestedTiers
  BY DEF TiersKnown
<1>0. TypeOK /\ \A r \in Requests : RequestLinked(r)
  BY DEF Inv, RequestsLinked
<1>1. CASE cases'[c] = cases[c]
  BY <1>1 DEF TiersKnown
<1>2. ASSUME NEW d \in Cases, Started(d) PROVE cases'[c].requestedTier \in RequestedTiers
  BY <1>1, <1>2 DEF Started, Writes
<1>3. ASSUME NEW r \in Requests,
             /\ req[r].at \in {"submit_commit", "callback_apply", "sync_apply", "decide_commit"}
             /\ \A d \in Cases \ {req[r].case} : cases'[d] = cases[d]
             /\ cases'[req[r].case].requestedTier = cases[req[r].case].requestedTier
      PROVE  cases'[c].requestedTier \in RequestedTiers
  <2>1. cases[req[r].case].status # NoStatus
    BY <1>0, <1>3 DEF RequestLinked, WithCase
  <2> QED
    BY <1>1, <1>3, <2>1 DEF TiersKnown
<1>4. ASSUME NEW r \in Requests, Submitted(r) PROVE cases'[c].requestedTier \in RequestedTiers
  BY <1>3, <1>4 DEF Submitted, Writes
<1>5. ASSUME NEW r \in Requests, NEW to \in KycStates, NEW source \in {"PROVIDER", "ADMIN"},
             NEW k \in CheckIds \cup {0}, Judged(r, to, source, k)
      PROVE  cases'[c].requestedTier \in RequestedTiers
  BY <1>3, <1>5 DEF Judged, Ruled, Writes
<1> QED
  BY <1>1, <1>2, <1>4, <1>5, CaseWriters

Statuses == [c \in Cases |-> cases[c].status]
Tiers == [c \in Cases |-> cases[c].currentTier]

\* What a write of case c to status s does to the lifecycle's variables.
LEMMA WritesMap ==
  ASSUME TypeOK, NEW c \in Cases, NEW s, Writes(c, s)
  PROVE  /\ Statuses' = [Statuses EXCEPT ![c] = s]
         /\ Tiers' = [Tiers EXCEPT ![c] = cases'[c].currentTier]
         /\ cases'[c].currentTier = cases[c].currentTier => Tiers' = Tiers
BY DEF Writes, Statuses, Tiers, TypeOK

LEMMA LifecycleStep ==
  Inv /\ Turns /\ TiersKnown /\ [Next]_vars => [Lifecycle!Next]_<<Statuses, Tiers>>
<1> SUFFICES ASSUME Inv, Turns, TiersKnown, [Next]_vars
             PROVE  Lifecycle!Next \/ UNCHANGED <<Statuses, Tiers>>
  OBVIOUS
<1>0. TypeOK /\ \A c \in Cases : Statuses[c] = cases[c].status
  BY DEF Inv, Statuses
<1>1. CASE UNCHANGED <<cases, decisions>>
  BY <1>1 DEF Statuses, Tiers
<1>2. ASSUME NEW c \in Cases, Started(c) PROVE Lifecycle!Next
  <2>1. Lifecycle!Start(c)
    BY <1>0, <1>2, WritesMap DEF Started, Writes, IndexAllows, Open, OpenStatuses, Statuses, Tiers,
       Lifecycle!Start, Lifecycle!IsOpen, Lifecycle!OpenStatuses, NoStatus, Lifecycle!NoStatus
  <2> QED
    BY <2>1 DEF Lifecycle!Next
<1>3. ASSUME NEW r \in Requests, Submitted(r) PROVE Lifecycle!Next
  <2> PICK c \in Cases : c = req[r].case
    BY <1>3 DEF Submitted, Writes
  <2>1. cases[c].status \in {"DRAFT", "MORE_INFO_REQUIRED"}
    BY <1>3, CommitsAreCurrent DEF Submitted, Writes, TransitionAllowed, CanTransition, Successors
  <2>2. Lifecycle!Submit(c)
    BY <1>0, <1>3, <2>1, WritesMap DEF Submitted, Statuses, Tiers, Lifecycle!Submit
  <2> QED
    BY <2>1, <2>2 DEF Lifecycle!Next
<1>4. ASSUME NEW r \in Requests, NEW to \in KycStates, NEW source \in {"PROVIDER", "ADMIN"},
             NEW k \in CheckIds \cup {0}, Judged(r, to, source, k)
      PROVE  Lifecycle!Next
  <2> PICK c \in Cases : c = req[r].case
    BY <1>4 DEF Judged, Ruled, Writes
  <2> PICK t : t = cases'[c].currentTier
    OBVIOUS
  <2>0. RequestLinked(r) /\ to \in Verdicts /\ Writes(c, to)
    BY <1>4 DEF Judged, Ruled, Writes, Verdicts, Inv, RequestsLinked
  <2>1. TransitionAllowed(cases[c].status, to)
    BY <1>4, CommitsAreCurrent DEF Judged, Ruled
  <2>2. /\ Statuses' = [Statuses EXCEPT ![c] = to]
        /\ Tiers' = [Tiers EXCEPT ![c] = t]
        /\ to # "APPROVED" => Tiers' = Tiers
    <3>1. to # "APPROVED" => t = cases[c].currentTier
      BY <1>4 DEF Judged, Ruled
    <3> QED
      BY <1>0, <2>0, <3>1, WritesMap
  <2>3. to = "APPROVED" => t \in RequestedTiers \cup AdminTiers
    <3>1. cases[c].requestedTier \in RequestedTiers
      BY <1>4, <2>0 DEF Judged, RequestLinked, WithCase, TiersKnown
    <3> QED
      BY <1>4, <3>1 DEF Judged, Ruled
  <2>4. cases[c].status \in {"SUBMITTED", "IN_REVIEW"} /\ (to = "IN_REVIEW" => cases[c].status = "SUBMITTED")
    BY <2>0, <2>1 DEF TransitionAllowed, CanTransition, Successors, Verdicts
  <2>5. CASE to = "APPROVED"
    <3>1. Lifecycle!Approve(c, t)
      BY <1>0, <2>0, <2>2, <2>4, <2>5 DEF Statuses, Tiers, Lifecycle!Approve, Lifecycle!UnderReview
    <3> QED
      BY <2>0, <2>3, <2>5, <3>1 DEF Lifecycle!Next
  <2>6. CASE to \in {"REJECTED", "MORE_INFO_REQUIRED"}
    <3>1. Lifecycle!Refuse(c)
      BY <1>0, <2>0, <2>2, <2>4, <2>6 DEF Statuses, Tiers, Lifecycle!Refuse, Lifecycle!UnderReview
    <3> QED
      BY <2>0, <3>1 DEF Lifecycle!Next
  <2>7. CASE to = "IN_REVIEW"
    <3>1. Lifecycle!SendToReview(c)
      BY <1>0, <2>0, <2>2, <2>4, <2>7 DEF Statuses, Tiers, Lifecycle!SendToReview
    <3> QED
      BY <2>0, <3>1 DEF Lifecycle!Next
  <2> QED
    BY <2>0, <2>5, <2>6, <2>7 DEF Verdicts
<1> QED
  BY <1>1, <1>2, <1>3, <1>4, CaseWriters

\* Served one at a time, the workflow is the lifecycle of docs/STATE_MACHINES:
\* every step of requests, callbacks and officers is one of its moves on the
\* status and the tier of one case, or none.
THEOREM ImplementsLifecycle == ASSUME OneByOne PROVE Spec => RefinesLifecycle
<1>1. Init => Lifecycle!Init /\ TiersKnown
  BY DEF Init, Lifecycle!Init, TiersKnown, NoStatus, Lifecycle!NoStatus
<1>2. Inv /\ Turns /\ TiersKnown /\ [Next]_vars
        => [Lifecycle!Next]_<<[c \in Cases |-> cases[c].status], [c \in Cases |-> cases[c].currentTier]>>
  BY LifecycleStep DEF Statuses, Tiers
<1> QED
  BY <1>1, <1>2, TiersKnownStep, TurnsAlways, PTL DEF Spec, RefinesLifecycle, Lifecycle!Spec

\* Served one at a time, every move of a case is a move of its machine: the
\* moves docs/STATE_MACHINES.md forbids need two requests that overlap.
THEOREM MovesFollowMachine == ASSUME OneByOne PROVE Spec => StatusFollowsMachine
<1>1. Inv /\ Turns /\ [\A c \in Cases : LegalMove(c) \/ StaleCommit(c)]_vars
        => [\A c \in Cases : LegalMove(c)]_vars
  <2>1. ASSUME Turns, NEW c \in Cases PROVE ~StaleCommit(c)
    BY <2>1, CommitsAreCurrent DEF StaleCommit
  <2> QED
    BY <2>1
<1> QED
  BY <1>1, OnlyStaleCommitsMoveIllegally, TurnsAlways, PTL DEF IllegalMovesAreStale, StatusFollowsMachine

\* Served one at a time, a verdict delivered again under a new timestamp is
\* not applied again.
THEOREM RedeliveriesApplyNothing == ASSUME OneByOne PROVE Spec => []RedeliveryAppliesNothing
<1>1. CheckDecidedOnce => RedeliveryAppliesNothing
  <2> SUFFICES ASSUME CheckDecidedOnce, NEW k \in CheckIds, NEW c \in Cases,
                      NEW i \in 1..Len(decisions[c]), NEW j \in 1..Len(decisions[c]),
                      decisions[c][i].check = k, decisions[c][j].check = k
               PROVE  i = j
    BY DEF RedeliveryAppliesNothing
  <2>1. k # 0
    BY BoundAssumption DEF CheckIds
  <2> QED
    BY <2>1 DEF CheckDecidedOnce
<1> QED
  BY <1>1, VerdictsRecordedOnce, PTL

(***************************************************************************)
(* One request at a time: a submitted case can be refreshed                *)
(***************************************************************************)

\* A submit works on a case that is not submitted yet, and on its newest check.
NewestHeld(r) ==
  /\ req[r].at = "submit_insert" \/ Submitting(r) => req[r].seen \in Submittable
  /\ Submitting(r) => NewestPending(req[r].case, req[r].check)

RefreshKept == SubmittedIsRefreshable /\ \A r \in Requests : NewestHeld(r)

\* What the refresh of case c would pick depends on its pending checks only.
LEMMA RefreshableStays ==
  ASSUME NEW c, NEW k \in CheckIds, Refreshable(c, k), PendingChecks(c)' = PendingChecks(c),
         checks'[k].hasJob = checks[k].hasJob
  PROVE  Refreshable(c, k)'
BY DEF Refreshable, NewestPending

\* A step that writes no check, and submits no case, strands none.
LEMMA SubmittedStays ==
  ASSUME SubmittedIsRefreshable, UNCHANGED checks,
         \A c \in Cases : cases'[c].status = "SUBMITTED" => cases[c].status = "SUBMITTED"
  PROVE  SubmittedIsRefreshable'
<1> SUFFICES ASSUME NEW c \in Cases, cases'[c].status = "SUBMITTED"
             PROVE  \E k \in CheckIds : Refreshable(c, k)'
  BY DEF SubmittedIsRefreshable
<1>1. PICK k \in CheckIds : Refreshable(c, k)
  BY DEF SubmittedIsRefreshable
<1>2. PendingChecks(c)' = PendingChecks(c)
  BY DEF PendingChecks
<1> QED BY <1>1, <1>2, RefreshableStays

\* A request that is not submitting holds no check of its own.
LEMMA OthersHoldNone ==
  ASSUME NEW r \in Requests, req'[r].at \notin {"submit_insert", "submit_call", "submit_commit"}
  PROVE  NewestHeld(r)'
BY DEF NewestHeld, Submitting

LEMMA FinishHoldsNone ==
  ASSUME TypeOK, NEW r \in Requests, Finish(r) PROVE NewestHeld(r)'
<1>1. req'[r].at = "idle"
  BY DEF TypeOK, Finish, Idle
<1> QED BY <1>1, OthersHoldNone

\* The new check is the newest of its case, which has not been submitted.
LEMMA InsertRefreshes ==
  ASSUME OneByOne, Inv, Turns, RefreshKept, NEW r \in Requests, SubmitInsert(r)
  PROVE  SubmittedIsRefreshable' /\ NewestHeld(r)'
<1>0. TypeOK /\ req[r] \in Request /\ RequestLinked(r) /\ NewestHeld(r)
  BY FieldTypes DEF Inv, RequestsLinked, RefreshKept
<1>a. PICK c \in Cases : c = req[r].case
  BY <1>0 DEF SubmitInsert, RequestLinked, WithCase
<1>1. PICK k \in CheckIds :
        /\ NextCheck(k)
        /\ checks' = [checks EXCEPT ![k] = [@ EXCEPT !.status = "PENDING", !.case = c]]
        /\ req' = [req EXCEPT ![r] = [@ EXCEPT !.at = "submit_call", !.check = k]]
  BY <1>a DEF SubmitInsert
<1>2. /\ req'[r].at = "submit_call" /\ req'[r].check = k
      /\ req'[r].case = c /\ req'[r].seen = req[r].seen
  BY <1>0, <1>a, <1>1 DEF TypeOK, Request
<1>3. checks[k] \in CheckRow
  BY <1>0, FieldTypes
<1>4. /\ checks'[k].status = "PENDING" /\ checks'[k].case = c /\ checks'[k].hasJob = checks[k].hasJob
      /\ \A j \in CheckIds \ {k} : checks'[j] = checks[j]
  BY <1>0, <1>1, <1>3 DEF TypeOK, CheckRow
<1>5. k \in Nat /\ checks[k].status = "NONE" /\ \A j \in CheckIds : checks[j].status # "NONE" => j < k
  BY <1>1, BoundAssumption DEF NextCheck, CheckIds
<1>6. cases[c].status \in Submittable
  BY <1>0, <1>a DEF SubmitInsert, NewestHeld, Turns, UpToDate, Watching, WithCase
<1>7. NewestPending(c, k)'
  <2>1. k \in PendingChecks(c)'
    BY <1>4 DEF PendingChecks
  <2>2. ASSUME NEW j \in PendingChecks(c)' PROVE j <= k
    BY <1>4, <1>5, BoundAssumption DEF PendingChecks, CheckIds
  <2> QED BY <2>1, <2>2 DEF NewestPending
<1>8. NewestHeld(r)'
  BY <1>0, <1>2, <1>7 DEF NewestHeld, SubmitInsert, Submitting, NewestPending, PendingChecks
<1>9. ASSUME NEW d \in Cases, cases'[d].status = "SUBMITTED"
      PROVE  \E j \in CheckIds : Refreshable(d, j)'
  <2>1. cases[d].status = "SUBMITTED" /\ d # c
    BY <1>6, <1>9 DEF SubmitInsert, Submittable
  <2>2. PICK j \in CheckIds : Refreshable(d, j)
    BY <2>1 DEF RefreshKept, SubmittedIsRefreshable
  <2>3. PendingChecks(d)' = PendingChecks(d)
    BY <1>4, <1>5, <2>1 DEF PendingChecks
  <2>4. j # k
    BY <1>5, <2>2 DEF Refreshable, NewestPending, PendingChecks
  <2> QED BY <1>4, <2>2, <2>3, <2>4, RefreshableStays
<1> QED BY <1>8, <1>9 DEF SubmittedIsRefreshable

\* A check that a failed submit gives up, or that is judged, is of a case that
\* is not submitted, or is no longer.
LEMMA SettlingRefreshes ==
  ASSUME Inv, RefreshKept, NEW k \in CheckIds,
         \A j \in CheckIds \ {k} : checks'[j] = checks[j],
         checks'[k].case = checks[k].case, checks'[k].hasJob = checks[k].hasJob,
         \A c \in Cases : cases'[c].status = "SUBMITTED" =>
           cases[c].status = "SUBMITTED" /\ (checks[k].case = c => checks'[k].status = checks[k].status)
  PROVE  SubmittedIsRefreshable'
<1> SUFFICES ASSUME NEW c \in Cases, cases'[c].status = "SUBMITTED"
             PROVE  \E j \in CheckIds : Refreshable(c, j)'
  BY DEF SubmittedIsRefreshable
<1>1. PICK j \in CheckIds : Refreshable(c, j)
  BY DEF RefreshKept, SubmittedIsRefreshable
<1>2. PendingChecks(c)' = PendingChecks(c)
  BY DEF PendingChecks
<1>3. checks'[j].hasJob = checks[j].hasJob
  BY <1>1
<1> QED BY <1>1, <1>2, <1>3, RefreshableStays

LEMMA FailsRefreshes ==
  ASSUME Inv, Turns, RefreshKept, NEW r \in Requests, SubmitFails(r)
  PROVE  SubmittedIsRefreshable'
<1>0. TypeOK /\ RequestLinked(r) /\ NewestHeld(r)
  BY DEF Inv, RequestsLinked, RefreshKept
<1> DEFINE k == req[r].check
<1>1. k \in CheckIds /\ checks[k] \in CheckRow
  BY <1>0, FieldTypes DEF SubmitFails, RequestLinked, WithCheck
<1>2. checks' = [checks EXCEPT ![k] = [@ EXCEPT !.status = "FAILED"]] /\ UNCHANGED cases
  BY DEF SubmitFails
<1>3. /\ \A j \in CheckIds \ {k} : checks'[j] = checks[j]
      /\ checks'[k].case = checks[k].case /\ checks'[k].hasJob = checks[k].hasJob
  BY <1>0, <1>1, <1>2 DEF TypeOK, CheckRow
<1>4. checks[k].case = req[r].case /\ cases[req[r].case].status \in Submittable
  BY <1>0 DEF SubmitFails, RequestLinked, Submitting, NewestHeld, Turns, UpToDate, Watching, WithCase
<1>5. \A c \in Cases : cases'[c].status = "SUBMITTED" => cases[c].status = "SUBMITTED" /\ checks[k].case # c
  BY <1>2, <1>4 DEF Submittable
<1> QED BY <1>1, <1>3, <1>5, SettlingRefreshes

LEMMA CommitRefreshes ==
  ASSUME Inv, Turns, RefreshKept, NEW r \in Requests, SubmitCommit(r)
  PROVE  SubmittedIsRefreshable'
<1>0. TypeOK /\ RequestLinked(r) /\ NewestHeld(r)
  BY DEF Inv, RequestsLinked, RefreshKept
<1>1. PICK k \in CheckIds, c \in Cases : k = req[r].check /\ c = req[r].case
  BY <1>0 DEF SubmitCommit, RequestLinked, WithCheck, WithCase
<1>2. /\ checks'[k].hasJob /\ checks'[k].status = checks[k].status /\ checks'[k].case = checks[k].case
      /\ \A j \in CheckIds \ {k} : checks'[j] = checks[j]
  BY <1>0, <1>1, FieldTypes DEF SubmitCommit, TypeOK, CheckRow
<1>3. \A d \in Cases : PendingChecks(d)' = PendingChecks(d)
  BY <1>2 DEF PendingChecks
<1>4. Refreshable(c, k)'
  BY <1>0, <1>1, <1>2, <1>3 DEF SubmitCommit, NewestHeld, Submitting, NewestPending, Refreshable
<1>5. ASSUME NEW d \in Cases, d # c, cases'[d].status = "SUBMITTED"
      PROVE  \E j \in CheckIds : Refreshable(d, j)'
  <2>1. cases[d].status = "SUBMITTED"
    BY <1>0, <1>1, <1>5 DEF SubmitCommit, TypeOK
  <2>2. PICK j \in CheckIds : Refreshable(d, j)
    BY <2>1 DEF RefreshKept, SubmittedIsRefreshable
  <2>3. checks'[j].hasJob
    BY <1>2, <2>2 DEF Refreshable
  <2> QED BY <1>3, <2>2, <2>3 DEF Refreshable, NewestPending
<1> QED BY <1>4, <1>5 DEF SubmittedIsRefreshable

LEMMA ApplyRefreshes ==
  ASSUME Inv, Turns, RefreshKept, NEW r \in Requests, CallbackApply(r) \/ SyncApply(r)
  PROVE  SubmittedIsRefreshable'
<1> DEFINE q == req[r]
<1>0. TypeOK /\ RequestLinked(r)
  BY DEF Inv, RequestsLinked
<1>1. q.at \in {"callback_apply", "sync_apply"} /\ ApplyDecision(q.case, q.seen, q.prior, q.check, q.outcome)
  BY DEF CallbackApply, SyncApply
<1>2. /\ q.check \in CheckIds /\ q.case \in Cases /\ checks[q.check].case = q.case
      /\ checks[q.check].status = "PENDING" /\ q.seen = cases[q.case].status
      /\ checks[q.check] \in CheckRow /\ cases[q.case] \in CaseRow
  BY <1>0, <1>1, FieldTypes
     DEF RequestLinked, WithCase, WithCheck, Judging, Turns, UpToDate, Watching, Asking
<1>3. /\ \A j \in CheckIds \ {q.check} : checks'[j] = checks[j]
      /\ checks'[q.check].case = checks[q.check].case
      /\ checks'[q.check].hasJob = checks[q.check].hasJob
      /\ checks'[q.check].status = CheckStatusFor(q.outcome)
  BY <1>0, <1>1, <1>2 DEF ApplyDecision, TypeOK, CheckRow
<1>4. q.outcome # "PENDING" => TargetOf(q.outcome) # "SUBMITTED"
  BY DEF TargetOf, NoStatus
<1>5. q.outcome = "PENDING" => NoMove(q.seen, q.outcome) /\ CheckStatusFor(q.outcome) = "PENDING"
  BY DEF NoMove, TargetOf, CheckStatusFor
<1>6. ASSUME NEW c \in Cases, cases'[c].status = "SUBMITTED"
      PROVE  /\ cases[c].status = "SUBMITTED"
             /\ checks[q.check].case = c => checks'[q.check].status = checks[q.check].status
  <2>1. CASE NoMove(q.seen, q.outcome) /\ UNCHANGED cases
    <3>1. CASE q.outcome = "PENDING"
      BY <1>2, <1>3, <1>5, <1>6, <2>1, <3>1
    <3>2. CASE TargetOf(q.outcome) = q.seen
      BY <1>2, <1>4, <1>5, <1>6, <2>1, <3>2 DEF TargetOf, NoStatus
    <3>3. CASE TargetOf(q.outcome) = NoStatus /\ q.outcome # "PENDING"
      <4>1. q.outcome \in {"APPROVED", "REJECTED", "NEEDS_REVIEW", "ERROR"}
        <5>1. q.outcome \in {"PENDING", jobs[q.check]} /\ jobs[q.check] # NoOutcome
          BY <1>0, <1>1, <1>2 DEF RequestLinked, OfCallback, Judging, Inv, ChecksLinked
        <5>2. jobs[q.check] \in Outcomes \cup {NoOutcome}
          BY <1>0, <1>2, FieldTypes
        <5> QED BY <3>3, <5>1, <5>2 DEF Outcomes
      <4> QED BY <3>3, <4>1 DEF TargetOf, NoStatus
    <3> QED BY <2>1, <3>1, <3>2, <3>3 DEF NoMove
  <2>2. CASE Decide(q.case, q.seen, q.prior, TargetOf(q.outcome), cases[q.case].requestedTier,
                    "PROVIDER", q.check) /\ ~NoMove(q.seen, q.outcome)
    <3>1. cases'[q.case].status = TargetOf(q.outcome)
          /\ \A d \in Cases \ {q.case} : cases'[d] = cases[d]
      BY <1>0, <1>2, <2>2 DEF Decide, Decided, TypeOK, CaseRow
    <3>2. c # q.case
      BY <1>4, <1>5, <1>6, <2>2, <3>1
    <3> QED BY <1>2, <1>6, <3>1, <3>2
  <2> QED BY <1>1, <2>1, <2>2 DEF ApplyDecision
<1> QED BY <1>2, <1>3, <1>6, SettlingRefreshes

LEMMA DecideRefreshes ==
  ASSUME Inv, RefreshKept, NEW r \in Requests, DecideCommit(r)
  PROVE  SubmittedIsRefreshable'
<1>0. TypeOK /\ RequestLinked(r)
  BY DEF Inv, RequestsLinked
<1>1. PICK to \in AdminTargets, tier \in AdminTiers \cup {cases[req[r].case].requestedTier} :
        Decide(req[r].case, req[r].seen, req[r].prior, to, tier, "ADMIN", 0)
  BY DEF DecideCommit
<1>2. req[r].case \in Cases
  BY <1>0 DEF DecideCommit, RequestLinked, WithCase
<1>3. cases'[req[r].case].status = to /\ \A d \in Cases \ {req[r].case} : cases'[d] = cases[d]
  BY <1>0, <1>1, <1>2 DEF Decide, Decided, TypeOK, CaseRow
<1>4. \A c \in Cases : cases'[c].status = "SUBMITTED" => cases[c].status = "SUBMITTED"
  BY <1>2, <1>3 DEF AdminTargets
<1> QED BY <1>4, SubmittedStays DEF DecideCommit, RefreshKept

\* The steps that start a request, or carry it on, without touching a check.
LEMMA GoesOnHolds ==
  ASSUME Inv, RefreshKept, NEW r \in Requests,
         \/ \E c \in Cases : SubmitRead(r, c) \/ SyncRead(r, c)
         \/ \E a \in Reviewers, c \in Cases : DecideRead(r, a, c)
         \/ \E k \in CheckIds, t \in Stamps : CallbackReceive(r, k, t)
         \/ SubmitAccepted(r) \/ CallbackCheckPending(r) \/ CallbackReadCase(r)
         \/ CallbackRollback(r) \/ SyncPick(r) \/ SyncFetch(r)
  PROVE  NewestHeld(r)' /\ UNCHANGED <<cases, checks>>
<1>0. TypeOK /\ req[r] \in Request /\ NewestHeld(r)
  BY FieldTypes DEF Inv, RefreshKept
<1>1. ASSUME NEW c \in Cases, SubmitRead(r, c) PROVE NewestHeld(r)' /\ UNCHANGED <<cases, checks>>
  <2>1. req'[r].at = "submit_insert" /\ req'[r].seen = cases[c].status
    BY <1>0, <1>1 DEF SubmitRead, TypeOK, Request
  <2> QED BY <1>1, <2>1 DEF SubmitRead, NewestHeld, Submitting, rows
<1>2. CASE SubmitAccepted(r)
  <2>1. /\ req'[r].at = "submit_commit" /\ req'[r].check = req[r].check
        /\ req'[r].case = req[r].case /\ req'[r].seen = req[r].seen
    BY <1>0, <1>2 DEF SubmitAccepted, TypeOK, Request
  <2> QED BY <1>0, <1>2, <2>1 DEF SubmitAccepted, NewestHeld, Submitting, NewestPending,
                                  PendingChecks, rows
<1>3. ASSUME \/ \E c \in Cases : SyncRead(r, c)
             \/ \E a \in Reviewers, c \in Cases : DecideRead(r, a, c)
             \/ \E k \in CheckIds, t \in Stamps : CallbackReceive(r, k, t)
             \/ CallbackCheckPending(r) \/ CallbackReadCase(r)
             \/ CallbackRollback(r) \/ SyncPick(r) \/ SyncFetch(r)
      PROVE  NewestHeld(r)' /\ UNCHANGED <<cases, checks>>
  <2>1. req'[r].at \in {"sync_check", "decide_commit", "callback_check", "callback_case",
                        "callback_apply", "callback_fail", "sync_fetch", "sync_apply"}
    <3>1. ASSUME NEW k \in CheckIds, NEW t \in Stamps, CallbackReceive(r, k, t)
          PROVE  req'[r].at = "callback_check"
      <4>1. PICK o \in {"PENDING", jobs[k]} :
              req' = [req EXCEPT ![r] = [@ EXCEPT !.at = "callback_check", !.check = k,
                                                  !.stamp = t, !.outcome = o]]
        BY <3>1 DEF CallbackReceive
      <4> QED BY <1>0, <4>1 DEF TypeOK, Request
    <3>2. ASSUME SyncPick(r) PROVE req'[r].at = "sync_fetch"
      <4>1. PICK k \in CheckIds : req' = [req EXCEPT ![r] = [@ EXCEPT !.at = "sync_fetch", !.check = k]]
        BY <3>2 DEF SyncPick
      <4> QED BY <1>0, <4>1 DEF TypeOK, Request
    <3>3. ASSUME \/ \E c \in Cases : SyncRead(r, c)
                 \/ \E a \in Reviewers, c \in Cases : DecideRead(r, a, c)
          PROVE  req'[r].at \in {"sync_check", "decide_commit"}
      BY <1>0, <3>3 DEF SyncRead, DecideRead, TypeOK, Request
    <3>4. ASSUME CallbackCheckPending(r) PROVE req'[r].at = "callback_case"
      BY <1>0, <3>4 DEF CallbackCheckPending, TypeOK, Request
    <3>5. ASSUME CallbackReadCase(r) PROVE req'[r].at = "callback_apply"
      BY <1>0, <3>5 DEF CallbackReadCase, TypeOK, Request
    <3>6. ASSUME CallbackRollback(r) PROVE req'[r].at = "callback_fail"
      BY <1>0, <3>6 DEF CallbackRollback, TypeOK, Request
    <3>7. ASSUME SyncFetch(r) PROVE req'[r].at = "sync_apply"
      BY <1>0, <3>7 DEF SyncFetch, TypeOK, Request
    <3> QED BY <1>3, <3>1, <3>2, <3>3, <3>4, <3>5, <3>6, <3>7
  <2>2. UNCHANGED <<cases, checks>>
    BY <1>3 DEF SyncRead, DecideRead, CallbackReceive, CallbackCheckPending,
       CallbackReadCase, CallbackRollback, SyncPick, SyncFetch, rows
  <2> QED BY <2>1, <2>2, OthersHoldNone
<1> QED BY <1>1, <1>2, <1>3

LEMMA RefreshKeptStep == ASSUME OneByOne, Inv, Turns, RefreshKept, [Next]_vars PROVE RefreshKept'
<1>0. TypeOK /\ SubmittedIsRefreshable
  BY DEF Inv, RefreshKept
<1> SUFFICES SubmittedIsRefreshable' /\ \A r \in Requests : NewestHeld(r)'
  BY DEF RefreshKept
<1>1. CASE UNCHANGED <<cases, checks, req>>
  BY <1>0, <1>1, SubmittedStays DEF RefreshKept, NewestHeld, Submitting, NewestPending, PendingChecks
<1>2. ASSUME NEW c \in Cases, NEW tier \in RequestedTiers, StartCase(c, tier)
      PROVE  SubmittedIsRefreshable' /\ \A r \in Requests : NewestHeld(r)'
  <2>1. \A d \in Cases : cases'[d].status = "SUBMITTED" => cases[d].status = "SUBMITTED"
    BY <1>0, <1>2 DEF StartCase, TypeOK, CaseRow
  <2> QED BY <1>0, <1>2, <2>1, SubmittedStays
             DEF StartCase, RefreshKept, NewestHeld, Submitting, NewestPending, PendingChecks
<1>3. ASSUME NEW k \in CheckIds, ProviderDecides(k)
      PROVE  SubmittedIsRefreshable' /\ \A r \in Requests : NewestHeld(r)'
  BY <1>1, <1>3 DEF ProviderDecides, rows
<1>4. ASSUME NEW r \in Requests,
             \/ SubmitFails(r) \/ SubmitCommit(r) \/ SubmitRefused(r)
             \/ CallbackUnknownJob(r) \/ CallbackDuplicate(r) \/ CallbackApply(r) \/ CallbackMarkFailed(r)
             \/ SyncNothing(r) \/ SyncUndecided(r) \/ SyncApply(r) \/ SyncRollback(r)
             \/ DecideCommit(r) \/ DecideRollback(r) \/ Crash(r)
      PROVE  SubmittedIsRefreshable' /\ \A q \in Requests : NewestHeld(q)'
  <2>1. Finish(r)
    BY <1>4 DEF SubmitFails, SubmitCommit, SubmitRefused, CallbackUnknownJob,
       CallbackDuplicate, CallbackApply, CallbackMarkFailed, SyncNothing, SyncUndecided,
       SyncApply, SyncRollback, DecideCommit, DecideRollback, Crash
  <2>2. \A q \in Requests : NewestHeld(q)'
    BY <1>0, <2>1, FinishHoldsNone DEF OneByOne
  <2>3. CASE \/ SubmitRefused(r) \/ CallbackUnknownJob(r) \/ CallbackDuplicate(r)
             \/ CallbackMarkFailed(r) \/ SyncNothing(r) \/ SyncUndecided(r) \/ SyncRollback(r)
             \/ DecideRollback(r) \/ Crash(r)
    <3>1. UNCHANGED <<cases, checks>>
      BY <2>3 DEF SubmitRefused, CallbackUnknownJob, CallbackDuplicate, CallbackMarkFailed,
         SyncNothing, SyncUndecided, SyncRollback, DecideRollback, Crash, rows
    <3> QED BY <1>0, <2>2, <3>1, SubmittedStays
  <2> QED BY <1>4, <2>2, <2>3, FailsRefreshes, CommitRefreshes, ApplyRefreshes, DecideRefreshes
<1>5. ASSUME NEW r \in Requests, SubmitInsert(r)
      PROVE  SubmittedIsRefreshable' /\ \A q \in Requests : NewestHeld(q)'
  BY <1>5, InsertRefreshes DEF OneByOne
<1>6. ASSUME NEW r \in Requests,
             \/ \E c \in Cases : SubmitRead(r, c) \/ SyncRead(r, c)
             \/ \E a \in Reviewers, c \in Cases : DecideRead(r, a, c)
             \/ \E k \in CheckIds, t \in Stamps : CallbackReceive(r, k, t)
             \/ SubmitAccepted(r) \/ CallbackCheckPending(r) \/ CallbackReadCase(r)
             \/ CallbackRollback(r) \/ SyncPick(r) \/ SyncFetch(r)
      PROVE  SubmittedIsRefreshable' /\ \A q \in Requests : NewestHeld(q)'
  <2>1. NewestHeld(r)' /\ UNCHANGED <<cases, checks>>
    BY <1>6, GoesOnHolds
  <2> QED BY <1>0, <2>1, SubmittedStays DEF OneByOne
<1> QED BY <1>1, <1>2, <1>3, <1>4, <1>5, <1>6 DEF Next, Handler, vars

\* Served one at a time, a submitted case always has a job that the refresh will
\* ask about, through deaths, timeouts and resubmissions: a check that was left
\* behind without a job is older than the one the case was submitted with.
THEOREM SubmittedNotStranded == ASSUME OneByOne PROVE Spec => []SubmittedIsRefreshable
<1>1. Init => RefreshKept
  BY DEF Init, RefreshKept, SubmittedIsRefreshable, NewestHeld, Submitting, Idle, NoStatus
<1>2. Inv /\ Turns /\ RefreshKept /\ [Next]_vars => RefreshKept'
  BY RefreshKeptStep
<1>3. RefreshKept => SubmittedIsRefreshable
  BY DEF RefreshKept
<1> QED
  BY <1>1, <1>2, <1>3, TurnsAlways, PTL DEF Spec

=============================================================================
