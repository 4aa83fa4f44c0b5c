---------------------------- MODULE KycDocuments ----------------------------
(***************************************************************************)
(* The documents of one KYC case: the rows of kyc_documents and the        *)
(* objects in the private bucket, which no transaction covers together.    *)
(* uploadDocument and deleteDocument of kyc.service.ts, split at their     *)
(* awaits, while the case moves on through its machine.                    *)
(***************************************************************************)
EXTENDS Naturals, FiniteSets, KycMachine

CONSTANTS
  Docs,         \* uploads ever stored; each has a random path of its own
  Requests,     \* slots for API requests in flight at once
  MaxDocuments, \* MAX_DOCUMENTS_PER_CASE
  NoDoc

ASSUME DocAssumption == NoDoc \notin Docs /\ IsFiniteSet(Docs) /\ IsFiniteSet(Requests)
ASSUME LimitAssumption == MaxDocuments \in Nat \ {0}

VARIABLES
  status,  \* of the case
  rows,    \* kyc_documents: each absent, live or deleted (deleted_at set)
  objects, \* paths with an object in the bucket
  req,     \* the requests in flight
  mishap   \* history: a request died or a call of it failed

vars == <<status, rows, objects, req, mishap>>

Steps == {"idle", "upload_count", "upload_store", "upload_row",
          "delete_case", "delete_row", "delete_object"}

Idle == [at |-> "idle", doc |-> NoDoc]

TypeOK ==
  /\ status \in KycStates
  /\ rows \in [Docs -> {"absent", "live", "deleted"}]
  /\ objects \subseteq Docs
  /\ req \in [Requests -> [at : Steps, doc : Docs \cup {NoDoc}]]
  /\ mishap \in BOOLEAN

Init ==
  /\ status = "DRAFT"
  /\ rows = [d \in Docs |-> "absent"]
  /\ objects = {}
  /\ req = [r \in Requests |-> Idle]
  /\ mishap = FALSE

LiveDocs == {d \in Docs : rows[d] = "live"}

\* Documents are added to and removed from a draft or reopened case only.
Editable == status \in {"DRAFT", "MORE_INFO_REQUIRED"}

Goto(r, at, d) == req' = [req EXCEPT ![r] = [at |-> at, doc |-> d]]
Finish(r) == req' = [req EXCEPT ![r] = Idle]

(***************************************************************************)
(* uploadDocument                                                          *)
(***************************************************************************)
UploadRead(r) ==
  /\ req[r] = Idle
  /\ Editable
  /\ Goto(r, "upload_count", NoDoc)
  /\ UNCHANGED <<status, rows, objects, mishap>>

\* Mutant of BelowLimit: off by one.
AtMostLimit == Cardinality(LiveDocs) <= MaxDocuments

BelowLimit == Cardinality(LiveDocs) < MaxDocuments

\* The count, then the checks of the file: type, size, first bytes.
UploadCount(r) ==
  /\ req[r].at = "upload_count"
  /\ \/ BelowLimit /\ Goto(r, "upload_store", NoDoc)
     \/ Finish(r)
  /\ UNCHANGED <<status, rows, objects, mishap>>

Unused(d) == rows[d] = "absent" /\ d \notin objects /\ \A r \in Requests : req[r].doc # d

UploadStore(r) ==
  /\ req[r].at = "upload_store"
  /\ \E d \in Docs :                       \* bound: Docs
       /\ Unused(d)
       /\ objects' = objects \cup {d}
       /\ Goto(r, "upload_row", d)
  /\ UNCHANGED <<status, rows, mishap>>

UploadRow(r) ==
  /\ req[r].at = "upload_row"
  /\ rows' = [rows EXCEPT ![req[r].doc] = "live"]
  /\ Finish(r)
  /\ UNCHANGED <<status, objects, mishap>>

(***************************************************************************)
(* deleteDocument                                                          *)
(***************************************************************************)
DeleteRead(r, d) ==
  /\ req[r] = Idle
  /\ rows[d] = "live"
  /\ Goto(r, "delete_case", d)
  /\ UNCHANGED <<status, rows, objects, mishap>>

\* Mutant of FirstDeletion: the object goes before the row.
ObjectFirst == "delete_object"

\* The row is marked deleted before the object goes.
FirstDeletion == "delete_row"

DeleteCase(r) ==
  /\ req[r].at = "delete_case"
  /\ IF Editable THEN Goto(r, FirstDeletion, req[r].doc) ELSE Finish(r)
  /\ UNCHANGED <<status, rows, objects, mishap>>

\* Mutant of AfterRow: the object is forgotten.
NothingAfterRow(r) == Finish(r)

AfterRow(r) == Goto(r, "delete_object", req[r].doc)

DeleteRow(r) ==
  /\ req[r].at = "delete_row"
  /\ rows' = [rows EXCEPT ![req[r].doc] = "deleted"]
  /\ AfterRow(r)
  /\ UNCHANGED <<status, objects, mishap>>

DeleteObject(r) ==
  /\ req[r].at = "delete_object"
  /\ objects' = objects \ {req[r].doc}
  /\ Finish(r)
  /\ UNCHANGED <<status, rows, mishap>>

(***************************************************************************)
(* The world                                                               *)
(***************************************************************************)
\* The case moves: a submission, a callback, an officer.  No code sets
\* EXPIRED or reopens a closed case.
CaseMoves ==
  /\ \E s \in KycStates \ {"DRAFT", "EXPIRED"} : TransitionAllowed(status, s) /\ status' = s
  /\ UNCHANGED <<rows, objects, req, mishap>>

\* The request dies, or the call it is making fails; a storage call that
\* timed out may have taken effect all the same.
Fail(r) ==
  /\ req[r].at # "idle"
  /\ \/ UNCHANGED objects
     \/ req[r].at = "upload_store" /\ \E d \in Docs : Unused(d) /\ objects' = objects \cup {d}
     \/ req[r].at = "delete_object" /\ objects' = objects \ {req[r].doc}
  /\ Finish(r)
  /\ mishap' = TRUE
  /\ UNCHANGED <<status, rows>>

Serve(r) ==
  \/ UploadRead(r) \/ UploadCount(r) \/ UploadStore(r) \/ UploadRow(r)
  \/ \E d \in Docs : DeleteRead(r, d)
  \/ DeleteCase(r) \/ DeleteRow(r) \/ DeleteObject(r)
  \/ Fail(r)

Next == (\E r \in Requests : Serve(r)) \/ CaseMoves

Spec == Init /\ [][Next]_vars

(***************************************************************************)
(* Properties                                                              *)
(***************************************************************************)

\* A document the API lists can be opened: its object is in the bucket,
\* whatever failed and whoever deletes at the same time.
LiveHasObject == \A d \in LiveDocs : d \in objects

\* The count is not taken with the insert, so the limit is passed by racing
\* uploads only: by one for each further request in flight.
LimitPassedByRacersOnly ==
  Cardinality(LiveDocs) <= MaxDocuments + Cardinality(Requests) - 1

\* When nothing failed, the bucket holds the documents listed and no other:
\* no private document outlives its deletion.
NoOrphans ==
  ~mishap /\ (\A r \in Requests : req[r] = Idle) => objects = LiveDocs

=============================================================================
