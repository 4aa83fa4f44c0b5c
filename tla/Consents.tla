------------------------------ MODULE Consents ------------------------------
(***************************************************************************)
(* Legal documents and a user's consents (LegalService), the onboarding    *)
(* screens of the web and the mobile client by which the user gives them,  *)
(* and the gate of the mobile client that sends a user with pending        *)
(* documents back there.                                                   *)
(*                                                                         *)
(* One user, with a web and a mobile client open at once.  Documents are   *)
(* published by an operator, outside the code; any request may fail.       *)
(***************************************************************************)
EXTENDS Naturals, FiniteSets

CONSTANTS
  Clients,      \* a subset of {"web", "mobile"}
  DocTypes,     \* types of legal documents
  MaxVersion,   \* bound: versions published of a document
  MaxFailures   \* bound: requests that fail

ASSUME ConsentsAssumption ==
  /\ Clients \subseteq {"web", "mobile"} /\ IsFiniteSet(Clients)
  /\ MaxVersion \in Nat \ {0} /\ MaxFailures \in Nat

VARIABLES
  terms,     \* the version of each document that is current
  consents,  \* user_consents: <<document, version>>
  audited,   \* events legal.consent_recorded: <<document, version, client>>
  named,     \* does the profile have a first and a last name?
  screens,   \* what each client shows and is doing
  failures   \* requests that failed

consentVars == <<terms, consents, audited, named, screens, failures>>

Versions == 1..MaxVersion
Unloaded == [d \in {} |-> 0]
Doing == {"nothing", "check", "insert", "audit", "save", "refresh",
          "refresh, then step2", "refresh, then home"}

Screens ==
  [at : {"step1", "step2", "home"},
   docs : {Unloaded} \cup [DocTypes -> Versions], loaded : BOOLEAN,
   known : BOOLEAN, pending : SUBSET DocTypes,    \* me, and me.pendingConsents
   doing : Doing, left : SUBSET DocTypes,         \* the loop of acceptAll
   doc : SUBSET DocTypes, error : BOOLEAN]        \* the document being recorded

ConsentTypeOK ==
  /\ terms \in [DocTypes -> Versions]
  /\ consents \subseteq DocTypes \X Versions
  /\ audited \subseteq DocTypes \X Versions \X Clients
  /\ named \in BOOLEAN
  /\ screens \in [Clients -> Screens]
  /\ failures \in 0..MaxFailures

\* Onboarding as it opens: the documents are asked for, and me is.
Opened == [at |-> "step1", docs |-> Unloaded, loaded |-> FALSE, known |-> FALSE,
           pending |-> {}, doing |-> "refresh", left |-> {}, doc |-> {}, error |-> FALSE]

ConsentInit ==
  /\ terms = [d \in DocTypes |-> 1]
  /\ consents = {} /\ audited = {} /\ named = FALSE
  /\ screens = [p \in Clients |-> Opened]
  /\ failures = 0

Publish(d) ==
  /\ terms[d] < MaxVersion
  /\ terms' = [terms EXCEPT ![d] = @ + 1]
  /\ UNCHANGED <<consents, audited, named, screens, failures>>

Show(p, s) == screens' = [screens EXCEPT ![p] = s]

\* The documents are asked for once per opening; a failure leaves no document.
LoadDocuments(p) ==
  /\ screens[p].at # "home" /\ ~screens[p].loaded
  /\ \/ /\ Show(p, [screens[p] EXCEPT !.docs = terms, !.loaded = TRUE])
        /\ UNCHANGED failures
     \/ /\ failures < MaxFailures
        /\ Show(p, [screens[p] EXCEPT !.loaded = TRUE])
        /\ failures' = failures + 1
  /\ UNCHANGED <<terms, consents, audited, named>>

\* LegalService.pendingFor: documents whose current version has no consent.
PendingFor == {d \in DocTypes : <<d, terms[d]>> \notin consents}

\* Where a fresh me leads: home when nothing is left to do, else where the
\* handler that refreshed goes, else to the step that has something to do.
Lead(s, pending) ==
  CASE s.at = "home" -> "home"
    [] pending = {} /\ named -> "home"
    [] s.doing = "refresh, then home" -> "home"
    [] s.doing = "refresh, then step2" \/ pending = {} -> "step2"
    [] OTHER -> s.at

\* Mutant of Gated: no gate.
NotGated(p, at, pending) == FALSE

\* The mobile gate: home is left for onboarding while documents are pending.
Gated(p, at, pending) == p = "mobile" /\ at = "home" /\ pending # {}

\* The answer of GET /users/me arrives.
MeArrives(p) ==
  LET s == screens[p]
      at == Lead(s, PendingFor)
      home == [s EXCEPT !.at = "home", !.docs = Unloaded, !.loaded = FALSE]
      next == IF Gated(p, at, PendingFor) THEN Opened
              ELSE IF at = "home" THEN home ELSE [s EXCEPT !.at = at]
  IN /\ s.doing \in {"refresh", "refresh, then step2", "refresh, then home"}
     /\ Show(p, [next EXCEPT !.known = TRUE, !.pending = PendingFor, !.doing = "nothing",
                             !.error = FALSE])
     /\ UNCHANGED <<terms, consents, audited, named, failures>>

PendingDocs(s) == DOMAIN s.docs \cap s.pending
Idle(s, at) == s.at = at /\ s.doing = "nothing" /\ s.known /\ s.loaded

\* acceptAll, once every box is ticked; with nothing to offer the screen says
\* all documents are accepted and goes on.
AcceptAll(p) ==
  LET s == screens[p] IN
  /\ Idle(s, "step1")
  /\ Show(p, IF PendingDocs(s) = {} THEN [s EXCEPT !.at = "step2"]
             ELSE [s EXCEPT !.doing = "check", !.left = PendingDocs(s), !.error = FALSE])
  /\ UNCHANGED <<terms, consents, audited, named, failures>>

\* recordConsent of the next document: only a current version is accepted.
CheckCurrent(p) ==
  LET s == screens[p] IN
  /\ s.doing = "check" /\ s.left # {}
  /\ \E d \in s.left :
       Show(p, IF s.docs[d] = terms[d]
               THEN [s EXCEPT !.doing = "insert", !.doc = {d}]
               ELSE [s EXCEPT !.doing = "nothing", !.left = {}, !.error = TRUE])
  /\ UNCHANGED <<terms, consents, audited, named, failures>>

\* Mutant of Inserted: the conflict is not noticed.
AlwaysInserted(c) == TRUE

\* INSERT .. ON CONFLICT DO NOTHING: whoever inserts the row writes the event.
Inserted(c) == c \notin consents

Consent(s, d) == <<d, s.docs[d]>>
DocDone(s) == [s EXCEPT !.doing = "check", !.left = @ \ s.doc, !.doc = {}]

InsertConsent(p) ==
  LET s == screens[p] IN
  /\ s.doing = "insert"
  /\ \E d \in s.doc :
       /\ consents' = consents \cup {Consent(s, d)}
       /\ Show(p, IF Inserted(Consent(s, d)) THEN [s EXCEPT !.doing = "audit"] ELSE DocDone(s))
  /\ UNCHANGED <<terms, audited, named, failures>>

AuditConsent(p) ==
  LET s == screens[p] IN
  /\ s.doing = "audit"
  /\ \E d \in s.doc : audited' = audited \cup {<<d, s.docs[d], p>>}
  /\ Show(p, DocDone(s))
  /\ UNCHANGED <<terms, consents, named, failures>>

AllRecorded(p) ==
  /\ screens[p].doing = "check" /\ screens[p].left = {}
  /\ Show(p, [screens[p] EXCEPT !.doing = "refresh, then step2"])
  /\ UNCHANGED <<terms, consents, audited, named, failures>>

\* saveProfile: empty names are not sent, and the web's form wants both.
SaveProfile(p, filled) ==
  /\ Idle(screens[p], "step2")
  /\ filled \/ p = "mobile"
  /\ named' = (named \/ filled)
  /\ Show(p, [screens[p] EXCEPT !.doing = "refresh, then home", !.error = FALSE])
  /\ UNCHANGED <<terms, consents, audited, failures>>

\* A request fails: the handler stops there.  An audit write that fails is
\* logged and forgotten.
RequestFails(p) ==
  LET s == screens[p] IN
  /\ s.doing # "nothing" /\ failures < MaxFailures
  /\ Show(p, IF s.doing = "audit" THEN DocDone(s)
             ELSE [s EXCEPT !.doing = "nothing", !.left = {}, !.doc = {}, !.error = TRUE])
  /\ failures' = failures + 1
  /\ UNCHANGED <<terms, consents, audited, named>>

\* The session's token is renewed, or the application restarted: me is read
\* again.
RenewSession(p) ==
  /\ screens[p].at = "home" /\ screens[p].doing = "nothing"
  /\ Show(p, [screens[p] EXCEPT !.doing = "refresh"])
  /\ UNCHANGED <<terms, consents, audited, named, failures>>

\* The user opens onboarding again: after an error, or from the account page
\* of the web client.
Reopen(p) ==
  /\ screens[p].doing = "nothing"
  /\ screens[p].error \/ (p = "web" /\ screens[p].at = "home" /\ screens[p].pending # {})
  /\ Show(p, Opened)
  /\ UNCHANGED <<terms, consents, audited, named, failures>>

ClientStep(p) ==
  \/ LoadDocuments(p)
  \/ MeArrives(p)
  \/ CheckCurrent(p)
  \/ InsertConsent(p)
  \/ AuditConsent(p)
  \/ AllRecorded(p)

UserStep(p) ==
  \/ AcceptAll(p)
  \/ \E filled \in BOOLEAN : SaveProfile(p, filled)
  \/ RenewSession(p)
  \/ Reopen(p)

ConsentNext ==
  \/ \E d \in DocTypes : Publish(d)
  \/ \E p \in Clients : ClientStep(p) \/ UserStep(p) \/ RequestFails(p)

\* Answers arrive, and the user of a mobile client goes on with it.
ConsentFairness ==
  /\ \A p \in Clients : WF_consentVars(LoadDocuments(p)) /\ WF_consentVars(ClientStep(p))
  /\ \A p \in Clients \cap {"mobile"} :
       /\ WF_consentVars(AcceptAll(p)) /\ SF_consentVars(Reopen(p))
       /\ WF_consentVars(SaveProfile(p, TRUE)) /\ WF_consentVars(RenewSession(p))

ConsentSpec == ConsentInit /\ [][ConsentNext]_consentVars /\ ConsentFairness

(***************************************************************************)
(* Properties                                                              *)
(***************************************************************************)
\* However many clients accept a document at once, and however often they try
\* again, a consent is on record once and audited once, and nothing is audited
\* that is not on record (recordConsent).
AuditedOnce ==
  /\ \A a, b \in audited : (a[1] = b[1] /\ a[2] = b[2]) => a = b
  /\ \A a \in audited : <<a[1], a[2]>> \in consents

\* A user of the mobile client ends up with a consent to every current
\* document, through publications in the middle of onboarding, failed requests
\* and lists of documents that did not load (Gate, acceptAll).
ConsentsInTheEnd ==
  "mobile" \in Clients =>
    <>[](\A d \in DocTypes : <<d, terms[d]>> \in consents)
=============================================================================
