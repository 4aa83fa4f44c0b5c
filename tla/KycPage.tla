------------------------------ MODULE KycPage ------------------------------
(***************************************************************************)
(* The identity verification page of the web and of the mobile client, and *)
(* the endpoints of KycController it calls.  The two pages are the same,   *)
(* handler by handler.                                                     *)
(*                                                                         *)
(* The page loads the open case in two requests, and again whenever the    *)
(* user's profile (`me`) has been fetched; starting a case, submitting an  *)
(* identity and refreshing its status show the answer and then fetch `me`; *)
(* uploading and deleting a document show what they make of the answer.    *)
(* Requests overlap, are answered in any order, are refused or fail; every *)
(* one is served at some moment in between.  Each endpoint is one step of  *)
(* the server here: KycCase and KycDocuments model what is inside.         *)
(***************************************************************************)
EXTENDS KycMachine, Naturals, FiniteSets, FiniteSetsExt

CONSTANTS
  MaxCases,    \* bound: cases the user opens
  MaxFlights,  \* bound: handlers at work at once
  Outcomes,    \* statuses that the provider, officers and other clients move to
  Files        \* documents

ASSUME PageAssumption ==
  MaxCases \in Nat \ {0} /\ MaxFlights \in Nat \ {0}
  /\ Outcomes \subseteq KycStates /\ IsFiniteSet(Files)

VARIABLES
  served,   \* the user's cases in the database: [status, docs] of each
  page,     \* what the page shows, its spinner, me.kyc.canStart
  flights,  \* the handlers at work, each waiting for an answer
  current,  \* history: is what is shown later than the user's last operation?
  doubt     \* history: a request failed, loads overlapped or a document handler
            \* changed what is shown since the last load

pageVars == <<served, page, flights, current, doubt>>

CaseNos == 1..MaxCases
Slots == 1..MaxFlights
Operations == {"start", "sync", "submit"}
DocumentOps == {"upload", "remove"}
Forms == {"submit", "upload"}

\* What `kycCase` holds: null, a case, or an answer that is not a case.
NoCase == [case |-> 0, status |-> NoStatus, docs |-> {}]

\* Mutant of NotACase: the answer has a status of its own.
OwnStatus == [case |-> 0, status |-> "STORED", docs |-> {}]

NotACase == [case |-> 0, status |-> "undefined", docs |-> {}]

Views == [case : 0..MaxCases, status : KycStates \cup {NoStatus, "undefined"},
          docs : SUBSET Files]

\* A handler: at "sent", "case" (the second request of a load), "answered",
\* and "me" or "me answered" for the refresh that follows; the view it works
\* with, is its answer later than the user's last operation, is it the only
\* load, and does the form it was sent from still show that it is busy?
Flight(of, at, view) ==
  [of |-> of, at |-> at, view |-> view, fresh |-> FALSE, alone |-> TRUE, held |-> TRUE]
NoFlight == Flight("none", "none", NoCase)

PageTypeOK ==
  /\ served \in [CaseNos -> [status : KycStates \cup {NoStatus}, docs : SUBSET Files]]
  /\ page \in [shown : Views, spinner : BOOLEAN, canStart : BOOLEAN]
  /\ flights \in [Slots ->
       [of : Operations \cup DocumentOps \cup {"load", "none"},
        at : {"none", "sent", "case", "answered", "me", "me answered"},
        view : Views, fresh : BOOLEAN, alone : BOOLEAN, held : BOOLEAN]]
  /\ current \in BOOLEAN /\ doubt \in BOOLEAN

(***************************************************************************)
(* The server                                                              *)
(***************************************************************************)
OpenCases == {n \in CaseNos : served[n].status \in OpenStatuses}

\* KycService.summaryFor: the id of the open case only, and may one be started?
SummaryFor == [caseId |-> IF OpenCases = {} THEN 0 ELSE Max(OpenCases), canStart |-> OpenCases = {}]

\* KycService.caseView
CaseView(n) == [case |-> n, status |-> served[n].status, docs |-> served[n].docs]

Answered(i, at, view) ==
  /\ flights' = [flights EXCEPT ![i] = [@ EXCEPT !.at = at, !.view = view, !.fresh = TRUE]]
  /\ UNCHANGED current

\* An operation of the user is carried out: answers given before are old now.
Carried(i, n, status, view) ==
  /\ served' = [served EXCEPT ![n].status = status]
  /\ flights' = [j \in Slots |->
       IF j = i THEN [flights[j] EXCEPT !.at = "answered", !.view = view, !.fresh = TRUE]
       ELSE [flights[j] EXCEPT !.fresh = FALSE]]
  /\ current' = FALSE

ServeStart(i) ==
  /\ flights[i].of = "start"
  /\ OpenCases = {}
  /\ \E n \in CaseNos :
       /\ served[n].status = NoStatus /\ \A m \in 1..(n - 1) : served[m].status # NoStatus
       /\ Carried(i, n, "DRAFT", [case |-> n, status |-> "DRAFT", docs |-> {}])

ServeSubmit(i) ==
  LET n == flights[i].view.case IN
  /\ flights[i].of = "submit"
  /\ served[n].status \in {"DRAFT", "MORE_INFO_REQUIRED"}
  /\ Carried(i, n, "SUBMITTED", [CaseView(n) EXCEPT !.status = "SUBMITTED"])

\* The controller answers {ok: true}.
ServeSync(i) ==
  LET n == flights[i].view.case IN
  /\ flights[i].of = "sync"
  /\ \E s \in Outcomes \cup {served[n].status} :
       /\ s = served[n].status \/ TransitionAllowed(served[n].status, s)
       /\ Carried(i, n, s, NotACase)

\* The controller answers the document.
ServeUpload(i) ==
  LET n == flights[i].view.case IN
  /\ flights[i].of = "upload"
  /\ served[n].status \in {"DRAFT", "MORE_INFO_REQUIRED"}
  /\ \E d \in Files \ UNION {served[m].docs : m \in CaseNos} :
       served' = [served EXCEPT ![n].docs = @ \cup {d}]
  /\ Answered(i, "answered", NotACase)

\* The view is the case as it was shown, without the document.
ServeRemove(i) ==
  LET n == flights[i].view.case IN
  /\ flights[i].of = "remove"
  /\ served[n].status \in {"DRAFT", "MORE_INFO_REQUIRED"}
  /\ \E d \in served[n].docs :
       /\ served' = [served EXCEPT ![n].docs = @ \ {d}]
       /\ Answered(i, "answered", [flights[i].view EXCEPT !.docs = @ \ {d}])

\* loadCase: GET kyc/status, then GET kyc/cases/:id of the case it names.
ServeStatus(i) ==
  /\ flights[i].of = "load" /\ flights[i].at = "sent"
  /\ UNCHANGED served
  /\ Answered(i, IF SummaryFor.caseId = 0 THEN "answered" ELSE "case",
              [NoCase EXCEPT !.case = SummaryFor.caseId])

ServeCase(i) ==
  /\ flights[i].at = "case"
  /\ UNCHANGED served
  /\ Answered(i, "answered", CaseView(flights[i].view.case))

\* GET users/me; the view's status keeps canStart.
ServeMe(i) ==
  /\ flights[i].at = "me"
  /\ UNCHANGED served
  /\ Answered(i, "me answered", IF SummaryFor.canStart THEN NoCase ELSE NotACase)

Serve(i) ==
  /\ \/ /\ flights[i].at = "sent"
        /\ \/ ServeStart(i) \/ ServeSubmit(i) \/ ServeSync(i)
           \/ ServeUpload(i) \/ ServeRemove(i) \/ ServeStatus(i)
     \/ ServeCase(i)
     \/ ServeMe(i)
  /\ UNCHANGED <<page, doubt>>

\* The provider, officers and other clients move a case meanwhile.
OthersMove(n, s) ==
  /\ TransitionAllowed(served[n].status, s)
  /\ s \in OpenStatuses => OpenCases \subseteq {n}
  /\ served' = [served EXCEPT ![n].status = s]
  /\ UNCHANGED <<page, flights, current, doubt>>

(***************************************************************************)
(* The page                                                                *)
(***************************************************************************)
\* A new load: the forms are replaced by the spinner and forget that they are
\* busy, and loads in flight together are no longer alone.
WithLoad(fs, i) ==
  [j \in Slots |->
     IF j = i THEN [Flight("load", "sent", NoCase) EXCEPT
                      !.alone = \A k \in Slots \ {i} : fs[k].of # "load"]
     ELSE IF fs[j].of = "load" THEN [fs[j] EXCEPT !.alone = FALSE]
     ELSE IF fs[j].of \in Forms THEN [fs[j] EXCEPT !.held = FALSE] ELSE fs[j]]

PageInit ==
  /\ served \in [CaseNos -> [status : Outcomes \cup {"DRAFT", "SUBMITTED", NoStatus}, docs : {{}}]]
  /\ \A n \in CaseNos : n > 1 => served[n].status = NoStatus
  /\ current = FALSE /\ doubt = FALSE
  /\ page = [shown |-> NoCase, spinner |-> TRUE, canStart |-> SummaryFor.canStart]
  /\ flights = WithLoad([i \in Slots |-> NoFlight], 1)

\* The card shown for a status.
CardOf(view) ==
  CASE view.status \in {NoStatus, "undefined"} -> "start"
    [] view.status \in {"DRAFT", "MORE_INFO_REQUIRED"} -> "forms"
    [] view.status \in {"SUBMITTED", "IN_REVIEW"} -> "under review"
    [] view.status = "EXPIRED" -> "restart"
    [] OTHER -> "outcome"

Busy(of) == \E i \in Slots : flights[i].of \in of /\ flights[i].held

\* A click sends a request from the card that is shown, unless the button is
\* busy: starting and refreshing share one flag, each form has its own.
Click(of, i) ==
  /\ flights[i] = NoFlight /\ \A j \in 1..(i - 1) : flights[j] # NoFlight
  /\ ~page.spinner
  /\ flights' = [flights EXCEPT ![i] =
       Flight(of, "sent", IF of = "remove" THEN page.shown
                          ELSE [NoCase EXCEPT !.case = page.shown.case])]
  /\ UNCHANGED <<served, page, current, doubt>>

StartOrSyncBusy == \E i \in Slots : flights[i].of \in {"start", "sync"}

StartCase(i) ==
  /\ ~StartOrSyncBusy
  /\ \/ CardOf(page.shown) = "start" /\ page.canStart
     \/ CardOf(page.shown) = "restart"
  /\ Click("start", i)

SyncCase(i) ==
  CardOf(page.shown) = "under review" /\ ~StartOrSyncBusy /\ Click("sync", i)

SubmitForm(i) ==
  CardOf(page.shown) = "forms" /\ ~Busy({"submit"}) /\ Click("submit", i)

Upload(i) ==
  CardOf(page.shown) = "forms" /\ ~Busy({"upload"}) /\ Click("upload", i)

\* The button of a deletion is never disabled.
Remove(i) ==
  CardOf(page.shown) = "forms" /\ page.shown.docs # {} /\ Click("remove", i)

\* A view is shown; forms that leave the screen forget that they are busy.
Showing(f) == page' = [page EXCEPT !.shown = f.view] /\ current' = f.fresh
Kept(fs, view) ==
  IF CardOf(view) = "forms" THEN fs
  ELSE [j \in Slots |-> IF fs[j].of \in Forms THEN [fs[j] EXCEPT !.held = FALSE] ELSE fs[j]]

LoadAnswered(i) ==
  LET f == flights[i] IN
  /\ f.of = "load" /\ f.at = "answered"
  /\ page' = [page EXCEPT !.shown = f.view, !.spinner = FALSE]
  /\ current' = f.fresh
  /\ flights' = [flights EXCEPT ![i] = NoFlight]
  /\ doubt' = ~f.alone
  /\ UNCHANGED served

\* Mutant of Refreshing: the status of the case is refreshed, `me` is not.
RefreshingLess == {"start", "submit"}

\* The operations whose handlers fetch `me` when they are answered.
Refreshing == Operations

OperationAnswered(i) ==
  LET f == flights[i] IN
  /\ f.of \in Operations /\ f.at = "answered"
  /\ Showing(f)
  /\ flights' = Kept([flights EXCEPT ![i] = 
                      IF f.of \in Refreshing
                      THEN [Flight(f.of, "me", NoCase) EXCEPT !.held = f.held] ELSE NoFlight],
                    f.view)
  /\ UNCHANGED <<served, doubt>>

\* A new `me` makes the page load the case again.
MeAnswered(i) ==
  /\ flights[i].at = "me answered"
  /\ page' = [page EXCEPT !.canStart = (flights[i].view = NoCase), !.spinner = TRUE]
  /\ flights' = WithLoad(flights, i)
  /\ UNCHANGED <<served, current, doubt>>

DocumentAnswered(i) ==
  LET f == flights[i] IN
  /\ f.of \in DocumentOps /\ f.at = "answered"
  /\ Showing(f)
  /\ flights' = Kept([flights EXCEPT ![i] = NoFlight], f.view)
  /\ doubt' = TRUE
  /\ UNCHANGED served

\* Mutant of SpinnerAfterFailure: only a load that succeeds takes it away.
SpinnerStays == TRUE

\* The spinner is taken away whatever becomes of the load.
SpinnerAfterFailure == FALSE

\* The API refuses an operation: an error is shown.
Refused(i) ==
  /\ flights[i].of \in Operations \cup DocumentOps /\ flights[i].at = "sent"
  /\ flights' = [flights EXCEPT ![i] = NoFlight]
  /\ UNCHANGED <<served, page, current, doubt>>

\* A request or its answer is lost: a load shows no case, any other handler an
\* error.
RequestLost(i) ==
  LET f == flights[i] IN
  /\ f.of # "none"
  /\ page' = IF f.of = "load"
             THEN [page EXCEPT !.shown = NoCase, !.spinner = page.spinner /\ SpinnerAfterFailure]
             ELSE page
  /\ flights' = [j \in Slots |-> IF j = i THEN NoFlight
                                 ELSE IF flights[j].of = "load" THEN [flights[j] EXCEPT !.alone = FALSE]
                                 ELSE flights[j]]
  /\ doubt' = TRUE
  /\ UNCHANGED <<served, current>>

\* The page is left and opened again while nothing is in flight.
Quiet == \A i \in Slots : flights[i] = NoFlight
OpenAgain ==
  /\ Quiet
  /\ page' = [page EXCEPT !.shown = NoCase, !.spinner = TRUE]
  /\ flights' = WithLoad(flights, 1)
  /\ UNCHANGED <<served, current, doubt>>

Arrives(i) ==
  \/ LoadAnswered(i)
  \/ OperationAnswered(i)
  \/ MeAnswered(i)
  \/ DocumentAnswered(i)
  \/ Refused(i)
  \/ RequestLost(i)

PageNext ==
  \/ \E i \in Slots : \/ Serve(i) \/ Arrives(i)
                      \/ StartCase(i) \/ SyncCase(i) \/ SubmitForm(i) \/ Upload(i) \/ Remove(i)
  \/ \E n \in CaseNos, s \in Outcomes : OthersMove(n, s)
  \/ OpenAgain

\* Requests come to an end.
PageFairness == \A i \in Slots : WF_pageVars(Arrives(i))

PageSpec == PageInit /\ [][PageNext]_pageVars /\ PageFairness

(***************************************************************************)
(* Properties                                                              *)
(***************************************************************************)
\* Once nothing is in flight the page shows a case as the server had it after
\* the user's last operation, whatever order the answers came in.  It need not
\* when the last thing shown came from a document handler, loads overlapped, or
\* a request failed since the last load.
PageHeals ==
  (Quiet /\ ~doubt) => current /\ page.shown # NotACase

\* The spinner of the page ends, whatever becomes of its requests.
SpinnerEnds == page.spinner ~> ~page.spinner

\* What api.kyc answers is a case: "uploadDocument" and "sync" are declared to
\* return KycCaseDto (packages/api-client/src/index.ts:196 and :201).
ShownIsACase == Quiet => page.shown # NotACase
=============================================================================
