----------------------------- MODULE MCClients -----------------------------
(***************************************************************************)
(* The components that wait for the answers of others: the clients' pages, *)
(* and the API's own calls to the identity provider.  They share no state, *)
(* and a behaviour is one of `focus` alone, the others stay as they start. *)
(***************************************************************************)
EXTENDS SmileIdentity, Consents, Sessions, KycPage

VARIABLE focus

MCOpOf == [c1 |-> "submit", c2 |-> "status"]

On(f) == focus = f /\ UNCHANGED focus

ClientsInit ==
  /\ focus \in {"provider", "consents", "sessions", "kyc page"}
  /\ SmileInit /\ ConsentInit /\ SessionInit /\ PageInit
  /\ focus # "sessions" => platform = "web" /\ \A u \in Users : refused[u] = "none"
  /\ focus # "kyc page" => \A n \in CaseNos : served[n].status = NoStatus

ClientsNext ==
  \/ On("provider") /\ SmileNext /\ UNCHANGED <<consentVars, sessionVars, pageVars>>
  \/ On("consents") /\ ConsentNext /\ UNCHANGED <<smileVars, sessionVars, pageVars>>
  \/ On("sessions") /\ SessionNext /\ UNCHANGED <<smileVars, consentVars, pageVars>>
  \/ On("kyc page") /\ PageNext /\ UNCHANGED <<smileVars, consentVars, sessionVars>>

clientsVars == <<focus, smileVars, consentVars, sessionVars, pageVars>>

\* The fairness of the components, each under its focus.
ClientsFairness ==
  /\ \A c \in Calls : WF_smileVars(focus = "provider" /\ CallStep(c))
  /\ \A p \in Clients :
       /\ WF_consentVars(focus = "consents" /\ LoadDocuments(p))
       /\ WF_consentVars(focus = "consents" /\ ClientStep(p))
  /\ \A p \in Clients \cap {"mobile"} :
       /\ WF_consentVars(focus = "consents" /\ AcceptAll(p))
       /\ SF_consentVars(focus = "consents" /\ Reopen(p))
       /\ WF_consentVars(focus = "consents" /\ SaveProfile(p, TRUE))
       /\ WF_consentVars(focus = "consents" /\ RenewSession(p))
  /\ \A i \in FetchSlots : WF_sessionVars(focus = "sessions" /\ FetchEnds(i))
  /\ \A i \in Slots : WF_pageVars(focus = "kyc page" /\ Arrives(i))

ClientsSpec == ClientsInit /\ [][ClientsNext]_clientsVars /\ ClientsFairness

ClientsTypeOK == SmileTypeOK /\ ConsentTypeOK /\ SessionTypeOK /\ PageTypeOK

\* Nobody waits for ever: a call of the provider's adapter, the spinner of a
\* client's shell and the spinner of the verification page come to an end.
WaitingEnds ==
  /\ focus = "provider" => CallsEnd
  /\ focus = "sessions" => AccountLoads
  /\ focus = "kyc page" => SpinnerEnds

\* ConsentsInTheEnd, of the behaviours in which the user goes on.
OnboardingEnds == focus = "consents" => ConsentsInTheEnd
=============================================================================
