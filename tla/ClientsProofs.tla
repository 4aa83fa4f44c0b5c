---------------------------- MODULE ClientsProofs ---------------------------
(*****************************************************************************)
(* Proofs about the components that wait for others, for any calls, tokens,  *)
(* documents, users and cases, and about their composition in MCClients.     *)
(*                                                                           *)
(* SmileIdentity: a retry never sends the cached token, so the token it      *)
(* holds, from the moment the provider issued it, is accepted or was         *)
(* forgotten while the call ran; whoever writes the cache meanwhile does not *)
(* matter.  Consents: whoever inserts a consent owes its event; the          *)
(* invariant keeps the consents that are owed an event apart from those that *)
(* have one, and the debts of the clients apart from one another.  Sessions: *)
(* what is in flight is of the session that is open.  KycPage: what is shown *)
(* is the answer to the last operation, or a load is on its way, or an       *)
(* operation whose answer makes one.                                         *)
(*****************************************************************************)
EXTENDS MCClients, WellFoundedInduction, TLAPS

(*****************************************************************************)
(* Identity provider (SmileIdentity)                                         *)
(*****************************************************************************)

Call == [at : {"idle", "token", "fetch", "request", "done"}, retried : BOOLEAN,
         token : Tokens \cup {NoToken}, last : Statuses \cup {"none"},
         result : Results \cup {"none"}]

\* The token of a call is on its way, or was asked for by the retry.
Fresh(c) ==
  \/ smileCalls[c].at = "fetch" /\ smileCalls[c].token # NoToken
  \/ smileCalls[c].at = "request" /\ smileCalls[c].retried

FreshTokens ==
  \A c \in Calls : Fresh(c) => smileCalls[c].token \in accepted \cup lost[c]

SmileInv == SmileTypeOK /\ FreshTokens

LEMMA CallTypes ==
  /\ \A at \in {"idle", "token", "done"} : NewCall(at) \in Call
  /\ \A status \in Statuses \cup {"none"}, result \in Results :
       [NewCall("done") EXCEPT !.last = status, !.result = result] \in Call
BY DEF NewCall, Call

LEMMA ResultTypes ==
  \A status \in Statuses \cup {"none"}, op \in {"submit", "status"} :
    ErrorFor(status) \in Results /\ ResultOf(op, status) \in Results
BY DEF ErrorFor, ResultOf, Results

LEMMA SmileInvInit == SmileInit => SmileInv
<1> SUFFICES ASSUME SmileInit PROVE SmileInv
  OBVIOUS
<1>1. \A c \in Calls : smileCalls[c] = NewCall("idle")
  BY DEF SmileInit
<1>2. smileCalls \in [Calls -> Call]
  BY CallTypes DEF SmileInit
<1>3. SmileTypeOK
  BY <1>2 DEF SmileInit, SmileTypeOK, Call
<1>4. FreshTokens
  BY <1>1 DEF FreshTokens, Fresh, NewCall
<1> QED BY <1>3, <1>4 DEF SmileInv

\* A call that moves keeps the invariant if its own new token is accounted for.
LEMMA CallMoves ==
  ASSUME SmileInv, NEW c \in Calls, NEW q \in Call, NEW l \in SUBSET Tokens,
         smileCalls' = [smileCalls EXCEPT ![c] = q],
         lost' = [lost EXCEPT ![c] = l],
         smileCache' \in [value : Tokens \cup {NoToken}, ahead : BOOLEAN],
         accepted' \in SUBSET Tokens, accepted \subseteq accepted',
         q.at = "fetch" /\ q.token # NoToken => q.token \in accepted' \cup l,
         q.at = "request" /\ q.retried => q.token \in accepted' \cup l
  PROVE  SmileInv'
<1>1. SmileTypeOK'
  BY DEF SmileInv, SmileTypeOK, Call
<1>2. FreshTokens'
  <2> SUFFICES ASSUME NEW d \in Calls, Fresh(d)'
               PROVE  (smileCalls[d].token \in accepted \cup lost[d])'
    BY DEF FreshTokens
  <2>1. CASE d = c
    <3>1. smileCalls'[d] = q /\ lost'[d] = l
      BY <2>1 DEF SmileInv, SmileTypeOK
    <3> QED BY <3>1 DEF Fresh
  <2>2. CASE d # c
    <3>1. smileCalls'[d] = smileCalls[d] /\ lost'[d] = lost[d]
      BY <2>2 DEF SmileInv, SmileTypeOK
    <3> QED BY <3>1 DEF SmileInv, FreshTokens, Fresh
  <2> QED BY <2>1, <2>2
<1> QED BY <1>1, <1>2 DEF SmileInv

LEMMA EndsKeeps ==
  ASSUME SmileInv, NEW c \in Calls, NEW status \in Statuses \cup {"none"},
         NEW result \in Results, Ends(c, status, result), UNCHANGED <<smileCache, accepted>>
  PROVE  SmileInv'
<1> DEFINE q == [NewCall("done") EXCEPT !.last = status, !.result = result]
<1>1. q \in Call /\ q.at = "done"
  BY CallTypes DEF NewCall
<1>2. smileCalls' = [smileCalls EXCEPT ![c] = q] /\ lost' = [lost EXCEPT ![c] = {}]
  BY DEF Ends
<1>3. {} \in SUBSET Tokens /\ smileCache' = smileCache /\ accepted' = accepted
  OBVIOUS
<1> HIDE DEF q
<1> QED BY <1>1, <1>2, <1>3, CallMoves DEF SmileInv, SmileTypeOK

LEMMA BeginKeeps == ASSUME SmileInv, NEW c \in Calls, BeginCall(c) PROVE SmileInv'
<1> DEFINE q == NewCall("token")
<1>1. q \in Call /\ q.at = "token"
  BY CallTypes DEF NewCall
<1>2. smileCalls' = [smileCalls EXCEPT ![c] = q] /\ lost' = [lost EXCEPT ![c] = lost[c]]
  BY DEF BeginCall, SmileInv, SmileTypeOK
<1>3. UNCHANGED <<smileCache, accepted>>
  BY DEF BeginCall
<1> HIDE DEF q
<1> QED BY <1>1, <1>2, <1>3, CallMoves DEF SmileInv, SmileTypeOK

LEMMA GetTokenKeeps == ASSUME SmileInv, NEW c \in Calls, GetToken(c) PROVE SmileInv'
<1>1. UNCHANGED <<smileCache, accepted, lost>> /\ lost' = [lost EXCEPT ![c] = lost[c]]
  BY DEF GetToken, SmileInv, SmileTypeOK
<1>2. CASE UseCache(smileCalls[c].retried)
  <2> DEFINE q == [smileCalls[c] EXCEPT !.at = "request", !.token = smileCache.value]
  <2>1. q \in Call /\ q.at = "request" /\ ~q.retried
    BY <1>2 DEF SmileInv, SmileTypeOK, Call, UseCache
  <2>2. smileCalls' = [smileCalls EXCEPT ![c] = q]
    BY <1>2 DEF GetToken, SmileInv, SmileTypeOK
  <2> HIDE DEF q
  <2> QED BY <2>1, <2>2, <1>1, CallMoves DEF SmileInv, SmileTypeOK
<1>3. CASE ~UseCache(smileCalls[c].retried)
  <2> DEFINE q == [smileCalls[c] EXCEPT !.at = "fetch", !.token = NoToken]
  <2>1. q \in Call /\ q.at = "fetch" /\ q.token = NoToken
    BY DEF SmileInv, SmileTypeOK, Call
  <2>2. smileCalls' = [smileCalls EXCEPT ![c] = q]
    BY <1>3 DEF GetToken, SmileInv, SmileTypeOK
  <2> HIDE DEF q
  <2> QED BY <2>1, <2>2, <1>1, CallMoves DEF SmileInv, SmileTypeOK
<1> QED BY <1>2, <1>3

LEMMA IssueKeeps ==
  ASSUME SmileInv, NEW c \in Calls, NEW t \in Tokens, IssueToken(c, t) PROVE SmileInv'
<1> DEFINE q == [smileCalls[c] EXCEPT !.token = t]
<1>1. q \in Call /\ q.at = "fetch" /\ q.token = t
  BY DEF IssueToken, SmileInv, SmileTypeOK, Call
<1>2. smileCalls' = [smileCalls EXCEPT ![c] = q] /\ lost' = [lost EXCEPT ![c] = lost[c]]
  BY DEF IssueToken, SmileInv, SmileTypeOK
<1>3. smileCache' = smileCache /\ accepted' = accepted \cup {t}
  BY DEF IssueToken
<1> HIDE DEF q
<1> QED BY <1>1, <1>2, <1>3, CallMoves DEF SmileInv, SmileTypeOK

LEMMA AnsweredKeeps == ASSUME SmileInv, NEW c \in Calls, TokenAnswered(c) PROVE SmileInv'
<1> DEFINE q == [smileCalls[c] EXCEPT !.at = "request"]
<1>1. q \in Call /\ q.at = "request" /\ q.token = smileCalls[c].token
  BY DEF SmileInv, SmileTypeOK, Call
<1>2. smileCalls' = [smileCalls EXCEPT ![c] = q] /\ lost' = [lost EXCEPT ![c] = lost[c]]
  BY DEF TokenAnswered, SmileInv, SmileTypeOK
<1>3. /\ smileCache' \in [value : Tokens \cup {NoToken}, ahead : BOOLEAN]
      /\ accepted' = accepted
  BY DEF TokenAnswered, SmileInv, SmileTypeOK
<1>4. smileCalls[c].token \in accepted \cup lost[c]
  BY DEF TokenAnswered, SmileInv, FreshTokens, Fresh
<1> HIDE DEF q
<1> QED BY <1>1, <1>2, <1>3, <1>4, CallMoves DEF SmileInv, SmileTypeOK

LEMMA RequestKeeps ==
  ASSUME SmileInv, NEW c \in Calls, NEW status \in Statuses, RequestAnswered(c, status)
  PROVE  SmileInv'
<1>1. UNCHANGED <<smileCache, accepted>>
  BY DEF RequestAnswered
<1>2. CASE RetryAfter(status, smileCalls[c].retried)
  <2> DEFINE q == [smileCalls[c] EXCEPT !.at = "token", !.retried = TRUE, !.token = NoToken]
  <2>1. q \in Call /\ q.at = "token"
    BY DEF SmileInv, SmileTypeOK, Call
  <2>2. smileCalls' = [smileCalls EXCEPT ![c] = q] /\ lost' = [lost EXCEPT ![c] = lost[c]]
    BY <1>2 DEF RequestAnswered, SmileInv, SmileTypeOK
  <2> HIDE DEF q
  <2> QED BY <2>1, <2>2, <1>1, CallMoves DEF SmileInv, SmileTypeOK
<1>3. CASE ~RetryAfter(status, smileCalls[c].retried)
  BY <1>1, <1>3, EndsKeeps, ResultTypes, SmileAssumption DEF RequestAnswered
<1> QED BY <1>2, <1>3

LEMMA ForgetKeeps == ASSUME SmileInv, NEW t \in Tokens, ForgetToken(t) PROVE SmileInv'
<1>1. SmileTypeOK'
  BY DEF ForgetToken, SmileInv, SmileTypeOK
<1>2. FreshTokens'
  <2> SUFFICES ASSUME NEW d \in Calls, Fresh(d)'
               PROVE  (smileCalls[d].token \in accepted \cup lost[d])'
    BY DEF FreshTokens
  <2>1. smileCalls' = smileCalls /\ accepted' = accepted \ {t}
    BY DEF ForgetToken
  <2>2. smileCalls[d].at \in {"fetch", "request"}
    BY <2>1 DEF Fresh
  <2>3. lost'[d] = lost[d] \cup {t}
    BY <2>2 DEF ForgetToken
  <2> QED BY <2>1, <2>3 DEF SmileInv, FreshTokens, Fresh
<1> QED BY <1>1, <1>2 DEF SmileInv

LEMMA LapseKeeps == ASSUME SmileInv, CacheLapses PROVE SmileInv'
BY DEF CacheLapses, SmileInv, SmileTypeOK, FreshTokens, Fresh

LEMMA SmileInvNext == SmileInv /\ [SmileNext]_smileVars => SmileInv'
<1> SUFFICES ASSUME SmileInv, [SmileNext]_smileVars PROVE SmileInv'
  OBVIOUS
<1>1. ASSUME NEW c \in Calls, CallStep(c) PROVE SmileInv'
  <2>1. ASSUME NEW status \in Statuses, TokenRefused(c, status) PROVE SmileInv'
    BY <2>1, EndsKeeps, ResultTypes DEF TokenRefused
  <2>2. CASE FetchFails(c)
    BY <2>2, EndsKeeps DEF FetchFails, Results
  <2> QED BY <1>1, <2>1, <2>2, GetTokenKeeps, AnsweredKeeps, RequestKeeps DEF CallStep
<1>2. ASSUME NEW c \in Calls, BeginCall(c) PROVE SmileInv'
  BY <1>2, BeginKeeps
<1>3. ASSUME NEW c \in Calls, NEW t \in Tokens, IssueToken(c, t) PROVE SmileInv'
  BY <1>3, IssueKeeps
<1>4. ASSUME NEW t \in Tokens, ForgetToken(t) PROVE SmileInv'
  BY <1>4, ForgetKeeps
<1>5. CASE CacheLapses
  BY <1>5, LapseKeeps
<1>6. CASE UNCHANGED smileVars
  BY <1>6 DEF smileVars, SmileInv, SmileTypeOK, FreshTokens, Fresh
<1> QED BY <1>1, <1>2, <1>3, <1>4, <1>5, <1>6 DEF SmileNext

LEMMA SmileInvAlways == SmileSpec => []SmileInv
<1> QED BY SmileInvInit, SmileInvNext, PTL DEF SmileSpec

\* The adapter's state keeps its type: one token in the cache, each call at one
\* of its awaits.
THEOREM SmileTypeCorrect == SmileSpec => []SmileTypeOK
<1>1. SmileInv => SmileTypeOK
  BY DEF SmileInv
<1> QED BY SmileInvAlways, <1>1, PTL

\* What a call may not do in one step, of any call.
HealsStep ==
  \A c \in Calls :
    (smileCalls[c].at = "request" /\ smileCalls'[c].at = "done"
       /\ smileCalls'[c].result = "PROVIDER_AUTH_FAILED")
    => (smileCalls'[c].last = "403" \/ smileCalls[c].token \in lost[c])

\* Only an answer with the status it ends on, or a fetch that fails, ends a
\* request; the others leave it where it is.
LEMMA EndingSteps ==
  ASSUME SmileInv, [SmileNext]_smileVars, NEW c \in Calls,
         smileCalls[c].at = "request", smileCalls'[c].at = "done"
  PROVE  \/ smileCalls'[c].result = "PROVIDER_UNAVAILABLE"
         \/ \E status \in Statuses : /\ RequestAnswered(c, status)
                                     /\ smileCalls'[c].last = status
                                     /\ smileCalls'[c].result = ResultOf(OpOf[c], status)
<1>0. smileCalls \in [Calls -> Call]
  BY DEF SmileInv, SmileTypeOK, Call
<1>1. ASSUME NEW d \in Calls, CallStep(d) PROVE d = c
  BY <1>0, <1>1 DEF CallStep, GetToken, TokenAnswered, TokenRefused, RequestAnswered,
     FetchFails, Ends
<1>2. ASSUME NEW d \in Calls, BeginCall(d) PROVE FALSE
  BY <1>0, <1>2 DEF BeginCall
<1>3. ASSUME NEW d \in Calls, NEW t \in Tokens, IssueToken(d, t) PROVE FALSE
  BY <1>0, <1>3 DEF IssueToken, Call
<1>4. (CacheLapses \/ UNCHANGED smileVars \/ \E t \in Tokens : ForgetToken(t)) => FALSE
  BY DEF CacheLapses, smileVars, ForgetToken
<1>5. CallStep(c)
  BY <1>1, <1>2, <1>3, <1>4 DEF SmileNext
<1>6. ~GetToken(c) /\ ~TokenAnswered(c) /\ \A status \in Statuses : ~TokenRefused(c, status)
  BY DEF GetToken, TokenAnswered, TokenRefused
<1>7. ASSUME NEW status \in Statuses \cup {"none"}, NEW result, Ends(c, status, result)
      PROVE  smileCalls'[c].last = status /\ smileCalls'[c].result = result
  BY <1>0, <1>7 DEF Ends, NewCall
<1>8. CASE FetchFails(c)
  BY <1>7, <1>8 DEF FetchFails
<1>9. ASSUME NEW status \in Statuses, RequestAnswered(c, status)
      PROVE  /\ smileCalls'[c].last = status
             /\ smileCalls'[c].result = ResultOf(OpOf[c], status)
  <2>1. ~RetryAfter(status, smileCalls[c].retried)
    BY <1>0, <1>9 DEF RequestAnswered, Call
  <2> QED BY <1>7, <1>9, <2>1 DEF RequestAnswered
<1> QED BY <1>5, <1>6, <1>8, <1>9 DEF CallStep

LEMMA HealsAlways == SmileInv /\ [SmileNext]_smileVars => HealsStep
<1> SUFFICES ASSUME SmileInv, [SmileNext]_smileVars, NEW c \in Calls,
                    smileCalls[c].at = "request", smileCalls'[c].at = "done",
                    smileCalls'[c].result = "PROVIDER_AUTH_FAILED"
             PROVE  smileCalls'[c].last = "403" \/ smileCalls[c].token \in lost[c]
  BY DEF HealsStep
<1>1. CASE smileCalls'[c].result = "PROVIDER_UNAVAILABLE"
  BY <1>1
<1>2. ASSUME NEW status \in Statuses, RequestAnswered(c, status),
             ResultOf(OpOf[c], status) = "PROVIDER_AUTH_FAILED"
      PROVE  status = "403" \/ smileCalls[c].token \in lost[c]
  <2>1. status \in {"401", "403"}
    BY <1>2 DEF ResultOf, ErrorFor
  <2>2. CASE status = "401"
    <3>1. smileCalls[c].token \notin accepted
      BY <1>2, <2>2 DEF RequestAnswered
    <3>2. smileCalls[c].retried
      BY <1>2, <2>2 DEF RequestAnswered, RetryAfter, SmileInv, SmileTypeOK
    <3> QED BY <3>1, <3>2 DEF SmileInv, FreshTokens, Fresh
  <2> QED BY <2>1, <2>2
<1> QED BY <1>1, <1>2, EndingSteps

\* A stale cached token never fails a call, for any number of calls and tokens:
\* one that ends on a 401 had its own fresh token forgotten while it ran.
THEOREM StaleTokenAlwaysHeals == SmileSpec => StaleTokenHeals
<1>1. SmileInv /\ [SmileNext]_smileVars => [HealsStep]_smileVars
  BY HealsAlways
<1>2. SmileSpec => [][HealsStep]_smileVars
  BY SmileInvAlways, <1>1, PTL DEF SmileSpec
<1> QED BY <1>2 DEF StaleTokenHeals, HealsStep

(*****************************************************************************)
(* Documents and consents (Consents)                                         *)
(*****************************************************************************)

Recording == {"check", "insert", "audit"}

\* A screen is consistent: it records documents of the list it loaded, one at a
\* time, and keeps none of them when it is done.
Consistent(s) ==
  /\ s \in Screens
  /\ s.doing \in Recording => s.loaded
  /\ s.doing \notin Recording => s.left = {} /\ s.doc = {}
  /\ s.doing = "check" => s.doc = {}
  /\ s.left \cup s.doc # {} => s.docs \in [DocTypes -> Versions]
  /\ \A d, e \in s.doc : d = e

\* The consents a client has inserted and not audited yet.
OwedBy(s) == IF s.doing = "audit" THEN {Consent(s, d) : d \in s.doc} ELSE {}
Owed(p) == OwedBy(screens[p])

Debts ==
  /\ \A p \in Clients : Owed(p) \subseteq consents
  /\ \A p \in Clients : \A a \in audited : <<a[1], a[2]>> \notin Owed(p)
  /\ \A p, q \in Clients : p # q => Owed(p) \cap Owed(q) = {}

ConsentInv ==
  /\ ConsentTypeOK
  /\ \A p \in Clients : Consistent(screens[p])
  /\ Debts
  /\ AuditedOnce

LEMMA OpenedConsistent == Consistent(Opened) /\ Opened.doing = "refresh"
BY DEF Opened, Consistent, Screens, Doing, Recording

LEMMA ConsentInvInit == ConsentInit => ConsentInv
<1> SUFFICES ASSUME ConsentInit PROVE ConsentInv
  OBVIOUS
<1>1. \A p \in Clients : screens[p] = Opened /\ Owed(p) = {}
  BY OpenedConsistent DEF ConsentInit, Owed, OwedBy
<1>2. ConsentTypeOK
  <2>1. Opened \in Screens
    BY OpenedConsistent DEF Consistent
  <2>2. terms \in [DocTypes -> Versions]
    BY ConsentsAssumption DEF ConsentInit, Versions
  <2>3. screens \in [Clients -> Screens]
    BY <2>1 DEF ConsentInit
  <2>4. consents = {} /\ audited = {} /\ named = FALSE
    BY DEF ConsentInit
  <2>5. failures \in 0..MaxFailures
    BY ConsentsAssumption DEF ConsentInit
  <2> QED BY <2>2, <2>3, <2>4, <2>5 DEF ConsentTypeOK
<1>3. Debts /\ AuditedOnce
  BY <1>1 DEF ConsentInit, Debts, AuditedOnce
<1> QED BY <1>1, <1>2, <1>3, OpenedConsistent DEF ConsentInv

\* A screen that changes owes no event: what the clients share stays.
LEMMA ScreenMoves ==
  ASSUME ConsentInv, NEW p \in Clients, NEW s \in Screens, Show(p, s),
         Consistent(s), s.doing # "audit",
         consents \subseteq consents', consents' \in SUBSET (DocTypes \X Versions),
         audited' = audited,
         terms' \in [DocTypes -> Versions], named' \in BOOLEAN, failures' \in 0..MaxFailures
  PROVE  ConsentInv'
<1>1. screens'[p] = s /\ \A q \in Clients \ {p} : screens'[q] = screens[q]
  BY DEF Show, ConsentInv, ConsentTypeOK
<1>2. ConsentTypeOK'
  BY DEF Show, ConsentInv, ConsentTypeOK
<1>3. \A q \in Clients : Consistent(screens'[q])
  BY <1>1 DEF ConsentInv
<1>4. Owed(p)' = {} /\ \A q \in Clients \ {p} : Owed(q)' = Owed(q)
  BY <1>1 DEF Owed, OwedBy, Consent
<1>5. Debts'
  BY <1>4 DEF ConsentInv, Debts
<1>6. AuditedOnce'
  BY DEF ConsentInv, AuditedOnce
<1> QED BY <1>2, <1>3, <1>5, <1>6 DEF ConsentInv, Consistent, Screens, Versions

\* The same, when nothing but the screen and the count of failures changes.
LEMMA OnlyScreenMoves ==
  ASSUME ConsentInv, NEW p \in Clients, NEW s \in Screens, Show(p, s),
         Consistent(s), s.doing # "audit",
         UNCHANGED <<terms, consents, audited, named>>, failures' \in 0..MaxFailures
  PROVE  ConsentInv'
<1>1. /\ terms' = terms /\ consents' = consents /\ audited' = audited /\ named' = named
      /\ terms \in [DocTypes -> Versions] /\ named \in BOOLEAN
      /\ consents \in SUBSET (DocTypes \X Versions)
  BY DEF ConsentInv, ConsentTypeOK
<1> QED BY <1>1, ScreenMoves

LEMMA FailureCounts ==
  ASSUME ConsentInv, failures < MaxFailures PROVE failures + 1 \in 0..MaxFailures
BY ConsentsAssumption DEF ConsentInv, ConsentTypeOK

LEMMA PublishKeeps == ASSUME ConsentInv, NEW d \in DocTypes, Publish(d) PROVE ConsentInv'
<1>1. terms' \in [DocTypes -> Versions]
  BY ConsentsAssumption DEF Publish, ConsentInv, ConsentTypeOK, Versions
<1>2. UNCHANGED <<consents, audited, named, screens, failures>>
  BY DEF Publish
<1>3. Debts' /\ AuditedOnce'
  BY <1>2 DEF ConsentInv, Debts, Owed, OwedBy, Consent, AuditedOnce
<1> QED BY <1>1, <1>2, <1>3 DEF ConsentInv, ConsentTypeOK, Consistent, Screens, Versions

LEMMA LoadKeeps == ASSUME ConsentInv, NEW p \in Clients, LoadDocuments(p) PROVE ConsentInv'
<1>1. Consistent(screens[p]) /\ terms \in [DocTypes -> Versions] /\ ~screens[p].loaded
  BY DEF LoadDocuments, ConsentInv, ConsentTypeOK
<1>2. UNCHANGED <<terms, consents, audited, named>>
  BY DEF LoadDocuments
<1>3. CASE Show(p, [screens[p] EXCEPT !.docs = terms, !.loaded = TRUE])
           /\ UNCHANGED failures
  <2> DEFINE s == [screens[p] EXCEPT !.docs = terms, !.loaded = TRUE]
  <2>1. s \in Screens /\ Consistent(s) /\ s.doing # "audit"
    BY <1>1 DEF Consistent, Screens, Recording
  <2>2. failures' \in 0..MaxFailures
    BY <1>3 DEF ConsentInv, ConsentTypeOK
  <2> QED BY <1>2, <1>3, <2>1, <2>2, OnlyScreenMoves
<1>4. CASE /\ failures < MaxFailures
           /\ Show(p, [screens[p] EXCEPT !.loaded = TRUE]) /\ failures' = failures + 1
  <2> DEFINE s == [screens[p] EXCEPT !.loaded = TRUE]
  <2>1. s \in Screens /\ Consistent(s) /\ s.doing # "audit"
    BY <1>1 DEF Consistent, Screens, Recording
  <2> QED BY <1>2, <1>4, <2>1, FailureCounts, OnlyScreenMoves
<1> QED BY <1>3, <1>4 DEF LoadDocuments

LEMMA LeadPlaces ==
  ASSUME NEW s \in Screens, NEW pending \in SUBSET DocTypes
  PROVE  Lead(s, pending) \in {"step1", "step2", "home"}
BY DEF Lead, Screens

LEMMA MeKeeps == ASSUME ConsentInv, NEW p \in Clients, MeArrives(p) PROVE ConsentInv'
<1> DEFINE s == screens[p]
           at == Lead(s, PendingFor)
           home == [s EXCEPT !.at = "home", !.docs = Unloaded, !.loaded = FALSE]
           next == IF Gated(p, at, PendingFor) THEN Opened
                   ELSE IF at = "home" THEN home ELSE [s EXCEPT !.at = at]
           t == [next EXCEPT !.known = TRUE, !.pending = PendingFor, !.doing = "nothing",
                             !.error = FALSE]
<1>1. Consistent(s) /\ s.doing \notin Recording
  BY DEF MeArrives, ConsentInv, Recording
<1>2. PendingFor \in SUBSET DocTypes
  BY DEF PendingFor
<1>3. at \in {"step1", "step2", "home"}
  BY <1>1, <1>2, LeadPlaces DEF Consistent
<1>4. Show(p, t) /\ UNCHANGED <<terms, consents, audited, named, failures>>
  BY DEF MeArrives
<1> HIDE DEF at
<1>5. next \in Screens /\ next.left = {} /\ next.doc = {}
  BY <1>1, <1>3, OpenedConsistent DEF Consistent, Screens, Opened, Recording
<1> HIDE DEF next
<1>6. t \in Screens /\ Consistent(t) /\ t.doing # "audit"
  BY <1>2, <1>5 DEF Consistent, Screens, Doing, Recording
<1>7. failures' \in 0..MaxFailures
  BY <1>4 DEF ConsentInv, ConsentTypeOK
<1> HIDE DEF t
<1> QED BY <1>4, <1>6, <1>7, OnlyScreenMoves

LEMMA AcceptKeeps == ASSUME ConsentInv, NEW p \in Clients, AcceptAll(p) PROVE ConsentInv'
<1> DEFINE s == screens[p]
           t == IF PendingDocs(s) = {} THEN [s EXCEPT !.at = "step2"]
                ELSE [s EXCEPT !.doing = "check", !.left = PendingDocs(s), !.error = FALSE]
<1>1. Consistent(s) /\ s.doing = "nothing" /\ s.loaded
  BY DEF AcceptAll, Idle, ConsentInv
<1>2. Show(p, t) /\ UNCHANGED <<terms, consents, audited, named, failures>>
  BY DEF AcceptAll
<1>3. PendingDocs(s) \in SUBSET DocTypes
  BY <1>1 DEF PendingDocs, Consistent, Screens
<1>4. PendingDocs(s) # {} => s.docs \in [DocTypes -> Versions]
  BY <1>1 DEF PendingDocs, Consistent, Screens, Unloaded
<1>5. CASE PendingDocs(s) = {}
  <2>1. t \in Screens /\ Consistent(t) /\ t.doing # "audit"
    BY <1>1, <1>5 DEF Consistent, Screens, Recording
  <2> QED BY <1>2, <2>1, OnlyScreenMoves DEF ConsentInv, ConsentTypeOK
<1>6. CASE PendingDocs(s) # {}
  <2>1. t \in Screens /\ Consistent(t) /\ t.doing # "audit"
    BY <1>1, <1>3, <1>4, <1>6 DEF Consistent, Screens, Doing, Recording
  <2> QED BY <1>2, <2>1, OnlyScreenMoves DEF ConsentInv, ConsentTypeOK
<1> QED BY <1>5, <1>6

LEMMA CheckKeeps == ASSUME ConsentInv, NEW p \in Clients, CheckCurrent(p) PROVE ConsentInv'
<1> DEFINE s == screens[p]
<1>1. Consistent(s) /\ s.doing = "check"
  BY DEF CheckCurrent, ConsentInv
<1>2. UNCHANGED <<terms, consents, audited, named, failures>>
  BY DEF CheckCurrent
<1>3. PICK d \in s.left :
        Show(p, IF s.docs[d] = terms[d]
                THEN [s EXCEPT !.doing = "insert", !.doc = {d}]
                ELSE [s EXCEPT !.doing = "nothing", !.left = {}, !.error = TRUE])
  BY DEF CheckCurrent
<1>4. d \in DocTypes
  BY <1>1 DEF Consistent, Screens
<1>5. [s EXCEPT !.doing = "insert", !.doc = {d}] \in Screens
      /\ Consistent([s EXCEPT !.doing = "insert", !.doc = {d}])
  BY <1>1, <1>4 DEF Consistent, Screens, Doing, Recording
<1>6. [s EXCEPT !.doing = "nothing", !.left = {}, !.error = TRUE] \in Screens
      /\ Consistent([s EXCEPT !.doing = "nothing", !.left = {}, !.error = TRUE])
  BY <1>1 DEF Consistent, Screens, Doing, Recording
<1>7. failures' \in 0..MaxFailures
  BY <1>2 DEF ConsentInv, ConsentTypeOK
<1>8. CASE s.docs[d] = terms[d]
  <2>1. [s EXCEPT !.doing = "insert", !.doc = {d}].doing = "insert"
    BY <1>1 DEF Consistent, Screens
  <2> QED BY <1>2, <1>3, <1>5, <1>7, <1>8, <2>1, OnlyScreenMoves
<1>9. CASE s.docs[d] # terms[d]
  <2>1. [s EXCEPT !.doing = "nothing", !.left = {}, !.error = TRUE].doing = "nothing"
    BY <1>1 DEF Consistent, Screens
  <2> QED BY <1>2, <1>3, <1>6, <1>7, <1>9, <2>1, OnlyScreenMoves
<1> QED BY <1>8, <1>9

LEMMA DocDoneConsistent ==
  ASSUME NEW s \in Screens, Consistent(s), s.doing \in {"insert", "audit"}
  PROVE  DocDone(s) \in Screens /\ Consistent(DocDone(s)) /\ DocDone(s).doing = "check"
BY DEF DocDone, Consistent, Screens, Doing, Recording

\* The one document a client is inserting or auditing.
LEMMA RecordedDoc ==
  ASSUME ConsentInv, NEW p \in Clients, NEW d \in screens[p].doc
  PROVE  /\ d \in DocTypes /\ screens[p].docs[d] \in Versions /\ screens[p].doc = {d}
         /\ Consent(screens[p], d) \in DocTypes \X Versions
<1>1. Consistent(screens[p])
  BY DEF ConsentInv
<1>2. d \in DocTypes /\ screens[p].docs \in [DocTypes -> Versions] /\ screens[p].doc = {d}
  BY <1>1 DEF Consistent, Screens
<1> QED BY <1>2 DEF Consent

LEMMA InsertKeeps == ASSUME ConsentInv, NEW p \in Clients, InsertConsent(p) PROVE ConsentInv'
<1> DEFINE s == screens[p]
<1>1. Consistent(s) /\ s \in Screens /\ s.doing = "insert"
  BY DEF InsertConsent, ConsentInv, Consistent
<1>2. PICK d \in s.doc :
        /\ consents' = consents \cup {Consent(s, d)}
        /\ Show(p, IF Inserted(Consent(s, d)) THEN [s EXCEPT !.doing = "audit"] ELSE DocDone(s))
  BY DEF InsertConsent
<1> DEFINE c == Consent(s, d)
<1>3. c \in DocTypes \X Versions /\ s.doc = {d}
  BY RecordedDoc
<1>4. /\ terms' = terms /\ audited' = audited /\ named' = named /\ failures' = failures
      /\ terms' \in [DocTypes -> Versions] /\ named' \in BOOLEAN /\ failures' \in 0..MaxFailures
      /\ consents' \in SUBSET (DocTypes \X Versions) /\ consents \subseteq consents'
  BY <1>2, <1>3 DEF InsertConsent, ConsentInv, ConsentTypeOK
<1>5. CASE ~Inserted(c)
  BY <1>1, <1>2, <1>4, <1>5, DocDoneConsistent, ScreenMoves
<1>6. CASE Inserted(c)
  <2> DEFINE t == [s EXCEPT !.doing = "audit"]
  <2>1. t \in Screens /\ Consistent(t) /\ t.doing = "audit" /\ t.doc = {d} /\ t.docs = s.docs
    BY <1>1, <1>3 DEF Consistent, Screens, Doing, Recording
  <2>2. screens' = [screens EXCEPT ![p] = t]
    BY <1>2, <1>6 DEF Show
  <2> HIDE DEF t
  <2>3. screens'[p] = t /\ \A q \in Clients \ {p} : screens'[q] = screens[q]
    BY <2>2 DEF ConsentInv, ConsentTypeOK
  <2>4. ConsentTypeOK'
    BY <1>4, <2>1, <2>2 DEF ConsentInv, ConsentTypeOK
  <2>5. \A q \in Clients : Consistent(screens'[q])
    BY <2>1, <2>3 DEF ConsentInv
  <2>6. Owed(p)' = {c} /\ \A q \in Clients \ {p} : Owed(q)' = Owed(q)
    BY <2>1, <2>3 DEF Owed, OwedBy, Consent
  <2>7. c \notin consents /\ c \in consents'
    BY <1>2, <1>6 DEF Inserted
  <2>8. \A a \in audited : <<a[1], a[2]>> \in consents
    BY DEF ConsentInv, AuditedOnce
  <2> HIDE DEF c
  <2>9. Debts'
    <3>1. \A q \in Clients : Owed(q)' \subseteq consents'
      BY <1>4, <2>6, <2>7 DEF ConsentInv, Debts
    <3>2. \A q \in Clients : \A a \in audited' : <<a[1], a[2]>> \notin Owed(q)'
      <4> SUFFICES ASSUME NEW q \in Clients, NEW a \in audited
                   PROVE  <<a[1], a[2]>> \notin Owed(q)'
        BY <1>4
      <4>1. CASE q = p
        BY <4>1, <2>6, <2>7, <2>8
      <4>2. CASE q # p
        BY <4>2, <2>6 DEF ConsentInv, Debts
      <4> QED BY <4>1, <4>2
    <3>3. \A q, r \in Clients : q # r => Owed(q)' \cap Owed(r)' = {}
      <4>1. \A q \in Clients : c \notin Owed(q)
        BY <2>7 DEF ConsentInv, Debts
      <4> QED BY <4>1, <2>6 DEF ConsentInv, Debts
    <3> QED BY <3>1, <3>2, <3>3 DEF Debts
  <2>10. AuditedOnce'
    BY <1>4 DEF ConsentInv, AuditedOnce
  <2> QED BY <2>4, <2>5, <2>9, <2>10 DEF ConsentInv, Consistent, Screens, Versions
<1> QED BY <1>5, <1>6

LEMMA AuditKeeps == ASSUME ConsentInv, NEW p \in Clients, AuditConsent(p) PROVE ConsentInv'
<1> DEFINE s == screens[p]
           t == DocDone(s)
<1>1. Consistent(s) /\ s \in Screens /\ s.doing = "audit"
  BY DEF AuditConsent, ConsentInv, Consistent
<1>2. PICK d \in s.doc : audited' = audited \cup {<<d, s.docs[d], p>>}
  BY DEF AuditConsent
<1> DEFINE c == Consent(s, d)
           a0 == <<d, s.docs[d], p>>
<1>3. d \in DocTypes /\ s.docs[d] \in Versions /\ s.doc = {d}
  BY RecordedDoc
<1>4. a0 \in DocTypes \X Versions \X Clients /\ <<a0[1], a0[2]>> = c
  BY <1>3 DEF Consent
<1>5. screens' = [screens EXCEPT ![p] = t] /\ UNCHANGED <<terms, consents, named, failures>>
  BY DEF AuditConsent, Show
<1>6. t \in Screens /\ Consistent(t) /\ t.doing = "check"
  BY <1>1, DocDoneConsistent
<1>7. Owed(p) = {c}
  BY <1>1, <1>3 DEF Owed, OwedBy
<1> HIDE DEF t, c, a0
<1>8. screens'[p] = t /\ \A q \in Clients \ {p} : screens'[q] = screens[q]
  BY <1>5 DEF ConsentInv, ConsentTypeOK
<1>9. audited' = audited \cup {a0}
  BY <1>2 DEF a0
<1>10. ConsentTypeOK'
  BY <1>4, <1>5, <1>6, <1>9 DEF ConsentInv, ConsentTypeOK
<1>11. \A q \in Clients : Consistent(screens'[q])
  BY <1>6, <1>8 DEF ConsentInv
<1>12. Owed(p)' = {} /\ \A q \in Clients \ {p} : Owed(q)' = Owed(q)
  BY <1>6, <1>8 DEF Owed, OwedBy, Consent
<1>13. c \in consents /\ \A a \in audited : <<a[1], a[2]>> # c
  BY <1>7 DEF ConsentInv, Debts
<1>14. Debts'
  <2>1. \A q \in Clients : Owed(q)' \subseteq consents'
    BY <1>5, <1>12 DEF ConsentInv, Debts
  <2>2. \A q \in Clients \ {p} : c \notin Owed(q)
    BY <1>7 DEF ConsentInv, Debts
  <2>3. \A q \in Clients : \A a \in audited' : <<a[1], a[2]>> \notin Owed(q)'
    <3> SUFFICES ASSUME NEW q \in Clients \ {p}, NEW a \in audited'
                 PROVE  <<a[1], a[2]>> \notin Owed(q)
      BY <1>12
    <3>1. CASE a = a0
      BY <3>1, <1>4, <2>2
    <3>2. CASE a \in audited
      BY <3>2 DEF ConsentInv, Debts
    <3> QED BY <3>1, <3>2, <1>9
  <2>4. \A q, r \in Clients : q # r => Owed(q)' \cap Owed(r)' = {}
    BY <1>12 DEF ConsentInv, Debts
  <2> QED BY <2>1, <2>3, <2>4 DEF Debts
<1>15. AuditedOnce'
  <2>1. ASSUME NEW a \in audited', NEW b \in audited', a[1] = b[1], a[2] = b[2] PROVE a = b
    BY <1>4, <1>9, <1>13, <2>1 DEF ConsentInv, AuditedOnce
  <2>2. \A a \in audited' : <<a[1], a[2]>> \in consents'
    BY <1>4, <1>5, <1>9, <1>13 DEF ConsentInv, AuditedOnce
  <2> QED BY <2>1, <2>2 DEF AuditedOnce
<1> QED BY <1>10, <1>11, <1>14, <1>15 DEF ConsentInv, Consistent, Screens, Versions

LEMMA AllKeeps == ASSUME ConsentInv, NEW p \in Clients, AllRecorded(p) PROVE ConsentInv'
<1> DEFINE t == [screens[p] EXCEPT !.doing = "refresh, then step2"]
<1>1. t \in Screens /\ Consistent(t) /\ t.doing # "audit"
  BY DEF AllRecorded, ConsentInv, Consistent, Screens, Doing, Recording
<1>2. /\ Show(p, t) /\ UNCHANGED <<terms, consents, audited, named>>
      /\ failures' \in 0..MaxFailures
  BY DEF AllRecorded, ConsentInv, ConsentTypeOK
<1> QED BY <1>1, <1>2, OnlyScreenMoves

LEMMA SaveKeeps ==
  ASSUME ConsentInv, NEW p \in Clients, NEW filled \in BOOLEAN, SaveProfile(p, filled)
  PROVE  ConsentInv'
<1> DEFINE t == [screens[p] EXCEPT !.doing = "refresh, then home", !.error = FALSE]
<1>1. t \in Screens /\ Consistent(t) /\ t.doing # "audit"
  BY DEF SaveProfile, Idle, ConsentInv, Consistent, Screens, Doing, Recording
<1>2. /\ Show(p, t) /\ audited' = audited /\ consents' = consents
      /\ terms' \in [DocTypes -> Versions] /\ failures' \in 0..MaxFailures
      /\ consents' \in SUBSET (DocTypes \X Versions)
  BY DEF SaveProfile, ConsentInv, ConsentTypeOK
<1>3. named' \in BOOLEAN
  BY DEF SaveProfile, ConsentInv, ConsentTypeOK
<1> QED BY <1>1, <1>2, <1>3, ScreenMoves

LEMMA FailKeeps == ASSUME ConsentInv, NEW p \in Clients, RequestFails(p) PROVE ConsentInv'
<1> DEFINE s == screens[p]
           t == [s EXCEPT !.doing = "nothing", !.left = {}, !.doc = {}, !.error = TRUE]
<1>1. Consistent(s) /\ s \in Screens
  BY DEF ConsentInv, Consistent
<1>2. UNCHANGED <<terms, consents, audited, named>> /\ failures' \in 0..MaxFailures
  BY FailureCounts DEF RequestFails
<1>3. t \in Screens /\ Consistent(t) /\ t.doing = "nothing"
  BY <1>1 DEF Consistent, Screens, Doing, Recording
<1>4. CASE s.doing = "audit"
  BY <1>1, <1>2, <1>4, DocDoneConsistent, OnlyScreenMoves DEF RequestFails
<1>5. CASE s.doing # "audit"
  <2>1. Show(p, t)
    BY <1>5 DEF RequestFails
  <2> QED BY <1>2, <1>3, <2>1, OnlyScreenMoves
<1> QED BY <1>4, <1>5

LEMMA RenewKeeps == ASSUME ConsentInv, NEW p \in Clients, RenewSession(p) PROVE ConsentInv'
<1> DEFINE t == [screens[p] EXCEPT !.doing = "refresh"]
<1>1. t \in Screens /\ Consistent(t) /\ t.doing # "audit"
  BY DEF RenewSession, ConsentInv, Consistent, Screens, Doing, Recording
<1>2. /\ Show(p, t) /\ UNCHANGED <<terms, consents, audited, named>>
      /\ failures' \in 0..MaxFailures
  BY DEF RenewSession, ConsentInv, ConsentTypeOK
<1> QED BY <1>1, <1>2, OnlyScreenMoves

LEMMA ReopenKeeps == ASSUME ConsentInv, NEW p \in Clients, Reopen(p) PROVE ConsentInv'
<1>1. Opened \in Screens /\ Consistent(Opened) /\ Opened.doing # "audit"
  BY OpenedConsistent DEF Consistent
<1>2. /\ Show(p, Opened) /\ UNCHANGED <<terms, consents, audited, named>>
      /\ failures' \in 0..MaxFailures
  BY DEF Reopen, ConsentInv, ConsentTypeOK
<1> QED BY <1>1, <1>2, OnlyScreenMoves

LEMMA ConsentInvNext == ConsentInv /\ [ConsentNext]_consentVars => ConsentInv'
<1> SUFFICES ASSUME ConsentInv, [ConsentNext]_consentVars PROVE ConsentInv'
  OBVIOUS
<1>1. ASSUME NEW d \in DocTypes, Publish(d) PROVE ConsentInv'
  BY <1>1, PublishKeeps
<1>2. ASSUME NEW p \in Clients, ClientStep(p) PROVE ConsentInv'
  BY <1>2, LoadKeeps, MeKeeps, CheckKeeps, InsertKeeps, AuditKeeps, AllKeeps DEF ClientStep
<1>3. ASSUME NEW p \in Clients, UserStep(p) PROVE ConsentInv'
  BY <1>3, AcceptKeeps, SaveKeeps, RenewKeeps, ReopenKeeps DEF UserStep
<1>4. ASSUME NEW p \in Clients, RequestFails(p) PROVE ConsentInv'
  BY <1>4, FailKeeps
<1>5. CASE UNCHANGED consentVars
  BY <1>5 DEF consentVars, ConsentInv, ConsentTypeOK, Consistent, Screens, Versions,
     Debts, Owed, OwedBy, Consent, AuditedOnce
<1> QED BY <1>1, <1>2, <1>3, <1>4, <1>5 DEF ConsentNext

LEMMA ConsentInvAlways == ConsentSpec => []ConsentInv
<1> QED BY ConsentInvInit, ConsentInvNext, PTL DEF ConsentSpec

\* The tables and the screens keep their types.
THEOREM ConsentTypeCorrect == ConsentSpec => []ConsentTypeOK
<1>1. ConsentInv => ConsentTypeOK
  BY DEF ConsentInv
<1> QED BY ConsentInvAlways, <1>1, PTL

\* Of any number of clients that accept a document, one writes its event.
THEOREM ConsentsAuditedOnce == ConsentSpec => []AuditedOnce
<1>1. ConsentInv => AuditedOnce
  BY DEF ConsentInv
<1> QED BY ConsentInvAlways, <1>1, PTL

(*****************************************************************************)
(* Sessions of the clients (Sessions)                                        *)
(*****************************************************************************)

\* The profile shown and the requests in flight are the session's own, unless a
\* session began while something of another one was left.
OwnFetches ==
  ~mixed =>
    /\ me.profile \in {session.user, NoUser}
    /\ \A i \in FetchSlots : fetches[i].user \in {session.user, NoUser}

Fetches == [user : Users \cup {NoUser}, answer : Answers]

SessionInv == SessionTypeOK /\ OwnFetches

LEMMA SessionInvInit == SessionInit => SessionInv
<1> SUFFICES ASSUME SessionInit PROVE SessionInv
  OBVIOUS
<1>1. NoFetch \in Fetches /\ NoFetch.user = NoUser
  BY DEF NoFetch, Fetches, Answers
<1>2. SessionTypeOK
  BY <1>1 DEF SessionInit, SessionTypeOK, Mounted, Fetches
<1>3. OwnFetches
  BY <1>1 DEF SessionInit, OwnFetches, Mounted
<1> QED BY <1>2, <1>3 DEF SessionInv

\* A request that starts takes a free slot, with the token of its user.
LEMMA FetchTypes ==
  ASSUME SessionTypeOK, NEW i \in FetchSlots, NEW u \in Users, Fetch(i, u)
  PROVE  /\ fetches' \in [FetchSlots -> Fetches]
         /\ \A j \in FetchSlots : fetches'[j].user = IF j = i THEN u ELSE fetches[j].user
<1> DEFINE f == [user |-> u, answer |-> "none"]
<1>1. f \in Fetches /\ f.user = u
  BY DEF Fetches, Answers
<1>2. fetches' = [fetches EXCEPT ![i] = f] /\ fetches \in [FetchSlots -> Fetches]
  BY DEF Fetch, SessionTypeOK, Fetches
<1> HIDE DEF f
<1> QED BY <1>1, <1>2

\* A slot is free until a user's token is in it.
LEMMA FreeSlots ==
  ASSUME SessionTypeOK, Free = FetchSlots, NEW i \in FetchSlots
  PROVE  fetches[i].user = NoUser
BY DEF Free, NoFetch

LEMMA SignedOutKeeps == ASSUME SessionInv, SignedOut PROVE SessionInv'
<1>1. session' = [user |-> NoUser, loading |-> FALSE] /\ UNCHANGED <<platform, refused>>
  BY DEF SignedOut
<1>2. CASE me' = Mounted /\ fetches' = [i \in FetchSlots |-> NoFetch] /\ mixed' = FALSE
  BY <1>1, <1>2
     DEF SessionInv, SessionTypeOK, OwnFetches, Mounted, NoFetch, Answers
<1>3. CASE /\ me' = [me EXCEPT !.profile = ProfileAfterSignOut, !.loading = FALSE]
           /\ mixed' = (Free # FetchSlots)
           /\ UNCHANGED fetches
  <2>1. /\ me' \in [profile : Users \cup {NoUser}, loading : BOOLEAN, blocked : BOOLEAN]
        /\ me'.profile = NoUser
    BY <1>3 DEF ProfileAfterSignOut, SessionInv, SessionTypeOK
  <2>2. mixed' \in BOOLEAN
    BY <1>3
  <2>3. ~mixed' => \A i \in FetchSlots : fetches'[i].user = NoUser
    BY <1>3, FreeSlots DEF SessionInv
  <2> QED BY <1>1, <1>3, <2>1, <2>2, <2>3 DEF SessionInv, SessionTypeOK, OwnFetches
<1> QED BY <1>2, <1>3 DEF SignedOut

LEMMA SignedInKeeps == ASSUME SessionInv, NEW u \in Users, SignedIn(u) PROVE SessionInv'
<1>1. PICK i \in FetchSlots : Fetch(i, u)
  BY DEF SignedIn
<1>2. /\ session' = [user |-> u, loading |-> FALSE]
      /\ me' = [me EXCEPT !.loading = TRUE]
      /\ mixed' = (mixed \/ (session.user # u /\ (Free # FetchSlots \/ session.user # NoUser)))
      /\ UNCHANGED <<platform, refused>>
  BY DEF SignedIn
<1>3. fetches' \in [FetchSlots -> Fetches]
      /\ \A j \in FetchSlots : fetches'[j].user = IF j = i THEN u ELSE fetches[j].user
  BY <1>1, FetchTypes DEF SessionInv
<1>4. /\ me' \in [profile : Users \cup {NoUser}, loading : BOOLEAN, blocked : BOOLEAN]
      /\ me'.profile = me.profile
  BY <1>2 DEF SessionInv, SessionTypeOK
<1>5. mixed' \in BOOLEAN
  BY <1>2 DEF SessionInv, SessionTypeOK
<1>6. SessionTypeOK'
  BY <1>2, <1>3, <1>4, <1>5 DEF SessionInv, SessionTypeOK, Fetches
<1>7. ASSUME ~mixed' PROVE /\ me.profile \in {u, NoUser}
                           /\ \A j \in FetchSlots : fetches[j].user \in {u, NoUser}
  BY <1>2, <1>7, FreeSlots DEF SessionInv, OwnFetches
<1> QED BY <1>2, <1>3, <1>4, <1>6, <1>7 DEF SessionInv, OwnFetches

LEMMA RefreshKeeps == ASSUME SessionInv, Refresh PROVE SessionInv'
<1>1. PICK i \in FetchSlots : Fetch(i, session.user)
  BY DEF Refresh
<1>2. session.user \in Users /\ UNCHANGED <<platform, session, me, refused, mixed>>
  BY DEF Refresh, Renders, SessionInv, SessionTypeOK
<1>3. fetches' \in [FetchSlots -> Fetches]
      /\ \A j \in FetchSlots :
           fetches'[j].user = IF j = i THEN session.user ELSE fetches[j].user
  BY <1>1, <1>2, FetchTypes DEF SessionInv
<1> QED BY <1>2, <1>3 DEF SessionInv, SessionTypeOK, OwnFetches, Fetches

LEMMA AnswerMeKeeps ==
  ASSUME SessionInv, NEW i \in FetchSlots, AnswerMe(i) PROVE SessionInv'
<1> DEFINE a == IF refused[fetches[i].user] = "none" THEN "profile"
                ELSE refused[fetches[i].user]
           f == [fetches[i] EXCEPT !.answer = a]
<1>1. fetches[i] \in Fetches /\ fetches[i].user \in Users
  BY DEF AnswerMe, SessionInv, SessionTypeOK, Fetches
<1>2. a \in Answers
  BY <1>1 DEF SessionInv, SessionTypeOK, Answers
<1>3. f \in Fetches /\ f.user = fetches[i].user
  BY <1>1, <1>2 DEF Fetches
<1>4. fetches' = [fetches EXCEPT ![i] = f] /\ UNCHANGED <<platform, session, me, refused, mixed>>
  BY DEF AnswerMe
<1> HIDE DEF f
<1> QED BY <1>3, <1>4 DEF SessionInv, SessionTypeOK, OwnFetches, Fetches

LEMMA ArrivedKeeps ==
  ASSUME SessionInv, NEW i \in FetchSlots, fetches[i].user # NoUser,
         NEW answer \in Answers, Arrived(i, answer)
  PROVE  SessionInv'
<1>1. /\ me'.profile \in {fetches[i].user, me.profile}
      /\ me' \in [profile : Users \cup {NoUser}, loading : BOOLEAN, blocked : BOOLEAN]
  BY DEF Arrived, SessionInv, SessionTypeOK, LoadingAfter, Blocks
<1>2. /\ fetches' = [fetches EXCEPT ![i] = NoFetch]
      /\ UNCHANGED <<platform, session, refused, mixed>>
  BY DEF Arrived
<1>3. NoFetch \in Fetches /\ NoFetch.user = NoUser
  BY DEF NoFetch, Fetches, Answers
<1>4. SessionTypeOK'
  BY <1>1, <1>2, <1>3 DEF SessionInv, SessionTypeOK, Fetches
<1>5. OwnFetches'
  BY <1>1, <1>2, <1>3 DEF SessionInv, SessionTypeOK, OwnFetches
<1> QED BY <1>4, <1>5 DEF SessionInv

LEMMA FetchEndsKeeps ==
  ASSUME SessionInv, NEW i \in FetchSlots, FetchEnds(i) PROVE SessionInv'
<1>1. fetches[i].answer \in Answers /\ "none" \in Answers
  BY DEF SessionInv, SessionTypeOK, Answers
<1> QED BY <1>1, ArrivedKeeps DEF FetchEnds

LEMMA SessionInvStep == SessionInv /\ [SessionNext]_sessionVars => SessionInv'
<1> SUFFICES ASSUME SessionInv, [SessionNext]_sessionVars PROVE SessionInv'
  OBVIOUS
<1>1. ASSUME AuthEvent PROVE SessionInv'
  BY <1>1, SignedOutKeeps, SignedInKeeps DEF AuthEvent
<1>2. ASSUME NEW i \in FetchSlots, AnswerMe(i) \/ FetchEnds(i) PROVE SessionInv'
  BY <1>2, AnswerMeKeeps, FetchEndsKeeps
<1>3. ASSUME NEW u \in Users, NEW code \in Codes \cup {"none"}, Moderate(u, code)
      PROVE  SessionInv'
  BY <1>3 DEF Moderate, SessionInv, SessionTypeOK, OwnFetches
<1>4. CASE UNCHANGED sessionVars
  BY <1>4 DEF sessionVars, SessionInv, SessionTypeOK, OwnFetches
<1> QED BY <1>1, <1>2, <1>3, <1>4, RefreshKeeps DEF SessionNext

\* The type invariant: profiles, tokens and answers are what they are meant to be.
THEOREM SessionsType == SessionSpec => []SessionTypeOK
<1>1. SessionInv => SessionTypeOK
  BY DEF SessionInv
<1> QED BY <1>1, SessionInvInit, SessionInvStep, PTL DEF SessionSpec

\* A session's screens show its own user's profile or none, however its requests
\* overlap, unless it followed another one directly (OwnProfileShown).
THEOREM ProfilesAreOwn == SessionSpec => []OwnProfileShown
<1>1. SessionInv => OwnProfileShown
  BY DEF SessionInv, OwnFetches, OwnProfileShown
<1> QED BY <1>1, SessionInvInit, SessionInvStep, PTL DEF SessionSpec

(*****************************************************************************)
(* The verification page (KycPage)                                           *)
(*****************************************************************************)

LEMMA NatMin ==
  ASSUME NEW T \in SUBSET Nat, T # {}
  PROVE  \E x \in T : \A y \in T : x <= y
<1>1. PICK x \in T : \A y \in T : ~(<<y, x>> \in OpToRel(<, Nat))
  BY NatLessThanWellFounded, WFMin
<1>2. \A y \in T : ~(y < x)
  BY <1>1 DEF OpToRel
<1> QED BY <1>2

LEMMA MaxIn ==
  ASSUME NEW N \in Nat, NEW T \in SUBSET (0..N), T # {}
  PROVE  Max(T) \in T
<1> DEFINE U == {N - x : x \in T}
<1>1. \A x \in T : N - x \in U /\ N - x \in Nat
  OBVIOUS
<1>2. U \in SUBSET Nat /\ U # {}
  BY <1>1
<1>3. PICK u \in U : \A v \in U : u <= v
  BY <1>2, NatMin
<1>4. PICK x \in T : u = N - x
  OBVIOUS
<1>5. \A y \in T : N - x <= N - y
  BY <1>1, <1>3, <1>4
<1>6. \A y \in T : x >= y
  <2> TAKE y \in T
  <2>1. x \in Nat /\ y \in Nat /\ N - x <= N - y
    BY <1>5
  <2> HIDE DEF U
  <2> QED BY <2>1
<1>7. \E z \in T : \A y \in T : z >= y
  BY <1>6
<1> QED BY <1>7 DEF Max

FlightSet ==
  [of : Operations \cup DocumentOps \cup {"load", "none"},
   at : {"none", "sent", "case", "answered", "me", "me answered"},
   view : Views, fresh : BOOLEAN, alone : BOOLEAN, held : BOOLEAN]

\* A view of the server has its case; a request sent from a card has the card's.
HasCase(v) == v.status \in KycStates => v.case \in CaseNos

Sound(f) ==
  /\ HasCase(f.view)
  /\ f.at = "case" => f.of = "load" /\ f.view.case \in CaseNos
  /\ f.at = "sent" /\ f.of \in {"submit", "sync", "upload", "remove"}
       => f.view.case \in CaseNos
  /\ f.of = "load" => f.at \notin {"me", "me answered"} /\ f.view.status # "undefined"

\* An operation that was carried out: its answer makes the page fetch `me`, and
\* `me` makes it load the case.
Carrying(f) == f.of \in Operations /\ f.at # "sent"
Reloads(f) == f.of = "load" \/ Carrying(f)

\* The only load shows what is old only if an operation was carried out since.
LoadsOvertaken ==
  \A i \in Slots :
    LET f == flights[i] IN
    (f.of = "load" /\ f.at = "answered" /\ f.alone /\ ~f.fresh)
      => \E j \in Slots : Carrying(flights[j])

\* What is shown is the answer to the last operation, or will be loaded again.
ShownOrLoading ==
  ~doubt => \/ \E i \in Slots : Reloads(flights[i])
            \/ current /\ page.shown.status # "undefined"

PageInv ==
  /\ PageTypeOK
  /\ HasCase(page.shown) /\ \A i \in Slots : Sound(flights[i])
  /\ LoadsOvertaken
  /\ ShownOrLoading

LEMMA ViewTypes ==
  /\ NoCase \in Views /\ NotACase \in Views
  /\ NoCase.status = NoStatus /\ NotACase.status = "undefined"
  /\ NoStatus \notin KycStates /\ "undefined" \notin KycStates /\ NoStatus # "undefined"
BY PageAssumption DEF NoCase, NotACase, Views, NoStatus, KycStates

LEMMA FlightTypes ==
  ASSUME NEW of \in Operations \cup DocumentOps \cup {"load", "none"},
         NEW at \in {"none", "sent", "me"}, NEW v \in Views
  PROVE  LET f == Flight(of, at, v) IN
         /\ f \in FlightSet /\ f.of = of /\ f.at = at /\ f.view = v
BY DEF Flight, FlightSet

LEMMA NoFlightType ==
  /\ NoFlight \in FlightSet /\ Sound(NoFlight) /\ ~Reloads(NoFlight)
  /\ NoFlight.of = "none" /\ NoFlight.at = "none"
<1>1. NoFlight \in FlightSet /\ NoFlight.of = "none" /\ NoFlight.at = "none"
      /\ NoFlight.view = NoCase
  BY FlightTypes, ViewTypes DEF NoFlight
<1>2. Sound(NoFlight)
  BY <1>1, ViewTypes DEF Sound, HasCase
<1>3. ~Reloads(NoFlight)
  BY <1>1 DEF Reloads, Carrying, Operations
<1> QED BY <1>1, <1>2, <1>3

\* What a handler leaves of the other handlers' flights.
Undisturbed(j) ==
  /\ flights'[j] \in FlightSet
  /\ flights'[j].of = flights[j].of /\ flights'[j].at = flights[j].at
  /\ flights'[j].view = flights[j].view
  /\ flights'[j].alone => flights[j].alone

\* A step of flight i keeps the invariant if it accounts for the loads.
LEMMA FlightMoves ==
  ASSUME PageInv, NEW i \in Slots,
         DOMAIN flights' = Slots, flights' = [j \in Slots |-> flights'[j]],
         flights'[i] \in FlightSet, Sound(flights'[i]),
         \A j \in Slots \ {i} : Undisturbed(j),
         \A j \in Slots \ {i} :
           (flights'[j].alone /\ flights[j].fresh)
              => flights'[j].fresh \/ Carrying(flights'[i]),
         \/ Carrying(flights[i]) => Carrying(flights'[i])
         \/ \A j \in Slots \ {i} : flights[j].of = "load" => ~flights'[j].alone,
         flights'[i].of = "load" /\ flights'[i].at = "answered" => flights'[i].fresh,
         served' \in [CaseNos -> [status : KycStates \cup {NoStatus}, docs : SUBSET Files]],
         page' \in [shown : Views, spinner : BOOLEAN, canStart : BOOLEAN],
         HasCase(page'.shown), current' \in BOOLEAN, doubt' \in BOOLEAN,
         ~doubt' => \/ Reloads(flights'[i])
                    \/ \E j \in Slots \ {i} : Reloads(flights[j])
                    \/ current' /\ page'.shown.status # "undefined"
  PROVE  PageInv'
<1>1. flights' \in [Slots -> FlightSet]
  BY DEF Undisturbed
<1>2. PageTypeOK'
  BY <1>1 DEF PageTypeOK, FlightSet
<1>3. \A j \in Slots : Sound(flights'[j])
  <2> TAKE j \in Slots
  <2>1. CASE j = i
    BY <2>1
  <2>2. CASE j # i
    <3>1. Undisturbed(j) /\ Sound(flights[j])
      BY <2>2 DEF PageInv
    <3> QED BY <3>1 DEF Undisturbed, Sound, HasCase
  <2> QED BY <2>1, <2>2
<1>4. \A j \in Slots \ {i} : Carrying(flights[j]) <=> Carrying(flights'[j])
  BY DEF Undisturbed, Carrying
<1>5. \A j \in Slots \ {i} : Reloads(flights[j]) <=> Reloads(flights'[j])
  BY <1>4 DEF Undisturbed, Reloads
<1>6. ASSUME NEW k \in Slots, flights'[k].of = "load", flights'[k].at = "answered",
             flights'[k].alone, ~flights'[k].fresh
      PROVE  \E j \in Slots : Carrying(flights'[j])
  <2>1. k # i /\ flights[k].of = "load" /\ flights[k].at = "answered" /\ flights[k].alone
    BY <1>6 DEF Undisturbed
  <2>2. CASE flights[k].fresh
    BY <1>6, <2>1, <2>2
  <2>3. CASE ~flights[k].fresh
    <3>1. PICK j \in Slots : Carrying(flights[j])
      BY <2>1, <2>3 DEF PageInv, LoadsOvertaken
    <3> QED BY <1>4, <1>6, <2>1, <3>1
  <2> QED BY <2>2, <2>3
<1>7. LoadsOvertaken'
  BY <1>6 DEF LoadsOvertaken
<1>8. ShownOrLoading'
  BY <1>5 DEF ShownOrLoading
<1> QED BY <1>2, <1>3, <1>7, <1>8 DEF PageInv
\* A handler's request is sent or comes to its end, or its answer is given: only
\* its own flight moves.
LEMMA OneMoves ==
  ASSUME PageInv, NEW i \in Slots, NEW g \in FlightSet, Sound(g),
         flights' = [flights EXCEPT ![i] = g],
         Carrying(flights[i]) => Carrying(g),
         g.of = "load" /\ g.at = "answered" => g.fresh,
         served' \in [CaseNos -> [status : KycStates \cup {NoStatus}, docs : SUBSET Files]],
         page' \in [shown : Views, spinner : BOOLEAN, canStart : BOOLEAN],
         HasCase(page'.shown), current' \in BOOLEAN, doubt' \in BOOLEAN,
         ~doubt' => \/ Reloads(g)
                    \/ \E j \in Slots \ {i} : Reloads(flights[j])
                    \/ current' /\ page'.shown.status # "undefined"
  PROVE  PageInv'
<1>1. flights \in [Slots -> FlightSet]
  BY DEF PageInv, PageTypeOK, FlightSet
<1>2. flights' \in [Slots -> FlightSet] /\ flights'[i] = g
      /\ \A j \in Slots \ {i} : flights'[j] = flights[j]
  BY <1>1
<1>3. \A j \in Slots \ {i} : Undisturbed(j)
  BY <1>2 DEF Undisturbed
<1>4. DOMAIN flights' = Slots /\ flights' = [j \in Slots |-> flights'[j]]
  BY <1>2
<1> QED BY <1>2, <1>3, <1>4, FlightMoves

\* A flight that moves leaves what is shown as it is: it reloads as it did.
LEMMA AnswerGiven ==
  ASSUME PageInv, NEW i \in Slots, NEW g \in FlightSet, Sound(g),
         flights' = [flights EXCEPT ![i] = g],
         Carrying(flights[i]) => Carrying(g), Reloads(flights[i]) => Reloads(g),
         g.of = "load" /\ g.at = "answered" => g.fresh,
         served' \in [CaseNos -> [status : KycStates \cup {NoStatus}, docs : SUBSET Files]],
         UNCHANGED <<page, current, doubt>>
  PROVE  PageInv'
<1>1. page \in [shown : Views, spinner : BOOLEAN, canStart : BOOLEAN]
      /\ HasCase(page.shown) /\ current \in BOOLEAN /\ doubt \in BOOLEAN
  BY DEF PageInv, PageTypeOK
<1>2. ~doubt => \/ Reloads(g)
                \/ \E j \in Slots \ {i} : Reloads(flights[j])
                \/ current /\ page.shown.status # "undefined"
  BY DEF PageInv, ShownOrLoading
<1> QED BY <1>1, <1>2, OneMoves

LEMMA PageAnsweredKeeps ==
  ASSUME PageInv, NEW i \in Slots, NEW at \in {"case", "answered", "me answered"},
         NEW view \in Views, Answered(i, at, view),
         HasCase(view), at = "case" => flights[i].of = "load" /\ view.case \in CaseNos,
         flights[i].of = "load" => at # "me answered" /\ view.status # "undefined",
         served' \in [CaseNos -> [status : KycStates \cup {NoStatus}, docs : SUBSET Files]],
         UNCHANGED <<page, doubt>>
  PROVE  PageInv'
<1> DEFINE g == [flights[i] EXCEPT !.at = at, !.view = view, !.fresh = TRUE]
<1>1. flights[i] \in FlightSet
  BY DEF PageInv, PageTypeOK, FlightSet
<1>2. g \in FlightSet /\ g.of = flights[i].of /\ g.at = at /\ g.view = view /\ g.fresh
  BY <1>1 DEF FlightSet
<1>3. flights' = [flights EXCEPT ![i] = g] /\ UNCHANGED current
  BY DEF Answered
<1> HIDE DEF g
<1>4. Sound(g)
  BY <1>2 DEF Sound
<1>5. Carrying(g) <=> g.of \in Operations
  BY <1>2 DEF Carrying
<1>6. (Carrying(flights[i]) => Carrying(g)) /\ (Reloads(flights[i]) => Reloads(g))
  BY <1>2, <1>5 DEF Carrying, Reloads
<1> QED BY <1>2, <1>3, <1>4, <1>6, AnswerGiven
LEMMA CarriedKeeps ==
  ASSUME PageInv, NEW i \in Slots, NEW n \in CaseNos,
         NEW status \in KycStates \cup {NoStatus}, NEW view \in Views,
         Carried(i, n, status, view), flights[i].of \in Operations,
         HasCase(view), UNCHANGED <<page, doubt>>
  PROVE  PageInv'
<1> DEFINE g == [flights[i] EXCEPT !.at = "answered", !.view = view, !.fresh = TRUE]
<1>1. flights \in [Slots -> FlightSet]
  BY DEF PageInv, PageTypeOK, FlightSet
<1>2. g \in FlightSet /\ g.of = flights[i].of /\ g.at = "answered" /\ g.view = view
  BY <1>1 DEF FlightSet
<1>3. flights'[i] = g /\ DOMAIN flights' = Slots /\ flights' = [j \in Slots |-> flights'[j]]
  BY DEF Carried
<1>4. \A j \in Slots \ {i} : flights'[j] = [flights[j] EXCEPT !.fresh = FALSE]
  BY DEF Carried
<1>5. \A j \in Slots \ {i} : Undisturbed(j)
  <2> TAKE j \in Slots \ {i}
  <2>1. flights[j] \in FlightSet /\ flights'[j] = [flights[j] EXCEPT !.fresh = FALSE]
    BY <1>1, <1>4
  <2> QED BY <2>1 DEF FlightSet, Undisturbed
<1> HIDE DEF g
<1>6. Carrying(g) /\ Sound(g) /\ g.of # "load"
  BY <1>2 DEF Carrying, Sound, Operations
<1>7. served' \in [CaseNos -> [status : KycStates \cup {NoStatus}, docs : SUBSET Files]]
  <2>1. served' = [served EXCEPT ![n] = [@ EXCEPT !.status = status]]
    BY DEF Carried
  <2> QED BY <2>1 DEF PageInv, PageTypeOK
<1>8. page' \in [shown : Views, spinner : BOOLEAN, canStart : BOOLEAN]
      /\ HasCase(page'.shown) /\ current' \in BOOLEAN /\ doubt' \in BOOLEAN
  BY DEF Carried, PageInv, PageTypeOK
<1> QED BY <1>2, <1>3, <1>5, <1>6, <1>7, <1>8, FlightMoves DEF Reloads

LEMMA ServeStartKeeps ==
  ASSUME PageInv, NEW i \in Slots, ServeStart(i), UNCHANGED <<page, doubt>> PROVE PageInv'
<1>1. PICK n \in CaseNos : Carried(i, n, "DRAFT", [case |-> n, status |-> "DRAFT", docs |-> {}])
  BY DEF ServeStart
<1> DEFINE v == [case |-> n, status |-> "DRAFT", docs |-> {}]
<1>2. v \in Views /\ HasCase(v) /\ "DRAFT" \in KycStates
  BY PageAssumption DEF Views, HasCase, CaseNos, KycStates
<1> HIDE DEF v
<1>3. Carried(i, n, "DRAFT", v) /\ flights[i].of \in Operations
  BY <1>1 DEF v, ServeStart, Operations
<1> QED BY <1>2, <1>3, CarriedKeeps

\* The view of a case is the row of the database.
LEMMA CaseViewType ==
  ASSUME PageInv, NEW n \in CaseNos
  PROVE  /\ CaseView(n) \in Views /\ CaseView(n).case = n
         /\ HasCase(CaseView(n)) /\ CaseView(n).status # "undefined"
<1>1. served[n].status \in KycStates \cup {NoStatus} /\ served[n].docs \in SUBSET Files
  BY DEF PageInv, PageTypeOK
<1>2. n \in 0..MaxCases
  BY PageAssumption DEF CaseNos
<1> QED BY <1>1, <1>2, ViewTypes DEF CaseView, Views, HasCase

LEMMA ServeSubmitKeeps ==
  ASSUME PageInv, NEW i \in Slots, flights[i].at = "sent", ServeSubmit(i),
         UNCHANGED <<page, doubt>>
  PROVE  PageInv'
<1> DEFINE n == flights[i].view.case
           v == [CaseView(n) EXCEPT !.status = "SUBMITTED"]
<1>1. n \in CaseNos /\ flights[i].of \in Operations
  BY DEF ServeSubmit, PageInv, Sound, Operations
<1>2. CaseView(n) \in Views /\ CaseView(n).case = n
  BY <1>1, CaseViewType
<1>3. "SUBMITTED" \in KycStates
  BY DEF KycStates
<1>4. Carried(i, n, "SUBMITTED", v)
  BY DEF ServeSubmit
<1>5. v \in Views /\ v.case = n
  <2> HIDE DEF n
  <2> QED BY <1>2, <1>3 DEF Views
<1>6. HasCase(v)
  BY <1>1, <1>5 DEF HasCase
<1> HIDE DEF n, v
<1> QED BY <1>1, <1>3, <1>4, <1>5, <1>6, CarriedKeeps

LEMMA ServeSyncKeeps ==
  ASSUME PageInv, NEW i \in Slots, flights[i].at = "sent", ServeSync(i),
         UNCHANGED <<page, doubt>>
  PROVE  PageInv'
<1> DEFINE n == flights[i].view.case
<1>1. n \in CaseNos /\ flights[i].of \in Operations
  BY DEF ServeSync, PageInv, Sound, Operations
<1>2. PICK s \in Outcomes \cup {served[n].status} : Carried(i, n, s, NotACase)
  BY DEF ServeSync
<1>3. s \in KycStates \cup {NoStatus}
  BY <1>1, PageAssumption DEF PageInv, PageTypeOK
<1>4. HasCase(NotACase)
  BY ViewTypes DEF HasCase
<1> HIDE DEF n
<1> QED BY <1>1, <1>2, <1>3, <1>4, ViewTypes, CarriedKeeps

LEMMA ServeUploadKeeps ==
  ASSUME PageInv, NEW i \in Slots, flights[i].at = "sent", ServeUpload(i),
         UNCHANGED <<page, doubt>>
  PROVE  PageInv'
<1> DEFINE n == flights[i].view.case
<1>1. n \in CaseNos /\ flights[i].of # "load"
  BY DEF ServeUpload, PageInv, Sound
<1>2. PICK d \in Files \ UNION {served[m].docs : m \in CaseNos} :
        served' = [served EXCEPT ![n].docs = @ \cup {d}]
  BY DEF ServeUpload
<1> HIDE DEF n
<1>3. served' \in [CaseNos -> [status : KycStates \cup {NoStatus}, docs : SUBSET Files]]
  <2> DEFINE r == [served[n] EXCEPT !.docs = @ \cup {d}]
  <2>1. r \in [status : KycStates \cup {NoStatus}, docs : SUBSET Files]
    <3>1. served[n] \in [status : KycStates \cup {NoStatus}, docs : SUBSET Files]
      BY <1>1 DEF PageInv, PageTypeOK
    <3>2. served[n].docs \cup {d} \in SUBSET Files
      BY <3>1
    <3> QED BY <3>1, <3>2
  <2>2. served' = [served EXCEPT ![n] = r]
    BY <1>2
  <2> HIDE DEF r
  <2> QED BY <1>1, <2>1, <2>2 DEF PageInv, PageTypeOK
<1>4. HasCase(NotACase) /\ Answered(i, "answered", NotACase)
  BY ViewTypes DEF HasCase, ServeUpload
<1> QED BY <1>1, <1>3, <1>4, ViewTypes, PageAnsweredKeeps

LEMMA ServeRemoveKeeps ==
  ASSUME PageInv, NEW i \in Slots, flights[i].at = "sent", ServeRemove(i),
         UNCHANGED <<page, doubt>>
  PROVE  PageInv'
<1> DEFINE n == flights[i].view.case
<1>1. n \in CaseNos /\ flights[i].of # "load"
  BY DEF ServeRemove, PageInv, Sound
<1>2. PICK d \in served[n].docs :
        /\ served' = [served EXCEPT ![n].docs = @ \ {d}]
        /\ Answered(i, "answered", [flights[i].view EXCEPT !.docs = @ \ {d}])
  BY DEF ServeRemove
<1> HIDE DEF n
<1>3. served' \in [CaseNos -> [status : KycStates \cup {NoStatus}, docs : SUBSET Files]]
  <2> DEFINE r == [served[n] EXCEPT !.docs = @ \ {d}]
  <2>1. r \in [status : KycStates \cup {NoStatus}, docs : SUBSET Files]
    <3>1. served[n] \in [status : KycStates \cup {NoStatus}, docs : SUBSET Files]
      BY <1>1 DEF PageInv, PageTypeOK
    <3>2. served[n].docs \ {d} \in SUBSET Files
      BY <3>1
    <3> QED BY <3>1, <3>2
  <2>2. served' = [served EXCEPT ![n] = r]
    BY <1>2
  <2> HIDE DEF r
  <2> QED BY <1>1, <2>1, <2>2 DEF PageInv, PageTypeOK
<1> DEFINE w == flights[i].view
           v == [w EXCEPT !.docs = @ \ {d}]
<1>4. w \in Views /\ HasCase(w)
  BY DEF PageInv, PageTypeOK, Sound
<1>5. v \in Views /\ v.status = w.status /\ v.case = w.case
  <2> HIDE DEF w
  <2> QED BY <1>4 DEF Views
<1>6. HasCase(v) /\ Answered(i, "answered", v)
  BY <1>2, <1>4, <1>5 DEF HasCase
<1> HIDE DEF v
<1> QED BY <1>1, <1>3, <1>5, <1>6, PageAnsweredKeeps

LEMMA ServeStatusKeeps ==
  ASSUME PageInv, NEW i \in Slots, ServeStatus(i), UNCHANGED <<page, doubt>> PROVE PageInv'
<1> DEFINE n == SummaryFor.caseId
           at == IF n = 0 THEN "answered" ELSE "case"
           v == [NoCase EXCEPT !.case = n]
<1>1. n = 0 \/ n \in CaseNos
  <2>1. CASE OpenCases = {}
    BY <2>1 DEF SummaryFor
  <2>2. CASE OpenCases # {}
    <3>1. OpenCases \in SUBSET (0..MaxCases) /\ OpenCases \subseteq CaseNos /\ MaxCases \in Nat
      BY PageAssumption DEF OpenCases, CaseNos
    <3>2. Max(OpenCases) \in OpenCases
      BY <2>2, <3>1, MaxIn
    <3> QED BY <2>2, <3>1, <3>2 DEF SummaryFor
  <2> QED BY <2>1, <2>2
<1>2. at \in {"case", "answered"} /\ (at = "case" => n \in CaseNos)
  BY <1>1
<1>3. n \in 0..MaxCases
  BY <1>1, PageAssumption DEF CaseNos
<1>4. flights[i].of = "load" /\ Answered(i, at, v)
      /\ UNCHANGED served
  BY DEF ServeStatus
<1> HIDE DEF n, at
<1>5. v \in Views /\ v.case = n /\ v.status = NoStatus
  BY <1>3 DEF Views, NoCase
<1>6. HasCase(v) /\ v.status # "undefined"
  BY <1>5, ViewTypes DEF HasCase
<1> HIDE DEF v
<1> QED BY <1>2, <1>4, <1>5, <1>6, PageAnsweredKeeps DEF PageInv, PageTypeOK

LEMMA ServeCaseKeeps ==
  ASSUME PageInv, NEW i \in Slots, ServeCase(i), UNCHANGED <<page, doubt>> PROVE PageInv'
<1> DEFINE n == flights[i].view.case
<1>1. n \in CaseNos /\ UNCHANGED served /\ Answered(i, "answered", CaseView(n))
  BY DEF ServeCase, PageInv, Sound
<1> HIDE DEF n
<1> QED BY <1>1, CaseViewType, PageAnsweredKeeps DEF PageInv, PageTypeOK

LEMMA ServeMeKeeps ==
  ASSUME PageInv, NEW i \in Slots, ServeMe(i), flights[i].of # "load",
         UNCHANGED <<page, doubt>>
  PROVE  PageInv'
<1> DEFINE v == IF SummaryFor.canStart THEN NoCase ELSE NotACase
<1>1. v \in Views /\ HasCase(v)
  BY ViewTypes DEF HasCase
<1>2. UNCHANGED served /\ Answered(i, "me answered", v)
  BY DEF ServeMe
<1> HIDE DEF v
<1> QED BY <1>1, <1>2, PageAnsweredKeeps DEF PageInv, PageTypeOK

LEMMA ServeKeeps == ASSUME PageInv, NEW i \in Slots, Serve(i) PROVE PageInv'
<1>1. UNCHANGED <<page, doubt>>
  BY DEF Serve
<1>2. CASE ServeMe(i)
  <2>1. flights[i].of # "load"
    BY <1>2 DEF ServeMe, PageInv, Sound
  <2> QED BY <1>1, <1>2, <2>1, ServeMeKeeps
<1> QED BY <1>1, <1>2, ServeStartKeeps, ServeSubmitKeeps, ServeSyncKeeps, ServeUploadKeeps,
           ServeRemoveKeeps, ServeStatusKeeps, ServeCaseKeeps DEF Serve
LEMMA OthersMoveKeeps ==
  ASSUME PageInv, NEW n \in CaseNos, NEW s \in Outcomes, OthersMove(n, s) PROVE PageInv'
<1> DEFINE r == [served[n] EXCEPT !.status = s]
<1>1. r \in [status : KycStates \cup {NoStatus}, docs : SUBSET Files]
  BY PageAssumption DEF PageInv, PageTypeOK
<1>2. served' = [served EXCEPT ![n] = r] /\ UNCHANGED <<page, flights, current, doubt>>
  BY DEF OthersMove
<1> HIDE DEF r
<1> QED BY <1>1, <1>2
        DEF PageInv, PageTypeOK, LoadsOvertaken, ShownOrLoading, Carrying, Reloads, Sound, HasCase

\* A card with a case's buttons is only shown of a case.
LEMMA CardHasCase ==
  ASSUME PageInv, CardOf(page.shown) \in {"under review", "forms"}
  PROVE  page.shown.case \in CaseNos
<1>1. page.shown.status \in KycStates
  BY DEF CardOf, KycStates, NoStatus
<1> QED BY <1>1 DEF PageInv, HasCase

LEMMA ClickKeeps ==
  ASSUME PageInv, NEW of \in Operations \cup DocumentOps, NEW i \in Slots, Click(of, i),
         of # "start" => page.shown.case \in CaseNos
  PROVE  PageInv'
<1> DEFINE v == IF of = "remove" THEN page.shown ELSE [NoCase EXCEPT !.case = page.shown.case]
           g == Flight(of, "sent", v)
<1>1. page.shown \in Views /\ HasCase(page.shown)
  BY DEF PageInv, PageTypeOK
<1>2. v \in Views /\ v.case = page.shown.case /\ HasCase(v)
  <2>1. CASE of = "remove"
    BY <1>1, <2>1
  <2>2. CASE of # "remove"
    BY <1>1, <2>2, ViewTypes DEF Views, NoCase, HasCase
  <2> QED BY <2>1, <2>2
<1>3. flights[i] = NoFlight /\ flights' = [flights EXCEPT ![i] = g]
      /\ UNCHANGED <<served, page, current, doubt>>
  BY DEF Click
<1> HIDE DEF v
<1>4. g \in FlightSet /\ g.of = of /\ g.at = "sent" /\ g.view = v
  BY <1>2, FlightTypes
<1> HIDE DEF g
<1>5. Sound(g)
  BY <1>2, <1>4 DEF Sound, Operations, DocumentOps
<1>6. ~Reloads(flights[i]) /\ ~Carrying(flights[i])
  BY <1>3, NoFlightType DEF Reloads
<1> QED BY <1>3, <1>4, <1>5, <1>6, AnswerGiven DEF PageInv, PageTypeOK

LEMMA ClicksKeep ==
  ASSUME PageInv, NEW i \in Slots,
         StartCase(i) \/ SyncCase(i) \/ SubmitForm(i) \/ Upload(i) \/ Remove(i)
  PROVE  PageInv'
<1> USE DEF Operations, DocumentOps
<1>1. CASE StartCase(i)
  BY <1>1, ClickKeeps DEF StartCase
<1>2. CASE SyncCase(i)
  BY <1>2, CardHasCase, ClickKeeps DEF SyncCase
<1>3. CASE SubmitForm(i)
  BY <1>3, CardHasCase, ClickKeeps DEF SubmitForm
<1>4. CASE Upload(i)
  BY <1>4, CardHasCase, ClickKeeps DEF Upload
<1>5. CASE Remove(i)
  BY <1>5, CardHasCase, ClickKeeps DEF Remove
<1> QED BY <1>1, <1>2, <1>3, <1>4, <1>5

LEMMA RefusedKeeps == ASSUME PageInv, NEW i \in Slots, Refused(i) PROVE PageInv'
<1>1. ~Reloads(flights[i]) /\ ~Carrying(flights[i])
  BY DEF Refused, Reloads, Carrying, Operations, DocumentOps
<1> QED BY <1>1, NoFlightType, AnswerGiven DEF Refused, PageInv, PageTypeOK

LEMMA LoadAnsweredKeeps == ASSUME PageInv, NEW i \in Slots, LoadAnswered(i) PROVE PageInv'
<1> DEFINE f == flights[i]
<1>1. /\ f.of = "load" /\ f.at = "answered"
      /\ page' = [page EXCEPT !.shown = f.view, !.spinner = FALSE]
      /\ current' = f.fresh /\ doubt' = ~f.alone /\ UNCHANGED served
      /\ flights' = [flights EXCEPT ![i] = NoFlight]
  BY DEF LoadAnswered
<1>2. f \in FlightSet /\ Sound(f) /\ served' \in [CaseNos -> [status : KycStates \cup {NoStatus}, docs : SUBSET Files]]
  BY <1>1 DEF PageInv, PageTypeOK, FlightSet
<1>3. f.view \in Views /\ HasCase(f.view) /\ f.view.status # "undefined"
      /\ f.fresh \in BOOLEAN /\ f.alone \in BOOLEAN
  BY <1>1, <1>2 DEF Sound, FlightSet
<1>4. ~Carrying(f)
  BY <1>1 DEF Carrying, Operations
<1>5. ASSUME f.alone, ~f.fresh PROVE \E j \in Slots \ {i} : Reloads(flights[j])
  BY <1>1, <1>4, <1>5 DEF PageInv, LoadsOvertaken, Reloads
<1> HIDE DEF f
<1>6. page' \in [shown : Views, spinner : BOOLEAN, canStart : BOOLEAN] /\ page'.shown = f.view
  BY <1>1, <1>3 DEF PageInv, PageTypeOK
<1>7. current' \in BOOLEAN /\ doubt' \in BOOLEAN
  BY <1>1, <1>3
<1>8. ~doubt' => \/ \E j \in Slots \ {i} : Reloads(flights[j])
                 \/ current' /\ page'.shown.status # "undefined"
  BY <1>1, <1>3, <1>5, <1>6
<1>9. Carrying(flights[i]) => Carrying(NoFlight)
  BY <1>4 DEF f
<1> QED BY <1>1, <1>2, <1>3, <1>6, <1>7, <1>8, <1>9, NoFlightType, OneMoves

\* Forms that leave the screen forget that they are busy, and nothing else.
LEMMA KeptFlights ==
  ASSUME NEW fs \in [Slots -> FlightSet], NEW v \in Views, NEW j \in Slots
  PROVE  /\ DOMAIN Kept(fs, v) = Slots
         /\ Kept(fs, v) = [k \in Slots |-> Kept(fs, v)[k]]
         /\ Kept(fs, v)[j] \in FlightSet
         /\ Kept(fs, v)[j].of = fs[j].of /\ Kept(fs, v)[j].at = fs[j].at
         /\ Kept(fs, v)[j].view = fs[j].view /\ Kept(fs, v)[j].alone = fs[j].alone
         /\ Kept(fs, v)[j].fresh = fs[j].fresh
<1>1. CASE CardOf(v) = "forms"
  BY <1>1 DEF Kept
<1>2. CASE CardOf(v) # "forms"
  <2>1. Kept(fs, v) = [k \in Slots |-> IF fs[k].of \in Forms THEN [fs[k] EXCEPT !.held = FALSE]
                                      ELSE fs[k]]
    BY <1>2 DEF Kept
  <2>2. fs[j] \in FlightSet /\ [fs[j] EXCEPT !.held = FALSE] \in FlightSet
    BY DEF FlightSet
  <2>3. Kept(fs, v)[j] = IF fs[j].of \in Forms THEN [fs[j] EXCEPT !.held = FALSE] ELSE fs[j]
    BY <2>1
  <2>4. DOMAIN Kept(fs, v) = Slots /\ Kept(fs, v) = [k \in Slots |-> Kept(fs, v)[k]]
    BY <2>1
  <2> QED BY <2>2, <2>3, <2>4 DEF FlightSet
<1> QED BY <1>1, <1>2

\* A new load: every other one is no longer alone.
LEMMA WithLoadFlights ==
  ASSUME NEW fs \in [Slots -> FlightSet], NEW i \in Slots
  PROVE  /\ DOMAIN WithLoad(fs, i) = Slots
         /\ WithLoad(fs, i) = [k \in Slots |-> WithLoad(fs, i)[k]]
         /\ WithLoad(fs, i)[i] \in FlightSet /\ WithLoad(fs, i)[i].of = "load"
         /\ WithLoad(fs, i)[i].at = "sent" /\ WithLoad(fs, i)[i].view = NoCase
         /\ \A j \in Slots \ {i} :
              LET g == WithLoad(fs, i)[j] IN
              /\ g \in FlightSet /\ g.of = fs[j].of /\ g.at = fs[j].at /\ g.view = fs[j].view
              /\ g.alone => fs[j].alone /\ fs[j].of # "load"
              /\ g.fresh = fs[j].fresh
<1> DEFINE a == \A k \in Slots \ {i} : fs[k].of # "load"
           l == Flight("load", "sent", NoCase)
           m == [l EXCEPT !.alone = a]
<1>1. WithLoad(fs, i) = [j \in Slots |->
        IF j = i THEN m
        ELSE IF fs[j].of = "load" THEN [fs[j] EXCEPT !.alone = FALSE]
        ELSE IF fs[j].of \in Forms THEN [fs[j] EXCEPT !.held = FALSE] ELSE fs[j]]
  BY DEF WithLoad
<1>2. l \in FlightSet /\ l.of = "load" /\ l.at = "sent" /\ l.view = NoCase /\ a \in BOOLEAN
  BY FlightTypes, ViewTypes
<1> HIDE DEF a, l
<1>3. m \in FlightSet /\ m.of = "load" /\ m.at = "sent" /\ m.view = NoCase
  BY <1>2 DEF FlightSet
<1> HIDE DEF m
<1>4. ASSUME NEW j \in Slots \ {i}
      PROVE  LET g == WithLoad(fs, i)[j] IN
             /\ g \in FlightSet /\ g.of = fs[j].of /\ g.at = fs[j].at /\ g.view = fs[j].view
             /\ g.alone => fs[j].alone /\ fs[j].of # "load"
             /\ g.fresh = fs[j].fresh
  <2>1. fs[j] \in FlightSet
    OBVIOUS
  <2>2. WithLoad(fs, i)[j] = IF fs[j].of = "load" THEN [fs[j] EXCEPT !.alone = FALSE]
                             ELSE IF fs[j].of \in Forms THEN [fs[j] EXCEPT !.held = FALSE]
                             ELSE fs[j]
    BY <1>1
  <2> QED BY <2>1, <2>2 DEF FlightSet
<1> QED BY <1>1, <1>3, <1>4
LEMMA OperationAnsweredKeeps ==
  ASSUME PageInv, NEW i \in Slots, OperationAnswered(i) PROVE PageInv'
<1> DEFINE f == flights[i]
           l == Flight(f.of, "me", NoCase)
           g == [l EXCEPT !.held = f.held]
           fs == [flights EXCEPT ![i] = g]
<1>1. /\ f.of \in Operations /\ f.at = "answered"
      /\ page' = [page EXCEPT !.shown = f.view] /\ current' = f.fresh
      /\ flights' = Kept(fs, f.view) /\ UNCHANGED <<served, doubt>>
  BY DEF OperationAnswered, Showing, Refreshing
<1>2. f \in FlightSet /\ Sound(f) /\ flights \in [Slots -> FlightSet]
  BY DEF PageInv, PageTypeOK, FlightSet
<1>3. f.view \in Views /\ HasCase(f.view) /\ f.fresh \in BOOLEAN /\ f.held \in BOOLEAN
  BY <1>2 DEF Sound, FlightSet
<1>4. l \in FlightSet /\ l.of = f.of /\ l.at = "me" /\ l.view = NoCase
  BY <1>1, FlightTypes, ViewTypes
<1> HIDE DEF l
<1>5. g \in FlightSet /\ g.of = f.of /\ g.at = "me" /\ g.view = NoCase
  BY <1>3, <1>4 DEF FlightSet
<1> HIDE DEF g
<1>6. fs \in [Slots -> FlightSet] /\ fs[i] = g /\ \A j \in Slots \ {i} : fs[j] = flights[j]
  BY <1>2, <1>5
<1> HIDE DEF f, fs
<1>7. /\ DOMAIN flights' = Slots /\ flights' = [k \in Slots |-> flights'[k]]
      /\ flights'[i] \in FlightSet /\ flights'[i].of \in Operations
      /\ flights'[i].at = "me" /\ flights'[i].view = NoCase
  BY <1>1, <1>3, <1>5, <1>6, KeptFlights
<1>8. ASSUME NEW j \in Slots \ {i}
      PROVE  /\ Undisturbed(j)
             /\ flights[j].fresh => flights'[j].fresh
  BY <1>1, <1>3, <1>6, KeptFlights DEF Undisturbed
<1>9. Sound(flights'[i]) /\ Carrying(flights'[i]) /\ flights'[i].of # "load"
  BY <1>7, ViewTypes DEF Sound, HasCase, Carrying, Operations
<1>10. /\ page' \in [shown : Views, spinner : BOOLEAN, canStart : BOOLEAN]
       /\ HasCase(page'.shown)
  BY <1>1, <1>3 DEF PageInv, PageTypeOK
<1> QED BY <1>1, <1>3, <1>7, <1>8, <1>9, <1>10, FlightMoves DEF Reloads, PageInv, PageTypeOK

LEMMA DocumentAnsweredKeeps ==
  ASSUME PageInv, NEW i \in Slots, DocumentAnswered(i) PROVE PageInv'
<1> DEFINE f == flights[i]
           fs == [flights EXCEPT ![i] = NoFlight]
<1>1. /\ f.of \in DocumentOps
      /\ page' = [page EXCEPT !.shown = f.view] /\ current' = f.fresh
      /\ flights' = Kept(fs, f.view) /\ UNCHANGED served /\ doubt' = TRUE
  BY DEF DocumentAnswered, Showing
<1>2. f \in FlightSet /\ Sound(f) /\ flights \in [Slots -> FlightSet]
  BY DEF PageInv, PageTypeOK, FlightSet
<1>3. f.view \in Views /\ HasCase(f.view) /\ f.fresh \in BOOLEAN
  BY <1>2 DEF Sound, FlightSet
<1>4. ~Carrying(f)
  BY <1>1 DEF Carrying, Operations, DocumentOps
<1>5. fs \in [Slots -> FlightSet] /\ fs[i] = NoFlight
      /\ \A j \in Slots \ {i} : fs[j] = flights[j]
  BY <1>2, NoFlightType
<1>6. ~Carrying(flights[i])
  BY <1>4
<1> HIDE DEF f, fs
<1>7. /\ DOMAIN flights' = Slots /\ flights' = [k \in Slots |-> flights'[k]]
      /\ flights'[i] \in FlightSet /\ flights'[i].of = "none"
      /\ flights'[i].at = "none" /\ flights'[i].view = NoCase
  BY <1>1, <1>3, <1>5, KeptFlights, NoFlightType DEF NoFlight, Flight
<1>8. ASSUME NEW j \in Slots \ {i}
      PROVE  /\ Undisturbed(j)
             /\ flights[j].fresh => flights'[j].fresh
  BY <1>1, <1>3, <1>5, KeptFlights DEF Undisturbed
<1>9. Sound(flights'[i]) /\ flights'[i].of # "load"
  BY <1>7, ViewTypes DEF Sound, HasCase
<1>10. /\ page' \in [shown : Views, spinner : BOOLEAN, canStart : BOOLEAN]
       /\ HasCase(page'.shown)
  BY <1>1, <1>3 DEF PageInv, PageTypeOK
<1>11. served' \in [CaseNos -> [status : KycStates \cup {NoStatus}, docs : SUBSET Files]]
  BY <1>1 DEF PageInv, PageTypeOK
<1> QED BY <1>1, <1>3, <1>6, <1>7, <1>8, <1>9, <1>10, <1>11, FlightMoves

\* What a load that is new leaves: it will show the case.
LEMMA LoadStarts ==
  ASSUME PageInv, NEW i \in Slots, flights' = WithLoad(flights, i),
         UNCHANGED <<served, current, doubt>>,
         page' \in [shown : Views, spinner : BOOLEAN, canStart : BOOLEAN],
         HasCase(page'.shown)
  PROVE  PageInv'
<1>1. flights \in [Slots -> FlightSet]
  BY DEF PageInv, PageTypeOK, FlightSet
<1>2. /\ DOMAIN flights' = Slots /\ flights' = [k \in Slots |-> flights'[k]]
      /\ flights'[i] \in FlightSet /\ flights'[i].of = "load"
      /\ flights'[i].at = "sent" /\ flights'[i].view = NoCase
  BY <1>1, WithLoadFlights
<1>3. ASSUME NEW j \in Slots \ {i}
      PROVE  /\ Undisturbed(j)
             /\ flights[j].of = "load" => ~flights'[j].alone
             /\ flights[j].fresh => flights'[j].fresh
  BY <1>1, WithLoadFlights DEF Undisturbed
<1>4. Sound(flights'[i]) /\ Reloads(flights'[i])
  BY <1>2, ViewTypes DEF Sound, HasCase, Reloads
<1> QED BY <1>2, <1>3, <1>4, FlightMoves DEF PageInv, PageTypeOK

LEMMA MeAnsweredKeeps == ASSUME PageInv, NEW i \in Slots, MeAnswered(i) PROVE PageInv'
<1> DEFINE c == flights[i].view = NoCase
<1>1. /\ page' = [page EXCEPT !.canStart = c, !.spinner = TRUE]
      /\ flights' = WithLoad(flights, i) /\ UNCHANGED <<served, current, doubt>>
  BY DEF MeAnswered
<1>2. c \in BOOLEAN
  OBVIOUS
<1> HIDE DEF c
<1>3. page' \in [shown : Views, spinner : BOOLEAN, canStart : BOOLEAN]
      /\ page'.shown = page.shown
  BY <1>1, <1>2 DEF PageInv, PageTypeOK
<1> QED BY <1>1, <1>3, LoadStarts DEF PageInv

LEMMA OpenAgainKeeps == ASSUME PageInv, OpenAgain PROVE PageInv'
<1>1. 1 \in Slots
  BY PageAssumption DEF Slots
<1>2. /\ page' = [page EXCEPT !.shown = NoCase, !.spinner = TRUE]
      /\ flights' = WithLoad(flights, 1) /\ UNCHANGED <<served, current, doubt>>
  BY DEF OpenAgain
<1>3. /\ page' \in [shown : Views, spinner : BOOLEAN, canStart : BOOLEAN]
      /\ HasCase(page'.shown)
  BY <1>2, ViewTypes DEF PageInv, PageTypeOK, HasCase
<1> QED BY <1>1, <1>2, <1>3, LoadStarts

LEMMA RequestLostKeeps == ASSUME PageInv, NEW i \in Slots, RequestLost(i) PROVE PageInv'
<1>1. flights \in [Slots -> FlightSet]
  BY DEF PageInv, PageTypeOK, FlightSet
<1>2. flights' = [j \in Slots |-> IF j = i THEN NoFlight
                   ELSE IF flights[j].of = "load" THEN [flights[j] EXCEPT !.alone = FALSE]
                   ELSE flights[j]]
      /\ doubt' = TRUE /\ UNCHANGED <<served, current>>
  BY DEF RequestLost
<1>3. flights'[i] = NoFlight /\ DOMAIN flights' = Slots
      /\ flights' = [k \in Slots |-> flights'[k]]
  BY <1>2
<1>4. ASSUME NEW j \in Slots \ {i}
      PROVE  /\ Undisturbed(j)
             /\ flights[j].of = "load" => ~flights'[j].alone
             /\ flights[j].fresh => flights'[j].fresh
  <2>1. flights[j] \in FlightSet
    BY <1>1
  <2>2. flights'[j] = IF flights[j].of = "load" THEN [flights[j] EXCEPT !.alone = FALSE]
                      ELSE flights[j]
    BY <1>2
  <2> QED BY <2>1, <2>2 DEF FlightSet, Undisturbed
<1>5. /\ page' \in [shown : Views, spinner : BOOLEAN, canStart : BOOLEAN]
      /\ HasCase(page'.shown)
  <2>1. CASE flights[i].of = "load"
    <3>1. page' = [page EXCEPT !.shown = NoCase, !.spinner = page.spinner /\ FALSE]
      BY <2>1 DEF RequestLost, SpinnerAfterFailure
    <3> QED BY <3>1, ViewTypes DEF PageInv, PageTypeOK, HasCase
  <2>2. CASE flights[i].of # "load"
    BY <2>2 DEF RequestLost, PageInv, PageTypeOK
  <2> QED BY <2>1, <2>2
<1> QED BY <1>2, <1>3, <1>4, <1>5, NoFlightType, FlightMoves DEF PageInv, PageTypeOK, NoFlight, Flight

LEMMA PageInvInit == PageInit => PageInv
<1> SUFFICES ASSUME PageInit PROVE PageInv
  OBVIOUS
<1> DEFINE fs == [i \in Slots |-> NoFlight]
<1>1. fs \in [Slots -> FlightSet] /\ 1 \in Slots /\ \A j \in Slots : fs[j] = NoFlight
  BY NoFlightType, PageAssumption DEF Slots
<1>2. flights = WithLoad(fs, 1)
  BY DEF PageInit
<1> HIDE DEF fs
<1>3. /\ flights \in [Slots -> FlightSet]
      /\ flights[1].of = "load" /\ flights[1].at = "sent" /\ flights[1].view = NoCase
      /\ \A j \in Slots \ {1} :
           flights[j].of = "none" /\ flights[j].at = "none" /\ flights[j].view = NoCase
  BY <1>1, <1>2, WithLoadFlights, NoFlightType DEF NoFlight, Flight
<1>4. \A j \in Slots : Sound(flights[j]) /\ flights[j].at # "answered"
  BY <1>3, ViewTypes DEF Sound, HasCase
<1>5. SummaryFor.canStart \in BOOLEAN
  BY DEF SummaryFor
<1>6. /\ page \in [shown : Views, spinner : BOOLEAN, canStart : BOOLEAN]
      /\ HasCase(page.shown)
  BY <1>5, ViewTypes DEF PageInit, HasCase
<1>7. served \in [CaseNos -> [status : KycStates \cup {NoStatus}, docs : SUBSET Files]]
  <2>1. Outcomes \cup {"DRAFT", "SUBMITTED", NoStatus} \subseteq KycStates \cup {NoStatus}
    BY PageAssumption DEF KycStates
  <2> QED BY <2>1 DEF PageInit
<1>8. PageTypeOK
  BY <1>3, <1>6, <1>7 DEF PageTypeOK, FlightSet, PageInit
<1> QED BY <1>1, <1>3, <1>4, <1>6, <1>8
        DEF PageInv, LoadsOvertaken, ShownOrLoading, Reloads

LEMMA PageInvStep == PageInv /\ [PageNext]_pageVars => PageInv'
<1> SUFFICES ASSUME PageInv, [PageNext]_pageVars PROVE PageInv'
  OBVIOUS
<1>1. ASSUME NEW i \in Slots, Serve(i) PROVE PageInv'
  BY <1>1, ServeKeeps
<1>2. ASSUME NEW i \in Slots, Arrives(i) PROVE PageInv'
  BY <1>2, LoadAnsweredKeeps, OperationAnsweredKeeps, MeAnsweredKeeps, DocumentAnsweredKeeps,
     RefusedKeeps, RequestLostKeeps DEF Arrives
<1>3. ASSUME NEW i \in Slots,
             StartCase(i) \/ SyncCase(i) \/ SubmitForm(i) \/ Upload(i) \/ Remove(i)
      PROVE  PageInv'
  BY <1>3, ClicksKeep
<1>4. CASE UNCHANGED pageVars
  BY <1>4 DEF pageVars, PageInv, PageTypeOK, LoadsOvertaken, ShownOrLoading, Carrying,
              Reloads, Sound, HasCase
<1> QED BY <1>1, <1>2, <1>3, <1>4, OthersMoveKeeps, OpenAgainKeeps DEF PageNext

LEMMA PageInvHeals == PageInv => PageHeals
<1>1. ASSUME PageInv, Quiet, ~doubt PROVE current /\ page.shown # NotACase
  BY <1>1, NoFlightType, ViewTypes DEF PageInv, ShownOrLoading, Quiet
<1> QED BY <1>1 DEF PageHeals

\* The type invariant: what the page shows and its handlers work with is a view.
THEOREM PageType == PageSpec => []PageTypeOK
<1>1. PageInv => PageTypeOK
  BY DEF PageInv
<1> QED BY <1>1, PageInvInit, PageInvStep, PTL DEF PageSpec

\* When nothing is in flight the page shows the case as the server had it after
\* the user's last operation (PageHeals), for any number of handlers at work.
THEOREM PagesHeal == PageSpec => []PageHeals
BY PageInvHeals, PageInvInit, PageInvStep, PTL DEF PageSpec

(***************************************************************************)
(* The components side by side (MCClients)                                 *)
(***************************************************************************)
\* A step is one of a single component, and the others stay as they are.
LEMMA ClientsSteps ==
  ASSUME [ClientsNext]_clientsVars
  PROVE  /\ [SmileNext]_smileVars /\ [ConsentNext]_consentVars
         /\ [SessionNext]_sessionVars /\ [PageNext]_pageVars
<1>1. CASE UNCHANGED clientsVars
  BY <1>1 DEF clientsVars
<1>2. CASE On("provider") /\ SmileNext /\ UNCHANGED <<consentVars, sessionVars, pageVars>>
  BY <1>2
<1>3. CASE On("consents") /\ ConsentNext /\ UNCHANGED <<smileVars, sessionVars, pageVars>>
  BY <1>3
<1>4. CASE On("sessions") /\ SessionNext /\ UNCHANGED <<smileVars, consentVars, pageVars>>
  BY <1>4
<1>5. CASE On("kyc page") /\ PageNext /\ UNCHANGED <<smileVars, consentVars, sessionVars>>
  BY <1>5
<1> QED BY <1>1, <1>2, <1>3, <1>4, <1>5 DEF ClientsNext

LEMMA ClientsInvAlways == ClientsSpec => [](SmileInv /\ ConsentInv /\ SessionInv /\ PageInv)
<1>1. ClientsInit => SmileInv /\ ConsentInv /\ SessionInv /\ PageInv
  BY SmileInvInit, ConsentInvInit, SessionInvInit, PageInvInit DEF ClientsInit
<1>2. SmileInv /\ ConsentInv /\ SessionInv /\ PageInv /\ [ClientsNext]_clientsVars
        => SmileInv' /\ ConsentInv' /\ SessionInv' /\ PageInv'
  BY ClientsSteps, SmileInvNext, ConsentInvNext, SessionInvStep, PageInvStep
<1> QED BY <1>1, <1>2, PTL DEF ClientsSpec

\* The type invariants of the components that wait for others, side by side.
THEOREM ClientsType == ClientsSpec => []ClientsTypeOK
<1>1. SmileInv /\ ConsentInv /\ SessionInv /\ PageInv => ClientsTypeOK
  BY DEF ClientsTypeOK, SmileInv, ConsentInv, SessionInv, PageInv
<1> QED BY <1>1, ClientsInvAlways, PTL

\* Whatever safety the run of MCClients checks holds for every value of its
\* constants: events written once, profiles and pages that are the user's own and
\* the server's, tokens that heal.
THEOREM ClientsSafe ==
  ClientsSpec => [](AuditedOnce /\ OwnProfileShown /\ PageHeals) /\ StaleTokenHeals
<1>1. SmileInv /\ ConsentInv /\ SessionInv /\ PageInv
        => AuditedOnce /\ OwnProfileShown /\ PageHeals
  BY PageInvHeals DEF ConsentInv, SessionInv, OwnFetches, OwnProfileShown
<1>2. SmileInv /\ [SmileNext]_smileVars => [HealsStep]_smileVars
  BY HealsAlways
<1>3. [ClientsNext]_clientsVars => [SmileNext]_smileVars
  BY ClientsSteps
<1>4. ClientsSpec => [][HealsStep]_smileVars
  BY <1>2, <1>3, ClientsInvAlways, PTL DEF ClientsSpec
<1>5. [][HealsStep]_smileVars => StaleTokenHeals
  BY DEF StaleTokenHeals, HealsStep
<1> QED BY <1>1, <1>4, <1>5, ClientsInvAlways, PTL
=============================================================================
