--------------------------- MODULE SmileIdentity ---------------------------
(***************************************************************************)
(* The adapter of the identity provider (SmileIdentityKycProvider): calls  *)
(* that share one cached bearer token.                                     *)
(*                                                                         *)
(* A call asks for the token, sends its request with it, and on a 401 asks *)
(* for a new token and sends it once more.  Calls of several requests      *)
(* interleave at every await, so a slower answer may overwrite the token a *)
(* later one cached.  The provider forgets tokens when it likes; its       *)
(* answers, and the fetch itself, are external.  Time is abstracted: the   *)
(* cached token lapses by an action of its own, a request that hangs is    *)
(* aborted by its timer.                                                   *)
(***************************************************************************)
CONSTANTS
  Calls,     \* calls in flight
  OpOf,      \* what each does: "submit" (submitCheck) or "status" (fetchDecision)
  Tokens,    \* bearer tokens the provider may issue, and issue again
  NoToken

ASSUME SmileAssumption ==
  NoToken \notin Tokens /\ OpOf \in [Calls -> {"submit", "status"}]

VARIABLES
  smileCache,  \* this.token: its value, and is expiresAt still ahead?
  smileCalls,  \* where each call is, its token, the status it ended on, its result
  accepted,    \* the tokens the provider accepts
  lost         \* history: the tokens the provider forgot while a call runs

smileVars == <<smileCache, smileCalls, accepted, lost>>

\* The status classes the code tells apart; "none" is a fetch that failed.
Statuses == {"401", "403", "404", "4xx", "5xx", "200", "202"}

\* What a call returns, or the KycProviderError it throws.
Results == {"SUBMITTED", "PENDING", "ANSWERED",
            "PROVIDER_AUTH_FAILED", "PROVIDER_REJECTED_REQUEST", "PROVIDER_UNAVAILABLE"}

SmileTypeOK ==
  /\ smileCache \in [value : Tokens \cup {NoToken}, ahead : BOOLEAN]
  /\ smileCalls \in [Calls -> [at : {"idle", "token", "fetch", "request", "done"},
                               retried : BOOLEAN,
                               token : Tokens \cup {NoToken},
                               last : Statuses \cup {"none"},
                               result : Results \cup {"none"}]]
  /\ accepted \in SUBSET Tokens
  /\ lost \in [Calls -> SUBSET Tokens]

NewCall(at) ==
  [at |-> at, retried |-> FALSE, token |-> NoToken, last |-> "none", result |-> "none"]

\* A call ends on a status and with a result: nothing else of it is kept.
Ends(c, status, result) ==
  /\ smileCalls' = [smileCalls EXCEPT ![c] = [NewCall("done") EXCEPT !.last = status,
                                                                   !.result = result]]
  /\ lost' = [lost EXCEPT ![c] = {}]

SmileInit ==
  /\ smileCache = [value |-> NoToken, ahead |-> FALSE]
  /\ smileCalls = [c \in Calls |-> NewCall("idle")]
  /\ accepted = {}
  /\ lost = [c \in Calls |-> {}]

ErrorFor(status) ==
  IF status \in {"401", "403"} THEN "PROVIDER_AUTH_FAILED"
  ELSE IF status \in {"404", "4xx"} THEN "PROVIDER_REJECTED_REQUEST"
  ELSE "PROVIDER_UNAVAILABLE"

\* submitCheck wants a 202, fetchDecision takes a 404 for a job still unknown.
ResultOf(op, status) ==
  IF op = "submit" /\ status = "202" THEN "SUBMITTED"
  ELSE IF op = "status" /\ status = "404" THEN "PENDING"
  ELSE IF op = "status" /\ status \in {"200", "202"} THEN "ANSWERED"
  ELSE ErrorFor(status)

BeginCall(c) ==
  /\ smileCalls[c].at \in {"idle", "done"}
  /\ smileCalls' = [smileCalls EXCEPT ![c] = NewCall("token")]
  /\ UNCHANGED <<smileCache, accepted, lost>>

\* Mutant of UseCache: the retry may take the cached token again.
UseCacheAnyway(retried) == smileCache.value # NoToken /\ smileCache.ahead

\* A call that retries passes forceRefresh.
UseCache(retried) == ~retried /\ smileCache.value # NoToken /\ smileCache.ahead

GetToken(c) ==
  /\ smileCalls[c].at = "token"
  /\ \/ /\ UseCache(smileCalls[c].retried)
        /\ smileCalls' = [smileCalls EXCEPT ![c].at = "request",
                                            ![c].token = smileCache.value]
     \/ /\ ~UseCache(smileCalls[c].retried)
        /\ smileCalls' = [smileCalls EXCEPT ![c].at = "fetch", ![c].token = NoToken]
  /\ UNCHANGED <<smileCache, accepted, lost>>

\* The provider issues a token, accepted while the answer is on its way.
IssueToken(c, t) ==
  /\ smileCalls[c].at = "fetch" /\ smileCalls[c].token = NoToken
  /\ accepted' = accepted \cup {t}
  /\ smileCalls' = [smileCalls EXCEPT ![c].token = t]
  /\ UNCHANGED <<smileCache, lost>>

\* The call caches the token of its answer and goes on with it.
TokenAnswered(c) ==
  /\ smileCalls[c].at = "fetch" /\ smileCalls[c].token # NoToken
  /\ smileCache' = [value |-> smileCalls[c].token, ahead |-> TRUE]
  /\ smileCalls' = [smileCalls EXCEPT ![c].at = "request"]
  /\ UNCHANGED <<accepted, lost>>

\* The token endpoint refuses, or its answer is empty: an error, whatever the
\* call asks for.
TokenRefused(c, status) ==
  /\ smileCalls[c].at = "fetch" /\ smileCalls[c].token = NoToken
  /\ Ends(c, status, ErrorFor(status))
  /\ UNCHANGED <<smileCache, accepted>>

\* One refresh and retry: the second 401 is an answer like any other.
RetryAfter(status, retried) == status = "401" /\ ~retried

\* A request with a token the provider forgot is answered 401, and only that.
RequestAnswered(c, status) ==
  LET call == smileCalls[c] IN
  /\ call.at = "request"
  /\ status = "401" <=> call.token \notin accepted
  /\ \/ /\ RetryAfter(status, call.retried)
        /\ smileCalls' = [smileCalls EXCEPT ![c].at = "token", ![c].retried = TRUE,
                                            ![c].token = NoToken]
        /\ UNCHANGED lost
     \/ /\ ~RetryAfter(status, call.retried)
        /\ Ends(c, status, ResultOf(OpOf[c], status))
  /\ UNCHANGED <<smileCache, accepted>>

\* The timer aborts the fetch, the connection fails, or the answer of a
\* success is unreadable: PROVIDER_UNAVAILABLE.
FetchFails(c) ==
  /\ smileCalls[c].at \in {"fetch", "request"}
  /\ Ends(c, "none", "PROVIDER_UNAVAILABLE")
  /\ UNCHANGED <<smileCache, accepted>>

CacheLapses ==
  /\ smileCache.ahead
  /\ smileCache' = [smileCache EXCEPT !.ahead = FALSE]
  /\ UNCHANGED <<smileCalls, accepted, lost>>

ForgetToken(t) ==
  /\ t \in accepted
  /\ accepted' = accepted \ {t}
  /\ lost' = [c \in Calls |-> IF smileCalls[c].at \in {"idle", "done"} THEN {}
                              ELSE lost[c] \cup {t}]
  /\ UNCHANGED <<smileCache, smileCalls>>

CallStep(c) ==
  \/ GetToken(c)
  \/ TokenAnswered(c)
  \/ \E status \in Statuses : TokenRefused(c, status) \/ RequestAnswered(c, status)
  \/ FetchFails(c)

SmileNext ==
  \/ \E c \in Calls : \/ CallStep(c)
                      \/ BeginCall(c)
                      \/ \E t \in Tokens : IssueToken(c, t)
  \/ \E t \in Tokens : ForgetToken(t)
  \/ CacheLapses

\* The timer of a fetch always fires: a call that can go on does.
SmileFairness == \A c \in Calls : WF_smileVars(CallStep(c))

SmileSpec == SmileInit /\ [][SmileNext]_smileVars /\ SmileFairness

(***************************************************************************)
(* Properties                                                              *)
(***************************************************************************)
\* A stale cached token never fails a call, whoever overwrote the cache
\* meanwhile: a request whose call ends on a 401 sent a token the provider
\* forgot while that call was running (authedFetch's one refresh-and-retry).
StaleTokenHeals ==
  [][\A c \in Calls :
       (smileCalls[c].at = "request" /\ smileCalls'[c].at = "done"
          /\ smileCalls'[c].result = "PROVIDER_AUTH_FAILED")
       => (smileCalls'[c].last = "403" \/ smileCalls[c].token \in lost[c])]_smileVars

\* Whatever the provider answers, a call comes to an end: the retry is made
\* once, even while the provider goes on refusing (authedFetch).
CallsEnd ==
  \A c \in Calls : (smileCalls[c].at = "token") ~> (smileCalls[c].at = "done")
=============================================================================
