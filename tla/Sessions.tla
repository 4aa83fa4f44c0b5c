------------------------------ MODULE Sessions ------------------------------
(***************************************************************************)
(* The session of a client and the profile it fetches for it: the          *)
(* SessionProvider, RequireAuth and MeProvider of the web client and of    *)
(* the admin console, and the providers of the mobile client.              *)
(*                                                                         *)
(* The auth service reports sessions at any time: the stored one, a        *)
(* sign-in or sign-out (of another tab, too), a renewed token.  Each one   *)
(* makes the provider fetch GET users/me with the token held then, and     *)
(* screens fetch it again after they changed something; every answer is    *)
(* applied when it arrives, whatever the session is by then.  On the web   *)
(* and in the console a sign-out unmounts the provider, on mobile it stays.*)
(***************************************************************************)
EXTENDS Naturals, FiniteSets

CONSTANTS
  Users, NoUser,
  MaxFetches   \* bound: requests for the profile in flight

ASSUME SessionsAssumption ==
  NoUser \notin Users /\ IsFiniteSet(Users) /\ MaxFetches \in Nat \ {0}

VARIABLES
  platform,  \* "web", "admin" or "mobile"
  session,   \* whose session it is; is the stored one still being read?
  me,        \* the provider: the profile, loading, the blocked screen
  fetches,   \* requests in flight, by slot: the token's user and the answer
  refused,   \* accounts the API answers with an error code
  mixed      \* history: did a fetch of an earlier session outlive it?

sessionVars == <<platform, session, me, fetches, refused, mixed>>

FetchSlots == 1..MaxFetches
NoFetch == [user |-> NoUser, answer |-> "none"]
Codes == {"ACCOUNT_DISABLED", "UNAUTHORIZED"}
Answers == {"none", "profile"} \cup Codes

SessionTypeOK ==
  /\ platform \in {"web", "admin", "mobile"}
  /\ session \in [user : Users \cup {NoUser}, loading : BOOLEAN]
  /\ me \in [profile : Users \cup {NoUser}, loading : BOOLEAN, blocked : BOOLEAN]
  /\ fetches \in [FetchSlots -> [user : Users \cup {NoUser}, answer : Answers]]
  /\ refused \in [Users -> Codes \cup {"none"}]
  /\ mixed \in BOOLEAN

Mounted == [profile |-> NoUser, loading |-> TRUE, blocked |-> FALSE]
Free == {i \in FetchSlots : fetches[i] = NoFetch}

SessionInit ==
  /\ platform \in {"web", "admin", "mobile"}
  /\ session = [user |-> NoUser, loading |-> TRUE]
  /\ me = Mounted
  /\ fetches = [i \in FetchSlots |-> NoFetch]
  /\ refused \in [Users -> Codes \cup {"none"}]
  /\ mixed = FALSE

\* A sign-out takes the web's provider off the screen (RequireAuth).
Unmounts == platform \in {"web", "admin"}

\* Mutant of ProfileAfterSignOut: the profile is kept.
ProfileKept == me.profile

\* The provider that stays drops the profile of the session that ended.
ProfileAfterSignOut == NoUser

SignedOut ==
  /\ session' = [user |-> NoUser, loading |-> FALSE]
  /\ \/ /\ Unmounts
        /\ me' = Mounted
        /\ fetches' = [i \in FetchSlots |-> NoFetch]
        /\ mixed' = FALSE
     \/ /\ ~Unmounts
        /\ me' = [me EXCEPT !.profile = ProfileAfterSignOut, !.loading = FALSE]
        /\ mixed' = (Free # FetchSlots)
        /\ UNCHANGED fetches
  /\ UNCHANGED <<platform, refused>>

Fetch(i, u) == fetches' = [fetches EXCEPT ![i] = [user |-> u, answer |-> "none"]]
NextFree(i) == i \in Free /\ \A j \in Free : i <= j

\* A session begins, changes hands or is renewed: the provider loads.
SignedIn(u) ==
  /\ session' = [user |-> u, loading |-> FALSE]
  /\ me' = [me EXCEPT !.loading = TRUE]
  /\ \E i \in FetchSlots : NextFree(i) /\ Fetch(i, u)
  /\ mixed' = (mixed \/ (session.user # u /\ (Free # FetchSlots \/ session.user # NoUser)))
  /\ UNCHANGED <<platform, refused>>

\* getSession answers, or onAuthStateChange reports.
AuthEvent == SignedOut \/ \E u \in Users : SignedIn(u)

\* What the provider renders: its children, unless it loads or is blocked (the
\* mobile gate does the same).
Renders == session.user # NoUser /\ ~session.loading /\ ~me.loading /\ ~me.blocked

Refresh ==
  /\ Renders
  /\ \E i \in FetchSlots : NextFree(i) /\ Fetch(i, session.user)
  /\ UNCHANGED <<platform, session, me, refused, mixed>>

\* The API answers the user of the token.
AnswerMe(i) ==
  /\ fetches[i].user # NoUser /\ fetches[i].answer = "none"
  /\ fetches' = [fetches EXCEPT ![i].answer =
                   IF refused[fetches[i].user] = "none" THEN "profile"
                   ELSE refused[fetches[i].user]]
  /\ UNCHANGED <<platform, session, me, refused, mixed>>

\* The codes that show the blocked screen.
Blocks(code) ==
  code = "ACCOUNT_DISABLED" \/ (platform = "admin" /\ code = "UNAUTHORIZED")

\* Mutant of LoadingAfter: an error that is rethrown leaves it loading.
LoadingAfterError(answer) == answer # "profile" /\ ~Blocks(answer)

\* `finally`: whatever the answer was.
LoadingAfter(answer) == FALSE

Arrived(i, answer) ==
  /\ me' = [profile |-> IF answer = "profile" THEN fetches[i].user ELSE me.profile,
            loading |-> LoadingAfter(answer),
            blocked |-> Blocks(answer) \/ (me.blocked /\ answer # "profile")]
  /\ fetches' = [fetches EXCEPT ![i] = NoFetch]
  /\ UNCHANGED <<platform, session, refused, mixed>>

\* The answer arrives, or the request fails.
FetchEnds(i) ==
  /\ fetches[i].user # NoUser
  /\ \/ fetches[i].answer # "none" /\ Arrived(i, fetches[i].answer)
     \/ Arrived(i, "none")

\* An account is disabled, restored, or loses its access.
Moderate(u, code) ==
  /\ refused' = [refused EXCEPT ![u] = code]
  /\ UNCHANGED <<platform, session, me, fetches, mixed>>

SessionNext ==
  \/ AuthEvent
  \/ Refresh
  \/ \E i \in FetchSlots : AnswerMe(i) \/ FetchEnds(i)
  \/ \E u \in Users, code \in Codes \cup {"none"} : Moderate(u, code)

\* A request comes to an end, answered or not.
SessionFairness == \A i \in FetchSlots : WF_sessionVars(FetchEnds(i))

SessionSpec == SessionInit /\ [][SessionNext]_sessionVars /\ SessionFairness

(***************************************************************************)
(* Properties                                                              *)
(***************************************************************************)
\* The screens of a session show its own user's profile or none.  (Only a
\* session that follows another one directly, or that begins on mobile while a
\* request of the one before is in flight, may show the earlier user's.)
OwnProfileShown ==
  (Renders /\ ~mixed) => me.profile \in {session.user, NoUser}

\* A user who is signed in is not left with the spinner: whatever the answers,
\* it ends or the session does (refresh, and its callers' catch).
AccountLoads ==
  (session.user # NoUser /\ me.loading) ~> (~me.loading \/ session.user = NoUser)
=============================================================================
