------------------------------ MODULE Profiles ------------------------------
(***************************************************************************)
(* The users table under UsersService: provisioning of an identity on its  *)
(* first request, the referral code it derives, the e-mail that every      *)
(* later request synchronises, and changes of username.                    *)
(*                                                                         *)
(* Requests of several identities interleave at every await.  An identity  *)
(* has had one or several e-mail addresses, and tokens of it issued before *)
(* a change are still in use; a row may keep an address that its identity  *)
(* gave up and another one registered since.  Roles are modelled by        *)
(* Accounts.                                                               *)
(***************************************************************************)
EXTENDS Naturals, FiniteSets

CONSTANTS
  Requests,         \* requests in flight
  Subjects,         \* identities of the auth service
  EmailsOf,         \* the addresses each identity has had
  NameOf,           \* the username in its metadata, or NoName
  Names, NoName,    \* usernames
  Base,             \* each username in lower case, without other characters
  MaxSuffix,        \* the last numbered suffix that is tried (9 in the code)
  Randoms,          \* random suffixes
  NoSubject, NoEmail

VARIABLES
  profiles,      \* rows of users by subject: [email, username, code], or none yet
  profileCalls   \* requests: where they are, whose, with which e-mail and code

profileVars == <<profiles, profileCalls>>

NoCode == <<"none", 0>>
NoProfile == [email |-> NoEmail, username |-> NoName, code |-> NoCode, there |-> FALSE]
CodeSuffixes == 0..MaxSuffix \cup Randoms
Bases == {Base[n] : n \in Names}
Emails == UNION {EmailsOf[s] : s \in Subjects}

ASSUME ProfilesAssumption ==
  /\ MaxSuffix \in Nat /\ NoCode \notin Bases \X CodeSuffixes
  /\ NoName \notin Names /\ NameOf \in [Subjects -> Names \cup {NoName}]

NoProfileCall == [at |-> "idle", subject |-> NoSubject, email |-> NoEmail, code |-> NoCode,
                  known |-> FALSE, raced |-> FALSE]

ProfileTypeOK ==
  /\ profiles \in [Subjects -> [email : Emails \cup {NoEmail}, username : Names \cup {NoName},
                                code : (Bases \X CodeSuffixes) \cup {NoCode}, there : BOOLEAN]]
  /\ profileCalls \in [Requests ->
       [at : {"idle", "select", "code", "insert", "reselect", "sync", "served", "failed"},
        subject : Subjects \cup {NoSubject}, email : Emails \cup {NoEmail},
        code : (Bases \X CodeSuffixes) \cup {NoCode}, known : BOOLEAN, raced : BOOLEAN]]

ProfileInit ==
  /\ profiles = [s \in Subjects |-> NoProfile]
  /\ profileCalls = [c \in Requests |-> NoProfileCall]

There(s) == profiles[s].there
Goes(c, at) == profileCalls' = [profileCalls EXCEPT ![c].at = at] /\ UNCHANGED profiles

\* Does a row other than that of s hold this value in this column?
Held(s, column, value) ==
  \E t \in Subjects \ {s} : There(t) /\ profiles[t][column] = value

\* A request of an identity, with the e-mail of its token; `known` remembers
\* whether the identity has had its row while the request ran, `raced` whether
\* another request took the code it had picked.
Request(c, s, e) ==
  /\ profileCalls[c].at \in {"idle", "served", "failed"}
  /\ profileCalls' = [profileCalls EXCEPT ![c] =
       [NoProfileCall EXCEPT !.at = "select", !.subject = s, !.email = e, !.known = There(s)]]
  /\ UNCHANGED profiles

\* A row that is found is updated only if the token has another address.
SelectUser(c) ==
  LET s == profileCalls[c].subject IN
  /\ profileCalls[c].at = "select"
  /\ \/ ~There(s) /\ Goes(c, "code")
     \/ There(s) /\ Goes(c, IF profiles[s].email = profileCalls[c].email
                           THEN "served" ELSE "sync")

\* uniqueReferralCode: the first suffix no row uses, or a random one.
CodesInUse == {profiles[s].code : s \in {t \in Subjects : There(t)}}
\* Mutant of UniqueCodes: the name alone, whether it is free or not.
PlainCodes(name) == IF name = NoName THEN {NoCode} ELSE {<<Base[name], 0>>}

UniqueCodes(name) ==
  LET free == {i \in 0..MaxSuffix : <<Base[name], i>> \notin CodesInUse}
  IN IF name = NoName THEN {NoCode}
     ELSE IF free = {} THEN {<<Base[name], r>> : r \in Randoms}
     ELSE {<<Base[name], CHOOSE i \in free : \A j \in free : i <= j>>}

PickCode(c) ==
  /\ profileCalls[c].at = "code"
  /\ \E code \in UniqueCodes(NameOf[profileCalls[c].subject]) :
       profileCalls' = [profileCalls EXCEPT ![c].at = "insert", ![c].code = code]
  /\ UNCHANGED profiles

\* The unique indexes of users; several rows may have no username and no code.
Clash(s, row) ==
  \/ There(s)
  \/ Held(s, "email", row.email)
  \/ row.username # NoName /\ Held(s, "username", row.username)
  \/ row.code # NoCode /\ Held(s, "code", row.code)

\* A request of s that has not been answered.
Provisioning(d, s) ==
  profileCalls[d].subject = s /\ profileCalls[d].at \notin {"idle", "served", "failed"}

\* Does the row take the code that a request is about to insert?
Racing(d, row) ==
  profileCalls[d].at = "insert" /\ profileCalls[d].code = row.code /\ row.code # NoCode

InsertUser(c) ==
  LET s == profileCalls[c].subject
      row == [email |-> profileCalls[c].email, username |-> NameOf[s],
              code |-> profileCalls[c].code, there |-> TRUE]
  IN /\ profileCalls[c].at = "insert"
     /\ \/ /\ ~Clash(s, row)
           /\ profiles' = [profiles EXCEPT ![s] = row]
           /\ profileCalls' = [d \in Requests |->
                IF d = c THEN [profileCalls[d] EXCEPT !.at = "served"]
                ELSE [profileCalls[d] EXCEPT !.raced = @ \/ Racing(d, row),
                                             !.known = @ \/ Provisioning(d, s)]]
        \/ /\ Clash(s, row)
           /\ Goes(c, "reselect")

\* Mutant of AfterReselect: the conflict is thrown on, winner or not.
ThrownOn(winner) == "failed"

\* The loser of two first requests takes the winner's row; any other conflict
\* is an error.
AfterReselect(winner) == IF winner THEN "served" ELSE "failed"

Reselect(c) ==
  /\ profileCalls[c].at = "reselect"
  /\ Goes(c, AfterReselect(There(profileCalls[c].subject)))

\* syncIdentity: an address that belongs to another row is dropped.
Refused(s, e) == Held(s, "email", e)

\* Mutant of AfterConflict: the conflict is not caught.
ConflictThrows == "failed"

AfterConflict == "served"

SyncIdentity(c) ==
  LET s == profileCalls[c].subject
      e == profileCalls[c].email
  IN /\ profileCalls[c].at = "sync"
     /\ \/ /\ Refused(s, e)
           /\ Goes(c, AfterConflict)
        \/ /\ ~Refused(s, e)
           /\ profiles' = [profiles EXCEPT ![s].email = e]
           /\ profileCalls' = [profileCalls EXCEPT ![c].at = "served"]

\* updateProfile with a new username, where the policy allows it: the index
\* refuses a name that is taken, and the code stays.
ChangeUsername(s, n) ==
  /\ There(s) /\ ~Held(s, "username", n)
  /\ profiles' = [profiles EXCEPT ![s].username = n]
  /\ UNCHANGED profileCalls

ProvisionStep(c) ==
  \/ SelectUser(c)
  \/ PickCode(c)
  \/ InsertUser(c)
  \/ Reselect(c)
  \/ SyncIdentity(c)

ProfileNext ==
  \/ \E c \in Requests : ProvisionStep(c)
  \/ \E c \in Requests, s \in Subjects : \E e \in EmailsOf[s] : Request(c, s, e)
  \/ \E s \in Subjects, n \in Names : ChangeUsername(s, n)

ProfileSpec == ProfileInit /\ [][ProfileNext]_profileVars

(***************************************************************************)
(* Properties                                                              *)
(***************************************************************************)
\* No conflict fails a request of an identity that has its row, or gets it from
\* another request meanwhile: "loser re-selects the winner's row"
\* (findOrProvision), "drop it and apply the rest rather than 500ing every
\* request" (syncIdentity).
KnownUserServed ==
  \A c \in Requests : profileCalls[c].at = "failed" => ~profileCalls[c].known

\* A first request is refused for a good reason only: its identity has a row by
\* now, somebody holds its address or its username, a request at the same time
\* took the referral code it had found free, or all numbered codes were taken
\* and the random one, which is not looked up, is in use (uniqueReferralCode).
ConflictsAreReal ==
  [][\A c \in Requests :
       LET call == profileCalls[c] IN
       (call.at = "insert" /\ profileCalls'[c].at = "reselect") =>
         \/ There(call.subject) \/ Held(call.subject, "email", call.email)
         \/ NameOf[call.subject] # NoName /\ Held(call.subject, "username", NameOf[call.subject])
         \/ call.raced \/ call.code[2] \in Randoms]_profileVars
=============================================================================
