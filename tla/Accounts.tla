------------------------------ MODULE Accounts ------------------------------
(***************************************************************************)
(* Accounts and roles of apps/api: UsersService.findOrProvision and        *)
(* setAccountStatus, RolesService.assign and revoke, the guards in front   *)
(* of the admin endpoints and the grant-role script.                       *)
(*                                                                         *)
(* A request is split at its awaits.  What it has read (who it is, the     *)
(* permissions, the status of its target) is not read again when it        *)
(* commits.  A refused request changes nothing: it ends, or is not served. *)
(***************************************************************************)
EXTENDS FiniteSets

CONSTANTS
  Users,      \* identities the auth service vouches for; one account each
  Bootstrap,  \* those whose e-mail is in BOOTSTRAP_SUPER_ADMIN_EMAILS
  Requests,   \* slots for API requests in flight at once
  RoleNames,  \* the roles handed out, a part of ROLE_NAMES
  NoUser

ASSUME UserAssumption == Bootstrap \subseteq Users /\ NoUser \notin Users
ASSUME RoleAssumption ==
  /\ {"investor", "super_admin"} \subseteq RoleNames
  /\ RoleNames \subseteq {"investor", "support", "kyc_reviewer", "ops_admin",
                          "finance_admin", "super_admin"}

VARIABLES
  users,     \* status of each users row, or "NONE" before it exists
  userRoles, \* user_roles: the role names each user holds
  wasSuper,  \* history: who has held super_admin so far
  req        \* what each request in flight has read

vars == <<users, userRoles, wasSuper, req>>
tables == <<users, userRoles, wasSuper>>

Statuses == {"ACTIVE", "RESTRICTED", "SUSPENDED", "CLOSED"}
AdminOps == {"status", "assign", "revoke"}
Ops == AdminOps \cup {"self"}

Request == [at : {"idle", "provision", "permissions", "target", "commit"},
            op : Ops, actor : Users \cup {NoUser}, target : Users \cup {NoUser},
            role : RoleNames, next : Statuses, seen : Statuses \cup {"NONE"}]

Idle == [at |-> "idle", op |-> "self", actor |-> NoUser, target |-> NoUser,
         role |-> "investor", next |-> "ACTIVE", seen |-> "NONE"]

TypeOK ==
  /\ users \in [Users -> Statuses \cup {"NONE"}]
  /\ userRoles \in [Users -> SUBSET RoleNames]
  /\ wasSuper \subseteq Users
  /\ req \in [Requests -> Request]

Init ==
  /\ users = [u \in Users |-> "NONE"]
  /\ userRoles = [u \in Users |-> {}]
  /\ wasSuper = {}
  /\ req = [r \in Requests |-> Idle]

Supers == {u \in Users : "super_admin" \in userRoles[u]}
Exists(u) == users[u] # "NONE"

Finish(r) == req' = [req EXCEPT ![r] = Idle]
Advance(r, at) == req' = [req EXCEPT ![r] = [@ EXCEPT !.at = at]]

GiveRoles(u, names) ==
  /\ userRoles' = [userRoles EXCEPT ![u] = @ \cup names]
  /\ wasSuper' = IF "super_admin" \in names THEN wasSuper \cup {u} ELSE wasSuper

(***************************************************************************)
(* Guards                                                                  *)
(***************************************************************************)
\* InternalUserGuard, on the row as it was read: a deleted account is a
\* CLOSED one, both are written by one UPDATE.
LetIn(status) == status \in {"ACTIVE", "RESTRICTED"}

\* The permissions the three admin operations ask for.
Required(op) == IF op = "status" THEN "users.manage_status" ELSE "roles.assign"

\* Mutant of GrantsOf: ops_admin may assign roles too.
GrantsOfOps(role) ==
  IF role \in {"super_admin", "ops_admin"} THEN {"users.manage_status", "roles.assign"} ELSE {}

GrantsOf(role) ==
  CASE role = "super_admin" -> {"users.manage_status", "roles.assign"}
    [] role = "ops_admin"   -> {"users.manage_status"}
    [] OTHER                -> {}

PermissionsOf(u) == UNION {GrantsOf(role) : role \in userRoles[u]}

\* A known identity: its row is read and the first guard passes or refuses.
ArriveKnown(r, request) ==
  /\ req[r].at = "idle"
  /\ LetIn(users[request.actor])
  /\ request.op \in AdminOps
  /\ req' = [req EXCEPT ![r] = [request EXCEPT !.at = "permissions"]]
  /\ UNCHANGED tables

\* No row yet: the account is about to be provisioned.
ArriveNew(r, request) ==
  /\ req[r].at = "idle"
  /\ ~Exists(request.actor)
  /\ req' = [req EXCEPT ![r] = [request EXCEPT !.at = "provision"]]
  /\ UNCHANGED tables

Entered(r) == IF req[r].op = "self" THEN Finish(r) ELSE Advance(r, "permissions")

BirthRoles(u) == {"investor"} \cup IF u \in Bootstrap THEN {"super_admin"} ELSE {}

\* The user row and its role grants are one transaction.
Provision(r) ==
  LET u == req[r].actor IN
  /\ req[r].at = "provision"
  /\ ~Exists(u)
  /\ users' = [users EXCEPT ![u] = "ACTIVE"]
  /\ GiveRoles(u, BirthRoles(u))
  /\ Entered(r)

\* Another first request of this identity won: its row is read instead.
ProvisionLost(r) ==
  /\ req[r].at = "provision"
  /\ Exists(req[r].actor)
  /\ IF LetIn(users[req[r].actor]) THEN Entered(r) ELSE Finish(r)
  /\ UNCHANGED tables

\* PermissionsGuard.
CheckPermissions(r) ==
  /\ req[r].at = "permissions"
  /\ IF Required(req[r].op) \in PermissionsOf(req[r].actor)
       THEN Advance(r, "target")
       ELSE Finish(r)
  /\ UNCHANGED tables

(***************************************************************************)
(* Admin operations                                                        *)
(***************************************************************************)
\* Mutant of StatusMoves: a closed account may be opened again.
StatusMovesOpen(from) == Statuses \ {from}

\* STATUS_TRANSITIONS
StatusMoves(from) == IF from = "CLOSED" THEN {} ELSE Statuses \ {from}

\* setAccountStatus: refuse oneself, read the target, check the transition.
ReadStatus(r) ==
  LET t == req[r].target IN
  /\ req[r].at = "target"
  /\ req[r].op = "status"
  /\ IF t # req[r].actor /\ Exists(t) /\ req[r].next \in StatusMoves(users[t])
       THEN req' = [req EXCEPT ![r] = [@ EXCEPT !.at = "commit", !.seen = users[t]]]
       ELSE Finish(r)
  /\ UNCHANGED tables

\* The UPDATE names the id only.
SetStatus(r) ==
  /\ req[r].at = "commit"
  /\ req[r].op = "status"
  /\ users' = [users EXCEPT ![req[r].target] = req[r].next]
  /\ Finish(r)
  /\ UNCHANGED <<userRoles, wasSuper>>

\* assertCanGrantPrivileged
MayGrant(actor, role) == role = "super_admin" => actor \in Supers

\* Mutants of MayChangeRole: one's own roles are not refused; the baseline
\* role is not protected.
MayChangeOwnRole(request) ==
  /\ request.op = "revoke" => request.role # "investor"
  /\ Exists(request.target)
  /\ MayGrant(request.actor, request.role)

MayChangeAnyRole(request) ==
  /\ request.target # request.actor
  /\ Exists(request.target)
  /\ MayGrant(request.actor, request.role)

\* The checks assign and revoke make before they write.
MayChangeRole(request) ==
  /\ request.target # request.actor
  /\ request.op = "revoke" => request.role # "investor"
  /\ Exists(request.target)
  /\ MayGrant(request.actor, request.role)

CheckRoleChange(r) ==
  /\ req[r].at = "target"
  /\ req[r].op \in {"assign", "revoke"}
  /\ IF MayChangeRole(req[r]) THEN Advance(r, "commit") ELSE Finish(r)
  /\ UNCHANGED tables

\* INSERT ... ON CONFLICT DO NOTHING
AssignRole(r) ==
  /\ req[r].at = "commit"
  /\ req[r].op = "assign"
  /\ GiveRoles(req[r].target, {req[r].role})
  /\ Finish(r)
  /\ UNCHANGED users

RevokeRole(r) ==
  /\ req[r].at = "commit"
  /\ req[r].op = "revoke"
  /\ userRoles' = [userRoles EXCEPT ![req[r].target] = @ \ {req[r].role}]
  /\ Finish(r)
  /\ UNCHANGED <<users, wasSuper>>

\* The grant-role script, run by an operator on the server.
GrantRole(u, role) ==
  /\ Exists(u)
  /\ GiveRoles(u, {role})
  /\ UNCHANGED <<users, req>>

\* The instance serving the request stops.
Crash(r) ==
  /\ req[r].at # "idle"
  /\ Finish(r)
  /\ UNCHANGED tables

\* What a client may ask for; fields its operation does not use keep their
\* idle value.
Asked ==
  {q \in Request :
     /\ q.at = "idle" /\ q.seen = "NONE" /\ q.actor \in Users
     /\ (q.target = NoUser) <=> (q.op = "self")
     /\ q.op # "status" => q.next = Idle.next
     /\ q.op \notin {"assign", "revoke"} => q.role = Idle.role}

Serve(r) ==
  \/ \E request \in Asked : ArriveKnown(r, request) \/ ArriveNew(r, request)
  \/ Provision(r) \/ ProvisionLost(r)
  \/ CheckPermissions(r)
  \/ ReadStatus(r) \/ SetStatus(r)
  \/ CheckRoleChange(r) \/ AssignRole(r) \/ RevokeRole(r)
  \/ Crash(r)

Next ==
  \/ \E r \in Requests : Serve(r)
  \/ \E u \in Users, role \in RoleNames : GrantRole(u, role)

Spec == Init /\ [][Next]_vars

(***************************************************************************)
(* Properties                                                              *)
(***************************************************************************)

\* Every account has the baseline role from its first moment on, however the
\* first requests of an identity race and whatever the admins do.
InvestorFromBirth == \A u \in Users : Exists(u) => "investor" \in userRoles[u]

\* A CLOSED account comes back only through a request that read its status
\* before it was closed.
ClosedUndoneByStaleOnly ==
  [][\A u \in Users : users[u] = "CLOSED" /\ users'[u] # "CLOSED" =>
       \E r \in Requests :
         /\ req[r].at = "commit" /\ req[r].op = "status" /\ req[r].target = u
         /\ req[r].seen # "CLOSED"]_vars

\* The last super admin is revoked only by a request of an actor who has been
\* revoked too since the request's checks: one at a time they cannot lock
\* everyone out.
LastSuperFallsToStaleOnly ==
  [][Supers # {} /\ Supers' = {} =>
       \E r \in Requests :
         req[r].at = "commit" /\ req[r].op = "revoke" /\ req[r].actor \notin Supers]_vars

\* No escalation: a request never gives a role unless its actor has been a
\* super admin at some time, whatever other roles exist.
GrantersWereSupers ==
  \A r \in Requests :
    req[r].at = "commit" /\ req[r].op \in {"assign", "revoke"} =>
      req[r].actor \in wasSuper

=============================================================================
