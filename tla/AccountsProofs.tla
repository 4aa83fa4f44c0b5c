--------------------------- MODULE AccountsProofs ---------------------------
(***************************************************************************)
(* Proofs about Accounts, for any users, requests and roles.               *)
(*                                                                         *)
(* A request commits on what it checked earlier, so the inductive          *)
(* invariant records, for each step of a request, the checks behind it     *)
(* that cannot become false any more.                                      *)
(***************************************************************************)
EXTENDS Accounts, TLAPS

\* Checks behind a request that is about to set a status.
StatusChecked(q) ==
  q.at = "commit" /\ q.op = "status" => q.next \in StatusMoves(q.seen)

\* Checks behind a request that is about to change a role.
RoleChecked(q) ==
  q.at = "commit" /\ q.op \in {"assign", "revoke"} =>
    q.target # q.actor /\ (q.op = "revoke" => q.role # "investor")

\* A role request past the permission guard has a super admin behind it.
ActorChecked(q) ==
  q.at \in {"target", "commit"} /\ q.op \in {"assign", "revoke"} => q.actor \in wasSuper

\* A request being served names its actor and, if it has one, its target.
Named(q) ==
  /\ q.at # "idle" => q.actor \in Users
  /\ q.at # "idle" /\ q.op \in AdminOps => q.target \in Users
  /\ q.at \in {"permissions", "target", "commit"} => q.op \in AdminOps

\* The account whose status is about to be set exists: rows are not deleted.
TargetChecked(q) == q.at = "commit" /\ q.op = "status" => Exists(q.target)

Checked(q) == Named(q) /\ StatusChecked(q) /\ RoleChecked(q) /\ ActorChecked(q) /\ TargetChecked(q)

Inv ==
  /\ TypeOK
  /\ Supers \subseteq wasSuper
  /\ InvestorFromBirth
  /\ \A r \in Requests : Checked(req[r])

\* A step that leaves the history growing and gives slot r a checked request
\* keeps every slot checked.
LEMMA CheckedStep ==
  ASSUME Inv, NEW r \in Requests, NEW q \in Request,
         req' = [req EXCEPT ![r] = q], wasSuper \subseteq wasSuper',
         Named(q), StatusChecked(q), RoleChecked(q),
         q.at \in {"target", "commit"} /\ q.op \in {"assign", "revoke"} => q.actor \in wasSuper',
         q.at = "commit" /\ q.op = "status" => Exists(q.target)',
         \A u \in Users : Exists(u) => Exists(u)'
  PROVE  req' \in [Requests -> Request] /\ (\A x \in Requests : Checked(req[x]))'
<1>1. req' \in [Requests -> Request]
  BY DEF Inv, TypeOK
<1>2. ASSUME NEW x \in Requests
      PROVE  Checked(req[x])'
  <2>1. CASE x = r
    BY <2>1 DEF Inv, TypeOK, Checked, ActorChecked, TargetChecked, AdminOps, Named, StatusChecked, RoleChecked
  <2>2. CASE x # r
    BY <2>2 DEF Inv, TypeOK, Checked, ActorChecked, TargetChecked, AdminOps, Named, StatusChecked, RoleChecked
  <2> QED BY <2>1, <2>2
<1> QED BY <1>1, <1>2

\* An idle slot claims nothing.
LEMMA IdleChecked == Idle \in Request /\ Idle.at = "idle"
BY RoleAssumption DEF Idle, Request, Ops, Statuses

LEMMA FinishChecked ==
  ASSUME Inv, NEW r \in Requests, Finish(r), wasSuper \subseteq wasSuper',
         \A u \in Users : Exists(u) => Exists(u)'
  PROVE  req' \in [Requests -> Request] /\ (\A x \in Requests : Checked(req[x]))'
BY IdleChecked, CheckedStep DEF Finish, Named, StatusChecked, RoleChecked

\* Giving roles keeps the tables typed, the history complete and the
\* baseline role in place.
LEMMA GiveRolesKeeps ==
  ASSUME Inv, NEW u \in Users, NEW names \in SUBSET RoleNames, GiveRoles(u, names)
  PROVE  /\ userRoles' \in [Users -> SUBSET RoleNames]
         /\ wasSuper' \subseteq Users
         /\ wasSuper \subseteq wasSuper'
         /\ Supers' \subseteq wasSuper'
         /\ \A v \in Users : userRoles[v] \subseteq userRoles'[v]
         /\ names \subseteq userRoles'[u]
BY DEF Inv, TypeOK, GiveRoles, Supers

\* Only a super admin holds the permission to change roles.
LEMMA AssignNeedsSuper ==
  ASSUME Inv, NEW u \in Users, "roles.assign" \in PermissionsOf(u)
  PROVE  u \in wasSuper
<1>1. PICK role \in userRoles[u] : "roles.assign" \in GrantsOf(role)
  BY DEF PermissionsOf
<1>2. role = "super_admin"
  BY <1>1 DEF GrantsOf
<1> QED BY <1>1, <1>2 DEF Inv, Supers

LEMMA InvInit == Init => Inv
<1> SUFFICES ASSUME Init PROVE Inv
  OBVIOUS
<1>1. TypeOK
  BY IdleChecked DEF Init, TypeOK
<1>2. Supers \subseteq wasSuper /\ InvestorFromBirth
  BY DEF Init, Supers, InvestorFromBirth, Exists
<1>3. ASSUME NEW r \in Requests PROVE Checked(req[r])
  BY IdleChecked DEF Init, Checked, Named, StatusChecked, RoleChecked, ActorChecked, TargetChecked
<1> QED BY <1>1, <1>2, <1>3 DEF Inv

\* Every request a client can make is well formed.
LEMMA AskedTyped ==
  ASSUME NEW q \in Asked
  PROVE  q \in Request /\ q.actor \in Users /\ (q.op \in AdminOps => q.target \in Users)
BY UserAssumption DEF Asked, Request, AdminOps

\* A request moves on without writing: its slot gets q.
LEMMA MovesOn ==
  ASSUME Inv, NEW r \in Requests, NEW q \in Request, UNCHANGED tables,
         req' = [req EXCEPT ![r] = q], Checked(q)
  PROVE  Inv'
<1>1. req' \in [Requests -> Request] /\ (\A x \in Requests : Checked(req[x]))'
  BY CheckedStep DEF tables, Checked, ActorChecked, TargetChecked, Exists
<1> QED BY <1>1 DEF Inv, TypeOK, tables, Supers, InvestorFromBirth, Exists

\* A request ends without having written.
LEMMA EndsQuietly ==
  ASSUME Inv, NEW r \in Requests, UNCHANGED tables, Finish(r)
  PROVE  Inv'
BY IdleChecked, MovesOn
   DEF Finish, Checked, Named, StatusChecked, RoleChecked, ActorChecked, TargetChecked

\* What a request has become when it goes on to "permissions".
LEMMA EnteredChecked ==
  ASSUME Inv, NEW r \in Requests, req[r].at = "provision", Entered(r),
         wasSuper \subseteq wasSuper', \A u \in Users : Exists(u) => Exists(u)'
  PROVE  req' \in [Requests -> Request] /\ (\A x \in Requests : Checked(req[x]))'
<1>1. CASE req[r].op = "self"
  BY <1>1, FinishChecked DEF Entered
<1>2. CASE req[r].op # "self"
  <2> DEFINE q == [req[r] EXCEPT !.at = "permissions"]
  <2>1. req[r] \in Request /\ Named(req[r])
    BY DEF Inv, TypeOK, Checked
  <2>2. /\ q \in Request /\ q.at = "permissions" /\ q.op \in AdminOps
        /\ q.actor \in Users /\ q.target \in Users
    BY <1>2, <2>1 DEF Request, Named, Ops
  <2>3. req' = [req EXCEPT ![r] = q]
    BY <1>2 DEF Entered, Advance
  <2> HIDE DEF q
  <2> QED BY <2>2, <2>3, CheckedStep DEF Named, StatusChecked, RoleChecked
<1> QED BY <1>1, <1>2

LEMMA ServeStep ==
  ASSUME Inv, NEW r \in Requests, Serve(r)
  PROVE  Inv'
<1>0. /\ req[r] \in Request
      /\ users \in [Users -> Statuses \cup {"NONE"}]
      /\ userRoles \in [Users -> SUBSET RoleNames]
      /\ Named(req[r]) /\ StatusChecked(req[r]) /\ RoleChecked(req[r])
      /\ ActorChecked(req[r]) /\ TargetChecked(req[r])
  BY DEF Inv, TypeOK, Checked
<1>1. ASSUME NEW request \in Asked, ArriveKnown(r, request)
      PROVE  Inv'
  <2> DEFINE q == [request EXCEPT !.at = "permissions"]
  <2>1. /\ q \in Request /\ q.at = "permissions" /\ q.op \in AdminOps
        /\ q.actor \in Users /\ q.target \in Users
    BY <1>1, AskedTyped DEF Request, ArriveKnown
  <2>2. req' = [req EXCEPT ![r] = q] /\ UNCHANGED tables
    BY <1>1 DEF ArriveKnown
  <2> HIDE DEF q
  <2>3. Checked(q)
    BY <2>1 DEF Checked, Named, StatusChecked, RoleChecked, ActorChecked, TargetChecked
  <2> QED BY <2>1, <2>2, <2>3, MovesOn
<1>2. ASSUME NEW request \in Asked, ArriveNew(r, request)
      PROVE  Inv'
  <2> DEFINE q == [request EXCEPT !.at = "provision"]
  <2>1. /\ q \in Request /\ q.at = "provision"
        /\ q.actor \in Users /\ (q.op \in AdminOps => q.target \in Users)
    BY AskedTyped DEF Request
  <2>2. req' = [req EXCEPT ![r] = q] /\ UNCHANGED tables
    BY <1>2 DEF ArriveNew
  <2> HIDE DEF q
  <2>3. Checked(q)
    BY <2>1 DEF Checked, Named, StatusChecked, RoleChecked, ActorChecked, TargetChecked
  <2> QED BY <2>1, <2>2, <2>3, MovesOn
<1>3. CASE Provision(r)
  <2> DEFINE u == req[r].actor
  <2>1. u \in Users
    BY <1>0, <1>3 DEF Provision, Named
  <2>2. BirthRoles(u) \in SUBSET RoleNames /\ "investor" \in BirthRoles(u)
    BY RoleAssumption DEF BirthRoles
  <2>3. GiveRoles(u, BirthRoles(u)) /\ users' = [users EXCEPT ![u] = "ACTIVE"]
    BY <1>3 DEF Provision
  <2> HIDE DEF u
  <2>4. /\ userRoles' \in [Users -> SUBSET RoleNames]
        /\ wasSuper' \subseteq Users /\ wasSuper \subseteq wasSuper'
        /\ Supers' \subseteq wasSuper'
        /\ \A v \in Users : userRoles[v] \subseteq userRoles'[v]
        /\ "investor" \in userRoles'[u]
    BY <2>1, <2>2, <2>3, GiveRolesKeeps
  <2>5. users' \in [Users -> Statuses \cup {"NONE"}]
    BY <1>0, <2>3 DEF Statuses
  <2>6. InvestorFromBirth'
    BY <1>0, <2>3, <2>4 DEF Inv, InvestorFromBirth, Exists
  <2>7. \A v \in Users : Exists(v) => Exists(v)'
    BY <1>0, <2>3 DEF Exists
  <2>8. req' \in [Requests -> Request] /\ (\A x \in Requests : Checked(req[x]))'
    BY <1>3, <2>4, <2>7, EnteredChecked DEF Provision
  <2> QED BY <2>4, <2>5, <2>6, <2>8 DEF Inv, TypeOK
<1>4. CASE ProvisionLost(r)
  <2>1. CASE Finish(r)
    BY <1>4, <2>1, EndsQuietly DEF ProvisionLost
  <2>2. CASE Entered(r)
    <3>1. req' \in [Requests -> Request] /\ (\A x \in Requests : Checked(req[x]))'
      BY <1>4, <2>2, EnteredChecked DEF ProvisionLost, tables, Exists
    <3> QED BY <1>4, <3>1
            DEF ProvisionLost, Inv, TypeOK, tables, Supers, InvestorFromBirth, Exists
  <2> QED BY <1>4, <2>1, <2>2 DEF ProvisionLost
<1>5. CASE CheckPermissions(r)
  <2>1. CASE Finish(r)
    BY <1>5, <2>1, EndsQuietly DEF CheckPermissions
  <2>2. CASE Required(req[r].op) \in PermissionsOf(req[r].actor) /\ Advance(r, "target")
    <3> DEFINE q == [req[r] EXCEPT !.at = "target"]
    <3>1. /\ q \in Request /\ q.at = "target" /\ q.op = req[r].op /\ q.op \in AdminOps
          /\ q.actor = req[r].actor /\ q.actor \in Users /\ q.target \in Users
      BY <1>0, <1>5 DEF CheckPermissions, Request, Named
    <3>2. req' = [req EXCEPT ![r] = q] /\ UNCHANGED tables
      BY <1>5, <2>2 DEF CheckPermissions, Advance
    <3> HIDE DEF q
    <3>3. q.op \in {"assign", "revoke"} => q.actor \in wasSuper
      BY <2>2, <3>1, AssignNeedsSuper DEF Required
    <3>4. Checked(q)
      BY <3>1, <3>3 DEF Checked, Named, StatusChecked, RoleChecked, ActorChecked, TargetChecked
    <3> QED BY <3>1, <3>2, <3>4, MovesOn
  <2> QED BY <1>5, <2>1, <2>2 DEF CheckPermissions
<1>6. CASE ReadStatus(r)
  <2>1. CASE Finish(r)
    BY <1>6, <2>1, EndsQuietly DEF ReadStatus
  <2>2. CASE /\ Exists(req[r].target) /\ req[r].next \in StatusMoves(users[req[r].target])
             /\ req' = [req EXCEPT ![r] = [@ EXCEPT !.at = "commit",
                                                    !.seen = users[req[r].target]]]
    <3> DEFINE q == [req[r] EXCEPT !.at = "commit", !.seen = users[req[r].target]]
    <3>1. /\ q \in Request /\ q.at = "commit" /\ q.op = "status"
          /\ q.actor \in Users /\ q.target \in Users
          /\ q.next = req[r].next /\ q.seen = users[req[r].target] /\ q.target = req[r].target
      BY <1>0, <1>6 DEF ReadStatus, Request, Named, AdminOps
    <3>2. req' = [req EXCEPT ![r] = q] /\ UNCHANGED tables
      BY <1>6, <2>2 DEF ReadStatus
    <3> HIDE DEF q
    <3>3. Checked(q)
      BY <2>2, <3>1 DEF Checked, Named, StatusChecked, RoleChecked, ActorChecked, TargetChecked, AdminOps
    <3> QED BY <3>1, <3>2, <3>3, MovesOn
  <2> QED BY <1>6, <2>1, <2>2 DEF ReadStatus
<1>7. CASE SetStatus(r)
  <2>1. req[r].target \in Users /\ req[r].next \in Statuses
    BY <1>0, <1>7 DEF SetStatus, Named, Request, AdminOps
  <2>2. users' \in [Users -> Statuses \cup {"NONE"}]
    BY <1>0, <1>7, <2>1 DEF SetStatus
  <2>3. InvestorFromBirth'
    BY <1>0, <1>7, <2>1 DEF SetStatus, Inv, InvestorFromBirth, Exists, TargetChecked
  <2>4. \A u \in Users : Exists(u) => Exists(u)'
    BY <1>0, <1>7, <2>1 DEF SetStatus, Exists, Statuses
  <2>5. req' \in [Requests -> Request] /\ (\A x \in Requests : Checked(req[x]))'
    BY <1>7, <2>4, FinishChecked DEF SetStatus
  <2> QED BY <1>7, <2>2, <2>3, <2>5 DEF SetStatus, Inv, TypeOK, Supers
<1>8. CASE CheckRoleChange(r)
  <2>1. CASE Finish(r)
    BY <1>8, <2>1, EndsQuietly DEF CheckRoleChange
  <2>2. CASE MayChangeRole(req[r]) /\ Advance(r, "commit")
    <3> DEFINE q == [req[r] EXCEPT !.at = "commit"]
    <3>1. /\ q \in Request /\ q.at = "commit" /\ q.op \in {"assign", "revoke"}
          /\ q.actor \in Users /\ q.target \in Users
          /\ q.op = req[r].op /\ q.actor = req[r].actor
          /\ q.target = req[r].target /\ q.role = req[r].role
      BY <1>0, <1>8 DEF CheckRoleChange, Request, Named, AdminOps
    <3>2. req' = [req EXCEPT ![r] = q] /\ UNCHANGED tables
      BY <1>8, <2>2 DEF CheckRoleChange, Advance
    <3> HIDE DEF q
    <3>3. RoleChecked(q)
      BY <2>2, <3>1 DEF MayChangeRole, RoleChecked
    <3>4. ActorChecked(q)
      BY <1>0, <1>8, <3>1 DEF CheckRoleChange, ActorChecked
    <3>5. Checked(q)
      BY <3>1, <3>3, <3>4 DEF Checked, Named, StatusChecked, TargetChecked, AdminOps
    <3> QED BY <3>1, <3>2, <3>5, MovesOn
  <2> QED BY <1>8, <2>1, <2>2 DEF CheckRoleChange
<1>9. CASE AssignRole(r)
  <2>1. req[r].target \in Users /\ {req[r].role} \in SUBSET RoleNames
    BY <1>0, <1>9 DEF AssignRole, Named, Request, AdminOps
  <2>2. GiveRoles(req[r].target, {req[r].role}) /\ users' = users
    BY <1>9 DEF AssignRole
  <2>3. /\ userRoles' \in [Users -> SUBSET RoleNames]
        /\ wasSuper' \subseteq Users /\ wasSuper \subseteq wasSuper'
        /\ Supers' \subseteq wasSuper'
        /\ \A v \in Users : userRoles[v] \subseteq userRoles'[v]
    BY <2>1, <2>2, GiveRolesKeeps
  <2>4. InvestorFromBirth'
    BY <2>2, <2>3 DEF Inv, InvestorFromBirth, Exists
  <2>5. req' \in [Requests -> Request] /\ (\A x \in Requests : Checked(req[x]))'
    BY <1>9, <2>2, <2>3, FinishChecked DEF AssignRole, Exists
  <2> QED BY <1>0, <2>2, <2>3, <2>4, <2>5 DEF Inv, TypeOK
<1>10. CASE RevokeRole(r)
  <2>1. req[r].target \in Users /\ req[r].role # "investor"
    BY <1>0, <1>10 DEF RevokeRole, Named, RoleChecked, AdminOps
  <2>2. userRoles' \in [Users -> SUBSET RoleNames]
    BY <1>0, <1>10 DEF RevokeRole
  <2>3. Supers' \subseteq wasSuper'
    BY <1>0, <1>10 DEF RevokeRole, Inv, Supers
  <2>4. InvestorFromBirth'
    BY <1>0, <1>10, <2>1 DEF RevokeRole, Inv, InvestorFromBirth, Exists
  <2>5. req' \in [Requests -> Request] /\ (\A x \in Requests : Checked(req[x]))'
    BY <1>10, FinishChecked DEF RevokeRole, Exists
  <2> QED BY <1>10, <2>2, <2>3, <2>4, <2>5 DEF RevokeRole, Inv, TypeOK
<1>11. CASE Crash(r)
  BY <1>11, EndsQuietly DEF Crash
<1> QED BY <1>1, <1>2, <1>3, <1>4, <1>5, <1>6, <1>7, <1>8, <1>9, <1>10, <1>11 DEF Serve

\* The script that grants a role on the server.
LEMMA ScriptStep ==
  ASSUME Inv, NEW u \in Users, NEW role \in RoleNames, GrantRole(u, role)
  PROVE  Inv'
<1>1. GiveRoles(u, {role}) /\ users' = users /\ req' = req /\ {role} \in SUBSET RoleNames
  BY DEF GrantRole
<1>2. /\ userRoles' \in [Users -> SUBSET RoleNames]
      /\ wasSuper' \subseteq Users /\ wasSuper \subseteq wasSuper'
      /\ Supers' \subseteq wasSuper'
      /\ \A v \in Users : userRoles[v] \subseteq userRoles'[v]
  BY <1>1, GiveRolesKeeps
<1>3. InvestorFromBirth'
  BY <1>1, <1>2 DEF Inv, InvestorFromBirth, Exists
<1>4. ASSUME NEW r \in Requests PROVE Checked(req[r])'
  BY <1>1, <1>2
     DEF Inv, Checked, Named, StatusChecked, RoleChecked, ActorChecked, TargetChecked, Exists
<1> QED BY <1>1, <1>2, <1>3, <1>4 DEF Inv, TypeOK

LEMMA InvStep == Inv /\ [Next]_vars => Inv'
<1> SUFFICES ASSUME Inv, [Next]_vars PROVE Inv'
  OBVIOUS
<1>1. ASSUME NEW r \in Requests, Serve(r) PROVE Inv'
  BY <1>1, ServeStep
<1>2. ASSUME NEW u \in Users, NEW role \in RoleNames, GrantRole(u, role) PROVE Inv'
  BY <1>2, ScriptStep
<1>3. CASE UNCHANGED vars
  BY <1>3 DEF vars, Inv, TypeOK, Supers, InvestorFromBirth, Exists, Checked, Named,
              StatusChecked, RoleChecked, ActorChecked, TargetChecked
<1> QED BY <1>1, <1>2, <1>3 DEF Next

\* The inductive invariant: whatever a request in flight has checked and
\* nobody can undo still holds, in the tables of any number of users.
THEOREM ChecksHold == Spec => []Inv
BY InvInit, InvStep, PTL DEF Spec

\* The baseline role is never missing, however first requests race.
THEOREM BaselineRole == Spec => []InvestorFromBirth
<1>1. Inv => InvestorFromBirth
  BY DEF Inv
<1> QED BY <1>1, ChecksHold, PTL

\* No request changes a role for an actor who has never been a super admin.
THEOREM NoEscalation == Spec => []GrantersWereSupers
<1>1. Inv => GrantersWereSupers
  BY DEF Inv, GrantersWereSupers, Checked, ActorChecked
<1> QED BY <1>1, ChecksHold, PTL

\* A closed account comes back only through a stale request.
THEOREM ClosedStays == Spec => ClosedUndoneByStaleOnly
<1> DEFINE A == \A u \in Users : users[u] = "CLOSED" /\ users'[u] # "CLOSED" =>
                  \E r \in Requests :
                    /\ req[r].at = "commit" /\ req[r].op = "status" /\ req[r].target = u
                    /\ req[r].seen # "CLOSED"
<1>1. ASSUME Inv, [Next]_vars, NEW u \in Users, users[u] = "CLOSED", users'[u] # "CLOSED"
      PROVE  \E r \in Requests :
               /\ req[r].at = "commit" /\ req[r].op = "status" /\ req[r].target = u
               /\ req[r].seen # "CLOSED"
  <2>1. users' # users
    BY <1>1
  <2>2. PICK r \in Requests : Provision(r) \/ SetStatus(r)
    BY <1>1, <2>1
       DEF Next, Serve, ArriveKnown, ArriveNew, ProvisionLost, CheckPermissions, ReadStatus,
           CheckRoleChange, AssignRole, RevokeRole, Crash, GrantRole, vars, tables
  <2>3. users \in [Users -> Statuses \cup {"NONE"}] /\ StatusChecked(req[r])
    BY <1>1 DEF Inv, TypeOK, Checked
  <2>4. CASE Provision(r)
    BY <1>1, <2>3, <2>4 DEF Provision, Exists
  <2>5. CASE SetStatus(r)
    BY <1>1, <2>3, <2>5 DEF SetStatus, StatusChecked, StatusMoves
  <2> QED BY <2>2, <2>4, <2>5
<1>2. Inv /\ [Next]_vars => [A]_vars
  BY <1>1
<1> QED BY <1>2, ChecksHold, PTL DEF Spec, ClosedUndoneByStaleOnly

\* The last super admin falls only to an actor who has fallen already.
THEOREM LastSuperStays == Spec => LastSuperFallsToStaleOnly
<1> DEFINE A == Supers # {} /\ Supers' = {} =>
                  \E r \in Requests :
                    req[r].at = "commit" /\ req[r].op = "revoke" /\ req[r].actor \notin Supers
<1>1. ASSUME Inv, [Next]_vars, Supers # {}, Supers' = {}
      PROVE  \E r \in Requests :
               req[r].at = "commit" /\ req[r].op = "revoke" /\ req[r].actor \notin Supers
  <2>1. PICK u \in Users : "super_admin" \in userRoles[u]
    BY <1>1 DEF Supers
  <2>2. "super_admin" \notin userRoles'[u]
    BY <1>1, <2>1 DEF Supers
  <2>3. userRoles \in [Users -> SUBSET RoleNames]
    BY <1>1 DEF Inv, TypeOK
  <2>4. PICK r \in Requests : RevokeRole(r)
    BY <1>1, <2>1, <2>2, <2>3
       DEF Next, Serve, ArriveKnown, ArriveNew, Provision, ProvisionLost, CheckPermissions,
           ReadStatus, SetStatus, CheckRoleChange, AssignRole, Crash, GrantRole, GiveRoles,
           vars, tables
  <2>5. req[r].actor # req[r].target /\ req[r].actor \in Users
    BY <1>1, <2>4 DEF Inv, Checked, Named, RoleChecked, RevokeRole
  <2>6. userRoles'[req[r].actor] = userRoles[req[r].actor]
    BY <2>3, <2>4, <2>5 DEF RevokeRole
  <2>7. req[r].actor \notin Supers
    BY <1>1, <2>5, <2>6 DEF Supers
  <2> QED BY <2>4, <2>7 DEF RevokeRole
<1>2. Inv /\ [Next]_vars => [A]_vars
  BY <1>1
<1> QED BY <1>2, ChecksHold, PTL DEF Spec, LastSuperFallsToStaleOnly

=============================================================================
