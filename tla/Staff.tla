------------------------------- MODULE Staff -------------------------------
(***************************************************************************)
(* Staff accounts, the access matrix and the departments that attend       *)
(* families (src/accounts, src/core/access, src/service_requests).         *)
(*                                                                         *)
(* Every command of an administrator first locks the row of the ADMIN role *)
(* and re-reads its author (lock_and_refresh_administrator).  An update or *)
(* a deactivation of an account is split between its checks and its write: *)
(* people accept invitations in between, without that lock.                *)
(***************************************************************************)
EXTENDS Naturals, FiniteSets

CONSTANTS
    Users,         \* staff accounts
    Roles,         \* configurable roles that may attend families
    Departments,
    Sessions,      \* administrators at work
    MaxInvitations \* bound: invitations issued to an account

ASSUME StaffAssumption ==
    /\ MaxInvitations \in Nat
    /\ {"ADMIN", "OTHER"} \cap Roles = {}

VARIABLES
    user,        \* table of accounts
    access,      \* access[r]: the departments role r may attend
    department,  \* enabled or not, and its active memberships
    session      \* session[k]: the account command in progress

staffVars == <<user, access, department, session>>

AllRoles == Roles \cup {"ADMIN", "OTHER"}

-----------------------------------------------------------------------------
(* Accounts.                                                               *)

\* nonce 0: no invitation in force; issued: the last one sent.
NoUser == [exists |-> FALSE, role |-> "OTHER", active |-> FALSE, deleted |-> FALSE,
           password |-> FALSE, verified |-> FALSE, issued |-> 0, nonce |-> 0]

UserRows == [exists : BOOLEAN, role : AllRoles, active : BOOLEAN, deleted : BOOLEAN,
             password : BOOLEAN, verified : BOOLEAN,
             issued : 0..MaxInvitations, nonce : 0..MaxInvitations]

Administers(u) == u.active /\ u.role = "ADMIN"

\* ServiceStaffSelector.capable: a live account that can sign in, of a role
\* the matrix lets attend the department.
Capable(u, matrix, d) ==
    /\ u.active /\ ~u.deleted /\ u.password
    /\ \/ u.role = "ADMIN"
       \/ u.role \in Roles /\ d \in matrix[u.role]

Attendants(d) == {u \in department[d].members : Capable(user[u], access, d)}

\* validate_departments_staffed, over accounts and a matrix about to be saved.
StaffedWith(accounts, matrix) ==
    \A d \in Departments :
        department[d].enabled =>
            \E u \in department[d].members : Capable(accounts[u], matrix, d)

\* validate_user_change: who stops being an administrator leaves another one
\* who can sign in.
LeavesAdministrator(u, changed) ==
    Administers(user[u]) /\ ~Administers(changed) =>
        \E v \in Users \ {u} : Administers(user[v]) /\ ~user[v].deleted /\ user[v].password

ValidChange(u, changed) ==
    /\ StaffedWith([user EXCEPT ![u] = changed], access)
    /\ LeavesAdministrator(u, changed)

-----------------------------------------------------------------------------
Idle == [op |-> "none"]

\* (A slip: the ADMIN role is not locked.)
AdminRoleUnlocked == TRUE

\* The lock of the ADMIN role; there is an administrator to ask for it.
AdminRoleFree ==
    /\ \A k \in Sessions : session[k].op = "none"
    /\ \E u \in Users : Administers(user[u])

\* The row lock of an account; a deactivation does not take it.
UserFree(u) == \A k \in Sessions : session[k].op = "update" => session[k].user # u

\* The founder was invited from the shell (bootstrap) and has accepted.
Founder == [NoUser EXCEPT !.exists = TRUE, !.role = "ADMIN", !.active = TRUE,
                          !.password = TRUE, !.verified = TRUE]

StaffInit ==
    /\ \E u \in Users : user = [v \in Users |-> IF v = u THEN Founder ELSE NoUser]
    /\ access = [r \in Roles |-> Departments]
    /\ department = [d \in Departments |-> [enabled |-> FALSE, members |-> {}]]
    /\ session = [k \in Sessions |-> Idle]

-----------------------------------------------------------------------------
(* Creation and invitations.                                               *)

CreateUser(u, role) ==
    /\ AdminRoleFree
    /\ ~user[u].exists
    /\ user' = [user EXCEPT ![u] = [NoUser EXCEPT !.exists = TRUE, !.role = role,
                                                  !.active = TRUE, !.password = TRUE]]
    /\ UNCHANGED <<access, department, session>>

Invited(u) == [u EXCEPT !.issued = @ + 1, !.nonce = u.issued + 1]

CreateStaffUser(u, role) ==
    /\ AdminRoleFree
    /\ ~user[u].exists
    /\ role # "OTHER" /\ MaxInvitations > 0
    /\ user' = [user EXCEPT ![u] = Invited([NoUser EXCEPT !.exists = TRUE, !.role = role])]
    /\ UNCHANGED <<access, department, session>>

SendStaffInvitation(u) ==
    /\ AdminRoleFree
    /\ user[u].exists /\ ~user[u].deleted /\ user[u].role # "OTHER"
    /\ ~user[u].active /\ ~user[u].verified
    /\ user[u].issued < MaxInvitations
    /\ user' = [user EXCEPT ![u] = Invited(@)]
    /\ UNCHANGED <<access, department, session>>

\* consume_token, with the token of the n-th invitation: any may be tried.
AcceptInvitation(u, n) ==
    /\ UserFree(u)
    /\ ~user[u].active /\ ~user[u].deleted /\ ~user[u].verified
    /\ n = user[u].nonce /\ user[u].role # "OTHER"
    /\ user' = [user EXCEPT ![u].active = TRUE, ![u].password = TRUE, ![u].verified = TRUE]
    /\ UNCHANGED <<access, department, session>>

-----------------------------------------------------------------------------
(* Changes of an account.                                                  *)

\* The account as update_user will save it; a new address voids the invitation.
Edited(u, role, active, readdressed) ==
    [u EXCEPT !.role = role, !.active = active, !.nonce = IF readdressed THEN 0 ELSE @]

BeginUpdateUser(k, u, role, active, readdressed) ==
    LET changed == Edited(user[u], role, active, readdressed)
    IN /\ AdminRoleFree
       /\ user[u].exists /\ ~user[u].deleted
       /\ changed # user[u]
       /\ active /\ ~user[u].active => user[u].password
       /\ ValidChange(u, changed)
       /\ session' = [session EXCEPT ![k] = [op |-> "update", user |-> u, changed |-> changed]]
       /\ UNCHANGED <<user, access, department>>

CommitUpdateUser(k) ==
    /\ session[k].op = "update"
    /\ user' = [user EXCEPT ![session[k].user] = session[k].changed]
    /\ session' = [session EXCEPT ![k] = Idle]
    /\ UNCHANGED <<access, department>>

BeginDeactivateUser(k, u) ==
    /\ AdminRoleFree
    /\ user[u].exists
    /\ ValidChange(u, [user[u] EXCEPT !.active = FALSE])
    /\ session' = [session EXCEPT ![k] = [op |-> "deactivate", user |-> u]]
    /\ UNCHANGED <<user, access, department>>

\* _deactivate reads the account again.
CommitDeactivateUser(k) ==
    /\ session[k].op = "deactivate"
    /\ ~user[session[k].user].deleted
    /\ user' = [user EXCEPT ![session[k].user].deleted = TRUE,
                            ![session[k].user].active = FALSE]
    /\ session' = [session EXCEPT ![k] = Idle]
    /\ UNCHANGED <<access, department>>

\* A commit that finds another version, or an account already deactivated.
Rollback(k) ==
    /\ session[k].op # "none"
    /\ session' = [session EXCEPT ![k] = Idle]
    /\ UNCHANGED <<user, access, department>>

RestoreUser(u) ==
    /\ AdminRoleFree
    /\ user[u].deleted
    /\ user' = [user EXCEPT ![u].deleted = FALSE, ![u].active = TRUE]
    /\ UNCHANGED <<access, department, session>>

-----------------------------------------------------------------------------
(* The access matrix and the departments.                                  *)

\* (A slip: the matrix is saved without looking at the departments.)
MatrixValidAlways(matrix) == TRUE

MatrixValid(matrix) == StaffedWith(user, matrix)

UpdateAccessMatrix(r, attended) ==
    LET matrix == [access EXCEPT ![r] = attended]
    IN /\ AdminRoleFree
       /\ MatrixValid(matrix)
       /\ access' = matrix
       /\ UNCHANGED <<user, department, session>>

\* `busy': some request of the department is neither resolved nor cancelled.
UpdateDepartment(d, enabled, members, busy) ==
    /\ AdminRoleFree
    /\ \A u \in members : user[u].exists /\ Capable(user[u], access, d)
    /\ enabled => members # {}
    /\ ~enabled => ~busy
    /\ department' = [department EXCEPT ![d] = [enabled |-> enabled, members |-> members]]
    /\ UNCHANGED <<user, access, session>>

-----------------------------------------------------------------------------
AccountStep ==
    \/ \E u \in Users :
          \/ \E role \in AllRoles : CreateUser(u, role) \/ CreateStaffUser(u, role)
          \/ SendStaffInvitation(u)
          \/ \E n \in 1..MaxInvitations : AcceptInvitation(u, n)
          \/ RestoreUser(u)
    \/ \E k \in Sessions :
          \/ \E u \in Users :
                \/ \E role \in AllRoles, active, readdressed \in BOOLEAN :
                      BeginUpdateUser(k, u, role, active, readdressed)
                \/ BeginDeactivateUser(k, u)
          \/ CommitUpdateUser(k)
          \/ CommitDeactivateUser(k)
          \/ Rollback(k)
    \/ \E r \in Roles, attended \in SUBSET Departments : UpdateAccessMatrix(r, attended)

\* Alone, this module leaves open which departments are busy.
StaffStep ==
    \/ AccountStep
    \/ \E d \in Departments, members \in SUBSET Users, enabled, busy \in BOOLEAN :
          UpdateDepartment(d, enabled, members, busy)

StaffSpec == StaffInit /\ [][StaffStep]_staffVars

-----------------------------------------------------------------------------
(* Properties.                                                             *)

StaffTypeOK ==
    /\ user \in [Users -> UserRows]
    /\ access \in [Roles -> SUBSET Departments]
    /\ department \in [Departments -> [enabled : BOOLEAN, members : SUBSET Users]]
    /\ session \in [Sessions -> {Idle} \cup [op : {"deactivate"}, user : Users]
                                \cup [op : {"update"}, user : Users, changed : UserRows]]

\* The school is never without an administrator who can sign in, however two
\* administrators deactivate or demote each other (validate_user_change).
AdministratorRemains ==
    \E u \in Users : Administers(user[u]) /\ ~user[u].deleted /\ user[u].password

\* An enabled department always has someone to attend it: accounts, the matrix
\* and the memberships change under one lock (validate_departments_staffed).
EnabledDepartmentsStaffed ==
    \A d \in Departments : department[d].enabled => Attendants(d) # {}
=============================================================================
