------------------------- MODULE ServiceDeskProofs -------------------------
(***************************************************************************)
(* Theorems of Staff and of the ServiceDesk built on it, for any accounts, *)
(* roles, departments, requests, sessions and sweeps.                      *)
(***************************************************************************)
EXTENDS ServiceDesk, TLAPS

(***************************************************************************)
(* The accounts.  What makes the checks of an administrator last until the *)
(* write: while an account command is in progress, no other is, and people *)
(* who accept an invitation only become able to do more.                   *)
(***************************************************************************)

CanSignIn(u) == ~u.deleted /\ u.password

AdminIn(accounts) == \E u \in Users : Administers(accounts[u]) /\ CanSignIn(accounts[u])

Sound(accounts) == StaffedWith(accounts, access) /\ AdminIn(accounts)

\* An account loses nothing: it attends what it attended, and administers.
NoLess(old, new) ==
    /\ \A d \in Departments : Capable(old, access, d) => Capable(new, access, d)
    /\ Administers(old) /\ CanSignIn(old) => Administers(new) /\ CanSignIn(new)

UpdatePending(k) == session[k].op = "update" =>
    /\ user[session[k].user].exists /\ session[k].changed.exists
    /\ Sound([user EXCEPT ![session[k].user] = session[k].changed])

\* The accounts but u are sound.
SoundWithout(u) ==
    /\ \A d \in Departments : department[d].enabled =>
          \E v \in department[d].members \ {u} : Capable(user[v], access, d)
    /\ \E v \in Users \ {u} : Administers(user[v]) /\ CanSignIn(user[v])

DeactivationPending(k) == session[k].op = "deactivate" =>
    user[session[k].user].exists /\ SoundWithout(session[k].user)

OneAtWork == \A j, k \in Sessions : session[j].op # "none" /\ session[k].op # "none" => j = k

StaffInv ==
    /\ StaffTypeOK
    /\ Sound(user)
    /\ \A u \in Users : ~user[u].exists => user[u] = NoUser
    /\ \A k \in Sessions : UpdatePending(k) /\ DeactivationPending(k)
    /\ OneAtWork

LEMMA SoundGrows ==
    ASSUME NEW old, NEW new, Sound(old), \A u \in Users : NoLess(old[u], new[u]),
           \A d \in Departments : department[d].members \subseteq Users
    PROVE  Sound(new)
BY DEF Sound, StaffedWith, AdminIn, NoLess

LEMMA SessionKinds ==
    ASSUME StaffTypeOK, NEW k \in Sessions
    PROVE  /\ session[k].op \in {"none", "update", "deactivate"}
           /\ session[k].op = "update" => session[k].user \in Users /\ session[k].changed \in UserRows
           /\ session[k].op = "deactivate" => session[k].user \in Users
<1>1. session[k] \in {Idle} \cup [op : {"deactivate"}, user : Users]
                            \cup [op : {"update"}, user : Users, changed : UserRows]
  BY DEF StaffTypeOK
<1>2. CASE session[k] = Idle
  BY <1>2 DEF Idle
<1>3. CASE session[k] \in [op : {"deactivate"}, user : Users]
  BY <1>3
<1>4. CASE session[k] \in [op : {"update"}, user : Users, changed : UserRows]
  BY <1>4
<1> QED BY <1>1, <1>2, <1>3, <1>4

LEMMA StaffInvInit == StaffInit => StaffInv
<1> SUFFICES ASSUME StaffInit PROVE StaffInv
  OBVIOUS
<1>1. PICK f \in Users : user = [v \in Users |-> IF v = f THEN Founder ELSE NoUser]
  BY DEF StaffInit
<1>2. NoUser \in UserRows /\ ~NoUser.active
  BY StaffAssumption DEF NoUser, UserRows, AllRoles
<1>3. Founder \in UserRows /\ Founder.exists /\ Administers(Founder) /\ CanSignIn(Founder)
  BY <1>2 DEF Founder, NoUser, UserRows, AllRoles, Administers, CanSignIn
<1>4. StaffTypeOK
  BY <1>1, <1>2, <1>3 DEF StaffInit, StaffTypeOK
<1>5. Sound(user)
  BY <1>1, <1>3 DEF StaffInit, Sound, StaffedWith, AdminIn
<1>6. \A k \in Sessions : session[k].op = "none"
  BY DEF StaffInit, Idle
<1> QED BY <1>1, <1>3, <1>4, <1>5, <1>6
        DEF StaffInv, UpdatePending, DeactivationPending, OneAtWork

\* A session begins, ends or gives up: only the pending command changes.
LEMMA SessionStep ==
    ASSUME StaffInv, UNCHANGED <<user, access, department>>, NEW k \in Sessions,
           NEW work, session' = [session EXCEPT ![k] = work],
           work \in {Idle} \cup [op : {"deactivate"}, user : Users]
                           \cup [op : {"update"}, user : Users, changed : UserRows],
           work = Idle \/ \A j \in Sessions : session[j].op = "none",
           UpdatePending(k)', DeactivationPending(k)'
    PROVE  StaffInv'
<1>1. StaffTypeOK'
  BY DEF StaffInv, StaffTypeOK
<1>2. session'[k] = work /\ \A j \in Sessions \ {k} : session'[j] = session[j]
  BY DEF StaffInv, StaffTypeOK
<1>3. \A j \in Sessions : UpdatePending(j)' /\ DeactivationPending(j)'
  <2> TAKE j \in Sessions
  <2>1. CASE j = k
    BY <2>1
  <2>2. CASE j # k
    <3>1. session'[j] = session[j] /\ UpdatePending(j) /\ DeactivationPending(j)
      BY <1>2, <2>2 DEF StaffInv
    <3>2. \A accounts : Sound(accounts)' <=> Sound(accounts)
      BY DEF Sound, StaffedWith, AdminIn
    <3>3. UpdatePending(j)'
      BY <3>1, <3>2 DEF UpdatePending
    <3>4. DeactivationPending(j)'
      BY <3>1 DEF DeactivationPending, SoundWithout
    <3> QED BY <3>3, <3>4
  <2> QED BY <2>1, <2>2
<1>4. OneAtWork'
  BY <1>2 DEF StaffInv, OneAtWork, Idle
<1>5. Sound(user)'
  BY DEF StaffInv, Sound, StaffedWith
<1> QED BY <1>1, <1>3, <1>4, <1>5 DEF StaffInv

\* One account changes and loses nothing; no command is in progress about it
\* that would write it back.
LEMMA AccountGrows ==
    ASSUME StaffInv, UNCHANGED <<access, department, session>>, NEW u \in Users,
           NEW row \in UserRows, user' = [user EXCEPT ![u] = row],
           row.exists, NoLess(user[u], row), UserFree(u)
    PROVE  StaffInv'
<1>1. /\ user'[u] = row /\ \A v \in Users \ {u} : user'[v] = user[v]
      /\ \A v \in Users : NoLess(user[v], user'[v])
      /\ \A v \in Users : user[v].exists => user'[v].exists
  BY DEF StaffInv, StaffTypeOK, NoLess
<1>2. StaffTypeOK'
  BY DEF StaffInv, StaffTypeOK
<1>3. \A d \in Departments : department[d].members \subseteq Users
  BY DEF StaffInv, StaffTypeOK
<1>4. Sound(user')
  BY <1>1, <1>3, SoundGrows DEF StaffInv
<1>5. \A accounts : Sound(accounts)' <=> Sound(accounts)
  BY DEF Sound, StaffedWith, AdminIn
<1>6. ASSUME NEW k \in Sessions, session[k].op = "update"
      PROVE  UpdatePending(k)'
  <2> DEFINE other == session[k].user
             before == [user EXCEPT ![other] = session[k].changed]
             after == [user' EXCEPT ![other] = session[k].changed]
  <2>1. other \in Users /\ other # u
    BY <1>6, SessionKinds DEF StaffInv, UserFree
  <2>2. UpdatePending(k)
    BY DEF StaffInv
  <2>3. \A v \in Users : NoLess(before[v], after[v])
    <3> TAKE v \in Users
    <3>1. CASE v = other
      BY <2>1, <3>1, <1>2 DEF NoLess, StaffInv, StaffTypeOK
    <3>2. CASE v # other
      BY <1>1, <3>2, <1>2 DEF StaffInv, StaffTypeOK
    <3> QED BY <3>1, <3>2
  <2>4. Sound(before) /\ user[other].exists /\ session[k].changed.exists
    BY <1>6, <2>2 DEF UpdatePending
  <2> HIDE DEF before, after
  <2>5. Sound(after)
    BY <1>3, <2>3, <2>4, SoundGrows
  <2> USE DEF after
  <2>6. user'[other].exists
    BY <1>1, <2>1, <2>4
  <2> QED BY <1>5, <2>4, <2>5, <2>6 DEF UpdatePending
<1>7. ASSUME NEW k \in Sessions, session[k].op = "deactivate"
      PROVE  DeactivationPending(k)'
  <2>1. DeactivationPending(k) /\ session[k].user \in Users
    BY <1>7, SessionKinds DEF StaffInv
  <2>2. SoundWithout(session[k].user) /\ user[session[k].user].exists
    BY <1>7, <2>1 DEF DeactivationPending
  <2>3. SoundWithout(session[k].user)'
    BY <1>1, <1>3, <2>2 DEF SoundWithout, NoLess
  <2> QED BY <1>1, <2>1, <2>2, <2>3 DEF DeactivationPending
<1>8. \A k \in Sessions : UpdatePending(k)' /\ DeactivationPending(k)'
  BY <1>6, <1>7 DEF UpdatePending, DeactivationPending
<1>9. \A v \in Users : ~user'[v].exists => user'[v] = NoUser
  BY <1>1 DEF StaffInv
<1>10. OneAtWork' /\ Sound(user)'
  BY <1>4, <1>5 DEF StaffInv, OneAtWork
<1> QED BY <1>2, <1>8, <1>9, <1>10 DEF StaffInv

\* What validate_user_change demands is what the pending command keeps.
LEMMA ValidLeavesSound ==
    ASSUME StaffInv, NEW u \in Users, NEW changed \in UserRows, ValidChange(u, changed),
           Administers(changed) /\ CanSignIn(user[u]) => CanSignIn(changed)
    PROVE  Sound([user EXCEPT ![u] = changed])
<1> DEFINE accounts == [user EXCEPT ![u] = changed]
<1>1. accounts[u] = changed /\ \A v \in Users \ {u} : accounts[v] = user[v]
  BY DEF StaffInv, StaffTypeOK
<1>2. StaffedWith(accounts, access)
  BY DEF ValidChange
<1>3. PICK w \in Users : Administers(user[w]) /\ CanSignIn(user[w])
  BY DEF StaffInv, Sound, AdminIn
<1>4. AdminIn(accounts)
  <2>1. CASE w # u
    BY <1>1, <1>3, <2>1 DEF AdminIn
  <2>2. CASE w = u /\ Administers(changed)
    BY <1>1, <1>3, <2>2 DEF AdminIn
  <2>3. CASE w = u /\ ~Administers(changed)
    BY <1>1, <1>3, <2>3 DEF AdminIn, ValidChange, LeavesAdministrator, CanSignIn
  <2> QED BY <2>1, <2>2, <2>3
<1> QED BY <1>2, <1>4 DEF Sound

\* Creation, invitation and restoration, under the lock of the ADMIN role.
LEMMA LockedGrows ==
    ASSUME StaffInv, AdminRoleFree, UNCHANGED <<access, department, session>>, NEW u \in Users,
           NEW row \in UserRows, user' = [user EXCEPT ![u] = row],
           row.exists, NoLess(user[u], row)
    PROVE  StaffInv'
<1>1. UserFree(u)
  BY DEF AdminRoleFree, UserFree
<1> QED BY <1>1, AccountGrows

LEMMA InvitedRow ==
    ASSUME NEW u \in UserRows, u.issued < MaxInvitations
    PROVE  Invited(u) \in UserRows
<1> DEFINE n == u.issued + 1
<1>1. n \in 0..MaxInvitations
  BY StaffAssumption DEF UserRows
<1> HIDE DEF n
<1>2. [u EXCEPT !.issued = n, !.nonce = n] \in UserRows
  BY <1>1 DEF UserRows
<1> QED BY <1>2 DEF Invited, n

LEMMA NewRow == NoUser \in UserRows /\ NoUser.issued = 0
BY StaffAssumption DEF NoUser, UserRows, AllRoles

LEMMA AccountActions ==
    ASSUME StaffInv, NEW u \in Users
    PROVE  /\ \A role \in AllRoles : CreateUser(u, role) \/ CreateStaffUser(u, role) => StaffInv'
           /\ SendStaffInvitation(u) \/ RestoreUser(u) => StaffInv'
           /\ \A n \in 1..MaxInvitations : AcceptInvitation(u, n) => StaffInv'
<1> USE StaffAssumption
<1>0. user[u] \in UserRows /\ (~user[u].exists => user[u] = NoUser)
  BY DEF StaffInv, StaffTypeOK
<1>1. \A row : ~user[u].exists => NoLess(user[u], row)
  BY <1>0 DEF NoLess, NoUser, Capable, Administers
<1>2. ASSUME NEW role \in AllRoles, CreateUser(u, role) PROVE StaffInv'
  <2> DEFINE row == [NoUser EXCEPT !.exists = TRUE, !.role = role, !.active = TRUE,
                                   !.password = TRUE]
  <2>1. row \in UserRows
    BY NewRow DEF UserRows
  <2>0. row.exists = TRUE
    BY DEF NoUser, UserRows
  <2> QED BY <1>1, <1>2, <2>0, <2>1, LockedGrows DEF CreateUser
<1>3. ASSUME NEW role \in AllRoles, CreateStaffUser(u, role) PROVE StaffInv'
  <2> DEFINE row == Invited([NoUser EXCEPT !.exists = TRUE, !.role = role])
  <2>1. row \in UserRows
    <3>1. [NoUser EXCEPT !.exists = TRUE, !.role = role] \in UserRows
      BY NewRow DEF UserRows
    <3>2. [NoUser EXCEPT !.exists = TRUE, !.role = role].issued = 0
      BY NewRow DEF UserRows
    <3>3. 0 < MaxInvitations
      BY <1>3 DEF CreateStaffUser
    <3> QED BY <3>1, <3>2, <3>3, InvitedRow
  <2>0. row.exists = TRUE
    BY <1>3 DEF NoUser, UserRows, Invited, CreateStaffUser
  <2> QED BY <1>1, <1>3, <2>0, <2>1, LockedGrows DEF CreateStaffUser
<1>4. ASSUME SendStaffInvitation(u) PROVE StaffInv'
  <2> DEFINE row == Invited(user[u])
  <2>1. row \in UserRows
    BY <1>0, <1>4, InvitedRow DEF SendStaffInvitation
  <2>0. row.exists = TRUE
    BY <1>0, <1>4 DEF UserRows, Invited, SendStaffInvitation
  <2>2. NoLess(user[u], row)
    BY <1>0, <1>4 DEF NoLess, Capable, Administers, SendStaffInvitation
  <2> QED BY <1>4, <2>0, <2>1, <2>2, LockedGrows DEF SendStaffInvitation
<1>5. ASSUME RestoreUser(u) PROVE StaffInv'
  <2> DEFINE row == [user[u] EXCEPT !.deleted = FALSE, !.active = TRUE]
  <2>1. row \in UserRows
    BY <1>0, <1>5 DEF UserRows, RestoreUser, NoUser
  <2>0. row.exists = TRUE
    BY <1>0, <1>5 DEF UserRows, RestoreUser, NoUser
  <2>2. NoLess(user[u], row)
    BY <1>0, <1>5 DEF NoLess, Capable, CanSignIn, RestoreUser
  <2>3. user' = [user EXCEPT ![u] = row]
    BY <1>5 DEF RestoreUser
  <2> QED BY <1>5, <2>0, <2>1, <2>2, <2>3, LockedGrows DEF RestoreUser
<1>6. ASSUME NEW n \in 1..MaxInvitations, AcceptInvitation(u, n) PROVE StaffInv'
  <2> DEFINE row == [user[u] EXCEPT !.active = TRUE, !.password = TRUE, !.verified = TRUE]
  <2>1. row \in UserRows
    BY <1>0, <1>6 DEF UserRows, AcceptInvitation, NoUser
  <2>0. row.exists = TRUE
    BY <1>0, <1>6 DEF UserRows, AcceptInvitation, NoUser
  <2>2. NoLess(user[u], row)
    BY <1>0, <1>6 DEF NoLess, Capable, Administers, AcceptInvitation
  <2>3. user' = [user EXCEPT ![u] = row]
    BY <1>6 DEF AcceptInvitation
  <2> QED BY <1>6, <2>0, <2>1, <2>2, <2>3, AccountGrows DEF AcceptInvitation
<1> QED BY <1>2, <1>3, <1>4, <1>5, <1>6

LEMMA EditedRow ==
    ASSUME NEW u \in UserRows, NEW role \in AllRoles,
           NEW active \in BOOLEAN, NEW readdressed \in BOOLEAN
    PROVE  /\ Edited(u, role, active, readdressed) \in UserRows
           /\ Edited(u, role, active, readdressed).exists = u.exists
           /\ Edited(u, role, active, readdressed).deleted = u.deleted
           /\ Edited(u, role, active, readdressed).password = u.password
<1> DEFINE n == IF readdressed THEN 0 ELSE u.nonce
<1>1. n \in 0..MaxInvitations
  BY StaffAssumption DEF UserRows
<1> HIDE DEF n
<1> DEFINE e == [u EXCEPT !.role = role, !.active = active, !.nonce = n]
<1>2. /\ e \in UserRows /\ e.exists = u.exists
      /\ e.deleted = u.deleted /\ e.password = u.password
  BY <1>1 DEF UserRows
<1> QED BY <1>2 DEF Edited, n

LEMMA SessionActions ==
    ASSUME StaffInv, NEW k \in Sessions
    PROVE  /\ \A u \in Users, role \in AllRoles, active, readdressed \in BOOLEAN :
                 BeginUpdateUser(k, u, role, active, readdressed) => StaffInv'
           /\ \A u \in Users : BeginDeactivateUser(k, u) => StaffInv'
           /\ CommitUpdateUser(k) \/ CommitDeactivateUser(k) \/ Rollback(k) => StaffInv'
<1>1. ASSUME NEW u \in Users, NEW role \in AllRoles,
             NEW active \in BOOLEAN, NEW readdressed \in BOOLEAN,
             BeginUpdateUser(k, u, role, active, readdressed)
      PROVE  StaffInv'
  <2> DEFINE changed == Edited(user[u], role, active, readdressed)
             work == [op |-> "update", user |-> u, changed |-> changed]
  <2>0. user[u] \in UserRows
    BY DEF StaffInv, StaffTypeOK
  <2>1. /\ changed \in UserRows /\ changed.exists = user[u].exists
        /\ changed.deleted = user[u].deleted /\ changed.password = user[u].password
    BY <2>0, EditedRow
  <2>2. /\ AdminRoleFree /\ user[u].exists /\ ValidChange(u, changed)
        /\ ~user[u].deleted
        /\ session' = [session EXCEPT ![k] = work]
        /\ UNCHANGED <<user, access, department>>
        /\ active /\ ~user[u].active => user[u].password
    BY <1>1 DEF BeginUpdateUser
  <2>3. changed.role = role /\ changed.active = active
    BY <2>0 DEF Edited, UserRows
  <2>4. Administers(changed) /\ CanSignIn(user[u]) => CanSignIn(changed)
    BY <2>1 DEF CanSignIn
  <2> HIDE DEF changed
  <2>5. Sound([user EXCEPT ![u] = changed])
    BY <2>1, <2>2, <2>4, ValidLeavesSound
  <2>6. session'[k] = work
    BY <2>2 DEF StaffInv, StaffTypeOK
  <2>7. \A accounts : Sound(accounts)' <=> Sound(accounts)
    BY <2>2 DEF Sound, StaffedWith, AdminIn
  <2>8. UpdatePending(k)'
    <3>1. session'[k].op = "update" /\ session'[k].user = u /\ session'[k].changed = changed
      BY <2>6
    <3>2. user'[u].exists /\ changed.exists /\ user' = user
      BY <2>1, <2>2
    <3> QED BY <2>5, <2>7, <3>1, <3>2 DEF UpdatePending
  <2>9. DeactivationPending(k)'
    BY <2>6 DEF DeactivationPending
  <2>10. work \in [op : {"update"}, user : Users, changed : UserRows]
    BY <2>1
  <2>11. \A j \in Sessions : session[j].op = "none"
    BY <2>2 DEF AdminRoleFree
  <2> HIDE DEF work
  <2> QED BY <2>2, <2>8, <2>9, <2>10, <2>11, SessionStep
<1>2. ASSUME NEW u \in Users, BeginDeactivateUser(k, u)
      PROVE  StaffInv'
  <2> DEFINE changed == [user[u] EXCEPT !.active = FALSE]
             accounts == [user EXCEPT ![u] = changed]
             work == [op |-> "deactivate", user |-> u]
  <2>0. user[u] \in UserRows
    BY DEF StaffInv, StaffTypeOK
  <2>1. changed \in UserRows /\ changed.active = FALSE
    BY <2>0 DEF UserRows
  <2>2. /\ AdminRoleFree /\ user[u].exists /\ ValidChange(u, changed)
        /\ session' = [session EXCEPT ![k] = work]
        /\ UNCHANGED <<user, access, department>>
    BY <1>2 DEF BeginDeactivateUser
  <2> HIDE DEF changed
  <2>3. ~Administers(changed) /\ \A d \in Departments : ~Capable(changed, access, d)
    BY <2>1 DEF Administers, Capable
  <2>4. Sound(accounts)
    BY <2>1, <2>2, <2>3, ValidLeavesSound
  <2>5. accounts[u] = changed /\ \A v \in Users \ {u} : accounts[v] = user[v]
    BY DEF StaffInv, StaffTypeOK
  <2> HIDE DEF accounts
  <2>6. \A d \in Departments : department[d].members \subseteq Users
    BY DEF StaffInv, StaffTypeOK
  <2>7. SoundWithout(u)
    BY <2>3, <2>4, <2>5, <2>6 DEF SoundWithout, Sound, StaffedWith, AdminIn
  <2>8. session'[k] = work
    BY <2>2 DEF StaffInv, StaffTypeOK
  <2>9. DeactivationPending(k)'
    BY <2>2, <2>7, <2>8 DEF DeactivationPending, SoundWithout
  <2>10. UpdatePending(k)'
    BY <2>8 DEF UpdatePending
  <2>11. work \in [op : {"deactivate"}, user : Users]
    OBVIOUS
  <2>12. \A j \in Sessions : session[j].op = "none"
    BY <2>2 DEF AdminRoleFree
  <2> HIDE DEF work
  <2> QED BY <2>2, <2>9, <2>10, <2>11, <2>12, SessionStep
<1>3. ASSUME Rollback(k)
      PROVE  StaffInv'
  <2>1. session'[k] = Idle
    BY <1>3 DEF Rollback, StaffInv, StaffTypeOK
  <2>2. UpdatePending(k)' /\ DeactivationPending(k)'
    BY <2>1 DEF UpdatePending, DeactivationPending, Idle
  <2> QED BY <1>3, <2>2, SessionStep DEF Rollback
\* A command writes sound accounts and ends.
<1>4. ASSUME session[k].op # "none", NEW u \in Users, NEW row \in UserRows, row.exists,
             user' = [user EXCEPT ![u] = row], Sound(user'),
             session' = [session EXCEPT ![k] = Idle], UNCHANGED <<access, department>>
      PROVE  StaffInv'
  <2>1. StaffTypeOK'
    BY <1>4 DEF StaffInv, StaffTypeOK
  <2>2. \A j \in Sessions : session'[j].op = "none"
    BY <1>4 DEF StaffInv, StaffTypeOK, OneAtWork, Idle
  <2>3. Sound(user)'
    BY <1>4 DEF Sound, StaffedWith, AdminIn
  <2>4. \A v \in Users : ~user'[v].exists => user'[v] = NoUser
    BY <1>4 DEF StaffInv, StaffTypeOK
  <2> QED BY <2>1, <2>2, <2>3, <2>4
          DEF StaffInv, UpdatePending, DeactivationPending, OneAtWork
<1>5. ASSUME CommitUpdateUser(k)
      PROVE  StaffInv'
  <2>1. session[k].user \in Users /\ session[k].changed \in UserRows
    BY <1>5, SessionKinds DEF StaffInv, CommitUpdateUser
  <2>2. session[k].changed.exists /\ Sound([user EXCEPT ![session[k].user] = session[k].changed])
    BY <1>5 DEF StaffInv, CommitUpdateUser, UpdatePending
  <2> QED BY <1>4, <1>5, <2>1, <2>2 DEF CommitUpdateUser
<1>6. ASSUME CommitDeactivateUser(k)
      PROVE  StaffInv'
  <2> DEFINE u == session[k].user
             row == [user[u] EXCEPT !.deleted = TRUE, !.active = FALSE]
  <2>1. u \in Users /\ user[u] \in UserRows
    BY <1>6, SessionKinds DEF StaffInv, CommitDeactivateUser, StaffTypeOK
  <2>2. user[u].exists /\ SoundWithout(u)
    BY <1>6 DEF StaffInv, CommitDeactivateUser, DeactivationPending
  <2>3. row \in UserRows
    BY <2>1 DEF UserRows
  <2>4. row.exists = user[u].exists
    BY <2>1 DEF UserRows
  <2>5. /\ session[k].op # "none"
        /\ user' = [user EXCEPT ![u] = row] /\ session' = [session EXCEPT ![k] = Idle]
        /\ UNCHANGED <<access, department>>
    BY <1>6 DEF CommitDeactivateUser
  <2> HIDE DEF row
  <2>6. \A v \in Users \ {u} : user'[v] = user[v]
    BY <2>1, <2>5 DEF StaffInv, StaffTypeOK
  <2>7. \A d \in Departments : department[d].members \subseteq Users
    BY DEF StaffInv, StaffTypeOK
  <2> HIDE DEF u
  <2>8. Sound(user')
    BY <2>2, <2>6, <2>7 DEF SoundWithout, Sound, StaffedWith, AdminIn
  <2> QED BY <1>4, <2>1, <2>2, <2>3, <2>4, <2>5, <2>8
<1> QED BY <1>1, <1>2, <1>3, <1>5, <1>6

LEMMA SettingActions ==
    ASSUME StaffInv
    PROVE  /\ \A r \in Roles, attended \in SUBSET Departments :
                 UpdateAccessMatrix(r, attended) => StaffInv'
           /\ \A busy : \A d \in Departments, members \in SUBSET Users, enabled \in BOOLEAN :
                 UpdateDepartment(d, enabled, members, busy) => StaffInv'
\* With no account command in progress, only the departments and the matrix matter.
<1>1. ASSUME AdminRoleFree, UNCHANGED <<user, session>>, StaffTypeOK',
             \A d \in Departments : department'[d].enabled =>
                \E u \in department'[d].members : Capable(user[u], access', d)
      PROVE  StaffInv'
  <2>1. \A j \in Sessions : session[j].op = "none"
    BY <1>1 DEF AdminRoleFree
  <2>2. AdminIn(user)' <=> AdminIn(user)
    BY <1>1 DEF AdminIn
  <2>3. Sound(user)'
    BY <1>1, <2>2 DEF StaffInv, Sound, StaffedWith
  <2> QED BY <1>1, <2>1, <2>3 DEF StaffInv, UpdatePending, DeactivationPending, OneAtWork
<1>2. ASSUME NEW r \in Roles, NEW attended \in SUBSET Departments,
             UpdateAccessMatrix(r, attended)
      PROVE  StaffInv'
  <2>1. StaffTypeOK'
    BY <1>2 DEF UpdateAccessMatrix, StaffInv, StaffTypeOK
  <2>2. \A d \in Departments : department'[d].enabled =>
           \E u \in department'[d].members : Capable(user[u], access', d)
    BY <1>2 DEF UpdateAccessMatrix, MatrixValid, StaffedWith
  <2> QED BY <1>1, <1>2, <2>1, <2>2 DEF UpdateAccessMatrix
<1>3. ASSUME NEW d \in Departments, NEW members \in SUBSET Users, NEW enabled \in BOOLEAN,
             NEW busy, UpdateDepartment(d, enabled, members, busy)
      PROVE  StaffInv'
  <2> DEFINE row == [enabled |-> enabled, members |-> members]
  <2>1. row \in [enabled : BOOLEAN, members : SUBSET Users]
        /\ row.enabled = enabled /\ row.members = members
    OBVIOUS
  <2>2. department' = [department EXCEPT ![d] = row] /\ UNCHANGED <<user, access, session>>
        /\ AdminRoleFree
    BY <1>3 DEF UpdateDepartment
  <2>3. enabled => \E u \in members : Capable(user[u], access, d)
    BY <1>3 DEF UpdateDepartment
  <2> HIDE DEF row
  <2>4. StaffTypeOK'
    BY <2>1, <2>2 DEF StaffInv, StaffTypeOK
  <2>5. \A e \in Departments : department'[e].enabled =>
           \E u \in department'[e].members : Capable(user[u], access', e)
    BY <2>1, <2>2, <2>3 DEF StaffInv, StaffTypeOK, Sound, StaffedWith
  <2> QED BY <1>1, <2>2, <2>4, <2>5
<1> QED BY <1>2, <1>3

LEMMA StaffStepOK ==
    ASSUME StaffInv, AccountStep \/ UNCHANGED staffVars
    PROVE  StaffInv'
<1>1. CASE UNCHANGED staffVars
  BY <1>1 DEF staffVars, StaffInv, StaffTypeOK, Sound, StaffedWith, AdminIn, UpdatePending,
     DeactivationPending, SoundWithout, OneAtWork
<1>2. CASE AccountStep
  BY <1>2, AccountActions, SessionActions, SettingActions DEF AccountStep
<1> QED BY <1>1, <1>2

(***************************************************************************)
(* The requests.  A pending request belongs to an enabled department; its  *)
(* first response, if any, is of its current cycle; the notice of a cycle  *)
(* is emitted when, and only when, the request is marked with it.          *)
(***************************************************************************)

RequestOK(t) ==
    /\ request[t].status = "NONE" => request[t] = NoRequest
    /\ Pending(request[t]) => /\ request[t].department \in Departments
                              /\ department[request[t].department].enabled
    /\ request[t].status # "NONE" => request[t].cycle \in Cycles /\ request[t].department \in Departments
    /\ request[t].status \in {"RESOLVED", "WAITING_FAMILY"} => request[t].first
    /\ request[t].first => answered[t] = request[t].cycle

NoticesOK(t) == \A c \in Cycles :
    /\ notices[t][c] \in {0, 1}
    /\ c > request[t].cycle => notices[t][c] = 0
    /\ c = request[t].cycle /\ request[t].notified # c => notices[t][c] = 0

DeskInv ==
    /\ StaffInv
    /\ TypeOK
    /\ \A t \in Requests : RequestOK(t) /\ NoticesOK(t)

LEMMA DeskInvInit == Init => DeskInv
<1> SUFFICES ASSUME Init PROVE DeskInv
  OBVIOUS
<1>1. StaffInv
  BY StaffInvInit DEF Init
<1>2. TypeOK
  BY <1>1, ServiceDeskAssumption
     DEF Init, TypeOK, StaffInv, NoRequest, RequestRows, Cycles
<1>3. \A t \in Requests : RequestOK(t) /\ NoticesOK(t)
  BY ServiceDeskAssumption DEF Init, RequestOK, NoticesOK, NoRequest, Pending, Cycles
<1> QED BY <1>1, <1>2, <1>3 DEF DeskInv

\* A step that leaves the requests alone, and keeps the departments of the
\* pending ones enabled.
LEMMA RequestsKept ==
    ASSUME DeskInv, StaffInv', UNCHANGED deskVars,
           \A t \in Requests : Pending(request[t]) => department'[request[t].department].enabled
    PROVE  DeskInv'
<1>1. TypeOK'
  BY DEF DeskInv, TypeOK, StaffInv, deskVars
<1>2. ASSUME NEW t \in Requests
      PROVE  RequestOK(t)' /\ NoticesOK(t)'
  BY DEF DeskInv, RequestOK, NoticesOK, deskVars, Pending
<1> QED BY <1>1, <1>2 DEF DeskInv

\* A step of one request.
LEMMA RequestChanges ==
    ASSUME DeskInv, UNCHANGED staffVars, NEW t \in Requests, NEW row \in RequestRows,
           request' = [request EXCEPT ![t] = row],
           NEW n \in 0..MaxCycles, answered' = [answered EXCEPT ![t] = n],
           NEW emitted \in [Cycles -> Nat], notices' = [notices EXCEPT ![t] = emitted],
           visit' \in [Sweeps -> SUBSET Requests],
           RequestOK(t)', NoticesOK(t)'
    PROVE  DeskInv'
<1>1. StaffInv'
  BY StaffStepOK DEF DeskInv
<1>2. TypeOK'
  BY <1>1 DEF DeskInv, TypeOK, StaffInv
<1>3. ASSUME NEW s \in Requests, s # t
      PROVE  RequestOK(s)' /\ NoticesOK(s)'
  <2>1. request'[s] = request[s] /\ answered'[s] = answered[s] /\ notices'[s] = notices[s]
    BY <1>3 DEF DeskInv, TypeOK
  <2> QED BY <2>1 DEF DeskInv, RequestOK, NoticesOK, Pending, staffVars
<1> QED BY <1>1, <1>2, <1>3 DEF DeskInv

\* A command of a person: the notices stay, and a new cycle has none yet.
LEMMA RequestBecomes ==
    ASSUME DeskInv, NEW t \in Requests, NEW row \in RequestRows, Becomes(t, row),
           NEW n \in 0..MaxCycles, answered' = [answered EXCEPT ![t] = n],
           row.status # "NONE", row.department \in Departments,
           Pending(row) => department[row.department].enabled,
           row.cycle \in Cycles,
           row.status \in {"RESOLVED", "WAITING_FAMILY"} => row.first,
           row.first => n = row.cycle,
           \/ row.cycle = request[t].cycle /\ row.notified = request[t].notified
           \/ row.cycle > request[t].cycle
    PROVE  DeskInv'
<1>1. request'[t] = row /\ answered'[t] = n /\ notices' = notices
      /\ request' = [request EXCEPT ![t] = row] /\ UNCHANGED staffVars /\ visit' = visit
  BY DEF DeskInv, TypeOK, Becomes, staffVars
<1>2. RequestOK(t)'
  BY <1>1 DEF RequestOK, Pending, staffVars
<1>3. NoticesOK(t) /\ request[t].cycle \in 0..MaxCycles
  BY DEF DeskInv, TypeOK, RequestRows
<1>4. NoticesOK(t)'
  BY <1>1, <1>3, ServiceDeskAssumption DEF NoticesOK, Cycles
<1>5. notices' = [notices EXCEPT ![t] = notices[t]] /\ notices[t] \in [Cycles -> Nat]
  BY <1>1 DEF DeskInv, TypeOK
<1>6. visit' \in [Sweeps -> SUBSET Requests]
  BY <1>1 DEF DeskInv, TypeOK
<1> QED BY <1>1, <1>2, <1>4, <1>5, <1>6, RequestChanges

\* The fields a command leaves as they are.
LEMMA RowFields ==
    ASSUME NEW r \in RequestRows,
           NEW status \in {"OPEN", "IN_PROGRESS", "WAITING_FAMILY", "RESOLVED", "CANCELLED"}
    PROVE  /\ [r EXCEPT !.status = status] \in RequestRows
           /\ [r EXCEPT !.status = status].status = status
           /\ [r EXCEPT !.status = status].department = r.department
           /\ [r EXCEPT !.status = status].cycle = r.cycle
           /\ [r EXCEPT !.status = status].first = r.first
           /\ [r EXCEPT !.status = status].notified = r.notified
BY DEF RequestRows

LEMMA RequestActions ==
    ASSUME DeskInv, NEW t \in Requests
    PROVE  RequestStep(t) => DeskInv'
<1>0. /\ request[t] \in RequestRows /\ answered[t] \in 0..MaxCycles
      /\ RequestOK(t) /\ NoticesOK(t) /\ TypeOK
  BY DEF DeskInv, TypeOK
<1>1. answered' = answered => answered' = [answered EXCEPT ![t] = answered[t]]
  BY <1>0 DEF TypeOK
<1>2. ASSUME NEW d \in Departments, CreateRequest(t, d)
      PROVE  DeskInv'
  <2> DEFINE row == [NoRequest EXCEPT !.status = "OPEN", !.department = d, !.cycle = 1]
  <2>1. NoRequest \in RequestRows /\ 1 \in Cycles /\ 1 \in 0..MaxCycles
        /\ NoRequest.first = FALSE
    BY ServiceDeskAssumption DEF NoRequest, RequestRows, Cycles
  <2>2. /\ row \in RequestRows /\ row.status = "OPEN" /\ row.department = d /\ row.cycle = 1
        /\ row.first = NoRequest.first
    BY <2>1 DEF RequestRows
  <2>3. request[t].cycle = 0
    BY <1>0, <1>2 DEF CreateRequest, RequestOK, NoRequest
  <2>4. department[d].enabled /\ Becomes(t, row) /\ answered' = answered
    BY <1>2 DEF CreateRequest, Available
  <2> HIDE DEF row
  <2> QED BY <1>0, <1>1, <2>1, <2>2, <2>3, <2>4, RequestBecomes DEF Pending
<1>3. ASSUME NEW d \in Departments, TransferRequest(t, d)
      PROVE  DeskInv'
  <2> DEFINE row == [request[t] EXCEPT !.department = d]
  <2>1. /\ row \in RequestRows /\ row.status = request[t].status /\ row.department = d
        /\ row.cycle = request[t].cycle /\ row.first = request[t].first
        /\ row.notified = request[t].notified
    BY <1>0 DEF RequestRows
  <2>2. department[d].enabled /\ Becomes(t, row) /\ answered' = answered /\ Pending(request[t])
    BY <1>3 DEF TransferRequest, Available
  <2> HIDE DEF row
  <2> QED BY <1>0, <1>1, <2>1, <2>2, RequestBecomes DEF Pending, RequestOK
<1>4. ASSUME NEW u \in Users, AddStaffMessage(t, u)
      PROVE  DeskInv'
  <2> DEFINE row == [request[t] EXCEPT !.status = "WAITING_FAMILY", !.first = TRUE]
  <2>1. /\ row \in RequestRows /\ row.status = "WAITING_FAMILY"
        /\ row.department = request[t].department
        /\ row.cycle = request[t].cycle /\ row.first = TRUE
        /\ row.notified = request[t].notified
    BY <1>0 DEF RequestRows
  <2>2. /\ Becomes(t, row) /\ Pending(request[t])
        /\ answered' = [answered EXCEPT ![t] = request[t].cycle]
    BY <1>4 DEF AddStaffMessage
  <2>3. request[t].cycle \in 0..MaxCycles
    BY <1>0 DEF RequestRows
  <2> HIDE DEF row
  <2> QED BY <1>0, <2>1, <2>2, <2>3, RequestBecomes DEF Pending, RequestOK
<1>5. ASSUME AddFamilyMessage(t)
      PROVE  DeskInv'
  <2> DEFINE row == [request[t] EXCEPT !.status = "IN_PROGRESS"]
  <2>1. Becomes(t, row) /\ Pending(request[t]) /\ answered' = answered
    BY <1>5 DEF AddFamilyMessage
  <2>2. /\ row \in RequestRows /\ row.status = "IN_PROGRESS"
        /\ row.department = request[t].department /\ row.cycle = request[t].cycle
        /\ row.first = request[t].first /\ row.notified = request[t].notified
    BY <1>0, RowFields
  <2> HIDE DEF row
  <2> QED BY <1>0, <1>1, <2>1, <2>2, RequestBecomes DEF Pending, RequestOK
<1>6. ASSUME NEW status \in {"IN_PROGRESS", "WAITING_FAMILY", "RESOLVED", "CANCELLED"},
             UpdateRequestStatus(t, status)
      PROVE  DeskInv'
  <2> DEFINE row == [request[t] EXCEPT !.status = status]
  <2>1. /\ Becomes(t, row) /\ Pending(request[t]) /\ answered' = answered
        /\ status \in {"RESOLVED", "WAITING_FAMILY"} => request[t].first
    BY <1>6 DEF UpdateRequestStatus
  <2>3. status \in {"OPEN", "IN_PROGRESS", "WAITING_FAMILY", "RESOLVED", "CANCELLED"}
    BY <1>6
  <2>2. /\ row \in RequestRows /\ row.status = status
        /\ row.department = request[t].department /\ row.cycle = request[t].cycle
        /\ row.first = request[t].first /\ row.notified = request[t].notified
    BY <1>0, <2>3, RowFields
  <2> HIDE DEF row
  <2> QED BY <1>0, <1>1, <2>1, <2>2, RequestBecomes DEF Pending, RequestOK
<1>7. ASSUME ReopenRequest(t)
      PROVE  DeskInv'
  <2> DEFINE row == Reopened(request[t])
  <2>1. /\ Becomes(t, row) /\ answered' = answered
        /\ request[t].status = "RESOLVED" /\ request[t].cycle < MaxCycles
        /\ department[request[t].department].enabled
    BY <1>7 DEF ReopenRequest, Available
  <2> DEFINE c == request[t].cycle + 1
  <2>2. c \in Cycles /\ c \in 0..MaxCycles /\ c > request[t].cycle
    BY <1>0, <2>1, ServiceDeskAssumption DEF RequestRows, Cycles
  <2> HIDE DEF c
  <2> DEFINE next == [request[t] EXCEPT !.cycle = c, !.status = "OPEN", !.late = FALSE,
                                        !.first = FALSE]
  <2>3. /\ next \in RequestRows /\ next.status = "OPEN" /\ next.cycle = c
        /\ next.department = request[t].department /\ next.first = FALSE
    BY <1>0, <2>2 DEF RequestRows
  <2>4. row = next
    BY DEF Reopened, c
  <2> HIDE DEF row, next
  <2> QED BY <1>0, <1>1, <2>1, <2>2, <2>3, <2>4, RequestBecomes DEF Pending, RequestOK
<1>8. ASSUME DeadlinePasses(t)
      PROVE  DeskInv'
  <2> DEFINE row == [request[t] EXCEPT !.late = TRUE]
  <2>1. /\ row \in RequestRows /\ row.status = request[t].status
        /\ row.department = request[t].department /\ row.cycle = request[t].cycle
        /\ row.first = request[t].first /\ row.notified = request[t].notified
    BY <1>0 DEF RequestRows
  <2>2. /\ request' = [request EXCEPT ![t] = row] /\ Pending(request[t])
        /\ UNCHANGED <<user, access, department, session, answered, notices, visit>>
    BY <1>8 DEF DeadlinePasses
  <2> HIDE DEF row
  <2>3. request'[t] = row
    BY <1>0, <2>2 DEF TypeOK
  <2>4. RequestOK(t)' /\ NoticesOK(t)'
    BY <1>0, <2>1, <2>2, <2>3 DEF RequestOK, NoticesOK, Pending
  <2>5. /\ notices' = [notices EXCEPT ![t] = notices[t]] /\ notices[t] \in [Cycles -> Nat]
        /\ visit' \in [Sweeps -> SUBSET Requests] /\ UNCHANGED staffVars
    BY <1>0, <2>2 DEF TypeOK, staffVars
  <2> QED BY <1>0, <1>1, <2>1, <2>2, <2>4, <2>5, RequestChanges
<1> QED BY <1>2, <1>3, <1>4, <1>5, <1>6, <1>7, <1>8 DEF RequestStep

LEMMA SweepActions ==
    ASSUME DeskInv, NEW w \in Sweeps
    PROVE  SweepStep(w) => DeskInv'
<1>0. TypeOK
  BY DEF DeskInv
<1>1. ASSUME SweepRequests(w)
      PROVE  DeskInv'
  <2>1. UNCHANGED staffVars /\ UNCHANGED <<request, answered, notices>>
    BY <1>1 DEF SweepRequests, staffVars
  <2>2. StaffInv'
    BY <2>1, StaffStepOK DEF DeskInv
  <2>3. visit' \in [Sweeps -> SUBSET Requests]
    BY <1>0, <1>1 DEF SweepRequests, OverdueIds, TypeOK
  <2>4. TypeOK'
    BY <1>0, <2>1, <2>2, <2>3 DEF TypeOK, StaffInv
  <2>5. \A t \in Requests : RequestOK(t)' /\ NoticesOK(t)'
    BY <2>1 DEF DeskInv, RequestOK, NoticesOK, Pending, staffVars
  <2> QED BY <2>2, <2>4, <2>5 DEF DeskInv
<1>2. ASSUME NEW t \in Requests, NotifyOverdue(w, t)
      PROVE  DeskInv'
  <2>0. /\ request[t] \in RequestRows /\ answered[t] \in 0..MaxCycles
        /\ RequestOK(t) /\ NoticesOK(t)
    BY DEF DeskInv, TypeOK
  <2>1. UNCHANGED staffVars /\ answered' = answered /\ visit' \in [Sweeps -> SUBSET Requests]
    BY <1>0, <1>2 DEF NotifyOverdue, staffVars, TypeOK
  <2>2. CASE ~NoticeDue(request[t])
    <3>1. request' = [request EXCEPT ![t] = request[t]] /\ notices' = [notices EXCEPT ![t] = notices[t]]
          /\ answered' = [answered EXCEPT ![t] = answered[t]] /\ notices[t] \in [Cycles -> Nat]
          /\ request' = request /\ notices' = notices
      BY <1>0, <1>2, <2>1, <2>2 DEF NotifyOverdue, TypeOK
    <3>2. RequestOK(t)' /\ NoticesOK(t)'
      BY <2>0, <2>1, <3>1 DEF RequestOK, NoticesOK, Pending, staffVars
    <3> QED BY <2>0, <2>1, <3>1, <3>2, RequestChanges
  <2>3. CASE NoticeDue(request[t])
    <3> DEFINE c == request[t].cycle
               row == [request[t] EXCEPT !.notified = c]
               emitted == [notices[t] EXCEPT ![c] = @ + 1]
    <3>1. Pending(request[t]) /\ request[t].notified # c
      BY <2>3 DEF NoticeDue, Overdue
    <3>2. c \in Cycles /\ c \in 0..MaxCycles
      BY <2>0, <3>1 DEF RequestOK, Pending, RequestRows
    <3>3. /\ row \in RequestRows /\ row.status = request[t].status
          /\ row.department = request[t].department /\ row.cycle = c
          /\ row.first = request[t].first /\ row.notified = c
      BY <2>0, <3>2 DEF RequestRows
    <3>4. notices[t] \in [Cycles -> Nat] /\ notices[t][c] = 0
      BY <1>0, <2>0, <3>1, <3>2 DEF TypeOK, NoticesOK
    <3>5. emitted \in [Cycles -> Nat] /\ emitted[c] = 1
          /\ \A x \in Cycles \ {c} : emitted[x] = notices[t][x]
      BY <3>2, <3>4
    <3>6. /\ request' = [request EXCEPT ![t] = row] /\ notices' = [notices EXCEPT ![t] = emitted]
          /\ answered' = [answered EXCEPT ![t] = answered[t]]
      BY <1>0, <1>2, <2>1, <2>3 DEF NotifyOverdue, TypeOK
    <3> HIDE DEF row, emitted
    <3>7. request'[t] = row /\ notices'[t] = emitted /\ answered'[t] = answered[t]
      BY <1>0, <3>6 DEF TypeOK
    <3>8. RequestOK(t)'
      BY <2>0, <2>1, <3>1, <3>2, <3>3, <3>7 DEF RequestOK, Pending, staffVars
    <3>9. NoticesOK(t)'
      BY <2>0, <3>2, <3>3, <3>5, <3>7 DEF NoticesOK, Cycles
    <3> QED BY <2>0, <2>1, <3>3, <3>5, <3>6, <3>8, <3>9, RequestChanges
  <2> QED BY <2>2, <2>3
<1> QED BY <1>1, <1>2 DEF SweepStep

LEMMA DeskInvNext ==
    ASSUME DeskInv, [Next]_vars
    PROVE  DeskInv'
<1>1. CASE UNCHANGED vars
  <2>1. UNCHANGED staffVars /\ UNCHANGED deskVars
    BY <1>1 DEF vars, staffVars, deskVars
  <2>2. StaffInv'
    BY <2>1, StaffStepOK DEF DeskInv
  <2> QED BY <2>1, <2>2, RequestsKept DEF DeskInv, RequestOK, staffVars
<1>2. CASE AccountStep /\ UNCHANGED deskVars
  <2>1. StaffInv'
    BY <1>2, StaffStepOK DEF DeskInv
  <2>2. department' = department
    BY <1>2 DEF AccountStep, CreateUser, CreateStaffUser, SendStaffInvitation, AcceptInvitation,
       RestoreUser, BeginUpdateUser, BeginDeactivateUser, CommitUpdateUser, CommitDeactivateUser,
       Rollback, UpdateAccessMatrix
  <2> QED BY <1>2, <2>1, <2>2, RequestsKept DEF DeskInv, RequestOK
<1>3. ASSUME NEW d \in Departments, NEW enabled \in BOOLEAN, NEW members \in SUBSET Users,
             ConfigureDepartment(d, enabled, members)
      PROVE  DeskInv'
  <2>1. UpdateDepartment(d, enabled, members, Busy(d)) /\ UNCHANGED deskVars
    BY <1>3 DEF ConfigureDepartment
  <2>2. StaffInv'
    BY <2>1, SettingActions DEF DeskInv
  <2>3. /\ department'[d].enabled = enabled
        /\ \A e \in Departments \ {d} : department'[e] = department[e]
        /\ ~enabled => ~Busy(d)
    BY <2>1 DEF UpdateDepartment, DeskInv, StaffInv, StaffTypeOK
  <2>4. \A t \in Requests : Pending(request[t]) => department'[request[t].department].enabled
    BY <2>3 DEF DeskInv, RequestOK, Busy
  <2> QED BY <2>1, <2>2, <2>4, RequestsKept
<1> QED BY <1>1, <1>2, <1>3, RequestActions, SweepActions DEF Next

\* However two administrators deactivate or demote each other, and whoever
\* accepts an invitation meanwhile, an administrator who can sign in remains
\* (lock_and_refresh_administrator, validate_user_change).
THEOREM SomebodyAdministers == Spec => []AdministratorRemains
<1>1. DeskInv => AdministratorRemains
  BY DEF DeskInv, StaffInv, Sound, AdminIn, CanSignIn, AdministratorRemains
<1> QED BY <1>1, DeskInvInit, DeskInvNext, PTL DEF Spec

\* No request is left without somebody who may attend it.
THEOREM RequestsAttended == Spec => [](EnabledDepartmentsStaffed /\ OpenRequestsAttended)
<1>1. DeskInv => EnabledDepartmentsStaffed
  BY DEF DeskInv, StaffInv, StaffTypeOK, Sound, StaffedWith, EnabledDepartmentsStaffed, Attendants
<1>2. DeskInv => OpenRequestsAttended
  BY <1>1 DEF DeskInv, RequestOK, OpenRequestsAttended, EnabledDepartmentsStaffed, Available
<1> QED BY <1>1, <1>2, DeskInvInit, DeskInvNext, PTL DEF Spec

\* A cycle is resolved on an answer of its own.
THEOREM ResolvedAnswered == Spec => []ResolvedWasAnswered
<1>1. DeskInv => ResolvedWasAnswered
  BY DEF DeskInv, RequestOK, ResolvedWasAnswered
<1> QED BY <1>1, DeskInvInit, DeskInvNext, PTL DEF Spec

\* However many sweeps overlap, a cycle has one overdue notice at most.
THEOREM OneOverdueNotice == Spec => []OverdueNoticedOnce
<1>1. DeskInv => OverdueNoticedOnce
  BY DEF DeskInv, NoticesOK, OverdueNoticedOnce
<1> QED BY <1>1, DeskInvInit, DeskInvNext, PTL DEF Spec

\* The tables of accounts, departments and requests keep their shape.
THEOREM DeskTypes == Spec => []TypeOK
<1>1. DeskInv => TypeOK
  BY DEF DeskInv
<1> QED BY <1>1, DeskInvInit, DeskInvNext, PTL DEF Spec
=============================================================================
