-------------------------- MODULE ImportSealProofs --------------------------
(***************************************************************************)
(* Why the undo of an import takes back the import and nothing else        *)
(* (module ImportSeal), for any batches, records and sessions.             *)
(*                                                                         *)
(* What a session read under the lock of a batch stays true while it keeps *)
(* the lock, and each record a command names is, until the command commits,*)
(* of a sealed batch, of one it holds, or of one it has still to lock      *)
(* (SessionOK).  So no commit touches the records of an IMPORTED or a      *)
(* REVERTED batch except the undo and the import of that batch.            *)
(***************************************************************************)
EXTENDS ImportSeal, TLAPS

Covered(k, r) ==
    \/ batch[Origin[r]] = "SEALED"
    \/ lock[Origin[r]] = k
    \/ command[k].step = "SEALING" /\ Origin[r] \in command[k].todo

\* What a session relies on, by the step it has reached.
SessionOK(k) ==
    /\ \A b \in Batches : lock[b] = k =>
         /\ command[k].step # "IDLE"
         /\ command[k].step = "IMPORTING" => batch[b] = "NONE"
         /\ command[k].step = "UNDOING" => batch[b] = "IMPORTED"
         /\ command[k].step = "RECOVERING" => batch[b] = "REVERTED"
         /\ command[k].step \in {"SEALING", "READY"} => batch[b] \in {"IMPORTED", "SEALED"}
    /\ command[k].step \in {"SEALING", "READY"} =>
         \A r \in command[k].targets : batch[Origin[r]] # "NONE" /\ Covered(k, r)
    /\ command[k].step = "SEALING" => \A b \in command[k].todo : batch[b] # "NONE"

SealInv ==
    /\ ImportTypeOK
    /\ \A k \in Sessions : SessionOK(k)
    /\ ImportedIsUntouched
    /\ UndoneIsWithdrawn

\* Only the session that holds a batch changes it, and nothing leaves SEALED.
OnlyHeld(k) ==
    \A b \in Batches :
        /\ batch'[b] # batch[b] => lock[b] = k /\ batch[b] # "SEALED" /\ batch'[b] # "NONE"
        /\ lock'[b] # lock[b] => lock[b] = k \/ (lock[b] = NoSession /\ lock'[b] = k)
        /\ lock'[b] # lock[b] /\ lock[b] = k => lock'[b] = NoSession

-----------------------------------------------------------------------------
(* Types                                                                   *)

LEMMA EffectType ==
    ASSUME NEW kind \in Kinds, NEW row \in Row
    PROVE  Effect(kind, row) \in Row
BY DEF Effect, Row

LEMMA TypeInit == ImportInit => ImportTypeOK
BY ImportAssumption DEF ImportInit, ImportTypeOK, Row, Absent, Idle, Commands, Kinds, NoSession

LEMMA ReleaseType ==
    ASSUME ImportTypeOK, NEW k \in Sessions, Release(k)
    PROVE  /\ lock' \in [Batches -> Sessions \cup {NoSession}]
           /\ command' \in [Sessions -> Commands]
BY DEF ImportTypeOK, Release, Idle, Commands, Kinds

LEMMA TypeStep ==
    ASSUME ImportTypeOK, [ImportNext]_importVars
    PROVE  ImportTypeOK'
<1> USE ImportAssumption
<1>1. CASE UNCHANGED importVars
  BY <1>1 DEF importVars, ImportTypeOK
<1>2. ASSUME NEW r \in Records, RegisterSubstitute(r)
      PROVE  ImportTypeOK'
  BY <1>2 DEF RegisterSubstitute, ImportTypeOK
<1>3. ASSUME NEW k \in Sessions, NEW b \in Batches, BeginImport(k, b)
      PROVE  ImportTypeOK'
  <2>1. command'[k] \in Commands
    BY <1>3 DEF BeginImport, ImportTypeOK, Idle, Commands, Kinds
  <2> QED BY <1>3, <2>1 DEF BeginImport, ImportTypeOK
<1>4. ASSUME NEW k \in Sessions, NEW b \in Batches, CommitImport(k, b)
      PROVE  ImportTypeOK'
  <2>1. record' \in [Records -> Row]
    BY <1>4 DEF CommitImport, ImportTypeOK, Row
  <2>2. manifest' \in [Records -> [version : Nat, reverted : Nat]]
    BY <1>4 DEF CommitImport, ImportTypeOK
  <2> QED BY <1>4, <2>1, <2>2, ReleaseType DEF CommitImport, ImportTypeOK
<1>5. ASSUME NEW k \in Sessions, NEW b \in Batches, LockBatch(k, b)
      PROVE  ImportTypeOK'
  <2>1. command' \in [Sessions -> Commands]
    BY <1>5 DEF LockBatch, ImportTypeOK, Commands
  <2> QED BY <1>5, <2>1 DEF LockBatch, ImportTypeOK
<1>6. ASSUME NEW k \in Sessions, NEW b \in Batches, BeginUndo(k, b)
      PROVE  ImportTypeOK'
  <2>1. command'[k] \in Commands
    BY <1>6 DEF BeginUndo, ImportTypeOK, Idle, Commands, Kinds
  <2> QED BY <1>6, <2>1 DEF BeginUndo, ImportTypeOK
<1>7. ASSUME NEW k \in Sessions, NEW b \in Batches, CommitUndo(k, b)
      PROVE  ImportTypeOK'
  <2>1. record' \in [Records -> Row]
    BY <1>7, EffectType DEF CommitUndo, ImportTypeOK, Kinds
  <2>2. manifest' \in [Records -> [version : Nat, reverted : Nat]]
    BY <1>7 DEF CommitUndo, ImportTypeOK, Row
  <2> QED BY <1>7, <2>1, <2>2, ReleaseType DEF CommitUndo, ImportTypeOK
<1>8. ASSUME NEW k \in Sessions, NEW b \in Batches, BeginRecovery(k, b)
      PROVE  ImportTypeOK'
  <2>1. command'[k] \in Commands
    BY <1>8 DEF BeginRecovery, ImportTypeOK, Idle, Commands, Kinds
  <2> QED BY <1>8, <2>1 DEF BeginRecovery, ImportTypeOK
<1>9. ASSUME NEW k \in Sessions, NEW b \in Batches, CommitRecovery(k, b)
      PROVE  ImportTypeOK'
  <2>1. record' \in [Records -> Row]
    BY <1>9, EffectType DEF CommitRecovery, ImportTypeOK, Kinds
  <2> QED BY <1>9, <2>1, ReleaseType DEF CommitRecovery, ImportTypeOK
<1>10. ASSUME NEW k \in Sessions, NEW kind \in Kinds, NEW targets \in Selections(kind),
              BeginCommand(k, kind, targets)
       PROVE  ImportTypeOK'
  <2>1. targets \subseteq Records
    BY DEF Selections
  <2>2. Unsealed(targets) \subseteq Batches
    BY <2>1 DEF Unsealed
  <2>3. command' \in [Sessions -> Commands]
    BY <1>10, <2>1, <2>2 DEF BeginCommand, ImportTypeOK, Commands
  <2> QED BY <1>10, <2>3 DEF BeginCommand, ImportTypeOK
<1>11. ASSUME NEW k \in Sessions, CheckActive(k)
       PROVE  ImportTypeOK'
  <2>1. command' \in [Sessions -> Commands]
    BY <1>11 DEF CheckActive, ImportTypeOK, Commands
  <2> QED BY <1>11, <2>1 DEF CheckActive, ImportTypeOK
<1>12. ASSUME NEW k \in Sessions, CommitCommand(k)
       PROVE  ImportTypeOK'
  <2>1. command[k].kind \in Kinds
    BY DEF ImportTypeOK, Commands
  <2>2. record' \in [Records -> Row]
    BY <1>12, <2>1, EffectType DEF CommitCommand, ImportTypeOK
  <2>3. batch' \in [Batches -> {"NONE", "IMPORTED", "SEALED", "REVERTED"}]
    BY <1>12 DEF CommitCommand, ImportTypeOK
  <2> QED BY <1>12, <2>2, <2>3, ReleaseType DEF CommitCommand, ImportTypeOK
<1>13. ASSUME NEW k \in Sessions, Rollback(k)
       PROVE  ImportTypeOK'
  BY <1>13, ReleaseType DEF Rollback, ImportTypeOK
<1> QED BY <1>1, <1>2, <1>3, <1>4, <1>5, <1>6, <1>7, <1>8, <1>9, <1>10, <1>11, <1>12, <1>13
        DEF ImportNext

-----------------------------------------------------------------------------
(* What a session relies on                                                *)

\* A step of one session leaves alone what another relies on.
LEMMA OthersOK ==
    ASSUME ImportTypeOK, NEW k \in Sessions, NEW j \in Sessions, j # k,
           SessionOK(j), OnlyHeld(k), command'[j] = command[j]
    PROVE  SessionOK(j)'
<1> USE SessionsAssumption, ImportAssumption
<1>1. \A b \in Batches : lock[b] = j \/ lock'[b] = j =>
        lock'[b] = lock[b] /\ batch'[b] = batch[b]
  BY DEF OnlyHeld
<1>2. \A b \in Batches : /\ batch[b] = "SEALED" => batch'[b] = "SEALED"
                         /\ batch[b] # "NONE" => batch'[b] # "NONE"
  BY DEF OnlyHeld
<1>3. ASSUME NEW b \in Batches, lock'[b] = j
      PROVE  /\ command'[j].step # "IDLE"
             /\ command'[j].step = "IMPORTING" => batch'[b] = "NONE"
             /\ command'[j].step = "UNDOING" => batch'[b] = "IMPORTED"
             /\ command'[j].step = "RECOVERING" => batch'[b] = "REVERTED"
             /\ command'[j].step \in {"SEALING", "READY"} => batch'[b] \in {"IMPORTED", "SEALED"}
  <2>1. lock[b] = j /\ batch'[b] = batch[b]
    BY <1>1, <1>3
  <2> QED BY <2>1 DEF SessionOK
<1>4. ASSUME command'[j].step \in {"SEALING", "READY"}, NEW r \in command'[j].targets
      PROVE  batch'[Origin[r]] # "NONE" /\ Covered(j, r)'
  <2>1. Origin[r] \in Batches
    BY <1>4 DEF ImportTypeOK, Commands
  <2>2. batch[Origin[r]] # "NONE" /\ Covered(j, r)
    BY <1>4 DEF SessionOK
  <2>3. batch'[Origin[r]] # "NONE"
    BY <1>2, <2>1, <2>2
  <2>4. CASE batch[Origin[r]] = "SEALED"
    BY <1>2, <2>1, <2>3, <2>4 DEF Covered
  <2>5. CASE lock[Origin[r]] = j
    BY <1>1, <2>1, <2>3, <2>5 DEF Covered
  <2>6. CASE command[j].step = "SEALING" /\ Origin[r] \in command[j].todo
    BY <2>3, <2>6 DEF Covered
  <2> QED BY <2>2, <2>4, <2>5, <2>6 DEF Covered
<1>5. ASSUME command'[j].step = "SEALING", NEW b \in command'[j].todo
      PROVE  batch'[b] # "NONE"
  BY <1>2, <1>5 DEF SessionOK, ImportTypeOK, Commands
<1> QED BY <1>3, <1>4, <1>5 DEF SessionOK

\* After a release a session relies on nothing.
LEMMA ReleasedOK ==
    ASSUME ImportTypeOK, NEW k \in Sessions, Release(k)
    PROVE  SessionOK(k)'
<1>1. command'[k].step = "IDLE"
  BY DEF Release, ImportTypeOK, Idle
<1>2. \A b \in Batches : lock'[b] # k
  BY SessionsAssumption DEF Release, NoSession
<1> QED BY <1>1, <1>2 DEF SessionOK

LEMMA ReleasedLocks ==
    ASSUME NEW k \in Sessions, Release(k)
    PROVE  \A b \in Batches : lock'[b] # lock[b] => lock[b] = k /\ lock'[b] = NoSession
<1>1. \A b \in Batches : lock'[b] = IF lock[b] = k THEN NoSession ELSE lock[b]
  BY DEF Release
<1> QED BY <1>1

LEMMA SessionInit == ImportInit => \A k \in Sessions : SessionOK(k)
BY SessionsAssumption DEF ImportInit, SessionOK, Idle

LEMMA SessionStep ==
    ASSUME SealInv, [ImportNext]_importVars, NEW j \in Sessions
    PROVE  SessionOK(j)'
<1> USE SessionsAssumption, ImportAssumption
<1>0. ImportTypeOK /\ SessionOK(j)
  BY DEF SealInv
<1>1. CASE UNCHANGED importVars
  BY <1>0, <1>1 DEF importVars, SessionOK, Covered
<1>2. ASSUME NEW r \in Records, RegisterSubstitute(r)
      PROVE  SessionOK(j)'
  BY <1>0, <1>2 DEF RegisterSubstitute, SessionOK, Covered
<1>3. ASSUME NEW k \in Sessions, NEW b \in Batches, BeginImport(k, b)
      PROVE  SessionOK(j)'
  <2>1. OnlyHeld(k)
    BY <1>0, <1>3 DEF BeginImport, OnlyHeld, ImportTypeOK
  <2>2. CASE j # k
    BY <1>0, <1>3, <2>1, <2>2, OthersOK DEF BeginImport, ImportTypeOK
  <2>3. CASE j = k
    <3>1. command'[j].step = "IMPORTING"
      BY <1>0, <1>3, <2>3 DEF BeginImport, ImportTypeOK, Idle
    <3>2. \A c \in Batches : lock'[c] = j => c = b
      BY <1>0, <1>3, <2>3 DEF BeginImport, ImportTypeOK, SessionOK
    <3> QED BY <1>3, <3>1, <3>2 DEF BeginImport, SessionOK
  <2> QED BY <2>2, <2>3
<1>4. ASSUME NEW k \in Sessions, NEW b \in Batches, CommitImport(k, b)
      PROVE  SessionOK(j)'
  <2>0. batch[b] = "NONE"
    BY <1>4 DEF CommitImport, SealInv, SessionOK
  <2>1. OnlyHeld(k)
    BY <1>0, <1>4, <2>0, ReleasedLocks DEF CommitImport, OnlyHeld, ImportTypeOK
  <2>2. CASE j # k
    BY <1>0, <1>4, <2>1, <2>2, OthersOK DEF CommitImport, Release, ImportTypeOK
  <2> QED BY <1>0, <1>4, <2>2, ReleasedOK DEF CommitImport
<1>5. ASSUME NEW k \in Sessions, NEW kind \in Kinds, NEW targets \in Selections(kind),
             BeginCommand(k, kind, targets)
      PROVE  SessionOK(j)'
  <2>1. OnlyHeld(k)
    BY <1>0, <1>5 DEF BeginCommand, OnlyHeld, ImportTypeOK
  <2>2. CASE j # k
    BY <1>0, <1>5, <2>1, <2>2, OthersOK DEF BeginCommand, ImportTypeOK
  <2>3. CASE j = k
    <3>1. command'[j] = [step |-> "SEALING", kind |-> kind,
                         targets |-> targets, todo |-> Unsealed(targets)]
      BY <1>0, <1>5, <2>3 DEF BeginCommand, ImportTypeOK
    <3>2. \A c \in Batches : lock'[c] # j
      BY <1>0, <1>5, <2>3 DEF BeginCommand, SessionOK
    <3>3. \A r \in targets : batch'[Origin[r]] # "NONE" /\ Covered(j, r)'
      BY <1>5, <3>1 DEF BeginCommand, Exists, Unsealed, Covered
    <3>4. \A c \in Unsealed(targets) : batch'[c] # "NONE"
      BY <1>5 DEF BeginCommand, Exists, Unsealed
    <3> QED BY <3>1, <3>2, <3>3, <3>4 DEF SessionOK
  <2> QED BY <2>2, <2>3
<1>6. ASSUME NEW k \in Sessions, NEW b \in Batches, LockBatch(k, b)
      PROVE  SessionOK(j)'
  <2>1. OnlyHeld(k)
    BY <1>0, <1>6 DEF LockBatch, OnlyHeld, ImportTypeOK
  <2>2. CASE j # k
    BY <1>0, <1>6, <2>1, <2>2, OthersOK DEF LockBatch, ImportTypeOK
  <2>3. CASE j = k
    <3>1. /\ command'[j].step = "SEALING"
          /\ command'[j].targets = command[j].targets
          /\ command'[j].todo = command[j].todo \ {b}
      BY <1>0, <1>6, <2>3 DEF LockBatch, ImportTypeOK, Commands
    <3>2. command[j].step = "SEALING" /\ b \in command[j].todo
      BY <1>6, <2>3 DEF LockBatch
    <3>3. \A r \in command[j].targets : batch[Origin[r]] # "NONE" /\ Covered(j, r)
      BY <1>0, <3>2 DEF SessionOK
    <3>4. \A c \in Batches : lock'[c] = j => lock[c] = j \/ c = b
      BY <1>0, <1>6, <2>3 DEF LockBatch, ImportTypeOK
    <3>5. lock'[b] = j /\ \A c \in Batches : lock[c] = j => lock'[c] = j
      BY <1>0, <1>6, <2>3 DEF LockBatch, ImportTypeOK
    <3>6. /\ batch' = batch
          /\ batch[b] \in {"IMPORTED", "SEALED"}
      BY <1>0, <1>6, <3>2 DEF LockBatch, ImportTypeOK, SessionOK
    <3>7. \A c \in Batches : lock'[c] = j => batch'[c] \in {"IMPORTED", "SEALED"}
      BY <1>0, <3>2, <3>4, <3>6 DEF SessionOK
    <3>8. \A r \in command'[j].targets : batch'[Origin[r]] # "NONE" /\ Covered(j, r)'
      <4> TAKE r \in command'[j].targets
      <4>1. r \in command[j].targets /\ Origin[r] \in Batches
        BY <1>0, <3>1 DEF ImportTypeOK, Commands
      <4>2. batch[Origin[r]] # "NONE" /\ Covered(j, r)
        BY <3>3, <4>1
      <4> QED BY <3>1, <3>2, <3>5, <3>6, <4>1, <4>2 DEF Covered
    <3>9. \A c \in command'[j].todo : batch'[c] # "NONE"
      BY <1>0, <3>1, <3>2, <3>6 DEF SessionOK
    <3> QED BY <3>1, <3>7, <3>8, <3>9 DEF SessionOK
  <2> QED BY <2>2, <2>3
<1>7. ASSUME NEW k \in Sessions, CheckActive(k)
      PROVE  SessionOK(j)'
  <2>1. OnlyHeld(k)
    BY <1>0, <1>7 DEF CheckActive, OnlyHeld, ImportTypeOK
  <2>2. CASE j # k
    BY <1>0, <1>7, <2>1, <2>2, OthersOK DEF CheckActive, ImportTypeOK
  <2>3. CASE j = k
    <3>1. /\ command'[j].step = "READY"
          /\ command'[j].targets = command[j].targets
      BY <1>0, <1>7, <2>3 DEF CheckActive, ImportTypeOK, Commands
    <3>2. /\ command[j].step = "SEALING" /\ command[j].todo = {}
          /\ batch' = batch /\ lock' = lock
      BY <1>7, <2>3 DEF CheckActive
    <3> QED BY <1>0, <3>1, <3>2 DEF SessionOK, Covered
  <2> QED BY <2>2, <2>3
<1>8. ASSUME NEW k \in Sessions, CommitCommand(k)
      PROVE  SessionOK(j)'
  <2>1. OnlyHeld(k)
    BY <1>0, <1>8, ReleasedLocks DEF CommitCommand, OnlyHeld, ImportTypeOK
  <2>2. CASE j # k
    BY <1>0, <1>8, <2>1, <2>2, OthersOK DEF CommitCommand, Release, ImportTypeOK
  <2> QED BY <1>0, <1>8, <2>2, ReleasedOK DEF CommitCommand
<1>9. ASSUME NEW k \in Sessions, Rollback(k)
      PROVE  SessionOK(j)'
  <2>1. OnlyHeld(k)
    BY <1>0, <1>9, ReleasedLocks DEF Rollback, OnlyHeld, ImportTypeOK
  <2>2. CASE j # k
    BY <1>0, <1>9, <2>1, <2>2, OthersOK DEF Rollback, Release, ImportTypeOK
  <2> QED BY <1>0, <1>9, <2>2, ReleasedOK DEF Rollback
<1>10. ASSUME NEW k \in Sessions, NEW b \in Batches, BeginUndo(k, b)
       PROVE  SessionOK(j)'
  <2>1. OnlyHeld(k)
    BY <1>0, <1>10 DEF BeginUndo, OnlyHeld, ImportTypeOK
  <2>2. CASE j # k
    BY <1>0, <1>10, <2>1, <2>2, OthersOK DEF BeginUndo, ImportTypeOK
  <2>3. CASE j = k
    <3>1. command'[j].step = "UNDOING"
      BY <1>0, <1>10, <2>3 DEF BeginUndo, ImportTypeOK, Idle
    <3>2. \A c \in Batches : lock'[c] = j => c = b
      BY <1>0, <1>10, <2>3 DEF BeginUndo, ImportTypeOK, SessionOK
    <3> QED BY <1>10, <3>1, <3>2 DEF BeginUndo, SessionOK
  <2> QED BY <2>2, <2>3
<1>11. ASSUME NEW k \in Sessions, NEW b \in Batches, CommitUndo(k, b)
       PROVE  SessionOK(j)'
  <2>0. batch[b] = "IMPORTED"
    BY <1>11 DEF CommitUndo, SealInv, SessionOK
  <2>1. OnlyHeld(k)
    BY <1>0, <1>11, <2>0, ReleasedLocks DEF CommitUndo, OnlyHeld, ImportTypeOK
  <2>2. CASE j # k
    BY <1>0, <1>11, <2>1, <2>2, OthersOK DEF CommitUndo, Release, ImportTypeOK
  <2> QED BY <1>0, <1>11, <2>2, ReleasedOK DEF CommitUndo
<1>12. ASSUME NEW k \in Sessions, NEW b \in Batches, BeginRecovery(k, b)
       PROVE  SessionOK(j)'
  <2>1. OnlyHeld(k)
    BY <1>0, <1>12 DEF BeginRecovery, OnlyHeld, ImportTypeOK
  <2>2. CASE j # k
    BY <1>0, <1>12, <2>1, <2>2, OthersOK DEF BeginRecovery, ImportTypeOK
  <2>3. CASE j = k
    <3>1. command'[j].step = "RECOVERING"
      BY <1>0, <1>12, <2>3 DEF BeginRecovery, ImportTypeOK, Idle
    <3>2. \A c \in Batches : lock'[c] = j => c = b
      BY <1>0, <1>12, <2>3 DEF BeginRecovery, ImportTypeOK, SessionOK
    <3> QED BY <1>12, <3>1, <3>2 DEF BeginRecovery, SessionOK
  <2> QED BY <2>2, <2>3
<1>13. ASSUME NEW k \in Sessions, NEW b \in Batches, CommitRecovery(k, b)
       PROVE  SessionOK(j)'
  <2>0. batch[b] = "REVERTED"
    BY <1>13 DEF CommitRecovery, SealInv, SessionOK
  <2>1. OnlyHeld(k)
    BY <1>0, <1>13, <2>0, ReleasedLocks DEF CommitRecovery, OnlyHeld, ImportTypeOK
  <2>2. CASE j # k
    BY <1>0, <1>13, <2>1, <2>2, OthersOK DEF CommitRecovery, Release, ImportTypeOK
  <2> QED BY <1>0, <1>13, <2>2, ReleasedOK DEF CommitRecovery
<1> QED BY <1>1, <1>2, <1>3, <1>4, <1>5, <1>6, <1>7, <1>8, <1>9, <1>10, <1>11, <1>12, <1>13
        DEF ImportNext

-----------------------------------------------------------------------------
(* What the seal promises                                                  *)

\* A commit that leaves the records of a batch, their manifest and its status
\* alone keeps both halves for it.
LEMMA BatchKept ==
    ASSUME NEW b \in Batches, batch'[b] = batch[b],
           \A r \in Owned(b) : record'[r] = record[r] /\ manifest'[r] = manifest[r],
           batch[b] = "IMPORTED" => Untouched(b),
           batch[b] = "REVERTED" => Withdrawn(b)
    PROVE  /\ batch'[b] = "IMPORTED" => Untouched(b)'
           /\ batch'[b] = "REVERTED" => Withdrawn(b)'
BY DEF Untouched, Withdrawn, Owned

LEMMA PromiseStep ==
    ASSUME SealInv, [ImportNext]_importVars
    PROVE  ImportedIsUntouched' /\ UndoneIsWithdrawn'
<1> USE ImportAssumption
<1> SUFFICES ASSUME NEW c \in Batches
             PROVE  /\ batch'[c] = "IMPORTED" => Untouched(c)'
                    /\ batch'[c] = "REVERTED" => Withdrawn(c)'
  BY DEF ImportedIsUntouched, UndoneIsWithdrawn
<1>0. /\ ImportTypeOK
      /\ batch[c] = "IMPORTED" => Untouched(c)
      /\ batch[c] = "REVERTED" => Withdrawn(c)
  BY DEF SealInv, ImportedIsUntouched, UndoneIsWithdrawn
<1>1. ASSUME UNCHANGED <<batch, record, manifest>>
      PROVE  /\ batch'[c] = "IMPORTED" => Untouched(c)'
             /\ batch'[c] = "REVERTED" => Withdrawn(c)'
  BY <1>0, <1>1, BatchKept
<1>2. ASSUME NEW k \in Sessions, NEW b \in Batches, CommitImport(k, b)
      PROVE  /\ batch'[c] = "IMPORTED" => Untouched(c)'
             /\ batch'[c] = "REVERTED" => Withdrawn(c)'
  <2>1. CASE c # b
    BY <1>0, <1>2, <2>1, BatchKept DEF CommitImport, ImportTypeOK, Owned
  <2>2. CASE c = b
    <3>1. batch'[c] = "IMPORTED"
      BY <1>0, <1>2, <2>2 DEF CommitImport, ImportTypeOK
    <3>2. ASSUME NEW r \in Owned(c)
          PROVE  record'[r] = [version |-> 1, active |-> TRUE, used |-> FALSE]
                 /\ manifest'[r].version = 1
      BY <1>0, <1>2, <2>2 DEF CommitImport, ImportTypeOK, Owned
    <3> QED BY <3>1, <3>2 DEF Untouched, Owned
  <2> QED BY <2>1, <2>2
<1>3. ASSUME NEW k \in Sessions, CommitCommand(k)
      PROVE  /\ batch'[c] = "IMPORTED" => Untouched(c)'
             /\ batch'[c] = "REVERTED" => Withdrawn(c)'
  <2>1. CASE batch'[c] \notin {"IMPORTED", "REVERTED"}
    BY <2>1
  <2>2. CASE batch'[c] \in {"IMPORTED", "REVERTED"}
    <3>1. /\ batch'[c] = batch[c]
          /\ batch[c] # "SEALED"
          /\ lock[c] = k => batch[c] = "REVERTED"
      BY <1>0, <1>3, <2>2 DEF CommitCommand, ImportTypeOK
    <3>2. SessionOK(k) /\ command[k].step = "READY"
      BY <1>3 DEF SealInv, CommitCommand
    <3>3. lock[c] # k
      BY <3>1, <3>2 DEF SessionOK
    <3>4. \A r \in command[k].targets : Origin[r] # c
      BY <3>1, <3>2, <3>3 DEF SessionOK, Covered
    <3>5. \A r \in Owned(c) : record'[r] = record[r] /\ manifest'[r] = manifest[r]
      BY <1>3, <3>4 DEF CommitCommand, Owned
    <3> QED BY <1>0, <3>1, <3>5, BatchKept
  <2> QED BY <2>1, <2>2
<1>4. ASSUME NEW k \in Sessions, NEW b \in Batches, CommitUndo(k, b)
      PROVE  /\ batch'[c] = "IMPORTED" => Untouched(c)'
             /\ batch'[c] = "REVERTED" => Withdrawn(c)'
  <2>1. CASE c # b
    BY <1>0, <1>4, <2>1, BatchKept DEF CommitUndo, ImportTypeOK, Owned
  <2>2. CASE c = b
    <3>1. batch'[c] = "REVERTED" /\ batch[c] = "IMPORTED"
      BY <1>0, <1>4, <2>2 DEF CommitUndo, ImportTypeOK, SealInv, SessionOK
    <3>2. Untouched(c)
      BY <1>0, <3>1
    <3>3. ASSUME NEW r \in Owned(c)
          PROVE  /\ record'[r].active = FALSE
                 /\ record'[r].used = FALSE
                 /\ record'[r].version = manifest'[r].reverted
      BY <1>0, <1>4, <2>2, <3>2 DEF CommitUndo, ImportTypeOK, Owned, Untouched, Effect, Row
    <3> QED BY <3>1, <3>3 DEF Withdrawn, Owned
  <2> QED BY <2>1, <2>2
<1>5. ASSUME NEW k \in Sessions, NEW b \in Batches, CommitRecovery(k, b)
      PROVE  /\ batch'[c] = "IMPORTED" => Untouched(c)'
             /\ batch'[c] = "REVERTED" => Withdrawn(c)'
  <2>1. CASE c # b
    BY <1>0, <1>5, <2>1, BatchKept DEF CommitRecovery, ImportTypeOK, Owned
  <2>2. CASE c = b
    BY <1>0, <1>5, <2>2 DEF CommitRecovery, ImportTypeOK
  <2> QED BY <2>1, <2>2
<1>6. ASSUME NEW k \in Sessions, NEW b \in Batches,
             BeginImport(k, b) \/ LockBatch(k, b) \/ BeginUndo(k, b) \/ BeginRecovery(k, b)
      PROVE  UNCHANGED <<batch, record, manifest>>
  BY <1>6 DEF BeginImport, LockBatch, BeginUndo, BeginRecovery
<1>7. ASSUME NEW k \in Sessions, NEW kind \in Kinds, NEW targets \in Selections(kind),
             BeginCommand(k, kind, targets)
      PROVE  UNCHANGED <<batch, record, manifest>>
  BY <1>7 DEF BeginCommand
<1>8. ASSUME NEW k \in Sessions, CheckActive(k) \/ Rollback(k)
      PROVE  UNCHANGED <<batch, record, manifest>>
  BY <1>8 DEF CheckActive, Rollback
<1>9. ASSUME NEW r \in Records, RegisterSubstitute(r)
      PROVE  UNCHANGED <<batch, record, manifest>>
  BY <1>9 DEF RegisterSubstitute
<1>10. ASSUME UNCHANGED importVars
       PROVE  UNCHANGED <<batch, record, manifest>>
  BY <1>10 DEF importVars
<1> QED BY <1>1, <1>2, <1>3, <1>4, <1>5, <1>6, <1>7, <1>8, <1>9, <1>10 DEF ImportNext

-----------------------------------------------------------------------------
(* Theorems                                                                *)

\* The inductive invariant: what every session relies on holds, with both halves
\* of the promise.
THEOREM SealInvariant == ImportSpec => []SealInv
<1>1. ImportInit => SealInv
  BY TypeInit, SessionInit
     DEF SealInv, ImportInit, ImportedIsUntouched, UndoneIsWithdrawn
<1>2. SealInv /\ [ImportNext]_importVars => SealInv'
  <2> SUFFICES ASSUME SealInv, [ImportNext]_importVars PROVE SealInv'
    OBVIOUS
  <2>1. ImportTypeOK'
    BY TypeStep DEF SealInv
  <2>2. \A j \in Sessions : SessionOK(j)'
    BY SessionStep
  <2> QED BY <2>1, <2>2, PromiseStep DEF SealInv
<1> QED BY <1>1, <1>2, PTL DEF ImportSpec

\* Undo takes back an import and nothing else, for any files, any overlap of
\* commands that name any number of their records, of undo and of recovery.
THEOREM OnlyTheImport == ImportSpec => []UndoTakesOnlyTheImport
<1>1. SealInv => UndoTakesOnlyTheImport
  BY DEF SealInv, UndoTakesOnlyTheImport
<1> QED BY <1>1, SealInvariant, PTL
=============================================================================
