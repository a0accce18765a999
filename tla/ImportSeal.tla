----------------------------- MODULE ImportSeal -----------------------------
(***************************************************************************)
(* Assisted import of students, guardians and their links, and the seal    *)
(* that makes it undoable only while nobody has used it                    *)
(* (src/students/import_services.py, import_usage_services.py).            *)
(*                                                                         *)
(* A batch is imported as a whole, may be undone as a whole while it is    *)
(* IMPORTED, and is SEALED by the first command that uses or changes one   *)
(* of its records.  Every such command seals inside its own transaction,   *)
(* so a session is followed from its first unlocked read, through the row  *)
(* locks it takes one by one, to its commit or rollback.                   *)
(***************************************************************************)
EXTENDS Integers, FiniteSets

CONSTANTS
    Batches,    \* source keys; batch rows are locked in increasing order
    Records,    \* students, guardians and links the files describe
    Origin,     \* Origin[r]: the batch a record comes from
    Sessions,   \* database sessions
    MaxVersion  \* bound on the versions of a record

ASSUME ImportAssumption ==
    /\ Batches \subseteq Nat
    /\ Origin \in [Records -> Batches]
    /\ MaxVersion \in Nat

VARIABLES
    batch,      \* status of each batch
    record,     \* row of each record
    manifest,   \* versions a batch noted of its records
    contested,  \* records whose CPF or e-mail another record has taken
    lock,       \* session that holds the row of a batch, or NoSession
    command     \* command each session is running

importVars == <<batch, record, manifest, contested, lock, command>>

NoSession == "none"

ASSUME SessionsAssumption == NoSession \notin Sessions

Row == [version : Nat, active : BOOLEAN, used : BOOLEAN]
Absent == [version |-> 0, active |-> FALSE, used |-> FALSE]

Owned(b) == {r \in Records : Origin[r] = b}
Exists(r) == batch[Origin[r]] # "NONE"

\* Naming a link names its student and guardian too: they come from the batch of
\* the link, or were sealed when the link was made, so they add no batch here.
Unsealed(targets) == {b \in {Origin[r] : r \in targets} : batch[b] # "SEALED"}

\* A command that names records: create a dependent row, edit, soft-delete, restore.
Kinds == {"USE", "EDIT", "DEACTIVATE", "RESTORE"}
Idle == [step |-> "IDLE", kind |-> "USE", targets |-> {}, todo |-> {}]
Commands == [step : {"IDLE", "SEALING", "READY", "IMPORTING", "UNDOING", "RECOVERING"},
             kind : Kinds, targets : SUBSET Records, todo : SUBSET Batches]

ImportInit ==
    /\ batch = [b \in Batches |-> "NONE"]
    /\ record = [r \in Records |-> Absent]
    /\ manifest = [r \in Records |-> [version |-> 0, reverted |-> 0]]
    /\ contested = {}
    /\ lock = [b \in Batches |-> NoSession]
    /\ command = [k \in Sessions |-> Idle]

Release(k) ==
    /\ lock' = [b \in Batches |-> IF lock[b] = k THEN NoSession ELSE lock[b]]
    /\ command' = [command EXCEPT ![k] = Idle]

\* A refusal anywhere rolls the transaction back: locks go, nothing else changes.
Rollback(k) ==
    /\ command[k].step # "IDLE"
    /\ Release(k)
    /\ UNCHANGED <<batch, record, manifest, contested>>

-----------------------------------------------------------------------------
(* import_batch                                                            *)

\* The unique source key makes a second insert wait for the first one.
BeginImport(k, b) ==
    /\ command[k].step = "IDLE"
    /\ batch[b] = "NONE" /\ lock[b] = NoSession
    /\ lock' = [lock EXCEPT ![b] = k]
    /\ command' = [command EXCEPT ![k] = [Idle EXCEPT !.step = "IMPORTING"]]
    /\ UNCHANGED <<batch, record, manifest, contested>>

\* All rows, the manifest of their versions and the batch appear together.  (A new
\* row has version 0 in its table and 1 here, where 0 is that of an absent row.)
CommitImport(k, b) ==
    /\ command[k].step = "IMPORTING" /\ lock[b] = k
    /\ batch' = [batch EXCEPT ![b] = "IMPORTED"]
    /\ record' = [r \in Records |->
                    IF r \in Owned(b) THEN [version |-> 1, active |-> TRUE, used |-> FALSE]
                    ELSE record[r]]
    /\ manifest' = [r \in Records |->
                      IF r \in Owned(b) THEN [manifest[r] EXCEPT !.version = 1] ELSE manifest[r]]
    /\ Release(k)
    /\ UNCHANGED contested

-----------------------------------------------------------------------------
(* seal_for_use, and the command that called it                            *)

\* Unlocked: origins never change, and batches already sealed are skipped.
BeginCommand(k, kind, targets) ==
    /\ command[k].step = "IDLE"
    /\ \A r \in targets : Exists(r)
    /\ command' = [command EXCEPT ![k] =
                     [step |-> "SEALING", kind |-> kind,
                      targets |-> targets, todo |-> Unsealed(targets)]]
    /\ UNCHANGED <<batch, record, manifest, contested, lock>>

\* Slip: the status read before the lock decides.
LockBatchUnread(k, b) ==
    /\ command[k].step = "SEALING"
    /\ b \in command[k].todo
    /\ \A other \in command[k].todo : b <= other
    /\ lock[b] = NoSession
    /\ lock' = [lock EXCEPT ![b] = k]
    /\ command' = [command EXCEPT ![k].todo = @ \ {b}]
    /\ UNCHANGED <<batch, record, manifest, contested>>

\* Locks the next batch in order and re-reads it; a REVERTED one is refused (Rollback).
LockBatch(k, b) ==
    /\ command[k].step = "SEALING"
    /\ b \in command[k].todo
    /\ \A other \in command[k].todo : b <= other
    /\ lock[b] = NoSession
    /\ batch[b] # "REVERTED"
    /\ lock' = [lock EXCEPT ![b] = k]
    /\ command' = [command EXCEPT ![k].todo = @ \ {b}]
    /\ UNCHANGED <<batch, record, manifest, contested>>

\* With every batch held, records must be active; only restore_student waives it.
CheckActive(k) ==
    /\ command[k].step = "SEALING" /\ command[k].todo = {}
    /\ command[k].kind # "RESTORE" =>
         \A r \in command[k].targets : record[r].active
    /\ command' = [command EXCEPT ![k].step = "READY"]
    /\ UNCHANGED <<batch, record, manifest, contested, lock>>

\* What the command does to a record it names; versions and rows move together.
Effect(kind, row) ==
    [version |-> IF kind = "USE" THEN row.version ELSE row.version + 1,
     active |-> kind # "DEACTIVATE" /\ (row.active \/ kind = "RESTORE"),
     used |-> row.used \/ kind = "USE"]

\* An edit reads the row again and needs it active, a recovery deactivated.
CommitCommand(k) ==
    /\ command[k].step = "READY"
    /\ \A r \in command[k].targets :
         /\ command[k].kind # "USE" => record[r].active = (command[k].kind # "RESTORE")
         /\ record[r].version < MaxVersion
    /\ record' = [r \in Records |->
                    IF r \in command[k].targets
                    THEN Effect(command[k].kind, record[r]) ELSE record[r]]
    /\ batch' = [b \in Batches |->
                   IF lock[b] = k /\ batch[b] = "IMPORTED" THEN "SEALED" ELSE batch[b]]
    /\ Release(k)
    /\ UNCHANGED <<manifest, contested>>

-----------------------------------------------------------------------------
(* deactivate_batch and restore_batch                                      *)

Untouched(b) ==
    \A r \in Owned(b) :
        record[r].active /\ ~record[r].used /\ record[r].version = manifest[r].version

Withdrawn(b) ==
    \A r \in Owned(b) :
        ~record[r].active /\ ~record[r].used /\ record[r].version = manifest[r].reverted

\* Locks the batch, requires IMPORTED, then reads versions and dependents.
BeginUndo(k, b) ==
    /\ command[k].step = "IDLE"
    /\ lock[b] = NoSession
    /\ batch[b] = "IMPORTED" /\ Untouched(b)
    /\ lock' = [lock EXCEPT ![b] = k]
    /\ command' = [command EXCEPT ![k] = [Idle EXCEPT !.step = "UNDOING"]]
    /\ UNCHANGED <<batch, record, manifest, contested>>

\* Soft-deletes the rows and notes the versions that a recovery will require.
CommitUndo(k, b) ==
    /\ command[k].step = "UNDOING" /\ lock[b] = k
    /\ \A r \in Owned(b) : record[r].version < MaxVersion
    /\ record' = [r \in Records |->
                    IF r \in Owned(b) THEN Effect("DEACTIVATE", record[r]) ELSE record[r]]
    /\ manifest' = [r \in Records |->
                      IF r \in Owned(b)
                      THEN [manifest[r] EXCEPT !.reverted = record[r].version + 1]
                      ELSE manifest[r]]
    /\ batch' = [batch EXCEPT ![b] = "REVERTED"]
    /\ Release(k)
    /\ UNCHANGED contested

BeginRecovery(k, b) ==
    /\ command[k].step = "IDLE"
    /\ lock[b] = NoSession
    /\ batch[b] = "REVERTED" /\ Withdrawn(b)
    /\ contested \cap Owned(b) = {}
    /\ lock' = [lock EXCEPT ![b] = k]
    /\ command' = [command EXCEPT ![k] = [Idle EXCEPT !.step = "RECOVERING"]]
    /\ UNCHANGED <<batch, record, manifest, contested>>

\* The recovered batch is sealed: it cannot be undone a second time.
CommitRecovery(k, b) ==
    /\ command[k].step = "RECOVERING" /\ lock[b] = k
    /\ \A r \in Owned(b) : record[r].version < MaxVersion
    /\ record' = [r \in Records |->
                    IF r \in Owned(b) THEN Effect("RESTORE", record[r]) ELSE record[r]]
    /\ batch' = [batch EXCEPT ![b] = "SEALED"]
    /\ Release(k)
    /\ UNCHANGED <<manifest, contested>>

\* create_student or create_guardian, without a batch, under the identity of a
\* withdrawn record: uniqueness only looks at active ones, and only recovery asks.
RegisterSubstitute(r) ==
    /\ batch[Origin[r]] = "REVERTED" /\ r \notin contested
    /\ contested' = contested \cup {r}
    /\ UNCHANGED <<batch, record, manifest, lock, command>>

-----------------------------------------------------------------------------
\* link_student, reenrollment and an announcement name several records; edits, one.
Selections(kind) == IF kind = "USE" THEN {{r, s} : r, s \in Records} ELSE {{r} : r \in Records}

ImportNext ==
    \/ \E k \in Sessions :
         \/ \E b \in Batches :
              \/ BeginImport(k, b) \/ CommitImport(k, b)
              \/ LockBatch(k, b)
              \/ BeginUndo(k, b) \/ CommitUndo(k, b)
              \/ BeginRecovery(k, b) \/ CommitRecovery(k, b)
         \/ \E kind \in Kinds : \E targets \in Selections(kind) : BeginCommand(k, kind, targets)
         \/ CheckActive(k) \/ CommitCommand(k)
         \/ Rollback(k)
    \/ \E r \in Records : RegisterSubstitute(r)

ImportSpec == ImportInit /\ [][ImportNext]_importVars

-----------------------------------------------------------------------------
(* Properties                                                              *)

ImportTypeOK ==
    /\ batch \in [Batches -> {"NONE", "IMPORTED", "SEALED", "REVERTED"}]
    /\ record \in [Records -> Row]
    /\ manifest \in [Records -> [version : Nat, reverted : Nat]]
    /\ contested \subseteq Records
    /\ lock \in [Batches -> Sessions \cup {NoSession}]
    /\ command \in [Sessions -> Commands]

\* A batch that may still be undone is exactly as it was imported: no session,
\* however it interleaves, changes a record or hangs something on it without
\* sealing its batch; so undo loses no work and is never refused in vain.
ImportedIsUntouched == \A b \in Batches : batch[b] = "IMPORTED" => Untouched(b)

\* Of an undone batch nothing is active, nothing refers to it and no version
\* moved since: a command that was already under way when the undo won cannot
\* reach its records, and recovery still finds what it noted.
UndoneIsWithdrawn == \A b \in Batches : batch[b] = "REVERTED" => Withdrawn(b)

\* Both halves of what the seal promises, whatever commands, undo and recovery
\* overlap: undo takes back an import and nothing else.
UndoTakesOnlyTheImport == ImportedIsUntouched /\ UndoneIsWithdrawn
=============================================================================
