-------------------------- MODULE StorageMigration --------------------------
(***************************************************************************)
(* The upgrade of a session root in place: storage_runtime.rs audits the   *)
(* files, backs them up, writes a manifest, rewrites them one at a time    *)
(* and can put them back.  A manifest that a dead process left behind is   *)
(* undone before the bridge binds its port, and again by every storage     *)
(* call.                                                                   *)
(*                                                                         *)
(* A file is its schema and the number of the session write it holds; what *)
(* else is in it no step looks at.  The storage calls exclude each other   *)
(* by a file lock that is tried and never waited for, so one call is under *)
(* way at most (op); the turns of the running server write their files     *)
(* without taking that lock.                                               *)
(***************************************************************************)
EXTENDS Integers, FiniteSets

CONSTANTS StoredFiles,          \* the files the audit looks at
          Derived,        \* those it may find missing and creates
          Migrations,     \* ids of migrations, in the order they are created
          MaxCrashes,     \* bound: kills of the process
          MaxErrors,      \* bound: failed reads and writes
          MaxEdits        \* bound: session writes while the server is up

ASSUME MigrationAssumption ==
  /\ IsFiniteSet(StoredFiles) /\ Derived \subseteq StoredFiles
  /\ Migrations \subseteq Nat
  /\ MaxCrashes \in Nat /\ MaxErrors \in Nat /\ MaxEdits \in Nat

VARIABLES file,           \* what is on disk at each path
          backup,         \* the copies of each migration
          manifest,       \* the status on disk of each migration's manifest
          acts,           \* the files each migration rewrites
          origin,         \* ghost: those files when the migration was planned
          op,             \* the storage call under way
          up,             \* whether the bridge serves
          edits, crashes, errors,
          cut             \* ghost: an operator's rollback was cut short, or a
                          \* recovery passed over an incomplete migration

migrationVars == <<file, backup, manifest, acts, origin, op, up, edits, crashes, errors, cut>>

Schemas == {"absent", "legacy", "current", "future"}
Content == [schema : Schemas, edit : Nat]
Missing == [schema |-> "absent", edit |-> 0]
Kinds == {"start", "status", "migrate", "rollback"}
Stages == {"recover", "plan", "backup", "prepare", "applying", "apply",
           "write", "complete", "undo", "undo_failed", "undo_rollback"}
Statuses == {"none", "prepared", "applying", "completed", "failed_rolled_back", "rolled_back"}
Call == [kind : Kinds \cup {"none"}, stage : Stages \cup {"idle"}, m : Migrations \cup {0},
         skipped : SUBSET Migrations,
         todo : SUBSET StoredFiles, at : StoredFiles \cup {"none"}, buf : Content]
Idle == [kind |-> "none", stage |-> "idle", m |-> 0, skipped |-> {}, todo |-> {},
         at |-> "none", buf |-> Missing]

(* The start only looks for migrations that had not begun to rewrite.      *)
PreparedOnly == {m \in Migrations : manifest[m] = "prepared"}

Incomplete == {m \in Migrations : manifest[m] \in {"prepared", "applying"}}
Completed == {m \in Migrations : manifest[m] = "completed"}
Planned == {m \in Migrations : acts[m] # {}}
Fresh(m) == \A n \in Planned : n < m
Found == Incomplete \ op.skipped
Oldest(m) == \A n \in Found : m <= n
Newest(m) == m \in Planned /\ \A n \in Planned : n <= m

(* audit_storage: what has to be rewritten, and what stops the migration.  *)
Outdated == {f \in StoredFiles : file[f].schema \in {"legacy", "absent"}}
Blocked == \E f \in StoredFiles : file[f].schema = "future"

MigrationTypeOK ==
  /\ file \in [StoredFiles -> Content]
  /\ backup \in [Migrations -> [StoredFiles -> Content]]
  /\ manifest \in [Migrations -> Statuses]
  /\ acts \in [Migrations -> SUBSET StoredFiles]
  /\ origin \in [Migrations -> [StoredFiles -> Content]]
  /\ op \in Call
  /\ up \in BOOLEAN
  /\ edits \in 0..MaxEdits /\ crashes \in 0..MaxCrashes /\ errors \in 0..MaxErrors
  /\ cut \in BOOLEAN

MigrationInit ==
  /\ file \in {g \in [StoredFiles -> {[schema |-> s, edit |-> 0] : s \in Schemas}] :
                 \A f \in StoredFiles : g[f] = Missing => f \in Derived}
  /\ backup = [m \in Migrations |-> [f \in StoredFiles |-> Missing]]
  /\ manifest = [m \in Migrations |-> "none"]
  /\ acts = [m \in Migrations |-> {}]
  /\ origin = [m \in Migrations |-> [f \in StoredFiles |-> Missing]]
  /\ op = Idle /\ up = FALSE
  /\ edits = 0 /\ crashes = 0 /\ errors = 0 /\ cut = FALSE

-----------------------------------------------------------------------------
Keep == UNCHANGED <<edits, crashes, cut>>
NoError == UNCHANGED errors
Error == /\ errors < MaxErrors
         /\ errors' = errors + 1

(* recover_storage_before_start and the first lines of every storage call: *)
(* take the lock, then undo what is incomplete.  The manifests are listed  *)
(* once, and one that cannot be read or parsed, or a directory that cannot *)
(* be listed, is passed over without an error: the recovery then knows     *)
(* nothing of that migration (migration_manifests).                        *)
BeginCall(kind) ==
  /\ op = Idle
  /\ up = (kind # "start")
  /\ kind = "migrate" => \E m \in Migrations : Fresh(m)
  /\ \E skipped \in SUBSET Incomplete :
       /\ op' = [Idle EXCEPT !.kind = kind, !.stage = "recover", !.skipped = skipped]
       /\ IF skipped = {} THEN NoError ELSE Error
       /\ cut' = (cut \/ skipped # {})
  /\ UNCHANGED <<file, backup, manifest, acts, origin, up, edits, crashes>>

Undoing(stage, m) ==
  [kind |-> op.kind, stage |-> stage, m |-> m, skipped |-> op.skipped, todo |-> acts[m],
   at |-> "none", buf |-> Missing]

RecoverNext ==
  /\ op.stage = "recover"
  /\ \E m \in Found : Oldest(m) /\ op' = Undoing("undo", m)
  /\ UNCHANGED <<file, backup, manifest, acts, origin, up>> /\ NoError /\ Keep

(* With nothing left to recover the call gets to its own business.         *)
Recovered ==
  /\ op.stage = "recover" /\ Found = {}
  /\ \/ /\ op.kind \in {"start", "status"}
        /\ op' = Idle /\ up' = TRUE
     \/ /\ op.kind = "migrate"
        /\ op' = [op EXCEPT !.stage = "plan"] /\ UNCHANGED up
     \/ /\ op.kind = "rollback"
        /\ \/ \E m \in Completed : op' = Undoing("undo_rollback", m)
           \/ op' = Idle
        /\ UNCHANGED up
  /\ UNCHANGED <<file, backup, manifest, acts, origin>> /\ NoError /\ Keep

(* storage_migrate_payload: refuse, find nothing to do, or set out.        *)
Plan ==
  /\ op.stage = "plan"
  /\ \/ /\ Blocked \/ Outdated = {}
        /\ op' = Idle
        /\ UNCHANGED <<acts, origin>>
     \/ /\ ~Blocked /\ Outdated # {}
        /\ \E m \in Migrations :
             /\ Fresh(m)
             /\ acts' = [acts EXCEPT ![m] = Outdated]
             /\ origin' = [origin EXCEPT ![m] = file]
             /\ op' = [op EXCEPT !.stage = "backup", !.m = m, !.todo = Outdated]
  /\ UNCHANGED <<file, backup, manifest, up>> /\ NoError /\ Keep

(* backup_migration_files: a missing source leaves no copy.                *)
Backup ==
  /\ op.stage = "backup"
  /\ \/ \E f \in op.todo :
          /\ backup' = [backup EXCEPT ![op.m][f] = file[f]]
          /\ op' = [op EXCEPT !.todo = @ \ {f}]
     \/ /\ op.todo = {}
        /\ op' = [op EXCEPT !.stage = "prepare"]
        /\ UNCHANGED backup
  /\ UNCHANGED <<file, manifest, acts, origin, up>> /\ NoError /\ Keep

(* The manifest is written before the copies are made.                     *)
PrepareFirst ==
  /\ op.stage \in {"backup", "prepare"}
  /\ manifest' = [manifest EXCEPT ![op.m] = "prepared"]
  /\ op' = [op EXCEPT !.stage = "applying"]
  /\ UNCHANGED <<file, backup, acts, origin, up>> /\ NoError /\ Keep

Prepare ==
  /\ op.stage = "prepare"
  /\ manifest' = [manifest EXCEPT ![op.m] = "prepared"]
  /\ op' = [op EXCEPT !.stage = "applying"]
  /\ UNCHANGED <<file, backup, acts, origin, up>> /\ NoError /\ Keep

(* The manifest says completed before the files are rewritten.             *)
MarkCompleted ==
  /\ op.stage = "applying"
  /\ manifest' = [manifest EXCEPT ![op.m] = "completed"]
  /\ op' = [op EXCEPT !.stage = "apply", !.todo = acts[op.m]]
  /\ UNCHANGED <<file, backup, acts, origin, up>> /\ NoError /\ Keep

MarkApplying ==
  /\ op.stage = "applying"
  /\ manifest' = [manifest EXCEPT ![op.m] = "applying"]
  /\ op' = [op EXCEPT !.stage = "apply", !.todo = acts[op.m]]
  /\ UNCHANGED <<file, backup, acts, origin, up>> /\ NoError /\ Keep

(* apply_migration_actions reads a file, then renames the new one over it. *)
ApplyRead ==
  /\ op.stage = "apply"
  /\ \E f \in op.todo :
       op' = [op EXCEPT !.stage = "write", !.todo = @ \ {f}, !.at = f, !.buf = file[f]]
  /\ UNCHANGED <<file, backup, manifest, acts, origin, up>> /\ NoError /\ Keep

ApplyWrite ==
  /\ op.stage = "write"
  /\ file' = [file EXCEPT ![op.at] = [schema |-> "current", edit |-> op.buf.edit]]
  /\ op' = [op EXCEPT !.stage = "apply", !.at = "none", !.buf = Missing]
  /\ UNCHANGED <<backup, manifest, acts, origin, up>> /\ NoError /\ Keep

(* The audit after the last action; anything left over undoes it all.      *)
Validate ==
  /\ op.stage = "apply" /\ op.todo = {}
  /\ op' = IF Blocked \/ Outdated # {} THEN Undoing("undo_failed", op.m)
           ELSE [op EXCEPT !.stage = "complete"]
  /\ UNCHANGED <<file, backup, manifest, acts, origin, up>> /\ NoError /\ Keep

Complete ==
  /\ op.stage = "complete"
  /\ manifest' = [manifest EXCEPT ![op.m] = "completed"]
  /\ op' = Idle
  /\ UNCHANGED <<file, backup, acts, origin, up>> /\ NoError /\ Keep

(* restore_migration_files: the copy is put back; where there is none, the *)
(* file the migration created is removed.                                  *)
Undo ==
  /\ op.stage \in {"undo", "undo_failed", "undo_rollback"}
  /\ \E f \in op.todo :
       /\ file' = [file EXCEPT ![f] = backup[op.m][f]]
       /\ op' = [op EXCEPT !.todo = @ \ {f}]
  /\ UNCHANGED <<backup, manifest, acts, origin, up>> /\ NoError /\ Keep

(* The manifest says the files are back before they are.                   *)
UndoneFirst ==
  /\ op.stage \in {"undo", "undo_failed", "undo_rollback"}
  /\ manifest' = [manifest EXCEPT ![op.m] =
                    IF op.stage = "undo_rollback" THEN "rolled_back" ELSE "failed_rolled_back"]
  /\ op' = IF op.stage = "undo" THEN [op EXCEPT !.stage = "recover", !.m = 0] ELSE Idle
  /\ UNCHANGED <<file, backup, acts, origin, up>> /\ NoError /\ Keep

(* The undo of an interrupted migration is not recorded.                   *)
UndoneUnwritten ==
  /\ op.stage \in {"undo", "undo_failed", "undo_rollback"} /\ op.todo = {}
  /\ op' = IF op.stage = "undo" THEN [op EXCEPT !.stage = "recover", !.m = 0] ELSE Idle
  /\ UNCHANGED <<file, backup, manifest, acts, origin, up>> /\ NoError /\ Keep

(* The status the recovery reports goes into the manifest, too.            *)
UndoneAsReported ==
  /\ op.stage \in {"undo", "undo_failed", "undo_rollback"} /\ op.todo = {}
  /\ manifest' = [manifest EXCEPT ![op.m] = "migration_interrupted"]
  /\ op' = IF op.stage = "undo" THEN [op EXCEPT !.stage = "recover", !.m = 0] ELSE Idle
  /\ UNCHANGED <<file, backup, acts, origin, up>> /\ NoError /\ Keep

Undone ==
  /\ op.stage \in {"undo", "undo_failed", "undo_rollback"} /\ op.todo = {}
  /\ manifest' = [manifest EXCEPT ![op.m] =
                    IF op.stage = "undo_rollback" THEN "rolled_back" ELSE "failed_rolled_back"]
  /\ op' = IF op.stage = "undo" THEN [op EXCEPT !.stage = "recover", !.m = 0] ELSE Idle
  /\ UNCHANGED <<file, backup, acts, origin, up>> /\ NoError /\ Keep

(* A read or a write fails.  While the actions are applied the originals   *)
(* are put back; anywhere else the call is given up where it stands, and a *)
(* start that is given up never binds the port.                            *)
Fails ==
  /\ op # Idle /\ op.stage # "recover"
  /\ Error
  /\ op' = IF op.stage = "write" \/ (op.stage = "apply" /\ op.todo # {})
           THEN Undoing("undo_failed", op.m)
           ELSE Idle
  /\ cut' = (cut \/ op.stage = "undo_rollback")
  /\ UNCHANGED <<file, backup, manifest, acts, origin, up, edits, crashes>>

(* A turn of the running server saves its session, in the current schema.  *)
SessionSave(f) ==
  /\ up /\ edits < MaxEdits /\ file[f].schema # "future"
  /\ edits' = edits + 1
  /\ file' = [file EXCEPT ![f] = [schema |-> "current", edit |-> edits + 1]]
  /\ UNCHANGED <<backup, manifest, acts, origin, op, up, crashes, errors, cut>>

(* The process is killed; the operating system drops its lock.             *)
MigrationCrash ==
  /\ up \/ op # Idle
  /\ crashes < MaxCrashes
  /\ crashes' = crashes + 1
  /\ op' = Idle /\ up' = FALSE
  /\ cut' = (cut \/ op.stage = "undo_rollback")
  /\ UNCHANGED <<file, backup, manifest, acts, origin, edits, errors>>

MigrationStep == \/ RecoverNext \/ Recovered \/ Plan \/ Backup \/ Prepare \/ MarkApplying
        \/ ApplyRead \/ ApplyWrite \/ Validate \/ Complete \/ Undo \/ Undone

MigrationNext == \/ \E kind \in Kinds : BeginCall(kind)
        \/ MigrationStep \/ Fails \/ MigrationCrash
        \/ \E f \in StoredFiles : SessionSave(f)

MigrationSpec == MigrationInit /\ [][MigrationNext]_migrationVars

(* A call that has begun goes on until it ends, and whoever runs the       *)
(* bridge starts it again when it is down.                                 *)
MigrationFairSpec == MigrationSpec /\ WF_migrationVars(MigrationStep) /\ WF_migrationVars(BeginCall("start"))

-----------------------------------------------------------------------------
AtRest == up /\ op = Idle
Upgraded(m) == \A f \in acts[m] : file[f].schema = "current"
Back(m, f) == file[f] = origin[m][f] \/ file[f].edit > origin[m][f].edit
Original(m) == \A f \in acts[m] : Back(m, f)
Saved(m, f) == backup[m][f] = origin[m][f] \/ backup[m][f].edit > origin[m][f].edit

(* operations.md says of a completed migration that the upgraded files are *)
(* kept.  When no call is under way, the files of the newest migration, if *)
(* it completed, are all upgraded: no crash, failed write or undo of an    *)
(* earlier attempt leaves some of them behind, unless an operator's        *)
(* rollback was itself cut short, or a recovery passed over a migration it *)
(* could not read: undone later, that one puts its files back underneath.  *)
CompletedIsUpgraded ==
  AtRest /\ ~cut => \A m \in Completed : Newest(m) => Upgraded(m)

(* A migration that reports it failed, or was rolled back, has put every   *)
(* file back as it was planned, whatever was done to it and however many   *)
(* times the process died meanwhile; only a session may have written since *)
(* (with the same two exceptions).                                         *)
RestoredIsOriginal ==
  AtRest /\ ~cut => \A m \in Migrations :
    Newest(m) /\ manifest[m] \in {"failed_rolled_back", "rolled_back"} => Original(m)

(* operations.md: a bridge fails closed rather than serve a root it cannot *)
(* restore.  Whenever it goes up, the files of the newest migration are    *)
(* all upgraded or all as they were, but for what a session wrote since.   *)
(* That holds of the kills and failed reads and writes whose error reaches *)
(* the start; the code does not fail closed on a manifest it cannot read:  *)
(* the recovery passes over it and the bridge serves the half-upgraded     *)
(* root, which is why a run that passed over one (cut) is left out.        *)
Whole == \A m \in Migrations : Newest(m) => Upgraded(m) \/ Original(m)
StartsWhole == [][~up /\ up' /\ ~cut => Whole']_migrationVars

(* Nothing is rewritten before the copies that undo it exist: a file       *)
(* changes under a migration only if its copy is what it held, or a        *)
(* session wrote it in between.                                            *)
CopyBeforeRewrite == \A m \in Incomplete : \A f \in acts[m] : Saved(m, f)

(* What the manifests say of the files is true of them: completed is       *)
(* upgraded, undone is as it was, and in between there is a way back.      *)
FilesAreWhole == CompletedIsUpgraded /\ RestoredIsOriginal /\ CopyBeforeRewrite

(* However it was interrupted, the bridge comes up again: recovery makes   *)
(* progress even when it is itself interrupted, as long as crashes and     *)
(* failed writes end.                                                      *)
RecoveryEnds == Incomplete # {} /\ ~up ~> up
=============================================================================
