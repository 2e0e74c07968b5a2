---------------------------- MODULE StoresProofs ----------------------------
(***************************************************************************)
(* Theorems about stores of the HTTP runtime: its migrations, for any set  *)
(* of files, any number of migrations, crashes, failed writes and session  *)
(* writes; its subagent tasks, for any number of client threads, requests, *)
(* run ids and kills of the runtime; and its effect receipts, for any      *)
(* number of runners, heartbeats, effects and results: a tool call runs at *)
(* most once, every answer is the result of that run, and EffectReceipts   *)
(* implements AtMostOnceEffect.                                            *)
(***************************************************************************)
EXTENDS MCStores, FiniteSetTheorems, TLAPS

-----------------------------------------------------------------------------
(* The migration of the stored files.                                      *)

Working == {"backup", "prepare", "applying", "apply", "write", "complete", "undo_failed"}
Restoring == {"undo", "undo_failed", "undo_rollback"}
AllCurrent == \A f \in StoredFiles : file[f].schema = "current"

\* The numbers of session writes never run ahead of their counter.
EditsBounded ==
  /\ \A f \in StoredFiles : file[f].edit <= edits
  /\ \A m \in Migrations : \A f \in StoredFiles :
       origin[m][f].edit <= edits /\ backup[m][f].edit <= edits
  /\ op.buf.edit <= edits

\* A manifest belongs to a planned migration whose copies all exist.
ManifestsAreBacked ==
  \A m \in Migrations : manifest[m] # "none" =>
    m \in Planned /\ \A f \in acts[m] : Saved(m, f)

\* Only the newest migration can be incomplete, unless a recovery passed over
\* an older one.
IncompleteIsNewest == ~cut => \A m \in Incomplete : Newest(m)

\* What the call under way works on.
CallKnows ==
  /\ op.stage \in Working \cup Restoring => op.m \in Planned /\ op.todo \subseteq acts[op.m]
  /\ op.stage \in Working => Newest(op.m)
  /\ op.stage = "write" => op.at \in StoredFiles
  /\ op.stage \in {"plan", "backup", "prepare", "undo_rollback"} /\ ~cut =>
       Incomplete = {}
  /\ op.stage \in {"backup", "prepare"} => manifest[op.m] = "none" /\ Original(op.m)
  /\ op.stage = "applying" => manifest[op.m] = "prepared"
  /\ op.stage \in {"apply", "write", "complete", "undo_failed"} => manifest[op.m] = "applying"
  /\ op.stage = "undo" => op.m \in Incomplete
  /\ op.stage = "undo_rollback" => manifest[op.m] = "completed"
  /\ op.stage \in {"recover", "undo"} /\ ~cut => op.skipped = {}

\* How far the copies, the rewriting and the restoring have come.
CallProgress ==
  /\ op.stage = "backup" => \A f \in acts[op.m] \ op.todo : Saved(op.m, f)
  /\ op.stage = "prepare" => \A f \in acts[op.m] : Saved(op.m, f)
  /\ op.stage = "complete" => AllCurrent
  /\ op.stage \in Restoring => \A f \in acts[op.m] \ op.todo : Back(op.m, f)

\* Unless an operator's rollback was cut short or a recovery passed over a
\* migration, a completed one is the newest and left nothing outdated behind.
CompletedIsLast ==
  ~cut => \A m \in Completed : Newest(m) /\ (op.stage # "undo_rollback" => AllCurrent)

\* With the same exceptions, the newest migration, when it has not begun or
\* was undone, left the files as they were.
NewestIsOriginal ==
  ~cut => \A m \in Migrations :
    Newest(m) /\ manifest[m] \in {"none", "failed_rolled_back", "rolled_back"} => Original(m)

MigrationInv ==
  /\ MigrationTypeOK
  /\ EditsBounded
  /\ ManifestsAreBacked
  /\ IncompleteIsNewest
  /\ CallKnows
  /\ CallProgress
  /\ CompletedIsLast
  /\ NewestIsOriginal
-----------------------------------------------------------------------------
LEMMA NewestUnique ==
  ASSUME NEW m \in Migrations, NEW n \in Migrations, Newest(m), Newest(n)
  PROVE  m = n
  BY MigrationAssumption DEF Newest

\* The calls a step may leave behind.
LEMMA IdleIsCall == Idle \in Call /\ Idle.buf = Missing /\ Missing \in Content
  BY DEF Call, Idle, Missing, Content, Schemas, Kinds, Stages

LEMMA UndoingIsCall ==
  ASSUME MigrationTypeOK, NEW m \in Migrations, NEW s \in Restoring
  PROVE  Undoing(s, m) \in Call /\ Undoing(s, m).buf = Missing
  BY DEF MigrationTypeOK, Undoing, Restoring, Call, Idle, Missing, Content, Schemas,
         Kinds, Stages

\* What holds of the files and manifests goes on to hold when a step leaves
\* them alone.
LEMMA DiskUnchanged ==
  ASSUME MigrationInv, UNCHANGED <<file, backup, manifest, acts, origin>>, cut => cut'
  PROVE  ManifestsAreBacked' /\ IncompleteIsNewest' /\ NewestIsOriginal'
<1>1. ManifestsAreBacked'
  BY DEF MigrationInv, ManifestsAreBacked, Planned, Saved
<1>2. IncompleteIsNewest'
  BY DEF MigrationInv, IncompleteIsNewest, Newest, Planned, Incomplete
<1>3. NewestIsOriginal'
  BY DEF MigrationInv, NewestIsOriginal, Newest, Planned, Original, Back
<1> QED
  BY <1>1, <1>2, <1>3

\* A call that does not copy, rewrite or save leaves the numbers in order.
LEMMA EditsUnchanged ==
  ASSUME MigrationInv, UNCHANGED <<file, backup, origin, edits>>,
         op'.buf = op.buf \/ op'.buf = Missing
  PROVE  EditsBounded'
  BY DEF MigrationInv, MigrationTypeOK, EditsBounded, Missing

\* A call that gives up, or ends, owes nothing.
LEMMA IdleKnows ==
  ASSUME MigrationInv, op' = Idle
  PROVE  CallKnows' /\ CallProgress'
  BY DEF MigrationInv, CallKnows, CallProgress, Idle, Working, Restoring

LEMMA InitMigrationInv == MigrationInit => MigrationInv
<1> SUFFICES ASSUME MigrationInit PROVE MigrationInv
  OBVIOUS
<1>0. /\ manifest = [m \in Migrations |-> "none"]
      /\ acts = [m \in Migrations |-> {}]
      /\ backup = [m \in Migrations |-> [f \in StoredFiles |-> Missing]]
      /\ origin = [m \in Migrations |-> [f \in StoredFiles |-> Missing]]
      /\ op = Idle /\ up = FALSE /\ cut = FALSE
      /\ edits = 0 /\ crashes = 0 /\ errors = 0
  BY DEF MigrationInit
<1>1. file \in [StoredFiles -> Content] /\ \A f \in StoredFiles : file[f].edit = 0
  BY DEF MigrationInit, Content, Schemas
<1>2. MigrationTypeOK
  <2>1. edits \in 0..MaxEdits /\ crashes \in 0..MaxCrashes /\ errors \in 0..MaxErrors
    BY <1>0, MigrationAssumption
  <2>2. manifest \in [Migrations -> Statuses] /\ acts \in [Migrations -> SUBSET StoredFiles]
    BY <1>0 DEF Statuses
  <2>3. /\ backup \in [Migrations -> [StoredFiles -> Content]]
        /\ origin \in [Migrations -> [StoredFiles -> Content]]
    BY <1>0, IdleIsCall
  <2> QED
    BY <1>0, <1>1, <2>1, <2>2, <2>3, IdleIsCall DEF MigrationTypeOK
<1>3. EditsBounded
  BY <1>1 DEF MigrationInit, EditsBounded, Missing, Idle
<1>4. Planned = {} /\ Incomplete = {} /\ Completed = {}
  BY DEF MigrationInit, Planned, Incomplete, Completed
<1>5. ManifestsAreBacked
  BY <1>0 DEF ManifestsAreBacked
<1>6. IncompleteIsNewest /\ CompletedIsLast /\ NewestIsOriginal
  BY <1>4 DEF IncompleteIsNewest, CompletedIsLast, NewestIsOriginal, Newest
<1>7. CallKnows /\ CallProgress
  BY DEF MigrationInit, CallKnows, CallProgress, Idle, Working, Restoring
<1> QED
  BY <1>2, <1>3, <1>5, <1>6, <1>7 DEF MigrationInv

LEMMA BeginPreserves == \A kind \in Kinds : MigrationInv /\ BeginCall(kind) => MigrationInv'
<1> SUFFICES ASSUME MigrationInv, NEW kind \in Kinds, BeginCall(kind) PROVE MigrationInv'
  OBVIOUS
<1>0. PICK skipped \in SUBSET Incomplete :
        /\ op' = [Idle EXCEPT !.kind = kind, !.stage = "recover", !.skipped = skipped]
        /\ IF skipped = {} THEN NoError ELSE Error
        /\ cut' = (cut \/ skipped # {})
  BY DEF BeginCall
<1>1. UNCHANGED <<file, backup, manifest, acts, origin, up, edits, crashes>> /\ op = Idle
  BY DEF BeginCall
<1>2. op' \in Call /\ op'.buf = Missing /\ op'.stage = "recover" /\ op'.skipped = skipped
  BY <1>0 DEF Call, Idle, Missing, Content, Schemas, Kinds, Stages, Incomplete
<1>3. errors' \in 0..MaxErrors /\ cut' \in BOOLEAN /\ (cut => cut')
  BY <1>0, MigrationAssumption DEF NoError, Error, MigrationInv, MigrationTypeOK
<1>4. MigrationTypeOK'
  BY <1>1, <1>2, <1>3 DEF MigrationInv, MigrationTypeOK
<1>5. EditsBounded'
  BY <1>1, <1>2, EditsUnchanged
<1>6. ManifestsAreBacked' /\ IncompleteIsNewest' /\ NewestIsOriginal'
  BY <1>1, <1>3, DiskUnchanged
<1>7. CallKnows' /\ CallProgress'
  BY <1>0, <1>2 DEF CallKnows, CallProgress, Working, Restoring
<1>8. CompletedIsLast'
  BY <1>1, <1>2, <1>3 DEF Idle, MigrationInv, CompletedIsLast, Completed, AllCurrent,
         Newest, Planned
<1> QED
  BY <1>4, <1>5, <1>6, <1>7, <1>8 DEF MigrationInv

LEMMA RecoverNextPreserves == MigrationInv /\ RecoverNext => MigrationInv'
<1> SUFFICES ASSUME MigrationInv, RecoverNext PROVE MigrationInv'
  OBVIOUS
<1>0. PICK m \in Incomplete : op' = Undoing("undo", m)
  BY DEF RecoverNext, Found
<1>1. UNCHANGED <<file, backup, manifest, acts, origin, up, edits, crashes, errors, cut>>
  BY DEF RecoverNext, Keep, NoError
<1>2. op' \in Call /\ op'.buf = Missing
  BY <1>0, UndoingIsCall DEF MigrationInv, Incomplete, Restoring
<1>3. /\ op'.stage = "undo" /\ op'.m = m /\ op'.todo = acts[m]
      /\ op.stage = "recover" /\ op'.skipped = op.skipped
  BY <1>0 DEF Undoing, RecoverNext
<1>4. MigrationTypeOK'
  BY <1>1, <1>2 DEF MigrationInv, MigrationTypeOK
<1>5. EditsBounded'
  BY <1>1, <1>2, EditsUnchanged
<1>6. ManifestsAreBacked' /\ IncompleteIsNewest' /\ NewestIsOriginal'
  BY <1>1, DiskUnchanged
<1>7. CallKnows'
  BY <1>1, <1>3 DEF MigrationInv, CallKnows, IncompleteIsNewest, Working, Restoring,
         Newest, Planned, Incomplete, MigrationTypeOK, ManifestsAreBacked
<1>8. CallProgress'
  BY <1>1, <1>3 DEF CallProgress, Restoring
<1>9. CompletedIsLast'
  BY <1>1, <1>3 DEF MigrationInv, CompletedIsLast, Completed, AllCurrent, Newest, Planned
<1> QED
  BY <1>4, <1>5, <1>6, <1>7, <1>8, <1>9 DEF MigrationInv

LEMMA RecoveredPreserves == MigrationInv /\ Recovered => MigrationInv'
<1> SUFFICES ASSUME MigrationInv, Recovered PROVE MigrationInv'
  OBVIOUS
<1>0. /\ UNCHANGED <<file, backup, manifest, acts, origin, edits, crashes, errors, cut>>
      /\ op.stage = "recover" /\ (~cut => Incomplete = {})
  BY DEF Recovered, Keep, NoError, Found, MigrationInv, CallKnows
<1>1. \/ op' = Idle
      \/ op' = [op EXCEPT !.stage = "plan"]
      \/ \E m \in Completed : op' = Undoing("undo_rollback", m)
  BY DEF Recovered
<1>2. up' \in BOOLEAN
  BY DEF Recovered, MigrationInv, MigrationTypeOK
<1>3. ManifestsAreBacked' /\ IncompleteIsNewest' /\ NewestIsOriginal'
  BY <1>0, DiskUnchanged
<1>4. CASE op' = Idle
  <2>1. MigrationTypeOK' /\ EditsBounded'
    BY <1>0, <1>2, <1>4, IdleIsCall, EditsUnchanged DEF MigrationInv, MigrationTypeOK
  <2>2. CallKnows' /\ CallProgress'
    BY <1>4, IdleKnows
  <2>3. CompletedIsLast'
    BY <1>0 DEF MigrationInv, CompletedIsLast, Completed, AllCurrent, Newest, Planned
  <2> QED
    BY <1>3, <2>1, <2>2, <2>3 DEF MigrationInv
<1>5. CASE op' = [op EXCEPT !.stage = "plan"]
  <2>1. op' \in Call /\ op'.buf = op.buf /\ op'.stage = "plan"
    BY <1>5 DEF MigrationInv, MigrationTypeOK, Call, Stages
  <2>2. MigrationTypeOK' /\ EditsBounded'
    BY <1>0, <1>2, <2>1, EditsUnchanged DEF MigrationInv, MigrationTypeOK
  <2>3. CallKnows' /\ CallProgress'
    BY <1>0, <2>1 DEF CallKnows, CallProgress, Working, Restoring, Incomplete
  <2>4. CompletedIsLast'
    BY <1>0, <2>1 DEF MigrationInv, CompletedIsLast, Completed, AllCurrent, Newest, Planned
  <2> QED
    BY <1>3, <2>2, <2>3, <2>4 DEF MigrationInv
<1>6. CASE \E m \in Completed : op' = Undoing("undo_rollback", m)
  <2>0. PICK m \in Completed : op' = Undoing("undo_rollback", m)
    BY <1>6
  <2>1. op' \in Call /\ op'.buf = Missing
    BY <2>0, UndoingIsCall DEF MigrationInv, Completed, Restoring
  <2>2. op'.stage = "undo_rollback" /\ op'.m = m /\ op'.todo = acts[m]
    BY <2>0 DEF Undoing
  <2>3. MigrationTypeOK' /\ EditsBounded'
    BY <1>0, <1>2, <2>1, EditsUnchanged DEF MigrationInv, MigrationTypeOK
  <2>4. m \in Planned /\ manifest[m] = "completed"
    BY DEF MigrationInv, ManifestsAreBacked, Completed
  <2>5. CallKnows'
    BY <1>0, <2>2, <2>4 DEF CallKnows, Working, Restoring, Planned, Incomplete
  <2>6. CallProgress'
    BY <1>0, <2>2 DEF CallProgress, Restoring
  <2>7. CompletedIsLast'
    BY <1>0, <2>2 DEF MigrationInv, CompletedIsLast, Completed, Newest, Planned
  <2> QED
    BY <1>3, <2>3, <2>5, <2>6, <2>7 DEF MigrationInv
<1> QED
  BY <1>1, <1>4, <1>5, <1>6

LEMMA PlanPreserves == MigrationInv /\ Plan => MigrationInv'
<1> SUFFICES ASSUME MigrationInv, Plan PROVE MigrationInv'
  OBVIOUS
<1>0. /\ UNCHANGED <<file, backup, manifest, up, edits, crashes, errors, cut>>
      /\ op.stage = "plan" /\ (~cut => Incomplete = {})
  BY DEF Plan, MigrationInv, CallKnows, Keep, NoError
<1>1. CASE op' = Idle /\ UNCHANGED <<acts, origin>>
  <2>1. MigrationTypeOK' /\ EditsBounded'
    BY <1>0, <1>1, IdleIsCall, EditsUnchanged DEF MigrationInv, MigrationTypeOK
  <2>2. ManifestsAreBacked' /\ IncompleteIsNewest' /\ NewestIsOriginal'
    BY <1>0, <1>1, DiskUnchanged
  <2>3. CallKnows' /\ CallProgress'
    BY <1>1, IdleKnows
  <2>4. CompletedIsLast'
    BY <1>0, <1>1 DEF MigrationInv, CompletedIsLast, Completed, AllCurrent, Newest, Planned
  <2> QED
    BY <2>1, <2>2, <2>3, <2>4 DEF MigrationInv
<1>2. CASE Outdated # {} /\ \E m \in Migrations :
             /\ Fresh(m)
             /\ acts' = [acts EXCEPT ![m] = Outdated]
             /\ origin' = [origin EXCEPT ![m] = file]
             /\ op' = [op EXCEPT !.stage = "backup", !.m = m, !.todo = Outdated]
  <2>0. PICK n \in Migrations :
             /\ Fresh(n)
             /\ acts' = [acts EXCEPT ![n] = Outdated]
             /\ origin' = [origin EXCEPT ![n] = file]
             /\ op' = [op EXCEPT !.stage = "backup", !.m = n, !.todo = Outdated]
    BY <1>2
  <2>1. Outdated \subseteq StoredFiles /\ Outdated # {} /\ n \notin Planned
    BY <1>2, <2>0, MigrationAssumption DEF Outdated, Fresh
  <2>2. op \in Call
    BY DEF MigrationInv, MigrationTypeOK
  <2>3. /\ op' \in Call /\ op'.stage = "backup" /\ op'.m = n
        /\ op'.todo = Outdated /\ op'.buf = op.buf
    BY <2>0, <2>1, <2>2 DEF Call, Stages
  <2>4. MigrationTypeOK'
    BY <1>0, <2>0, <2>1, <2>3 DEF MigrationInv, MigrationTypeOK
  <2>5. EditsBounded'
    BY <1>0, <2>0, <2>3 DEF MigrationInv, MigrationTypeOK, EditsBounded
  <2>6. /\ acts[n] = {} /\ acts'[n] = Outdated /\ origin'[n] = file
        /\ \A m \in Migrations \ {n} : acts'[m] = acts[m] /\ origin'[m] = origin[m]
    BY <2>0, <2>1 DEF MigrationInv, MigrationTypeOK, Planned
  <2>7. Newest(n)' /\ n \in Planned' /\ \A m \in Migrations : Newest(m)' => m = n
    BY <2>0, <2>1, <2>6, MigrationAssumption DEF Newest, Planned, Fresh
  <2>8. manifest[n] = "none"
    BY <2>1 DEF MigrationInv, ManifestsAreBacked
  <2>9. ManifestsAreBacked'
    BY <1>0, <2>6, <2>8 DEF MigrationInv, ManifestsAreBacked, Planned, Saved
  <2>10. IncompleteIsNewest'
    BY <1>0 DEF IncompleteIsNewest, Incomplete
  <2>11. Original(n)'
    BY <1>0, <2>6 DEF Original, Back
  <2>12. CallKnows'
    BY <1>0, <2>3, <2>6, <2>7, <2>8, <2>11 DEF CallKnows, Working, Restoring,
           Incomplete
  <2>13. CallProgress'
    BY <2>3, <2>6 DEF CallProgress, Restoring
  <2>14. CompletedIsLast'
    <3>1. ~cut /\ Completed # {} => AllCurrent
      BY <1>0 DEF MigrationInv, CompletedIsLast
    <3>2. ~AllCurrent
      BY <2>1 DEF AllCurrent, Outdated
    <3> QED
      BY <1>0, <3>1, <3>2 DEF CompletedIsLast, Completed
  <2>15. NewestIsOriginal'
    BY <2>7, <2>11 DEF NewestIsOriginal
  <2> QED
    BY <2>4, <2>5, <2>9, <2>10, <2>12, <2>13, <2>14, <2>15 DEF MigrationInv
<1> QED
  BY <1>1, <1>2 DEF Plan

LEMMA BackupPreserves == MigrationInv /\ Backup => MigrationInv'
<1> SUFFICES ASSUME MigrationInv, Backup PROVE MigrationInv'
  OBVIOUS
<1>0. /\ UNCHANGED <<file, manifest, acts, origin, up, edits, crashes, errors, cut>>
      /\ op.stage = "backup" /\ op \in Call
  BY DEF Backup, Keep, NoError, MigrationInv, MigrationTypeOK
<1>1. /\ op.m \in Planned /\ op.m \in Migrations /\ op.todo \subseteq acts[op.m]
      /\ manifest[op.m] = "none" /\ Original(op.m) /\ Newest(op.m)
      /\ (~cut => Incomplete = {})
      /\ \A f \in acts[op.m] \ op.todo : Saved(op.m, f)
  BY <1>0 DEF MigrationInv, CallKnows, CallProgress, Working, Planned
<1>2. IncompleteIsNewest' /\ CompletedIsLast' /\ NewestIsOriginal'
  <2>1. IncompleteIsNewest'
    BY <1>0, <1>1 DEF IncompleteIsNewest, Incomplete
  <2>2. op'.stage # "undo_rollback"
    BY <1>0 DEF Backup, Call
  <2>3. CompletedIsLast'
    BY <1>0, <2>2 DEF MigrationInv, CompletedIsLast, Completed, AllCurrent, Newest, Planned
  <2>4. NewestIsOriginal'
    BY <1>0 DEF MigrationInv, NewestIsOriginal, Newest, Planned, Original, Back
  <2> QED
    BY <2>1, <2>3, <2>4
<1>3. CASE op.todo = {} /\ op' = [op EXCEPT !.stage = "prepare"] /\ UNCHANGED backup
  <2>1. /\ op' \in Call /\ op'.stage = "prepare" /\ op'.m = op.m /\ op'.todo = op.todo
        /\ op'.buf = op.buf
    BY <1>0, <1>3 DEF Call, Stages
  <2>2. MigrationTypeOK' /\ EditsBounded'
    BY <1>0, <1>3, <2>1, EditsUnchanged DEF MigrationInv, MigrationTypeOK
  <2>3. ManifestsAreBacked'
    BY <1>0, <1>3 DEF MigrationInv, ManifestsAreBacked, Planned, Saved
  <2>4. CallKnows'
    BY <1>0, <1>1, <1>3, <2>1 DEF CallKnows, Working, Restoring, Newest,
           Planned, Incomplete, Original, Back
  <2>5. CallProgress'
    BY <1>0, <1>1, <1>3, <2>1 DEF CallProgress, Restoring, Saved
  <2> QED
    BY <1>2, <2>2, <2>3, <2>4, <2>5 DEF MigrationInv
<1>4. CASE \E f \in op.todo :
             /\ backup' = [backup EXCEPT ![op.m][f] = file[f]]
             /\ op' = [op EXCEPT !.todo = @ \ {f}]
  <2>0. PICK g \in op.todo :
             /\ backup' = [backup EXCEPT ![op.m][g] = file[g]]
             /\ op' = [op EXCEPT !.todo = @ \ {g}]
    BY <1>4
  <2>1. /\ op' \in Call /\ op'.stage = "backup" /\ op'.m = op.m
        /\ op'.todo = op.todo \ {g} /\ op'.buf = op.buf
    BY <1>0, <2>0 DEF Call
  <2>2. g \in StoredFiles /\ g \in acts[op.m] /\ file[g] \in Content /\ file[g].edit <= edits
    BY <1>0, <1>1 DEF MigrationInv, MigrationTypeOK, EditsBounded, Call
  <2>3. backup' \in [Migrations -> [StoredFiles -> Content]]
    BY <1>1, <2>0, <2>2 DEF MigrationInv, MigrationTypeOK
  <2>4. MigrationTypeOK'
    BY <1>0, <2>1, <2>3 DEF MigrationInv, MigrationTypeOK
  <2>5. \A m \in Migrations : \A f \in StoredFiles :
          backup'[m][f] = IF m = op.m /\ f = g THEN file[f] ELSE backup[m][f]
    BY <1>1, <2>0, <2>2 DEF MigrationInv, MigrationTypeOK
  <2>6. EditsBounded'
    BY <1>0, <2>1, <2>2, <2>5 DEF MigrationInv, EditsBounded
  <2>7. \A m \in Migrations \ {op.m} : \A f \in StoredFiles : Saved(m, f) => Saved(m, f)'
    BY <1>0, <2>5 DEF Saved
  <2>8. ManifestsAreBacked'
    BY <1>0, <1>1, <2>7 DEF MigrationInv, MigrationTypeOK, ManifestsAreBacked, Planned
  <2>9. \A f \in acts[op.m] \ op'.todo : Saved(op.m, f)'
    <3>1. backup'[op.m][g] = file[g] /\ op'.m = op.m /\ origin' = origin
      BY <1>0, <1>1, <2>1, <2>2, <2>5
    <3>2. Back(op.m, g)
      BY <1>1, <2>2 DEF Original
    <3>3. Saved(op.m, g)'
      BY <3>1, <3>2 DEF Back, Saved
    <3>4. acts[op.m] \subseteq StoredFiles
      BY <1>1 DEF MigrationInv, MigrationTypeOK
    <3>5. \A f \in acts[op.m] \ op.todo : Saved(op.m, f)'
      <4> TAKE f \in acts[op.m] \ op.todo
      <4>1. Saved(op.m, f) /\ backup'[op.m][f] = backup[op.m][f]
        BY <1>1, <2>5, <3>4
      <4> QED
        BY <3>1, <4>1 DEF Saved
    <3> QED
      BY <2>1, <3>3, <3>5
  <2>10. CallKnows'
    BY <1>0, <1>1, <2>1 DEF CallKnows, Working, Restoring, Newest, Planned,
           Incomplete, Original, Back
  <2>11. CallProgress'
    BY <1>0, <2>1, <2>9 DEF CallProgress, Restoring, Saved
  <2> QED
    BY <1>2, <2>4, <2>6, <2>8, <2>10, <2>11 DEF MigrationInv
<1> QED
  BY <1>3, <1>4 DEF Backup

\* Writing the status of one migration leaves the others' alone.
LEMMA ManifestWritten ==
  ASSUME MigrationTypeOK, NEW n \in Migrations, NEW s \in Statuses,
         manifest' = [manifest EXCEPT ![n] = s]
  PROVE  /\ manifest' \in [Migrations -> Statuses]
         /\ manifest'[n] = s
         /\ \A m \in Migrations \ {n} : manifest'[m] = manifest[m]
  BY DEF MigrationTypeOK

LEMMA PreparePreserves == MigrationInv /\ Prepare => MigrationInv'
<1> SUFFICES ASSUME MigrationInv, Prepare PROVE MigrationInv'
  OBVIOUS
<1>0. /\ UNCHANGED <<file, backup, acts, origin, up, edits, crashes, errors, cut>>
      /\ op.stage = "prepare" /\ op \in Call /\ MigrationTypeOK
  BY DEF Prepare, Keep, NoError, MigrationInv, MigrationTypeOK
<1>1. /\ op.m \in Planned /\ op.m \in Migrations /\ op.todo \subseteq acts[op.m]
      /\ manifest[op.m] = "none" /\ Newest(op.m) /\ (~cut => Incomplete = {})
      /\ \A f \in acts[op.m] : Saved(op.m, f)
  BY <1>0 DEF MigrationInv, CallKnows, CallProgress, Working, Planned
<1>2. /\ op' \in Call /\ op'.stage = "applying" /\ op'.m = op.m /\ op'.todo = op.todo
      /\ op'.buf = op.buf
  BY <1>0 DEF Prepare, Call, Stages
<1>3. /\ manifest' \in [Migrations -> Statuses] /\ manifest'[op.m] = "prepared"
      /\ \A m \in Migrations \ {op.m} : manifest'[m] = manifest[m]
  BY <1>0, <1>1, ManifestWritten DEF Prepare, Statuses
<1>4. MigrationTypeOK' /\ EditsBounded'
  BY <1>0, <1>2, <1>3, EditsUnchanged DEF MigrationTypeOK
<1>5. ManifestsAreBacked'
  BY <1>0, <1>1, <1>3 DEF MigrationInv, ManifestsAreBacked, Planned, Saved
<1>6. IncompleteIsNewest'
  BY <1>0, <1>1, <1>3 DEF IncompleteIsNewest, Newest, Planned, Incomplete
<1>7. CallKnows'
  BY <1>0, <1>1, <1>2, <1>3 DEF CallKnows, Working, Restoring, Newest, Planned
<1>8. CallProgress'
  BY <1>2 DEF CallProgress, Restoring
<1>9. CompletedIsLast'
  BY <1>0, <1>1, <1>3 DEF MigrationInv, CompletedIsLast, Completed, AllCurrent, Newest,
         Planned
<1>10. NewestIsOriginal'
  BY <1>0, <1>1, <1>3, NewestUnique DEF NewestIsOriginal, Newest, Planned
<1> QED
  BY <1>4, <1>5, <1>6, <1>7, <1>8, <1>9, <1>10 DEF MigrationInv

LEMMA MarkApplyingPreserves == MigrationInv /\ MarkApplying => MigrationInv'
<1> SUFFICES ASSUME MigrationInv, MarkApplying PROVE MigrationInv'
  OBVIOUS
<1>0. /\ UNCHANGED <<file, backup, acts, origin, up, edits, crashes, errors, cut>>
      /\ op.stage = "applying" /\ op \in Call /\ MigrationTypeOK
  BY DEF MarkApplying, Keep, NoError, MigrationInv, MigrationTypeOK
<1>1. /\ op.m \in Planned /\ op.m \in Migrations /\ acts[op.m] \subseteq StoredFiles
      /\ manifest[op.m] = "prepared" /\ Newest(op.m)
  BY <1>0 DEF MigrationInv, CallKnows, Working, Planned, MigrationTypeOK
<1>2. /\ op' \in Call /\ op'.stage = "apply" /\ op'.m = op.m /\ op'.todo = acts[op.m]
      /\ op'.buf = op.buf
  BY <1>0, <1>1 DEF MarkApplying, Call, Stages
<1>3. /\ manifest' \in [Migrations -> Statuses] /\ manifest'[op.m] = "applying"
      /\ \A m \in Migrations \ {op.m} : manifest'[m] = manifest[m]
  BY <1>0, <1>1, ManifestWritten DEF MarkApplying, Statuses
<1>4. MigrationTypeOK' /\ EditsBounded'
  BY <1>0, <1>2, <1>3, EditsUnchanged DEF MigrationTypeOK
<1>5. ManifestsAreBacked'
  BY <1>0, <1>1, <1>3 DEF MigrationInv, ManifestsAreBacked, Planned, Saved
<1>6. IncompleteIsNewest'
  BY <1>0, <1>1, <1>3 DEF MigrationInv, IncompleteIsNewest, Newest, Planned, Incomplete
<1>7. CallKnows'
  BY <1>0, <1>1, <1>2, <1>3 DEF CallKnows, Working, Restoring, Newest, Planned
<1>8. CallProgress'
  BY <1>2 DEF CallProgress, Restoring
<1>9. CompletedIsLast'
  BY <1>0, <1>1, <1>3 DEF MigrationInv, CompletedIsLast, Completed, AllCurrent, Newest,
         Planned
<1>10. NewestIsOriginal'
  BY <1>0, <1>1, <1>3, NewestUnique DEF NewestIsOriginal, Newest, Planned
<1> QED
  BY <1>4, <1>5, <1>6, <1>7, <1>8, <1>9, <1>10 DEF MigrationInv

LEMMA ApplyReadPreserves == MigrationInv /\ ApplyRead => MigrationInv'
<1> SUFFICES ASSUME MigrationInv, ApplyRead PROVE MigrationInv'
  OBVIOUS
<1>0. /\ UNCHANGED <<file, backup, manifest, acts, origin, up, edits, crashes, errors, cut>>
      /\ op.stage = "apply" /\ op \in Call /\ MigrationTypeOK
  BY DEF ApplyRead, Keep, NoError, MigrationInv, MigrationTypeOK
<1>1. /\ op.m \in Planned /\ op.m \in Migrations /\ op.todo \subseteq acts[op.m]
      /\ manifest[op.m] = "applying" /\ Newest(op.m)
  BY <1>0 DEF MigrationInv, CallKnows, Working, Planned
<1>2. PICK g \in op.todo :
        op' = [op EXCEPT !.stage = "write", !.todo = @ \ {g}, !.at = g, !.buf = file[g]]
  BY DEF ApplyRead
<1>3. g \in StoredFiles /\ file[g] \in Content /\ file[g].edit <= edits
  BY <1>0 DEF MigrationInv, MigrationTypeOK, EditsBounded, Call
<1>4. /\ op' \in Call /\ op'.stage = "write" /\ op'.m = op.m /\ op'.todo = op.todo \ {g}
      /\ op'.buf = file[g] /\ op'.at = g
  BY <1>0, <1>2, <1>3 DEF Call, Stages
<1>5. MigrationTypeOK'
  BY <1>0, <1>4 DEF MigrationTypeOK
<1>6. EditsBounded'
  BY <1>0, <1>3, <1>4 DEF MigrationInv, EditsBounded
<1>7. ManifestsAreBacked' /\ IncompleteIsNewest' /\ NewestIsOriginal'
  BY <1>0, DiskUnchanged
<1>8. CallKnows'
  BY <1>0, <1>1, <1>3, <1>4 DEF CallKnows, Working, Restoring, Newest, Planned
<1>9. CallProgress'
  BY <1>4 DEF CallProgress, Restoring
<1>10. CompletedIsLast'
  BY <1>0 DEF MigrationInv, CompletedIsLast, Completed, AllCurrent, Newest, Planned
<1> QED
  BY <1>5, <1>6, <1>7, <1>8, <1>9, <1>10 DEF MigrationInv

LEMMA ApplyWritePreserves == MigrationInv /\ ApplyWrite => MigrationInv'
<1> SUFFICES ASSUME MigrationInv, ApplyWrite PROVE MigrationInv'
  OBVIOUS
<1>0. /\ UNCHANGED <<backup, manifest, acts, origin, up, edits, crashes, errors, cut>>
      /\ op.stage = "write" /\ op \in Call /\ MigrationTypeOK
  BY DEF ApplyWrite, Keep, NoError, MigrationInv, MigrationTypeOK
<1>1. /\ op.m \in Planned /\ op.m \in Migrations /\ op.todo \subseteq acts[op.m]
      /\ manifest[op.m] = "applying" /\ Newest(op.m)
      /\ op.at \in StoredFiles
  BY <1>0 DEF MigrationInv, CallKnows, Working, Planned
<1>2. op.buf \in Content /\ op.buf.edit <= edits
  BY <1>0 DEF MigrationInv, EditsBounded, Call
<1>3. DEFINE new == [schema |-> "current", edit |-> op.buf.edit]
<1>4. new \in Content /\ new.schema = "current" /\ new.edit <= edits
  BY <1>2 DEF Content, Schemas
<1>5. /\ file' \in [StoredFiles -> Content] /\ file'[op.at] = new
      /\ \A f \in StoredFiles \ {op.at} : file'[f] = file[f]
  BY <1>0, <1>1, <1>4 DEF ApplyWrite, MigrationTypeOK
<1>6. /\ op' \in Call /\ op'.stage = "apply" /\ op'.m = op.m /\ op'.todo = op.todo
      /\ op'.buf = Missing
  BY <1>0, IdleIsCall DEF ApplyWrite, Call, Stages
<1> HIDE DEF new
<1>7. MigrationTypeOK'
  BY <1>0, <1>5, <1>6 DEF MigrationTypeOK
<1>8. EditsBounded'
  BY <1>0, <1>4, <1>5, <1>6 DEF MigrationInv, MigrationTypeOK, EditsBounded, Missing
<1>9. ManifestsAreBacked' /\ IncompleteIsNewest'
  BY <1>0 DEF MigrationInv, ManifestsAreBacked, Saved, IncompleteIsNewest, Newest,
         Planned, Incomplete
<1>10. CallKnows'
  BY <1>0, <1>1, <1>6 DEF CallKnows, Working, Restoring, Newest, Planned
<1>11. CallProgress'
  BY <1>6 DEF CallProgress, Restoring
<1>12. CompletedIsLast'
  BY <1>0, <1>4, <1>5 DEF MigrationInv, CompletedIsLast, Completed, AllCurrent, Newest,
         Planned
<1>13. NewestIsOriginal'
  BY <1>0, <1>1, NewestUnique DEF NewestIsOriginal, Newest, Planned
<1> QED
  BY <1>7, <1>8, <1>9, <1>10, <1>11, <1>12, <1>13 DEF MigrationInv

LEMMA ValidatePreserves == MigrationInv /\ Validate => MigrationInv'
<1> SUFFICES ASSUME MigrationInv, Validate PROVE MigrationInv'
  OBVIOUS
<1>0. /\ UNCHANGED <<file, backup, manifest, acts, origin, up, edits, crashes, errors, cut>>
      /\ op.stage = "apply" /\ op.todo = {} /\ op \in Call /\ MigrationTypeOK
  BY DEF Validate, Keep, NoError, MigrationInv, MigrationTypeOK
<1>1. /\ op.m \in Planned /\ op.m \in Migrations
      /\ manifest[op.m] = "applying" /\ Newest(op.m)
  BY <1>0 DEF MigrationInv, CallKnows, Working, Planned
<1>2. ManifestsAreBacked' /\ IncompleteIsNewest' /\ NewestIsOriginal'
  BY <1>0, DiskUnchanged
<1>3. CompletedIsLast'
  BY <1>0 DEF MigrationInv, CompletedIsLast, Completed, AllCurrent, Newest, Planned
<1>4. CASE op' = Undoing("undo_failed", op.m)
  <2>1. op' \in Call /\ op'.buf = Missing
    BY <1>0, <1>1, <1>4, UndoingIsCall DEF Restoring
  <2>2. op'.stage = "undo_failed" /\ op'.m = op.m /\ op'.todo = acts[op.m]
    BY <1>4 DEF Undoing
  <2>3. MigrationTypeOK' /\ EditsBounded'
    BY <1>0, <2>1, EditsUnchanged DEF MigrationTypeOK
  <2>4. CallKnows'
    BY <1>0, <1>1, <2>2 DEF CallKnows, Working, Restoring, Newest, Planned
  <2>5. CallProgress'
    BY <1>0, <2>2 DEF CallProgress, Restoring
  <2> QED
    BY <1>2, <1>3, <2>3, <2>4, <2>5 DEF MigrationInv
<1>5. CASE ~Blocked /\ Outdated = {} /\ op' = [op EXCEPT !.stage = "complete"]
  <2>1. op' \in Call /\ op'.stage = "complete" /\ op'.m = op.m /\ op'.todo = op.todo
        /\ op'.buf = op.buf
    BY <1>0, <1>5 DEF Call, Stages
  <2>2. MigrationTypeOK' /\ EditsBounded'
    BY <1>0, <2>1, EditsUnchanged DEF MigrationTypeOK
  <2>3. CallKnows'
    BY <1>0, <1>1, <2>1 DEF CallKnows, Working, Restoring, Newest, Planned
  <2>4. AllCurrent
    BY <1>0, <1>5 DEF AllCurrent, Blocked, Outdated, MigrationTypeOK, Content, Schemas
  <2>5. CallProgress'
    BY <1>0, <2>1, <2>4 DEF CallProgress, Restoring, AllCurrent
  <2> QED
    BY <1>2, <1>3, <2>2, <2>3, <2>5 DEF MigrationInv
<1> QED
  BY <1>4, <1>5 DEF Validate

LEMMA CompletePreserves == MigrationInv /\ Complete => MigrationInv'
<1> SUFFICES ASSUME MigrationInv, Complete PROVE MigrationInv'
  OBVIOUS
<1>0. /\ UNCHANGED <<file, backup, acts, origin, up, edits, crashes, errors, cut>>
      /\ op.stage = "complete" /\ op' = Idle /\ op \in Call /\ MigrationTypeOK
  BY DEF Complete, Keep, NoError, MigrationInv, MigrationTypeOK
<1>1. /\ op.m \in Planned /\ op.m \in Migrations /\ AllCurrent
      /\ manifest[op.m] = "applying" /\ Newest(op.m)
  BY <1>0 DEF MigrationInv, CallKnows, CallProgress, Working, Planned
<1>2. /\ manifest' \in [Migrations -> Statuses] /\ manifest'[op.m] = "completed"
      /\ \A m \in Migrations \ {op.m} : manifest'[m] = manifest[m]
  BY <1>0, <1>1, ManifestWritten DEF Complete, Statuses
<1>3. MigrationTypeOK' /\ EditsBounded'
  BY <1>0, <1>2, IdleIsCall, EditsUnchanged DEF MigrationTypeOK
<1>4. ManifestsAreBacked'
  BY <1>0, <1>1, <1>2 DEF MigrationInv, ManifestsAreBacked, Planned, Saved
<1>5. IncompleteIsNewest'
  BY <1>0, <1>1, <1>2 DEF MigrationInv, IncompleteIsNewest, Newest, Planned, Incomplete
<1>6. CallKnows' /\ CallProgress'
  BY <1>0, IdleKnows
<1>7. CompletedIsLast'
  BY <1>0, <1>1, <1>2 DEF MigrationInv, CompletedIsLast, Completed, AllCurrent, Newest,
         Planned
<1>8. NewestIsOriginal'
  BY <1>0, <1>1, <1>2, NewestUnique DEF NewestIsOriginal, Newest, Planned
<1> QED
  BY <1>3, <1>4, <1>5, <1>6, <1>7, <1>8 DEF MigrationInv

\* What an undo works on: a migration whose copies all exist, the newest one
\* unless an earlier rollback was cut short.
LEMMA RestoringKnows ==
  ASSUME MigrationInv, op.stage \in Restoring
  PROVE  /\ op.m \in Planned /\ op.m \in Migrations /\ acts[op.m] \subseteq StoredFiles
         /\ op.todo \subseteq acts[op.m]
         /\ manifest[op.m] \in {"prepared", "applying", "completed"}
         /\ manifest[op.m] = "completed" <=> op.stage = "undo_rollback"
         /\ \A f \in acts[op.m] : Saved(op.m, f)
         /\ ~cut => Newest(op.m)
         /\ \A f \in acts[op.m] \ op.todo : Back(op.m, f)
<1>1. /\ op.m \in Planned /\ op.m \in Migrations /\ op.todo \subseteq acts[op.m]
      /\ \A f \in acts[op.m] \ op.todo : Back(op.m, f)
  BY DEF MigrationInv, CallKnows, CallProgress, Planned
<1>2. acts[op.m] \subseteq StoredFiles
  BY <1>1 DEF MigrationInv, MigrationTypeOK
<1>3. /\ manifest[op.m] \in {"prepared", "applying", "completed"}
      /\ manifest[op.m] = "completed" <=> op.stage = "undo_rollback"
  BY <1>1 DEF MigrationInv, CallKnows, Restoring, Incomplete
<1>4. \A f \in acts[op.m] : Saved(op.m, f)
  BY <1>1, <1>3 DEF MigrationInv, ManifestsAreBacked
<1>5. op.stage # "undo_rollback" /\ ~cut => Newest(op.m)
  BY DEF MigrationInv, CallKnows, IncompleteIsNewest, Working, Restoring
<1>6. op.stage = "undo_rollback" /\ ~cut => Newest(op.m)
  BY <1>1, <1>3 DEF MigrationInv, CompletedIsLast, Completed
<1> QED
  BY <1>1, <1>2, <1>3, <1>4, <1>5, <1>6

LEMMA UndoPreserves == MigrationInv /\ Undo => MigrationInv'
<1> SUFFICES ASSUME MigrationInv, Undo PROVE MigrationInv'
  OBVIOUS
<1>0. /\ UNCHANGED <<backup, manifest, acts, origin, up, edits, crashes, errors, cut>>
      /\ op.stage \in Restoring /\ op \in Call /\ MigrationTypeOK
  BY DEF Undo, Keep, NoError, MigrationInv, MigrationTypeOK, Restoring
<1>1. /\ op.m \in Planned /\ op.m \in Migrations /\ acts[op.m] \subseteq StoredFiles
      /\ op.todo \subseteq acts[op.m]
      /\ manifest[op.m] \in {"prepared", "applying", "completed"}
      /\ manifest[op.m] = "completed" <=> op.stage = "undo_rollback"
      /\ \A f \in acts[op.m] : Saved(op.m, f)
      /\ ~cut => Newest(op.m)
      /\ \A f \in acts[op.m] \ op.todo : Back(op.m, f)
  BY <1>0, RestoringKnows
<1>2. PICK g \in op.todo :
        /\ file' = [file EXCEPT ![g] = backup[op.m][g]]
        /\ op' = [op EXCEPT !.todo = @ \ {g}]
  BY DEF Undo
<1>3. g \in StoredFiles /\ backup[op.m][g] \in Content /\ backup[op.m][g].edit <= edits
  BY <1>0, <1>1 DEF MigrationInv, MigrationTypeOK, EditsBounded
<1>4. /\ file' \in [StoredFiles -> Content] /\ file'[g] = backup[op.m][g]
      /\ \A f \in StoredFiles \ {g} : file'[f] = file[f]
  BY <1>0, <1>2, <1>3 DEF MigrationTypeOK
<1>5. /\ op' \in Call /\ op'.stage = op.stage /\ op'.m = op.m /\ op'.todo = op.todo \ {g}
      /\ op'.buf = op.buf /\ op'.skipped = op.skipped
  BY <1>0, <1>2 DEF Call
<1>6. MigrationTypeOK'
  BY <1>0, <1>4, <1>5 DEF MigrationTypeOK
<1>7. EditsBounded'
  BY <1>0, <1>3, <1>4, <1>5 DEF MigrationInv, EditsBounded
<1>8. ManifestsAreBacked' /\ IncompleteIsNewest'
  BY <1>0 DEF MigrationInv, ManifestsAreBacked, Saved, IncompleteIsNewest, Newest,
         Planned, Incomplete
<1>9. CallKnows'
  BY <1>0, <1>1, <1>5 DEF MigrationInv, CallKnows, Working, Restoring, Newest, Planned,
         Incomplete
<1>10. CallProgress'
  <2>1. Back(op.m, g)'
    <3>1. Saved(op.m, g) /\ file'[g] = backup[op.m][g] /\ op'.m = op.m /\ origin' = origin
      BY <1>0, <1>1, <1>4, <1>5
    <3> QED
      BY <3>1 DEF Saved, Back
  <2>2. \A f \in acts[op.m] \ op.todo : Back(op.m, f)'
    <3> TAKE f \in acts[op.m] \ op.todo
    <3>1. Back(op.m, f) /\ file'[f] = file[f] /\ op'.m = op.m /\ origin' = origin
      BY <1>0, <1>1, <1>4, <1>5
    <3> QED
      BY <3>1 DEF Back
  <2> QED
    BY <1>0, <1>5, <2>1, <2>2 DEF CallProgress, Restoring
<1>11. CompletedIsLast'
  <2> SUFFICES ASSUME ~cut, NEW m \in Completed
               PROVE  Newest(m)' /\ op'.stage = "undo_rollback"
    BY <1>0 DEF CompletedIsLast, Completed
  <2>1. Newest(m) /\ m = op.m
    BY <1>1, NewestUnique DEF MigrationInv, CompletedIsLast, Completed
  <2> QED
    BY <1>0, <1>1, <1>5, <2>1 DEF Completed, Newest, Planned
<1>12. NewestIsOriginal'
  BY <1>0, <1>1, NewestUnique DEF NewestIsOriginal, Newest, Planned
<1> QED
  BY <1>6, <1>7, <1>8, <1>9, <1>10, <1>11, <1>12 DEF MigrationInv

LEMMA UndonePreserves == MigrationInv /\ Undone => MigrationInv'
<1> SUFFICES ASSUME MigrationInv, Undone PROVE MigrationInv'
  OBVIOUS
<1>0. /\ UNCHANGED <<file, backup, acts, origin, up, edits, crashes, errors, cut>>
      /\ op.stage \in Restoring /\ op.todo = {} /\ op \in Call /\ MigrationTypeOK
  BY DEF Undone, Keep, NoError, MigrationInv, MigrationTypeOK, Restoring
<1>1. /\ op.m \in Planned /\ op.m \in Migrations
      /\ \A f \in acts[op.m] : Saved(op.m, f)
      /\ ~cut => Newest(op.m)
      /\ \A f \in acts[op.m] \ op.todo : Back(op.m, f)
  BY <1>0, RestoringKnows
<1>2. Original(op.m)
  BY <1>0, <1>1 DEF Original
<1>3. PICK s \in {"rolled_back", "failed_rolled_back"} :
        manifest' = [manifest EXCEPT ![op.m] = s]
  BY DEF Undone
<1>4. /\ manifest' \in [Migrations -> Statuses] /\ manifest'[op.m] = s
      /\ \A m \in Migrations \ {op.m} : manifest'[m] = manifest[m]
  BY <1>0, <1>1, <1>3, ManifestWritten DEF Statuses
<1>5. /\ op' \in Call /\ op'.stage \in {"recover", "idle"}
      /\ op'.buf = op.buf \/ op'.buf = Missing
      /\ op'.stage = "recover" => op.stage = "undo" /\ op'.skipped = op.skipped
  <2>1. CASE op' = Idle
    BY <2>1, IdleIsCall DEF Idle
  <2>2. CASE op.stage = "undo" /\ op' = [op EXCEPT !.stage = "recover", !.m = 0]
    BY <1>0, <2>2 DEF Call, Stages
  <2> QED
    BY <2>1, <2>2 DEF Undone
<1>6. MigrationTypeOK' /\ EditsBounded'
  BY <1>0, <1>4, <1>5, EditsUnchanged DEF MigrationTypeOK
<1>7. ManifestsAreBacked'
  BY <1>0, <1>1, <1>4 DEF MigrationInv, ManifestsAreBacked, Planned, Saved
<1>8. IncompleteIsNewest'
  BY <1>0, <1>4 DEF MigrationInv, IncompleteIsNewest, Newest, Planned, Incomplete
<1>9. CallKnows' /\ CallProgress'
  BY <1>0, <1>5 DEF MigrationInv, CallKnows, CallProgress, Working, Restoring
<1>10. CompletedIsLast'
  <2> SUFFICES ASSUME ~cut, NEW m \in Completed' PROVE FALSE
    BY <1>0 DEF CompletedIsLast
  <2>1. m # op.m /\ m \in Completed
    BY <1>4 DEF Completed
  <2> QED
    BY <1>1, <2>1, NewestUnique DEF MigrationInv, CompletedIsLast, Completed
<1>11. NewestIsOriginal'
  <2> SUFFICES ASSUME ~cut, NEW m \in Migrations, Newest(m) PROVE Original(m)
    BY <1>0 DEF NewestIsOriginal, Newest, Planned, Original, Back
  <2> QED
    BY <1>1, <1>2, NewestUnique
<1> QED
  BY <1>6, <1>7, <1>8, <1>9, <1>10, <1>11 DEF MigrationInv

LEMMA FailsPreserves == MigrationInv /\ Fails => MigrationInv'
<1> SUFFICES ASSUME MigrationInv, Fails PROVE MigrationInv'
  OBVIOUS
<1>0. /\ UNCHANGED <<file, backup, manifest, acts, origin, up, edits, crashes>>
      /\ op \in Call /\ MigrationTypeOK
      /\ cut' = (cut \/ op.stage = "undo_rollback")
  BY DEF Fails, MigrationInv, MigrationTypeOK
<1>1. errors' \in 0..MaxErrors
  BY <1>0, MigrationAssumption DEF Fails, Error, MigrationTypeOK
<1>2. cut' \in BOOLEAN /\ (cut => cut')
  BY <1>0
<1>3. ManifestsAreBacked' /\ IncompleteIsNewest' /\ NewestIsOriginal'
  BY <1>0, <1>2, DiskUnchanged
<1>4. CompletedIsLast'
  BY <1>0 DEF MigrationInv, CompletedIsLast, Completed, AllCurrent, Newest, Planned
<1>5. CASE op' = Idle
  <2>1. MigrationTypeOK' /\ EditsBounded'
    BY <1>0, <1>1, <1>2, <1>5, IdleIsCall, EditsUnchanged DEF MigrationTypeOK
  <2>2. CallKnows' /\ CallProgress'
    BY <1>5, IdleKnows
  <2> QED
    BY <1>3, <1>4, <2>1, <2>2 DEF MigrationInv
<1>6. CASE op.stage \in {"write", "apply"} /\ op' = Undoing("undo_failed", op.m)
  <2>1. /\ op.m \in Planned /\ op.m \in Migrations
        /\ manifest[op.m] = "applying" /\ Newest(op.m)
    BY <1>0, <1>6 DEF MigrationInv, CallKnows, Working, Planned
  <2>2. op' \in Call /\ op'.buf = Missing
    BY <1>0, <1>6, <2>1, UndoingIsCall DEF Restoring
  <2>3. op'.stage = "undo_failed" /\ op'.m = op.m /\ op'.todo = acts[op.m]
    BY <1>6 DEF Undoing
  <2>4. MigrationTypeOK' /\ EditsBounded'
    BY <1>0, <1>1, <1>2, <2>2, EditsUnchanged DEF MigrationTypeOK
  <2>5. CallKnows'
    BY <1>0, <2>1, <2>3 DEF CallKnows, Working, Restoring, Newest, Planned
  <2>6. CallProgress'
    BY <1>0, <2>3 DEF CallProgress, Restoring
  <2> QED
    BY <1>3, <1>4, <2>4, <2>5, <2>6 DEF MigrationInv
<1> QED
  BY <1>5, <1>6 DEF Fails

LEMMA CrashPreserves == MigrationInv /\ MigrationCrash => MigrationInv'
<1> SUFFICES ASSUME MigrationInv, MigrationCrash PROVE MigrationInv'
  OBVIOUS
<1>0. /\ UNCHANGED <<file, backup, manifest, acts, origin, edits, errors>>
      /\ op' = Idle /\ up' = FALSE /\ MigrationTypeOK
      /\ cut' = (cut \/ op.stage = "undo_rollback")
  BY DEF MigrationCrash, MigrationInv, MigrationTypeOK
<1>1. crashes' \in 0..MaxCrashes
  BY <1>0, MigrationAssumption DEF MigrationCrash, MigrationTypeOK
<1>2. cut' \in BOOLEAN /\ (cut => cut')
  BY <1>0
<1>3. MigrationTypeOK' /\ EditsBounded'
  BY <1>0, <1>1, <1>2, IdleIsCall, EditsUnchanged DEF MigrationTypeOK
<1>4. ManifestsAreBacked' /\ IncompleteIsNewest' /\ NewestIsOriginal'
  BY <1>0, <1>2, DiskUnchanged
<1>5. CallKnows' /\ CallProgress'
  BY <1>0, IdleKnows
<1>6. CompletedIsLast'
  BY <1>0 DEF MigrationInv, CompletedIsLast, Completed, AllCurrent, Newest, Planned
<1> QED
  BY <1>3, <1>4, <1>5, <1>6 DEF MigrationInv

LEMMA SessionSavePreserves == \A g \in StoredFiles : MigrationInv /\ SessionSave(g) => MigrationInv'
<1> SUFFICES ASSUME MigrationInv, NEW g \in StoredFiles, SessionSave(g) PROVE MigrationInv'
  OBVIOUS
<1>0. /\ UNCHANGED <<backup, manifest, acts, origin, op, up, crashes, errors, cut>>
      /\ edits < MaxEdits /\ edits' = edits + 1 /\ edits \in Nat /\ MigrationTypeOK
  BY DEF SessionSave, MigrationInv, MigrationTypeOK
<1>1. edits' \in 0..MaxEdits /\ edits' \in Nat
  BY <1>0, MigrationAssumption DEF MigrationTypeOK
<1>2. DEFINE new == [schema |-> "current", edit |-> edits + 1]
<1>3. new \in Content /\ new.schema = "current" /\ new.edit = edits'
  BY <1>0, <1>1 DEF Content, Schemas
<1>4. /\ file' \in [StoredFiles -> Content] /\ file'[g] = new
      /\ \A f \in StoredFiles \ {g} : file'[f] = file[f]
  BY <1>0, <1>3 DEF SessionSave, MigrationTypeOK
<1> HIDE DEF new
<1>5. MigrationTypeOK'
  BY <1>0, <1>1, <1>4 DEF MigrationTypeOK
<1>6. EditsBounded'
  <2>1. /\ \A f \in StoredFiles : file[f].edit \in Nat /\ file[f].edit <= edits
        /\ \A m \in Migrations : \A f \in StoredFiles :
             /\ origin[m][f].edit \in Nat /\ origin[m][f].edit <= edits
             /\ backup[m][f].edit \in Nat /\ backup[m][f].edit <= edits
        /\ op.buf.edit \in Nat /\ op.buf.edit <= edits
    BY DEF MigrationInv, MigrationTypeOK, EditsBounded, Content, Call
  <2> QED
    BY <1>0, <1>3, <1>4, <2>1 DEF EditsBounded
<1>7. ASSUME NEW m \in Migrations, NEW f \in acts[m], Back(m, f)
      PROVE  Back(m, f)'
  <2>1. f \in StoredFiles
    BY <1>0 DEF MigrationTypeOK
  <2>2. origin[m][f].edit \in Nat /\ origin[m][f].edit <= edits
    BY <1>0, <2>1 DEF MigrationInv, MigrationTypeOK, EditsBounded, Content
  <2>3. CASE f = g
    <3>1. file'[f].edit = edits + 1 /\ origin' = origin
      BY <1>0, <1>3, <1>4, <2>3
    <3> QED
      BY <1>0, <2>2, <3>1 DEF Back
  <2>4. CASE f # g
    <3>1. file'[f] = file[f] /\ origin' = origin
      BY <1>0, <1>4, <2>1, <2>4
    <3> QED
      BY <1>7, <3>1 DEF Back
  <2> QED
    BY <2>3, <2>4
<1>8. \A m \in Migrations : Original(m) => Original(m)'
  <2> TAKE m \in Migrations
  <2> HAVE Original(m)
  <2>1. \A f \in acts[m] : Back(m, f)'
    BY <1>7 DEF Original
  <2> QED
    BY <1>0, <2>1 DEF Original
<1>9. AllCurrent => AllCurrent'
  BY <1>3, <1>4 DEF AllCurrent
<1>10. ManifestsAreBacked' /\ IncompleteIsNewest'
  BY <1>0 DEF MigrationInv, ManifestsAreBacked, Saved, IncompleteIsNewest, Newest,
         Planned, Incomplete
<1>11. CallKnows'
  BY <1>0, <1>8 DEF MigrationInv, CallKnows, Working, Restoring, Newest, Planned, Incomplete
<1>12. CallProgress'
  <2>1. CASE op.stage \in Restoring
    <3>1. op.m \in Migrations /\ \A f \in acts[op.m] \ op.todo : Back(op.m, f)
      BY <2>1, RestoringKnows
    <3>2. op' = op /\ acts' = acts
      BY <1>0
    <3>3. \A f \in acts[op.m] \ op.todo : Back(op.m, f)'
      BY <1>7, <3>1, <3>2
    <3> QED
      BY <2>1, <3>2, <3>3 DEF CallProgress, Restoring
  <2>2. CASE op.stage \notin Restoring
    BY <1>0, <1>9, <2>2 DEF MigrationInv, CallProgress, Saved, Restoring
  <2> QED
    BY <2>1, <2>2
<1>13. CompletedIsLast'
  BY <1>0, <1>9 DEF MigrationInv, CompletedIsLast, Completed, Newest, Planned
<1>14. NewestIsOriginal'
  BY <1>0, <1>8 DEF MigrationInv, NewestIsOriginal, Newest, Planned
<1> QED
  BY <1>5, <1>6, <1>10, <1>11, <1>12, <1>13, <1>14 DEF MigrationInv

LEMMA StutterPreserves == MigrationInv /\ UNCHANGED migrationVars => MigrationInv'
<1> SUFFICES ASSUME MigrationInv, UNCHANGED migrationVars PROVE MigrationInv'
  OBVIOUS
<1>0. UNCHANGED <<file, backup, manifest, acts, origin, op, up, edits, crashes, errors, cut>>
  BY DEF migrationVars
<1>1. MigrationTypeOK' /\ EditsBounded'
  BY <1>0, EditsUnchanged DEF MigrationInv, MigrationTypeOK
<1>2. ManifestsAreBacked' /\ IncompleteIsNewest' /\ NewestIsOriginal'
  BY <1>0, DiskUnchanged
<1>3. CallKnows'
  BY <1>0 DEF MigrationInv, CallKnows, Original, Back, Newest, Planned, Incomplete
<1>4. CallProgress'
  BY <1>0 DEF MigrationInv, CallProgress, Saved, Back, AllCurrent
<1>5. CompletedIsLast'
  BY <1>0 DEF MigrationInv, CompletedIsLast, Completed, AllCurrent, Newest, Planned
<1> QED
  BY <1>1, <1>2, <1>3, <1>4, <1>5 DEF MigrationInv

LEMMA NextPreserves == MigrationInv /\ [MigrationNext]_migrationVars => MigrationInv'
  BY BeginPreserves, RecoverNextPreserves, RecoveredPreserves, PlanPreserves,
     BackupPreserves, PreparePreserves, MarkApplyingPreserves, ApplyReadPreserves,
     ApplyWritePreserves, ValidatePreserves, CompletePreserves, UndoPreserves,
     UndonePreserves, FailsPreserves, CrashPreserves, SessionSavePreserves,
     StutterPreserves DEF MigrationNext, MigrationStep

\* The strengthening holds in every reachable state.
THEOREM Invariance == MigrationSpec => []MigrationInv
  BY InitMigrationInv, NextPreserves, PTL DEF MigrationSpec

\* The variables keep their types: no manifest ever has a status outside the
\* list of storage_runtime.rs, and no call works on files the audit did not
\* look at.
THEOREM MigrationTypeCorrect == MigrationSpec => []MigrationTypeOK
<1>1. MigrationInv => MigrationTypeOK
  BY DEF MigrationInv
<1> QED
  BY <1>1, Invariance, PTL

\* A file of a migration under way has a copy that undoes the rewriting, at
\* whatever step backup_migration_files or apply_migration_actions is killed.
THEOREM CopiesComeFirst == MigrationSpec => []CopyBeforeRewrite
<1>1. MigrationInv => CopyBeforeRewrite
  BY DEF MigrationInv, ManifestsAreBacked, CopyBeforeRewrite, Incomplete
<1> QED
  BY <1>1, Invariance, PTL

\* When no storage call is under way, a migration recorded as completed has
\* left none of its files behind in the old schema.
THEOREM CompletedMeansUpgraded == MigrationSpec => []CompletedIsUpgraded
<1>1. MigrationInv => CompletedIsUpgraded
  <2> SUFFICES ASSUME MigrationInv, AtRest, ~cut, NEW m \in Completed PROVE Upgraded(m)
    BY DEF CompletedIsUpgraded
  <2>1. m \in Migrations /\ acts[m] \subseteq StoredFiles
    BY DEF Completed, MigrationInv, MigrationTypeOK
  <2>2. AllCurrent
    BY DEF MigrationInv, CompletedIsLast, AtRest, Idle
  <2> QED
    BY <2>1, <2>2 DEF AllCurrent, Upgraded
<1> QED
  BY <1>1, Invariance, PTL

\* When no storage call is under way, a migration recorded as undone has put
\* back every file it had rewritten.
THEOREM RestoredMeansOriginal == MigrationSpec => []RestoredIsOriginal
<1>1. MigrationInv => RestoredIsOriginal
  BY DEF MigrationInv, NewestIsOriginal, RestoredIsOriginal
<1> QED
  BY <1>1, Invariance, PTL

\* The bridge goes up only on files that are all upgraded or all restored, as
\* long as no recovery has passed over a manifest it could not read and no
\* rollback was cut short: every other failure of recover_storage_before_start
\* keeps the port unbound.
THEOREM FailsClosed == MigrationSpec => StartsWhole
<1>1. MigrationInv /\ MigrationInv' /\ [MigrationNext]_migrationVars => [~up /\ up' /\ ~cut => Whole']_migrationVars
  <2> SUFFICES ASSUME MigrationInv, MigrationInv', MigrationNext, ~up, up', ~cut PROVE Whole'
    BY DEF migrationVars
  <2>1. Recovered
    BY DEF MigrationNext, MigrationStep, BeginCall, RecoverNext, Plan, Backup, Prepare, MarkApplying,
           ApplyRead,
           ApplyWrite, Validate, Complete, Undo, Undone, Fails, MigrationCrash, SessionSave
  <2>2. op' = Idle /\ ~cut' /\ Incomplete' = {}
    BY <2>1 DEF Recovered, Keep, NoError, Incomplete, Found, MigrationInv, CallKnows
  <2> SUFFICES ASSUME NEW m \in Migrations, Newest(m)' PROVE Upgraded(m)' \/ Original(m)'
    BY DEF Whole
  <2>3. CASE m \in Completed'
    <3>1. AllCurrent' /\ acts'[m] \subseteq StoredFiles
      BY <2>2, <2>3 DEF MigrationInv, MigrationTypeOK, CompletedIsLast, Idle
    <3> QED
      BY <3>1 DEF AllCurrent, Upgraded
  <2>4. CASE m \notin Completed'
    <3>1. manifest'[m] \in {"none", "failed_rolled_back", "rolled_back"}
      BY <2>2, <2>4 DEF MigrationInv, MigrationTypeOK, Statuses, Completed, Incomplete
    <3> QED
      BY <2>2, <3>1 DEF MigrationInv, NewestIsOriginal
  <2> QED
    BY <2>3, <2>4
<1> QED
  BY <1>1, Invariance, PTL DEF MigrationSpec, StartsWhole

\* Manifests say of the files what is true of them.
THEOREM ManifestsAreTrue == MigrationSpec => []FilesAreWhole
<1>1. CompletedIsUpgraded /\ RestoredIsOriginal /\ CopyBeforeRewrite => FilesAreWhole
  BY DEF FilesAreWhole
<1> QED
  BY <1>1, CompletedMeansUpgraded, RestoredMeansOriginal, CopiesComeFirst, PTL

-----------------------------------------------------------------------------
(* The subagent tasks.                                                     *)

ThreadState == [at : Stops, copy : Child, run : RunIds \cup {NoRun}]

Marking == {"cancel_held", "cancel_stale", "cancel_mark", "close_mark"}

\* A thread that is about to write the marker has a run id to write.
MarksARun ==
  \A t \in Threads :
    thread[t].at \in Marking => thread[t].run \in RunIds

\* From the creation of the lock file to its removal.
Holding == Running \cup {"date", "reload", "start", "clear", "drop"}

\* Unless a lock was taken from a live thread, whoever works under the lock
\* finds its own name in it: being in the run is only a part of that.
HoldersHaveTheLock ==
  ~robbed => \A t \in Threads : thread[t].at \in Holding => lock.by = t

\* What a step need not be asked about a thread.
RestTyped ==
  /\ task \in Child /\ marker \in RunIds \cup {NoMarker}
  /\ calls \in 0..MaxCalls /\ ids \in 0..MaxRunIds /\ taskCrashes \in 0..MaxTaskCrashes
  /\ taskErrors \in 0..MaxTaskErrors

TasksInv == TaskTypeOK /\ MarksARun /\ HoldersHaveTheLock

-----------------------------------------------------------------------------
LEMMA CreatedIsChild ==
  /\ Created \in Child /\ [Created EXCEPT !.run = NoRun] \in Child
  /\ IdleThread \in ThreadState
<1>1. 1 \in RunIds
  BY TaskAssumption DEF RunIds
<1>2. Created \in Child /\ [Created EXCEPT !.run = NoRun] \in Child
  BY <1>1 DEF Created, Child, TaskStatuses, TaskOver
<1> QED
  BY <1>2 DEF IdleThread, ThreadState, Stops

\* A thread goes to another stop, or takes another copy or run id along.
LEMMA OneThreadMoves ==
  ASSUME TaskTypeOK, NEW t \in Threads, NEW r \in ThreadState, Becomes(t, r)
  PROVE  /\ thread' \in [Threads -> ThreadState]
         /\ thread'[t] = r
         /\ \A u \in Threads \ {t} : thread'[u] = thread[u]
  BY DEF TaskTypeOK, Becomes, ThreadState

\* The moves that write no marker and neither claim nor give up the lock.
LEMMA MoveKeepsTasksInv ==
  ASSUME TasksInv, NEW t \in Threads, NEW r \in ThreadState, Becomes(t, r),
         r.at \in Marking => r.run \in RunIds,
         r.at \in Holding => thread[t].at \in Holding,
         lock' = lock \/ (lock.by = t /\ lock' = [lock EXCEPT !.dated = TRUE]),
         robbed' = robbed, RestTyped'
  PROVE  TasksInv'
<1>1. /\ thread' \in [Threads -> ThreadState]
      /\ thread'[t] = r
      /\ \A u \in Threads \ {t} : thread'[u] = thread[u]
  BY OneThreadMoves DEF TasksInv
<1>2. TaskTypeOK'
  <2>1. lock' = NoLock
      \/ lock' \in [by : Threads \cup {"dead"}, dated : BOOLEAN, stale : BOOLEAN]
    <3>1. CASE lock' = lock
      BY <3>1 DEF TasksInv, TaskTypeOK
    <3>2. CASE lock.by = t /\ lock' = [lock EXCEPT !.dated = TRUE]
      <4>1. lock # NoLock
        BY <3>2, ThreadAssumption DEF NoLock
      <4> QED
        BY <3>2, <4>1 DEF TasksInv, TaskTypeOK
    <3> QED
      BY <3>1, <3>2
  <2> QED
    BY <1>1, <2>1 DEF TasksInv, TaskTypeOK, ThreadState, RestTyped
<1>3. MarksARun'
  BY <1>1 DEF TasksInv, MarksARun
<1>4. HoldersHaveTheLock'
  BY <1>1 DEF TasksInv, TaskTypeOK, HoldersHaveTheLock, NoLock
<1> QED
  BY <1>2, <1>3, <1>4 DEF TasksInv

\* Who takes the lock file away ends up outside the run; if somebody else was
\* inside, the lock that went was theirs.
LEMMA RemovalKeepsTasksInv ==
  ASSUME TasksInv, NEW t \in Threads, NEW r \in ThreadState, Becomes(t, r), Remove(t),
         r.at \notin Holding,
         r.at \in Marking => r.run \in RunIds, RestTyped'
  PROVE  TasksInv'
<1>1. /\ thread' \in [Threads -> ThreadState]
      /\ thread'[t] = r
      /\ \A u \in Threads \ {t} : thread'[u] = thread[u]
  BY OneThreadMoves DEF TasksInv
<1>2. TaskTypeOK'
  BY <1>1 DEF TasksInv, TaskTypeOK, ThreadState, Remove, RestTyped
<1>3. MarksARun'
  BY <1>1 DEF TasksInv, MarksARun
<1>4. HoldersHaveTheLock'
  <2> SUFFICES ASSUME ~robbed', NEW u \in Threads, thread'[u].at \in Holding
               PROVE  FALSE
    BY DEF HoldersHaveTheLock
  <2>1. u # t /\ thread[u].at \in Holding
    BY <1>1
  <2>2. ~robbed /\ lock.by \notin Threads \ {t}
    BY DEF Remove
  <2> QED
    BY <2>1, <2>2 DEF TasksInv, HoldersHaveTheLock
<1> QED
  BY <1>2, <1>3, <1>4 DEF TasksInv

\* The stops a thread can be at, with what it carries.
LEMMA ThreadsAreTyped ==
  ASSUME TaskTypeOK, NEW t \in Threads
  PROVE  thread[t] \in ThreadState
  BY DEF TaskTypeOK, ThreadState

LEMMA GotoIsMove ==
  ASSUME TaskTypeOK, NEW t \in Threads, NEW s \in Stops
  PROVE  /\ [thread[t] EXCEPT !.at = s] \in ThreadState
         /\ [thread[t] EXCEPT !.at = s].at = s
         /\ [thread[t] EXCEPT !.at = s].run = thread[t].run
  BY ThreadsAreTyped DEF ThreadState

LEMMA RestKept ==
  ASSUME TasksInv, UNCHANGED <<task, marker>>, KeepBounds
  PROVE  RestTyped'
  BY DEF TasksInv, TaskTypeOK, RestTyped, KeepBounds

LEMMA TakenIdIsARun ==
  ASSUME TaskTypeOK, TakeId
  PROVE  TakenRun \in RunIds /\ ids' \in 0..MaxRunIds
  BY TaskAssumption DEF TaskTypeOK, TakeId, TakenRun, FreshId, RunIds, Child, NoRun

LEMMA ClaimStep ==
  ASSUME TasksInv, NEW t \in Threads, Claim(t)
  PROVE  TasksInv'
<1>1. CASE lock = NoLock
  <2> DEFINE r == [thread[t] EXCEPT !.at = "date"]
  <2>1. r \in ThreadState /\ r.at = "date"
    BY GotoIsMove DEF TasksInv, Stops
  <2>2. Becomes(t, r)
    BY <1>1 DEF Claim, Goto
  <2>3. /\ thread' \in [Threads -> ThreadState]
        /\ thread'[t] = r
        /\ \A u \in Threads \ {t} : thread'[u] = thread[u]
    BY <2>1, <2>2, OneThreadMoves DEF TasksInv
  <2>4. lock' = [by |-> t, dated |-> FALSE, stale |-> FALSE]
    BY <1>1 DEF Claim
  <2> HIDE DEF r
  <2>5. TaskTypeOK'
    BY <2>3, <2>4 DEF TasksInv, TaskTypeOK, ThreadState, Claim, KeepBounds
  <2>6. MarksARun'
    BY <2>1, <2>3 DEF TasksInv, MarksARun, Marking
  <2>7. HoldersHaveTheLock'
    <3>1. \A u \in Threads \ {t} : ~robbed => thread[u].at \notin Holding
      BY <1>1, ThreadAssumption DEF TasksInv, HoldersHaveTheLock, NoLock
    <3> QED
      BY <2>3, <2>4, <3>1 DEF HoldersHaveTheLock, Claim
  <2> QED
    BY <2>5, <2>6, <2>7 DEF TasksInv
<1>2. CASE lock # NoLock
  <2>1. PICK r \in ThreadState : Becomes(t, r) /\ r.at \in {"claim_stale", "idle"}
    <3>1. [thread[t] EXCEPT !.at = "claim_stale"] \in ThreadState
      BY GotoIsMove DEF TasksInv, Stops
    <3>2. [thread[t] EXCEPT !.at = "claim_stale"].at = "claim_stale"
      BY GotoIsMove DEF TasksInv, Stops
    <3> QED
      BY <1>2, <3>1, <3>2, CreatedIsChild DEF Claim, Goto, Returns, IdleThread
  <2>2. UNCHANGED <<task, lock, marker, robbed>> /\ KeepBounds
    BY <1>2 DEF Claim
  <2>3. RestTyped'
    BY <2>2, RestKept
  <2> QED
    BY <2>1, <2>2, <2>3, MoveKeepsTasksInv DEF Holding, Running, Marking
<1> QED
  BY <1>1, <1>2

\* Everything a run does once it has the lock, up to giving it up.
LEMMA RunSteps ==
  ASSUME TasksInv, NEW t \in Threads,
         \/ DateLock(t) \/ Reload(t) \/ StartRun(t) \/ SaveInLoop(t)
         \/ LoopEnds(t) \/ Settle(t) \/ ClearMarker(t) \/ DropLock(t)
  PROVE  TasksInv'
<1>0. TaskTypeOK /\ thread[t] \in ThreadState /\ thread[t].copy \in Child
  BY ThreadsAreTyped DEF TasksInv, ThreadState
<1>1. CASE DateLock(t)
  <2>1. /\ Becomes(t, [thread[t] EXCEPT !.at = "reload"])
        /\ UNCHANGED <<task, marker, robbed>> /\ KeepBounds /\ thread[t].at = "date"
    BY <1>1 DEF DateLock, Goto, At
  <2>2. lock' = lock \/ (lock.by = t /\ lock' = [lock EXCEPT !.dated = TRUE])
    BY <1>1 DEF DateLock
  <2>3. RestTyped'
    BY <2>1, RestKept
  <2>4. "reload" \in Stops
    BY DEF Stops
  <2> QED
    BY <1>0, <2>1, <2>2, <2>3, <2>4, GotoIsMove, MoveKeepsTasksInv DEF Holding, Marking
<1>2. CASE Reload(t)
  <2>0. UNCHANGED <<task, lock, marker, calls, taskCrashes, taskErrors, robbed>> /\ thread[t].at = "reload"
    BY <1>2 DEF Reload, At
  <2>1. CASE task.status = "queued"
    <3> DEFINE r == [at |-> "start", copy |-> task, run |-> TakenRun]
    <3>1. TakenRun \in RunIds /\ ids' \in 0..MaxRunIds
      BY <1>0, <1>2, <2>1, TakenIdIsARun DEF Reload
    <3>2. r \in ThreadState /\ r.at = "start"
      BY <1>0, <3>1 DEF ThreadState, TaskTypeOK, Stops
    <3>3. Becomes(t, r)
      BY <1>2, <2>1 DEF Reload
    <3>4. RestTyped'
      BY <1>0, <2>0, <3>1 DEF RestTyped, TaskTypeOK
    <3> HIDE DEF r
    <3> QED
      BY <2>0, <3>2, <3>3, <3>4, MoveKeepsTasksInv DEF Holding, Marking
  <2>2. CASE task.status # "queued"
    <3>1. Becomes(t, [thread[t] EXCEPT !.at = "drop"]) /\ KeepBounds
      BY <1>2, <2>2 DEF Reload, Goto, KeepBounds
    <3>2. RestTyped'
      BY <2>0, <3>1, RestKept
    <3>3. "drop" \in Stops
      BY DEF Stops
    <3> QED
      BY <1>0, <2>0, <3>1, <3>2, <3>3, GotoIsMove, MoveKeepsTasksInv DEF Holding, Marking
  <2> QED
    BY <2>1, <2>2
<1>3. CASE StartRun(t)
  <2> DEFINE child == [Copy(t) EXCEPT !.status = "running", !.run = thread[t].run]
             r == [thread[t] EXCEPT !.at = "loop", !.copy = child]
  <2>1. child \in Child
    BY <1>0 DEF ThreadState, Copy, Child, TaskStatuses
  <2>2. /\ Becomes(t, r) /\ task' = child
        /\ UNCHANGED <<lock, marker, robbed>> /\ KeepBounds /\ thread[t].at = "start"
    BY <1>3 DEF StartRun, At
  <2> HIDE DEF child
  <2>3. r \in ThreadState /\ r.at = "loop"
    BY <1>0, <2>1 DEF ThreadState, Stops, Running
  <2>4. RestTyped'
    BY <1>0, <2>1, <2>2 DEF RestTyped, TaskTypeOK, KeepBounds
  <2> HIDE DEF r
  <2> QED
    BY <2>2, <2>3, <2>4, MoveKeepsTasksInv DEF Holding, Marking
<1>4. CASE SaveInLoop(t)
  <2>1. Becomes(t, thread[t]) /\ UNCHANGED <<lock, robbed>> /\ thread[t].at = "loop"
    BY <1>0, <1>4 DEF SaveInLoop, Becomes, TaskTypeOK, At
  <2>2. RestTyped'
    BY <1>0, <1>4 DEF SaveInLoop, Copy, RestTyped, TaskTypeOK, KeepBounds
  <2> QED
    BY <1>0, <2>1, <2>2, MoveKeepsTasksInv DEF Marking
<1>5. CASE LoopEnds(t)
  <2>1. PICK s \in {"waiting"} \cup TaskOver :
          Becomes(t, [thread[t] EXCEPT !.at = "settle",
                        !.copy.status = IF marker = thread[t].run THEN "canceled" ELSE s])
    BY <1>5 DEF LoopEnds
  <2> DEFINE new == IF marker = thread[t].run THEN "canceled" ELSE s
             r == [thread[t] EXCEPT !.at = "settle", !.copy.status = new]
  <2>2. new \in TaskStatuses
    BY DEF TaskStatuses, TaskOver
  <2>3. Becomes(t, r)
    BY <2>1
  <2> HIDE DEF new
  <2>4. r \in ThreadState /\ r.at = "settle"
    <3>1. [thread[t].copy EXCEPT !.status = new] \in Child
      BY <1>0, <2>2 DEF Child
    <3>2. r = [thread[t] EXCEPT !.at = "settle",
                                !.copy = [thread[t].copy EXCEPT !.status = new]]
      BY <1>0 DEF ThreadState
    <3> QED
      BY <1>0, <3>1, <3>2 DEF ThreadState, Stops, Running
  <2>5. /\ UNCHANGED <<task, lock, marker, robbed>> /\ KeepBounds /\ thread[t].at = "loop"
    BY <1>5 DEF LoopEnds, At
  <2>6. RestTyped'
    BY <2>5, RestKept
  <2> HIDE DEF r
  <2> QED
    BY <2>3, <2>4, <2>5, <2>6, MoveKeepsTasksInv DEF Holding, Running, Marking
<1>6. CASE Settle(t)
  <2> DEFINE r == [IdleThread EXCEPT !.at = "clear"]
  <2>1. r \in ThreadState /\ r.at = "clear"
    BY CreatedIsChild DEF IdleThread, ThreadState, Stops
  <2>2. /\ Becomes(t, r) /\ task' = thread[t].copy
        /\ UNCHANGED <<lock, marker, robbed>> /\ KeepBounds /\ thread[t].at = "settle"
    BY <1>6 DEF Settle, Copy, At
  <2>3. RestTyped'
    BY <1>0, <2>2 DEF RestTyped, TaskTypeOK, KeepBounds
  <2> HIDE DEF r
  <2> QED
    BY <2>1, <2>2, <2>3, MoveKeepsTasksInv DEF Holding, Running, Marking
<1>7. CASE ClearMarker(t)
  <2>1. /\ Becomes(t, [thread[t] EXCEPT !.at = "drop"]) /\ marker' = NoMarker
        /\ UNCHANGED <<task, lock, robbed>> /\ KeepBounds /\ thread[t].at = "clear"
    BY <1>7 DEF ClearMarker, Goto, At
  <2>2. RestTyped'
    BY <1>0, <2>1 DEF RestTyped, TaskTypeOK, KeepBounds
  <2>3. "drop" \in Stops
    BY DEF Stops
  <2> QED
    BY <1>0, <2>1, <2>2, <2>3, GotoIsMove, MoveKeepsTasksInv DEF Holding, Marking
<1>8. CASE DropLock(t)
  <2>1. /\ Becomes(t, IdleThread) /\ Remove(t)
        /\ UNCHANGED <<task, marker>> /\ KeepBounds
    BY <1>8 DEF DropLock, Returns
  <2>2. IdleThread.at = "idle" /\ RestTyped'
    BY <2>1, RestKept DEF IdleThread
  <2> QED
    BY <2>1, <2>2, CreatedIsChild, RemovalKeepsTasksInv DEF Holding, Running, Marking
<1> QED
  BY <1>1, <1>2, <1>3, <1>4, <1>5, <1>6, <1>7, <1>8

\* A request that has arrived holds nothing yet and marks nothing yet.
LEMMA RequestSteps ==
  ASSUME TasksInv, NEW t \in Threads, Requests(t)
  PROVE  TasksInv'
<1>0. TaskTypeOK /\ thread[t] \in ThreadState
  BY ThreadsAreTyped DEF TasksInv
<1>1. PICK r \in ThreadState :
        Becomes(t, r) /\ r.at \in {"claim", "dispatch_lock", "cancel_lock", "resume_lock"}
  <2>1. CASE RunRequested(t)
    <3>1. Becomes(t, [thread[t] EXCEPT !.at = "claim"])
      BY <2>1 DEF RunRequested, Goto
    <3>2. "claim" \in Stops
      BY DEF Stops
    <3> QED
      BY <1>0, <3>1, <3>2, GotoIsMove
  <2>2. CASE Cancel(t)
    <3>1. [IdleThread EXCEPT !.at = "cancel_lock", !.copy = task] \in ThreadState
      BY <1>0, CreatedIsChild DEF IdleThread, ThreadState, Stops, TaskTypeOK
    <3> QED
      BY <2>2, <3>1 DEF Cancel, IdleThread
  <2>3. CASE Resume(t)
    <3>1. [IdleThread EXCEPT !.at = "resume_lock",
                             !.copy = [Created EXCEPT !.run = NoRun]] \in ThreadState
      BY CreatedIsChild DEF IdleThread, ThreadState, Stops
    <3> QED
      BY <2>3, <3>1 DEF Resume, IdleThread
  <2>4. ASSUME NEW promoted \in BOOLEAN, Dispatch(t, promoted)
        PROVE  \E r \in ThreadState : Becomes(t, r) /\ r.at = "dispatch_lock"
    <3> DEFINE child == [task EXCEPT !.background = ~promoted, !.run = NoRun]
    <3>1. child \in Child
      BY <1>0 DEF TaskTypeOK, Child
    <3>2. Becomes(t, [IdleThread EXCEPT !.at = "dispatch_lock", !.copy = child])
      BY <2>4 DEF Dispatch
    <3> HIDE DEF child
    <3>3. [IdleThread EXCEPT !.at = "dispatch_lock", !.copy = child] \in ThreadState
      BY <3>1, CreatedIsChild DEF IdleThread, ThreadState, Stops
    <3> QED
      BY <3>2, <3>3 DEF IdleThread
  <2> QED
    BY <2>1, <2>2, <2>3, <2>4 DEF Requests
<1>2. /\ UNCHANGED <<task, lock, marker, ids, taskCrashes, taskErrors, robbed>>
      /\ calls' = calls \/ (calls < MaxCalls /\ calls' = calls + 1)
  BY DEF Requests, RunRequested, Cancel, Resume, Dispatch, Arrives
<1>3. RestTyped'
  BY <1>0, <1>2, TaskAssumption DEF RestTyped, TaskTypeOK
<1> QED
  BY <1>1, <1>2, <1>3, MoveKeepsTasksInv DEF Holding, Running, Marking

\* Looking at a lock and going on, giving up or removing it.
LEMMA LookSteps ==
  ASSUME TasksInv, NEW t \in Threads,
         NEW free \in Stops \ (Holding \cup Marking),
         NEW stale \in Stops \ (Holding \cup Marking),
         NEW look, LooksAtLock(t, look, free, stale)
  PROVE  TasksInv'
<1>0. TaskTypeOK /\ thread[t] \in ThreadState
  BY ThreadsAreTyped DEF TasksInv
<1>1. PICK r \in ThreadState : Becomes(t, r) /\ r.at \in {free, stale, "idle"}
  BY <1>0, GotoIsMove, CreatedIsChild DEF LooksAtLock, Goto, Returns, IdleThread
<1>2. UNCHANGED <<task, lock, marker, robbed>> /\ KeepBounds
  BY DEF LooksAtLock
<1>3. RestTyped'
  BY <1>2, RestKept
<1> QED
  BY <1>1, <1>2, <1>3, MoveKeepsTasksInv DEF Holding, Running, Marking

LEMMA StaleSteps ==
  ASSUME TasksInv, NEW t \in Threads,
         NEW free \in Stops \ Holding, NEW stale, RemovesStale(t, stale, free),
         free \in Marking => thread[t].run \in RunIds
  PROVE  TasksInv'
<1>1. /\ Becomes(t, [thread[t] EXCEPT !.at = free]) /\ Remove(t)
      /\ UNCHANGED <<task, marker>> /\ KeepBounds
  BY DEF RemovesStale, Goto
<1>2. RestTyped'
  BY <1>1, RestKept
<1> QED
  BY <1>1, <1>2, GotoIsMove, RemovalKeepsTasksInv DEF TasksInv

\* What dispatching, cancelling and resuming save and mark.
LEMMA ClientSteps ==
  ASSUME TasksInv, NEW t \in Threads,
         \/ DispatchSave(t) \/ CancelLooks(t) \/ CancelDates(t) \/ CancelMarks(t)
         \/ CancelSaves(t) \/ ResumeClears(t) \/ ResumeSaves(t)
  PROVE  TasksInv'
<1>0. TaskTypeOK /\ thread[t] \in ThreadState /\ thread[t].copy \in Child
  BY ThreadsAreTyped DEF TasksInv, ThreadState
<1>1. CASE DispatchSave(t)
  <2> DEFINE r == [IdleThread EXCEPT !.at = "claim"]
  <2>1. r \in ThreadState /\ r.at = "claim"
    BY CreatedIsChild DEF IdleThread, ThreadState, Stops
  <2>2. /\ Becomes(t, r) /\ task' = thread[t].copy
        /\ UNCHANGED <<lock, marker, robbed>> /\ KeepBounds
    BY <1>1 DEF DispatchSave, Copy
  <2>3. RestTyped'
    BY <1>0, <2>2 DEF RestTyped, TaskTypeOK, KeepBounds
  <2> HIDE DEF r
  <2> QED
    BY <2>1, <2>2, <2>3, MoveKeepsTasksInv DEF Holding, Running, Marking
<1>2. CASE CancelLooks(t)
  <2>1. TakenRun \in RunIds /\ ids' \in 0..MaxRunIds
    BY <1>0, <1>2, TakenIdIsARun DEF CancelLooks
  <2> DEFINE stop == IF lock = NoLock THEN "close_mark" ELSE "cancel_held"
             r == [thread[t] EXCEPT !.run = TakenRun, !.at = stop]
  <2>2. /\ Becomes(t, r)
        /\ UNCHANGED <<task, lock, marker, calls, taskCrashes, taskErrors, robbed>>
    BY <1>2 DEF CancelLooks
  <2>3. stop \in Stops /\ stop \notin Holding
    BY DEF Stops, Holding, Running
  <2> HIDE DEF stop
  <2>4. r \in ThreadState /\ r.run \in RunIds /\ r.at = stop
    BY <1>0, <2>1, <2>3 DEF ThreadState
  <2>5. RestTyped'
    BY <1>0, <2>1, <2>2 DEF RestTyped, TaskTypeOK
  <2> HIDE DEF r
  <2> QED
    BY <2>2, <2>3, <2>4, <2>5, MoveKeepsTasksInv
<1>3. CASE CancelDates(t)
  <2> DEFINE stop == IF SeenStale THEN "cancel_stale" ELSE "cancel_mark"
  <2>1. /\ Becomes(t, [thread[t] EXCEPT !.at = stop])
        /\ UNCHANGED <<task, lock, marker, robbed>> /\ KeepBounds
    BY <1>3 DEF CancelDates, Goto
  <2>2. stop \in Stops /\ stop \notin Holding
    BY DEF Stops, Holding, Running
  <2>3. thread[t].run \in RunIds
    BY <1>3 DEF CancelDates, At, TasksInv, MarksARun, Marking
  <2>4. RestTyped'
    BY <2>1, RestKept
  <2> HIDE DEF stop
  <2> QED
    BY <1>0, <2>1, <2>2, <2>3, <2>4, GotoIsMove, MoveKeepsTasksInv
<1>4. CASE CancelMarks(t)
  <2> DEFINE stop == IF At(t, "cancel_mark") THEN "cancel_save" ELSE "close_save"
  <2>1. /\ Becomes(t, [thread[t] EXCEPT !.at = stop]) /\ marker' = thread[t].run
        /\ UNCHANGED <<task, lock, robbed>> /\ KeepBounds
    BY <1>4 DEF CancelMarks, Goto
  <2>2. stop \in Stops /\ stop \notin Holding \cup Marking
    BY DEF Stops, Holding, Running, Marking
  <2>3. thread[t].run \in RunIds
    BY <1>4 DEF CancelMarks, At, TasksInv, MarksARun, Marking
  <2>4. RestTyped'
    BY <1>0, <2>1, <2>3 DEF RestTyped, TaskTypeOK, KeepBounds
  <2> HIDE DEF stop
  <2> QED
    BY <1>0, <2>1, <2>2, <2>4, GotoIsMove, MoveKeepsTasksInv
<1>5. CASE CancelSaves(t)
  <2> DEFINE status == IF At(t, "close_save") THEN "canceled" ELSE thread[t].copy.status
  <2>1. /\ Becomes(t, IdleThread)
        /\ task' = [thread[t].copy EXCEPT !.run = thread[t].run, !.status = status]
        /\ UNCHANGED <<lock, marker, robbed>> /\ KeepBounds
    BY <1>0, <1>5 DEF CancelSaves, Returns, Copy, Child
  <2>2. status \in TaskStatuses
    BY <1>0 DEF Child, TaskStatuses, TaskOver
  <2> HIDE DEF status
  <2>3. RestTyped'
    BY <1>0, <2>1, <2>2 DEF RestTyped, TaskTypeOK, KeepBounds, ThreadState, Child
  <2> QED
    BY <2>1, <2>3, CreatedIsChild, MoveKeepsTasksInv DEF IdleThread, Holding, Running, Marking
<1>6. CASE ResumeClears(t)
  <2>1. /\ Becomes(t, [thread[t] EXCEPT !.at = "resume_save"]) /\ marker' = NoMarker
        /\ UNCHANGED <<task, lock, robbed>> /\ KeepBounds
    BY <1>6 DEF ResumeClears, Goto
  <2>2. "resume_save" \in Stops
    BY DEF Stops
  <2>3. RestTyped'
    BY <1>0, <2>1 DEF RestTyped, TaskTypeOK, KeepBounds
  <2> QED
    BY <1>0, <2>1, <2>2, <2>3, GotoIsMove, MoveKeepsTasksInv DEF Holding, Running, Marking
<1>7. CASE ResumeSaves(t)
  <2>1. /\ Becomes(t, IdleThread) /\ task' = thread[t].copy
        /\ UNCHANGED <<lock, marker, robbed>> /\ KeepBounds
    BY <1>7 DEF ResumeSaves, Returns, Copy
  <2>2. RestTyped'
    BY <1>0, <2>1 DEF RestTyped, TaskTypeOK, KeepBounds
  <2> QED
    BY <2>1, <2>2, CreatedIsChild, MoveKeepsTasksInv DEF IdleThread, Holding, Running, Marking
<1> QED
  BY <1>1, <1>2, <1>3, <1>4, <1>5, <1>6, <1>7

LEMMA StepsKeepTasksInv ==
  ASSUME TasksInv, NEW t \in Threads, TaskSteps(t)
  PROVE  TasksInv'
<1>0. /\ {"claim_stale", "claim_again", "dispatch_save", "dispatch_stale", "resume_clear",
          "resume_stale"} \subseteq Stops \ (Holding \cup Marking)
      /\ "close_mark" \in Stops \ Holding
  BY DEF Stops, Holding, Running, Marking
<1>1. CASE RemovesStale(t, "cancel_stale", "close_mark")
  <2>1. thread[t].run \in RunIds
    BY <1>1 DEF RemovesStale, At, TasksInv, MarksARun, Marking
  <2> QED
    BY <1>0, <1>1, <2>1, StaleSteps
<1>2. CASE \/ RemovesStale(t, "claim_stale", "claim_again")
           \/ RemovesStale(t, "dispatch_stale", "dispatch_save")
           \/ RemovesStale(t, "resume_stale", "resume_clear")
  BY <1>0, <1>2, StaleSteps
<1>3. CASE \/ LooksAtLock(t, "dispatch_lock", "dispatch_save", "dispatch_stale")
           \/ LooksAtLock(t, "resume_lock", "resume_clear", "resume_stale")
  BY <1>0, <1>3, LookSteps
<1> QED
  BY <1>1, <1>2, <1>3, ClaimStep, RunSteps, ClientSteps DEF TaskSteps

\* A kill leaves the lock to nobody that is alive; time only makes it stale.
LEMMA CrashStep ==
  ASSUME TasksInv, TaskCrash \/ Expire
  PROVE  TasksInv'
<1>1. CASE TaskCrash
  <2>1. thread' \in [Threads -> ThreadState] /\ \A t \in Threads : thread'[t].at = "idle"
    BY <1>1, CreatedIsChild DEF TaskCrash, IdleThread
  <2>2. TaskTypeOK'
    BY <1>1, <2>1, TaskAssumption DEF TasksInv, TaskTypeOK, TaskCrash, ThreadState
  <2> QED
    BY <2>1, <2>2 DEF TasksInv, MarksARun, HoldersHaveTheLock, Holding, Running, Marking
<1>2. CASE Expire
  <2>1. lock # NoLock /\ lock' = [lock EXCEPT !.stale = TRUE]
    BY <1>2 DEF Expire, NoLock
  <2>2. TaskTypeOK' /\ lock'.by = lock.by
    BY <1>2, <2>1 DEF TasksInv, TaskTypeOK, Expire, KeepBounds
  <2> QED
    BY <1>2, <2>2 DEF TasksInv, MarksARun, HoldersHaveTheLock, Expire
<1> QED
  BY <1>1, <1>2

\* A failed read or write takes nobody into the run, and only the owner of a
\* lock that could not be dated removes it.
LEMMA FailureStep ==
  ASSUME TasksInv, NEW t \in Threads, TaskFails(t)
  PROVE  TasksInv'
<1>0. TaskTypeOK /\ thread[t] \in ThreadState /\ thread[t].copy \in Child
  BY ThreadsAreTyped DEF TasksInv, ThreadState
<1>1. taskErrors' \in 0..MaxTaskErrors /\ UNCHANGED <<marker, calls, ids, taskCrashes>>
  BY <1>0, TaskAssumption DEF TaskFails, TaskTypeOK
<1>2. {"drop", "resume_save", "clear"} \subseteq Stops
  BY DEF Stops
<1>3. IdleThread \in ThreadState /\ IdleThread.at = "idle"
  BY CreatedIsChild DEF IdleThread
<1>4. CASE At(t, "date") /\ Remove(t) /\ Returns(t) /\ UNCHANGED task
  <2>1. RestTyped'
    BY <1>0, <1>1, <1>4 DEF RestTyped, TaskTypeOK
  <2> QED
    BY <1>3, <1>4, <2>1, RemovalKeepsTasksInv DEF Returns, Holding, Running, Marking
<1>5. CASE /\ At(t, "start")
           /\ task' \in {task, [Copy(t) EXCEPT !.status = "running", !.run = thread[t].run]}
           /\ Goto(t, "drop") /\ UNCHANGED <<lock, robbed>>
  <2>1. task' \in Child
    BY <1>0, <1>5 DEF ThreadState, Copy, Child, TaskStatuses, TaskTypeOK
  <2>2. RestTyped'
    BY <1>0, <1>1, <2>1 DEF RestTyped, TaskTypeOK
  <2>3. Becomes(t, [thread[t] EXCEPT !.at = "drop"]) /\ thread[t].at \in Holding
    BY <1>5 DEF Goto, At, Holding
  <2> QED
    BY <1>0, <1>2, <1>5, <2>2, <2>3, GotoIsMove, MoveKeepsTasksInv DEF Marking
<1>6. CASE /\ \/ At(t, "settle") /\ Becomes(t, [IdleThread EXCEPT !.at = "clear"])
              \/ At(t, "clear") /\ Goto(t, "drop")
              \/ At(t, "resume_clear") /\ Goto(t, "resume_save")
              \/ thread[t].at \in GivesUp /\ Returns(t)
           /\ UNCHANGED <<task, lock, robbed>>
  <2>1. RestTyped'
    BY <1>0, <1>1, <1>6 DEF RestTyped, TaskTypeOK
  <2>2. CASE At(t, "settle") /\ Becomes(t, [IdleThread EXCEPT !.at = "clear"])
    <3> DEFINE r == [IdleThread EXCEPT !.at = "clear"]
    <3>1. r \in ThreadState /\ r.at = "clear" /\ Becomes(t, r)
      BY <1>2, <2>2, CreatedIsChild DEF IdleThread, ThreadState
    <3> HIDE DEF r
    <3> QED
      BY <1>6, <2>1, <2>2, <3>1, MoveKeepsTasksInv DEF At, Holding, Running, Marking
  <2>3. CASE At(t, "clear") /\ Goto(t, "drop")
    BY <1>0, <1>2, <1>6, <2>1, <2>3, GotoIsMove, MoveKeepsTasksInv
       DEF At, Goto, Holding, Running, Marking
  <2>4. CASE At(t, "resume_clear") /\ Goto(t, "resume_save")
    BY <1>0, <1>2, <1>6, <2>1, <2>4, GotoIsMove, MoveKeepsTasksInv
       DEF Goto, Holding, Running, Marking
  <2>5. CASE Returns(t)
    BY <1>3, <1>6, <2>1, <2>5, MoveKeepsTasksInv DEF Returns, Holding, Running, Marking
  <2> QED
    BY <1>6, <2>2, <2>3, <2>4, <2>5
<1> QED
  BY <1>4, <1>5, <1>6 DEF TaskFails

LEMMA InitTasksInv == TaskInit => TasksInv
<1> SUFFICES ASSUME TaskInit PROVE TasksInv
  OBVIOUS
<1>1. thread \in [Threads -> ThreadState] /\ \A t \in Threads : thread[t].at = "idle"
  BY CreatedIsChild DEF TaskInit, IdleThread
<1>2. calls \in 0..MaxCalls /\ ids \in 0..MaxRunIds /\ taskCrashes \in 0..MaxTaskCrashes
  /\ taskErrors \in 0..MaxTaskErrors
  BY TaskAssumption DEF TaskInit
<1>3. TaskTypeOK
  BY <1>1, <1>2, CreatedIsChild DEF TaskInit, TaskTypeOK, ThreadState
<1> QED
  BY <1>1, <1>3 DEF TasksInv, MarksARun, HoldersHaveTheLock, Holding, Running, Marking

LEMMA NextTasksInv == TasksInv /\ [TaskNext]_taskVars => TasksInv'
<1> SUFFICES ASSUME TasksInv, [TaskNext]_taskVars PROVE TasksInv'
  OBVIOUS
<1>1. CASE UNCHANGED taskVars
  BY <1>1 DEF TasksInv, TaskTypeOK, MarksARun, HoldersHaveTheLock, taskVars
<1>2. ASSUME NEW t \in Threads, TaskSteps(t) \/ Requests(t) \/ SaveInLoop(t)
                              \/ TaskFails(t)
      PROVE  TasksInv'
  BY <1>2, StepsKeepTasksInv, RequestSteps, RunSteps, FailureStep
<1> QED
  BY <1>1, <1>2, CrashStep DEF TaskNext

LEMMA TasksInvHolds == TaskSpec => []TasksInv
  BY InitTasksInv, NextTasksInv, PTL DEF TaskSpec
-----------------------------------------------------------------------------
\* The files, copies and bounds of a task stay what their readers take them
\* for (SessionTaskRecord, task.run.lock, task.cancel.json).
THEOREM TaskTypeCorrect == TaskSpec => []TaskTypeOK
<1>1. TasksInv => TaskTypeOK
  BY DEF TasksInv
<1> QED
  BY <1>1, TasksInvHolds, PTL

\* Everyone between claiming and dropping the run lock finds its own claim in
\* it, until somebody who looked at a stale lock removes that of a live thread:
\* a run that is older than a quarter of an hour, or one that claimed the lock
\* after the look.
THEOREM HoldersKeepTheLock == TaskSpec => []HoldersHaveTheLock
<1>1. TasksInv => HoldersHaveTheLock
  BY DEF TasksInv
<1> QED
  BY <1>1, TasksInvHolds, PTL

\* A task runs in one thread at a time, for any number of clients, as long as
\* no live thread has lost its lock in that way.
THEOREM OneRun == TaskSpec => []OneRunUnlessRobbed
<1>1. TasksInv => OneRunUnlessRobbed
  <2> SUFFICES ASSUME TasksInv, ~robbed
               PROVE  Cardinality({t \in Threads : thread[t].at \in Running}) <= 1
    BY DEF OneRunUnlessRobbed
  <2> DEFINE inside == {t \in Threads : thread[t].at \in Running}
  <2>1. \A t, u \in inside : t = u
    BY DEF TasksInv, HoldersHaveTheLock, Holding
  <2>2. CASE inside = {}
    BY <2>2, FS_EmptySet
  <2>3. CASE inside # {}
    <3>1. PICK t : t \in inside
      BY <2>3
    <3>2. inside = {t}
      BY <2>1, <3>1
    <3>3. Cardinality(inside) = 1
      BY <3>2, FS_Singleton
    <3> QED
      BY <3>3
  <2> QED
    BY <2>2, <2>3
<1> QED
  BY <1>1, TasksInvHolds, PTL
-----------------------------------------------------------------------------
(* Effect receipts.                                                        *)

USE MaxAttemptsAssumption, EffectAssumption
-----------------------------------------------------------------------------
(* The inductive invariant.                                                *)

Owning == {"fill", "note", "execute", "commit", "close", "confirm"}

\* Only the runner that created the receipt is past `create`.
OneOwner ==
  \A r, s \in Runner :
    pc[r] \in Owning /\ pc[s] \in Owning /\ at[r] = at[s] => r = s

\* A runner past `begin` is at an effect.
AtEffect == \A r \in Runner : pc[r] \notin {"idle", "beat"} => at[r] \in Effect

\* What the step of the owner says of the receipt.
OwnerKnows ==
  \A r \in Runner :
    /\ pc[r] = "fill" => receipt[at[r]] = "partial" /\ runs[at[r]] = 0
    /\ pc[r] \in {"note", "execute"} => receipt[at[r]] = "claimed" /\ runs[at[r]] = 0
    /\ pc[r] = "commit" => receipt[at[r]] = "claimed"
    /\ pc[r] \in {"close", "confirm"} => receipt[at[r]] = "committed"
    /\ pc[r] \in {"commit", "close", "confirm"} =>
         runs[at[r]] = 1 /\ made[r] = outcome[at[r]]

\* What the receipt says of the run.
ReceiptKnows ==
  \A k \in Effect :
    /\ runs[k] \in {0, 1}
    /\ receipt[k] \in {"absent", "partial"} => runs[k] = 0
    /\ receipt[k] = "committed" => runs[k] = 1 /\ stored[k] = outcome[k]

IInv ==
  /\ TypeOK
  /\ OneOwner
  /\ AtEffect
  /\ OwnerKnows
  /\ ReceiptKnows
  /\ AnswersAreTheOutcome
-----------------------------------------------------------------------------
LEMMA InitIInv == Init => IInv
<1> SUFFICES ASSUME Init PROVE IInv
  OBVIOUS
<1>1. record \in LedgerRecord
  BY DEF Init, LedgerRecord, Phase, EffectState
<1>2. TypeOK
  BY <1>1 DEF Init, TypeOK, ReceiptState, Steps
<1>3. OneOwner /\ AtEffect /\ OwnerKnows
  BY DEF Init, OneOwner, AtEffect, OwnerKnows, Owning
<1>4. ReceiptKnows /\ AnswersAreTheOutcome
  BY DEF Init, ReceiptKnows, AnswersAreTheOutcome
<1> QED
  BY <1>2, <1>3, <1>4 DEF IInv

\* Steps that touch neither receipts nor ghosts, made by a thread that owns
\* nothing after them.
LEMMA QuietStep ==
  ASSUME IInv, TypeOK', NEW r \in Runner \cup Beater, NEW p \in Steps,
         p \notin Owning, pc' = [pc EXCEPT ![r] = p],
         \A s \in Runner : at'[s] = at[s] \/ (s = r /\ at'[s] \in Effect),
         p \notin {"idle", "beat"} => r \in Runner /\ at'[r] \in Effect,
         UNCHANGED <<receipt, stored, made, runs, outcome, answers>>
  PROVE  IInv'
<1>1. /\ pc'[r] = p
      /\ \A s \in Runner : s # r => pc'[s] = pc[s] /\ at'[s] = at[s]
  BY DEF IInv, TypeOK
<1>2. \A s \in Runner : pc'[s] \in Owning => pc'[s] = pc[s] /\ at'[s] = at[s]
  BY <1>1
<1>3. OneOwner'
  BY <1>2 DEF IInv, OneOwner
<1>4. AtEffect'
  BY <1>1 DEF IInv, AtEffect
<1>5. OwnerKnows'
  BY <1>2 DEF IInv, OwnerKnows, Owning
<1>6. ReceiptKnows' /\ AnswersAreTheOutcome'
  BY DEF IInv, ReceiptKnows, AnswersAreTheOutcome
<1> QED
  BY <1>3, <1>4, <1>5, <1>6 DEF IInv

\* Steps that end a call with the outcome of its run as the answer.
LEMMA AnsweringStep ==
  ASSUME IInv, TypeOK', NEW r \in Runner, NEW k \in Effect,
         runs[k] = 1, pc' = [pc EXCEPT ![r] = "idle"],
         answers' = [answers EXCEPT ![k] = @ \cup {outcome[k]}],
         UNCHANGED <<receipt, stored, at, made, runs, outcome>>
  PROVE  IInv'
<1>1. \A s \in Runner : pc'[s] \notin {"idle", "beat"} => pc'[s] = pc[s]
  BY DEF IInv, TypeOK
<1>2. OneOwner' /\ AtEffect' /\ OwnerKnows'
  BY <1>1 DEF IInv, OneOwner, AtEffect, OwnerKnows, Owning
<1>3. ReceiptKnows'
  BY DEF IInv, ReceiptKnows
<1>4. AnswersAreTheOutcome'
  BY DEF IInv, TypeOK, AnswersAreTheOutcome
<1> QED
  BY <1>2, <1>3, <1>4 DEF IInv

\* Steps of the owner of a receipt, or of the runner that becomes it.
LEMMA OwnerStep ==
  ASSUME IInv, TypeOK', NEW r \in Runner, NEW k \in Effect, at[r] = k,
         NEW p \in Owning, pc' = [pc EXCEPT ![r] = p],
         pc[r] \in Owning \/ receipt[k] = "absent",
         UNCHANGED <<at, answers>>,
         \A j \in Effect \ {k} : /\ receipt'[j] = receipt[j] /\ stored'[j] = stored[j]
                                 /\ runs'[j] = runs[j] /\ outcome'[j] = outcome[j],
         \A s \in Runner \ {r} : made'[s] = made[s],
         /\ p = "fill" => receipt'[k] = "partial" /\ runs'[k] = 0
         /\ p \in {"note", "execute"} => receipt'[k] = "claimed" /\ runs'[k] = 0
         /\ p = "commit" => receipt'[k] = "claimed"
         /\ p \in {"close", "confirm"} => receipt'[k] = "committed" /\ stored'[k] = outcome'[k]
         /\ p \in {"commit", "close", "confirm"} => runs'[k] = 1 /\ made'[r] = outcome'[k],
         runs[k] = 1 => runs'[k] = 1 /\ outcome'[k] = outcome[k]
  PROVE  IInv'
<1>1. pc'[r] = p /\ \A s \in Runner \ {r} : pc'[s] = pc[s] /\ at'[s] = at[s]
  BY DEF IInv, TypeOK
<1>2. \A s \in Runner \ {r} : pc[s] \in Owning => at[s] \in Effect \ {k}
  <2> SUFFICES ASSUME NEW s \in Runner \ {r}, pc[s] \in Owning
               PROVE  at[s] \in Effect /\ at[s] # k
    OBVIOUS
  <2>1. at[s] \in Effect
    BY DEF IInv, AtEffect, Owning
  <2>2. OneOwner /\ OwnerKnows
    BY DEF IInv
  <2>3. CASE pc[r] \in Owning
    BY <2>1, <2>2, <2>3 DEF OneOwner
  <2>4. CASE receipt[k] = "absent"
    <3>1. receipt[at[s]] # "absent"
      BY <2>2 DEF OwnerKnows, Owning
    <3> QED
      BY <2>1, <2>4, <3>1
  <2> QED
    BY <2>1, <2>3, <2>4
<1>3. OneOwner'
  BY <1>1, <1>2 DEF IInv, OneOwner
<1>4. AtEffect'
  BY <1>1 DEF IInv, AtEffect
<1>5. OwnerKnows'
  <2> SUFFICES ASSUME NEW s \in Runner
               PROVE  /\ pc'[s] = "fill" => receipt'[at'[s]] = "partial" /\ runs'[at'[s]] = 0
                      /\ pc'[s] \in {"note", "execute"} =>
                           receipt'[at'[s]] = "claimed" /\ runs'[at'[s]] = 0
                      /\ pc'[s] = "commit" => receipt'[at'[s]] = "claimed"
                      /\ pc'[s] \in {"close", "confirm"} => receipt'[at'[s]] = "committed"
                      /\ pc'[s] \in {"commit", "close", "confirm"} =>
                           runs'[at'[s]] = 1 /\ made'[s] = outcome'[at'[s]]
    BY DEF OwnerKnows
  <2>1. CASE s = r
    BY <1>1, <2>1
  <2>2. CASE s # r /\ pc[s] \in Owning
    BY <1>1, <1>2, <2>2 DEF IInv, OwnerKnows
  <2>3. CASE s # r /\ pc[s] \notin Owning
    BY <1>1, <2>3 DEF Owning
  <2> QED
    BY <2>1, <2>2, <2>3
<1>6. ReceiptKnows'
  BY DEF IInv, ReceiptKnows, Owning
<1>7. AnswersAreTheOutcome'
  <2> SUFFICES ASSUME NEW j \in Effect
               PROVE  answers[j] \subseteq {outcome'[j]} /\ (answers[j] # {} => runs'[j] = 1)
    BY DEF AnswersAreTheOutcome
  <2>1. answers[j] \subseteq {outcome[j]} /\ (answers[j] # {} => runs[j] = 1)
    BY DEF IInv, AnswersAreTheOutcome
  <2> QED
    BY <2>1
<1> QED
  BY <1>3, <1>4, <1>5, <1>6, <1>7 DEF IInv

\* Every step keeps the types.
LEMMA StepKeepsTypes ==
  ASSUME TypeOK, AtEffect, NEW r \in Runner, Step(r)
  PROVE  TypeOK'
<1> USE DEF TypeOK, Goes, Files, Ghosts, Reads, Answered, ReceiptState, Steps
<1>0. \A g \in LedgerRecord : \A k \in Effect :
        /\ [g EXCEPT !.phase = "tool"] \in LedgerRecord
        /\ Noted(g, k, "committed") \in LedgerRecord
        /\ [phase |-> "tool", key |-> k, state |-> "claimed"] \in LedgerRecord
  BY DEF LedgerRecord, Noted, Phase, EffectState
<1>1. ASSUME NEW k \in Effect, Begin(r, k) PROVE TypeOK'
  BY <1>1 DEF Begin
<1>2. CASE Start(r)
  BY <1>0, <1>2 DEF Start, AtEffect
<1>3. CASE Look(r)
  BY <1>3 DEF Look
<1>4. CASE Create(r) \/ Fill(r)
  BY <1>4 DEF Create, Fill
<1>5. CASE Replay(r)
  BY <1>5 DEF Replay, AtEffect
<1>6. CASE Refuse(r) \/ FailEarly(r) \/ Crash(r)
  BY <1>6 DEF Refuse, FailEarly, Crash
<1>7. CASE Note(r)
  BY <1>0, <1>7 DEF Note, AtEffect
<1>8. ASSUME NEW v \in Value, Execute(r, v) PROVE TypeOK'
  BY <1>8 DEF Execute, AtEffect
<1>9. CASE Commit(r)
  BY <1>9 DEF Commit
<1>10. CASE Close(r)
  BY <1>10 DEF Close
<1>11. CASE Confirm(r)
  BY <1>0, <1>11 DEF Confirm, AtEffect
<1>12. CASE FailLate(r)
  BY <1>12 DEF FailLate, AtEffect
<1> QED
  BY <1>1, <1>2, <1>3, <1>4, <1>5, <1>6, <1>7, <1>8, <1>9, <1>10, <1>11, <1>12 DEF Step

\* The steps of a runner.
LEMMA StepKeepsIInv ==
  ASSUME IInv, NEW r \in Runner, Step(r)
  PROVE  IInv'
<1>0. TypeOK' /\ TypeOK /\ AtEffect /\ OwnerKnows /\ ReceiptKnows
  BY StepKeepsTypes DEF IInv
<1> USE DEF Goes, Files, Ghosts, Reads, Answered
<1>1. ASSUME NEW k \in Effect, Begin(r, k) PROVE IInv'
  <2>1. /\ pc' = [pc EXCEPT ![r] = "start"] /\ at' = [at EXCEPT ![r] = k]
        /\ UNCHANGED <<receipt, stored, made, runs, outcome, answers>>
    BY <1>1 DEF Begin
  <2>2. at'[r] = k /\ \A s \in Runner : at'[s] = at[s] \/ (s = r /\ at'[s] \in Effect)
    BY <1>0, <2>1 DEF TypeOK
  <2> QED
    BY <1>0, <2>1, <2>2, QuietStep DEF Steps, Owning
<1>2. CASE Start(r) \/ Look(r)
  <2>1. PICK p \in {"claim", "create"} : pc' = [pc EXCEPT ![r] = p]
    BY <1>2 DEF Start, Look
  <2>2. pc[r] \in {"start", "claim"} /\ at' = at
        /\ UNCHANGED <<receipt, stored, made, runs, outcome, answers>>
    BY <1>2 DEF Start, Look
  <2>3. at[r] \in Effect
    BY <1>0, <2>2 DEF AtEffect
  <2> QED
    BY <1>0, <2>1, <2>2, <2>3, QuietStep DEF Steps, Owning
<1>3. CASE Refuse(r) \/ FailEarly(r) \/ Crash(r)
  <2>1. /\ pc' = [pc EXCEPT ![r] = "idle"] /\ at' = at
        /\ UNCHANGED <<receipt, stored, made, runs, outcome, answers>>
    BY <1>3 DEF Refuse, FailEarly, Crash
  <2> QED
    BY <1>0, <2>1, QuietStep DEF Steps, Owning
<1>4. CASE Create(r)
  <2>1. at[r] \in Effect
    BY <1>0, <1>4 DEF Create, AtEffect
  <2> DEFINE k == at[r]
  <2>2. /\ pc' = [pc EXCEPT ![r] = "fill"] /\ receipt[k] = "absent"
        /\ receipt' = [receipt EXCEPT ![k] = "partial"]
        /\ UNCHANGED <<stored, at, made, runs, outcome, answers>>
    BY <1>4 DEF Create
  <2>3. runs[k] = 0 /\ receipt'[k] = "partial" /\ \A j \in Effect \ {k} : receipt'[j] = receipt[j]
    BY <1>0, <2>1, <2>2 DEF ReceiptKnows, TypeOK
  <2> HIDE DEF k
  <2>4. k = at[r]
    BY DEF k
  <2> QED
    BY <1>0, <2>1, <2>2, <2>3, <2>4, OwnerStep DEF Owning
<1>5. CASE Fill(r)
  <2>1. at[r] \in Effect /\ runs[at[r]] = 0
    BY <1>0, <1>5 DEF Fill, AtEffect, OwnerKnows
  <2> DEFINE k == at[r]
  <2>2. /\ pc' = [pc EXCEPT ![r] = "note"] /\ pc[r] = "fill"
        /\ receipt' = [receipt EXCEPT ![k] = "claimed"]
        /\ UNCHANGED <<stored, at, made, runs, outcome, answers>>
    BY <1>5 DEF Fill
  <2>3. receipt'[k] = "claimed" /\ \A j \in Effect \ {k} : receipt'[j] = receipt[j]
    BY <1>0, <2>1, <2>2 DEF TypeOK
  <2> HIDE DEF k
  <2>4. k = at[r]
    BY DEF k
  <2> QED
    BY <1>0, <2>1, <2>2, <2>3, <2>4, OwnerStep DEF Owning
<1>6. CASE Note(r)
  <2>1. at[r] \in Effect /\ runs[at[r]] = 0 /\ receipt[at[r]] = "claimed"
    BY <1>0, <1>6 DEF Note, AtEffect, OwnerKnows
  <2>2. /\ pc' = [pc EXCEPT ![r] = "execute"] /\ pc[r] = "note"
        /\ UNCHANGED <<receipt, stored, at, made, runs, outcome, answers>>
    BY <1>6 DEF Note
  <2> QED
    BY <1>0, <2>1, <2>2, OwnerStep DEF Owning
<1>7. ASSUME NEW v \in Value, Execute(r, v) PROVE IInv'
  <2>1. at[r] \in Effect /\ runs[at[r]] = 0 /\ receipt[at[r]] = "claimed"
    BY <1>0, <1>7 DEF Execute, AtEffect, OwnerKnows
  <2> DEFINE k == at[r]
  <2>2. /\ pc' = [pc EXCEPT ![r] = "commit"] /\ pc[r] = "execute"
        /\ runs' = [runs EXCEPT ![k] = @ + 1] /\ outcome' = [outcome EXCEPT ![k] = v]
        /\ made' = [made EXCEPT ![r] = v]
        /\ UNCHANGED <<receipt, stored, at, answers>>
    BY <1>7 DEF Execute
  <2>3. /\ runs'[k] = 1 /\ outcome'[k] = v /\ made'[r] = v
        /\ \A j \in Effect \ {k} : runs'[j] = runs[j] /\ outcome'[j] = outcome[j]
        /\ \A s \in Runner \ {r} : made'[s] = made[s]
    BY <1>0, <2>1, <2>2 DEF TypeOK
  <2> HIDE DEF k
  <2>4. k = at[r]
    BY DEF k
  <2>5. at[r] = k /\ k \in Effect /\ "commit" \in Owning /\ pc[r] \in Owning
    BY <2>1, <2>2, <2>4 DEF Owning
  <2>6. \A n \in Effect \ {k} : /\ receipt'[n] = receipt[n] /\ stored'[n] = stored[n]
                                /\ runs'[n] = runs[n] /\ outcome'[n] = outcome[n]
    BY <2>2, <2>3
  <2>7. \A s \in Runner \ {r} : made'[s] = made[s]
    BY <2>2, <2>3
  <2>8. /\ "commit" = "fill" => receipt'[k] = "partial" /\ runs'[k] = 0
        /\ "commit" \in {"note", "execute"} => receipt'[k] = "claimed" /\ runs'[k] = 0
        /\ "commit" = "commit" => receipt'[k] = "claimed"
        /\ "commit" \in {"close", "confirm"} =>
             receipt'[k] = "committed" /\ stored'[k] = outcome'[k]
        /\ "commit" \in {"commit", "close", "confirm"} =>
             runs'[k] = 1 /\ made'[r] = outcome'[k]
    BY <2>1, <2>2, <2>3, <2>4
  <2>9. runs[k] = 1 => runs'[k] = 1 /\ outcome'[k] = outcome[k]
    BY <2>1, <2>2, <2>3, <2>4
  <2>10. UNCHANGED <<at, answers>> /\ pc' = [pc EXCEPT ![r] = "commit"]
    BY <2>2
  <2> QED
    BY <1>0, <2>5, <2>6, <2>7, <2>8, <2>9, <2>10, OwnerStep
<1>8. CASE Commit(r)
  <2>1. at[r] \in Effect /\ runs[at[r]] = 1 /\ made[r] = outcome[at[r]]
    BY <1>0, <1>8 DEF Commit, AtEffect, OwnerKnows
  <2> DEFINE k == at[r]
  <2>2. /\ pc' = [pc EXCEPT ![r] = "close"] /\ pc[r] = "commit"
        /\ receipt' = [receipt EXCEPT ![k] = "committed"]
        /\ stored' = [stored EXCEPT ![k] = made[r]]
        /\ UNCHANGED <<at, made, runs, outcome, answers>>
    BY <1>8 DEF Commit
  <2>3. /\ receipt'[k] = "committed" /\ stored'[k] = outcome'[k]
        /\ \A j \in Effect \ {k} : receipt'[j] = receipt[j] /\ stored'[j] = stored[j]
    BY <1>0, <2>1, <2>2 DEF TypeOK
  <2> HIDE DEF k
  <2>4. k = at[r]
    BY DEF k
  <2>5. at[r] = k /\ k \in Effect /\ "close" \in Owning /\ pc[r] \in Owning
    BY <2>1, <2>2, <2>4 DEF Owning
  <2>6. \A n \in Effect \ {k} : /\ receipt'[n] = receipt[n] /\ stored'[n] = stored[n]
                                /\ runs'[n] = runs[n] /\ outcome'[n] = outcome[n]
    BY <2>2, <2>3
  <2>7. \A s \in Runner \ {r} : made'[s] = made[s]
    BY <2>2, <2>3
  <2>8. /\ "close" = "fill" => receipt'[k] = "partial" /\ runs'[k] = 0
        /\ "close" \in {"note", "execute"} => receipt'[k] = "claimed" /\ runs'[k] = 0
        /\ "close" = "commit" => receipt'[k] = "claimed"
        /\ "close" \in {"close", "confirm"} =>
             receipt'[k] = "committed" /\ stored'[k] = outcome'[k]
        /\ "close" \in {"commit", "close", "confirm"} =>
             runs'[k] = 1 /\ made'[r] = outcome'[k]
    BY <2>1, <2>2, <2>3, <2>4
  <2>9. runs[k] = 1 => runs'[k] = 1 /\ outcome'[k] = outcome[k]
    BY <2>1, <2>2, <2>3, <2>4
  <2>10. UNCHANGED <<at, answers>> /\ pc' = [pc EXCEPT ![r] = "close"]
    BY <2>2
  <2> QED
    BY <1>0, <2>5, <2>6, <2>7, <2>8, <2>9, <2>10, OwnerStep
<1>9. CASE Close(r)
  <2>1. /\ at[r] \in Effect /\ runs[at[r]] = 1 /\ made[r] = outcome[at[r]]
        /\ receipt[at[r]] = "committed" /\ stored[at[r]] = outcome[at[r]]
    BY <1>0, <1>9 DEF Close, AtEffect, OwnerKnows, ReceiptKnows
  <2>2. /\ pc' = [pc EXCEPT ![r] = "confirm"] /\ pc[r] = "close"
        /\ UNCHANGED <<receipt, stored, at, made, runs, outcome, answers>>
    BY <1>9 DEF Close
  <2> QED
    BY <1>0, <2>1, <2>2, OwnerStep DEF Owning
<1>10. CASE Replay(r)
  <2>1. at[r] \in Effect /\ runs[at[r]] = 1 /\ stored[at[r]] = outcome[at[r]]
    BY <1>0, <1>10 DEF Replay, AtEffect, ReceiptKnows
  <2> QED
    BY <1>0, <1>10, <2>1, AnsweringStep DEF Replay
<1>11. CASE Confirm(r) \/ FailLate(r)
  <2>1. at[r] \in Effect /\ runs[at[r]] = 1 /\ made[r] = outcome[at[r]]
    BY <1>0, <1>11 DEF Confirm, FailLate, AtEffect, OwnerKnows
  <2> QED
    BY <1>0, <1>11, <2>1, AnsweringStep DEF Confirm, FailLate
<1> QED
  BY <1>1, <1>2, <1>3, <1>4, <1>5, <1>6, <1>7, <1>8, <1>9, <1>10, <1>11 DEF Step

LEMMA NextIInv == IInv /\ [Next]_vars => IInv'
<1> SUFFICES ASSUME IInv, [Next]_vars PROVE IInv'
  OBVIOUS
<1>1. ASSUME NEW r \in Runner, Step(r) PROVE IInv'
  BY <1>1, StepKeepsIInv
<1>2. ASSUME NEW b \in Beater, Beat(b) \/ WriteBack(b) PROVE IInv'
  <2>1. PICK p \in {"beat", "idle"} : pc' = [pc EXCEPT ![b] = p]
    BY <1>2 DEF Beat, WriteBack, Goes
  <2>2. UNCHANGED <<receipt, stored, at, made, runs, outcome, answers>>
    BY <1>2 DEF Beat, WriteBack, Files, Ghosts
  <2>3. record' \in LedgerRecord /\ seen' \in [Runner \cup Beater -> LedgerRecord]
    BY <1>2 DEF Beat, WriteBack, Reads, IInv, TypeOK
  <2>4. TypeOK'
    BY <2>1, <2>2, <2>3 DEF IInv, TypeOK, Steps
  <2> QED
    BY <2>1, <2>2, <2>4, QuietStep DEF Steps, Owning
<1>3. CASE UNCHANGED vars
  BY <1>3
  DEF vars, IInv, TypeOK, OneOwner, AtEffect, OwnerKnows, ReceiptKnows, AnswersAreTheOutcome
<1> QED
  BY <1>1, <1>2, <1>3 DEF Next

\* The strengthening is inductive.
THEOREM IInvHolds == Spec => []IInv
BY InitIInv, NextIInv, PTL DEF Spec

\* Every variable keeps its type.
THEOREM TypeCorrect == Spec => []TypeOK
<1>1. IInv => TypeOK
  BY DEF IInv
<1> QED
  BY IInvHolds, <1>1, PTL

\* A tool call runs at most once per effect key (execute_tool_with_receipt),
\* for every number of threads, crashes and I/O errors.
THEOREM AtMostOneRun == Spec => []RunsAtMostOnce
<1>1. IInv => RunsAtMostOnce
  BY DEF IInv, ReceiptKnows, RunsAtMostOnce
<1> QED
  BY IInvHolds, <1>1, PTL

\* A run always leaves a complete receipt (claim before, commit after).
THEOREM RunsAreReceipted == Spec => []RunLeavesReceipt
<1>1. IInv => RunLeavesReceipt
  BY DEF IInv, TypeOK, ReceiptState, ReceiptKnows, RunLeavesReceipt
<1> QED
  BY IInvHolds, <1>1, PTL

\* Every answer is the result of the one run.
THEOREM AnswersAgreeWithRun == Spec => []AnswersAreTheOutcome
<1>1. IInv => AnswersAreTheOutcome
  BY DEF IInv
<1> QED
  BY IInvHolds, <1>1, PTL

\* A committed receipt keeps its state and its result.
THEOREM CommitsAreFinal == Spec => CommitIsFinal
<1> DEFINE Final == \A k \in Effect : receipt[k] = "committed" =>
                      receipt'[k] = "committed" /\ stored'[k] = stored[k]
<1>1. IInv /\ [Next]_vars => [Final]_vars
  <2> SUFFICES ASSUME IInv, Next PROVE Final
    BY DEF vars
  <2>1. ASSUME NEW r \in Runner, Create(r) \/ Fill(r) \/ Commit(r) PROVE Final
    <3>1. receipt[at[r]] # "committed" /\ at[r] \in Effect
      BY <2>1 DEF Create, Fill, Commit, Goes, IInv, OwnerKnows, AtEffect
    <3>2. \A k \in Effect \ {at[r]} : receipt'[k] = receipt[k] /\ stored'[k] = stored[k]
      BY <2>1, <3>1 DEF Create, Fill, Commit, IInv, TypeOK
    <3> QED
      BY <3>1, <3>2
  <2>2. ASSUME UNCHANGED <<receipt, stored>> PROVE Final
    BY <2>2
  <2> QED
    BY <2>1, <2>2
    DEF Next, Step, Begin, Start, Look, Replay, Refuse, Note, Execute, Close, Confirm,
        FailEarly, FailLate, Crash, Beat, WriteBack, Files
<1> QED
  BY IInvHolds, <1>1, PTL DEF Spec, CommitIsFinal
-----------------------------------------------------------------------------
(* Refinement: every step of a runner is a claim, a run, an answer or      *)
(* nothing that the abstract specification sees.                           *)

LEMMA StepRefines ==
  ASSUME IInv, NEW r \in Runner, Step(r)
  PROVE  [AtMostOnce!Next]_(AtMostOnce!vars)
<1> USE DEF AtMostOnce!vars, AtMostOnce!Next, Goes, Files, Ghosts, Reads, Answered
<1>0. TypeOK /\ AtEffect /\ OwnerKnows /\ ReceiptKnows /\ AnswersAreTheOutcome
  BY DEF IInv
<1>1. CASE Create(r)
  <2>1. at[r] \in Effect /\ at[r] \notin Claimed
    BY <1>0, <1>1 DEF Create, AtEffect, Claimed
  <2>2. Claimed' = Claimed \cup {at[r]}
    BY <1>0, <1>1, <2>1 DEF Create, TypeOK, Claimed
  <2>3. UNCHANGED <<runs, outcome, answers>>
    BY <1>1 DEF Create
  <2>4. AtMostOnce!Claim(at[r])
    BY <2>1, <2>2, <2>3 DEF AtMostOnce!Claim
  <2>5. AtMostOnce!Next
    BY <2>1, <2>4
  <2> QED
    BY <2>5
<1>2. ASSUME NEW v \in Value, Execute(r, v) PROVE [AtMostOnce!Next]_(AtMostOnce!vars)
  <2>1. at[r] \in Effect /\ receipt[at[r]] = "claimed" /\ runs[at[r]] = 0
    BY <1>0, <1>2 DEF Execute, AtEffect, OwnerKnows
  <2>2. runs' = [runs EXCEPT ![at[r]] = 1]
    BY <1>0, <1>2, <2>1 DEF Execute, TypeOK
  <2>3. at[r] \in Claimed /\ Claimed' = Claimed
    BY <1>2, <2>1 DEF Execute, Claimed
  <2>4. AtMostOnce!Run(at[r], v)
    BY <1>2, <2>1, <2>2, <2>3 DEF Execute, AtMostOnce!Run
  <2>5. AtMostOnce!Next
    BY <2>1, <2>4
  <2> QED
    BY <2>5
<1>3. CASE Replay(r) \/ Confirm(r) \/ FailLate(r)
  <2>1. at[r] \in Effect /\ runs[at[r]] = 1
        /\ answers' = [answers EXCEPT ![at[r]] = @ \cup {outcome[at[r]]}]
    BY <1>0, <1>3
    DEF Replay, Confirm, FailLate, AtEffect, OwnerKnows, ReceiptKnows
  <2>2. answers' = [answers EXCEPT ![at[r]] = {outcome[at[r]]}]
    BY <1>0, <2>1 DEF TypeOK, AnswersAreTheOutcome
  <2>3. UNCHANGED <<Claimed, runs, outcome>>
    BY <1>3 DEF Replay, Confirm, FailLate, Claimed
  <2>4. AtMostOnce!Answer(at[r])
    BY <2>1, <2>2, <2>3 DEF AtMostOnce!Answer
  <2>5. AtMostOnce!Next
    BY <2>1, <2>4
  <2> QED
    BY <2>5
<1>4. CASE Fill(r) \/ Commit(r)
  <2>1. at[r] \in Effect /\ receipt[at[r]] # "absent"
    BY <1>0, <1>4 DEF Fill, Commit, AtEffect, OwnerKnows
  <2>2. Claimed' = Claimed
    BY <1>0, <1>4, <2>1 DEF Fill, Commit, TypeOK, Claimed
  <2> QED
    BY <1>4, <2>2 DEF Fill, Commit
<1>5. ASSUME UNCHANGED <<receipt, runs, outcome, answers>>
      PROVE  [AtMostOnce!Next]_(AtMostOnce!vars)
  BY <1>5 DEF Claimed
<1> QED
  BY <1>1, <1>2, <1>3, <1>4, <1>5
  DEF Step, Begin, Start, Look, Refuse, Note, Close, FailEarly, Crash

\* execute_tool_with_receipt, with its receipts, crashes and races, implements
\* the at-most-once promise.
THEOREM Refinement == Spec => ImplementsAtMostOnce
<1>1. Init => AtMostOnce!Init
  BY DEF Init, AtMostOnce!Init, Claimed
<1>2. IInv /\ [Next]_vars => [AtMostOnce!Next]_(AtMostOnce!vars)
  <2> SUFFICES ASSUME IInv, [Next]_vars PROVE [AtMostOnce!Next]_(AtMostOnce!vars)
    OBVIOUS
  <2>1. ASSUME NEW r \in Runner, Step(r) PROVE [AtMostOnce!Next]_(AtMostOnce!vars)
    BY <2>1, StepRefines
  <2>2. ASSUME NEW b \in Beater, Beat(b) \/ WriteBack(b)
        PROVE  [AtMostOnce!Next]_(AtMostOnce!vars)
    BY <2>2 DEF Beat, WriteBack, Files, Ghosts, Claimed, AtMostOnce!vars
  <2>3. CASE UNCHANGED vars
    BY <2>3 DEF vars, Claimed, AtMostOnce!vars
  <2> QED
    BY <2>1, <2>2, <2>3 DEF Next
<1> QED
  BY IInvHolds, <1>1, <1>2, PTL DEF Spec, ImplementsAtMostOnce, AtMostOnce!Spec

\* Receipts and answers say what happened to a tool call.
THEOREM ReceiptsAreTrue == Spec => []ReceiptsTellTheTruth
<1>1. RunLeavesReceipt /\ AnswersAreTheOutcome => ReceiptsTellTheTruth
  BY DEF ReceiptsTellTheTruth
<1> QED
  BY <1>1, RunsAreReceipted, AnswersAgreeWithRun, PTL

-----------------------------------------------------------------------------
(* Where one thread makes the calls of a turn, nothing but its own steps   *)
(* changes the turn's record: what it read is what is there.               *)
OneThread == Beater = {} /\ \A r, s \in Runner : r = s

\* Once a tool ran, the record tells of an effect.
EffectNoted == record.phase = "tool" /\ record.state \in {"claimed", "committed"}

RecordTells ==
  /\ \A r \in Runner : pc[r] \in {"start", "confirm"} => seen[r] = record
  /\ \A r \in Runner : pc[r] \in {"execute", "commit", "close", "confirm"} => EffectNoted
  /\ (\E k \in Effect : runs[k] # 0) => EffectNoted

LEMMA StepsTell ==
  ASSUME TypeOK, RecordTells, NEW r \in Runner, Step(r),
         \A s \in Runner \ {r} : pc[s] = "idle"
  PROVE  RecordTells'
<1> USE DEF Goes, Files, Ghosts, Reads, TypeOK
<1>1. \A s \in Runner \ {r} : pc'[s] = "idle"
  BY DEF Step, Begin, Start, Look, Create, Fill, Replay, Refuse, Note, Execute, Commit, Close,
         Confirm, FailEarly, FailLate, Crash
<1>2. pc'[r] \in {"start", "confirm"} => seen'[r] = record'
  BY DEF Step, Begin, Start, Look, Create, Fill, Replay, Refuse, Note, Execute, Commit, Close,
         Confirm, FailEarly, FailLate, Crash
<1>3. EffectNoted => EffectNoted'
  <2>1. CASE record' = record
    BY <2>1 DEF EffectNoted
  <2>2. CASE Start(r) \/ Confirm(r)
    <3>1. seen[r] = record /\ record \in LedgerRecord
      BY <2>2 DEF Start, Confirm, RecordTells
    <3>2. CASE Start(r)
      BY <3>1, <3>2 DEF Start, EffectNoted, LedgerRecord
    <3>3. CASE Confirm(r)
      BY <3>1, <3>3 DEF Confirm, Noted, EffectNoted
    <3> QED
      BY <2>2, <3>2, <3>3
  <2>3. CASE Note(r)
    BY <2>3 DEF Note, EffectNoted
  <2> QED
    BY <2>1, <2>2, <2>3
    DEF Step, Begin, Look, Create, Fill, Replay, Refuse, Execute, Commit, Close, FailEarly,
        FailLate, Crash
<1>4. pc'[r] \in {"execute", "commit", "close", "confirm"} => EffectNoted'
  <2>1. CASE Note(r)
    BY <2>1 DEF Note, EffectNoted
  <2>2. CASE pc[r] \in {"execute", "commit", "close", "confirm"}
    BY <1>3, <2>2 DEF RecordTells
  <2> QED
    BY <2>1, <2>2
    DEF Step, Begin, Start, Look, Create, Fill, Replay, Refuse, Execute, Commit, Close, Confirm,
        FailEarly, FailLate, Crash
<1>5. ASSUME NEW k \in Effect, runs'[k] # 0 PROVE EffectNoted'
  <2>1. CASE runs' = runs
    BY <1>3, <1>5, <2>1 DEF RecordTells
  <2>2. CASE \E v \in Value : Execute(r, v)
    BY <1>3, <2>2 DEF Execute, RecordTells
  <2> QED
    BY <2>1, <2>2
    DEF Step, Begin, Start, Look, Create, Fill, Replay, Refuse, Note, Commit, Close, Confirm,
        FailEarly, FailLate, Crash
<1> QED
  BY <1>1, <1>2, <1>4, <1>5 DEF RecordTells

LEMMA NotedIsNotRetried == RecordTells => RetryMeansNotRun
<1> SUFFICES ASSUME RecordTells, Decision = "retry", NEW k \in Effect, runs[k] = 1
             PROVE  FALSE
  BY DEF RetryMeansNotRun
<1>1. EffectNoted
  BY DEF RecordTells
<1> QED
  BY <1>1 DEF EffectNoted, Decision, ClassifyRunning

\* RecoveryPolicy::classify_running after a crash of the only thread of a turn:
\* for every number of tool calls, and wherever the thread dies or an update
\* fails, a turn it would retry has no tool that ran and left no committed result.
THEOREM RetriesRepeatNothing == ASSUME OneThread PROVE Spec => []RetryMeansNotRun
<1>1. Init => RecordTells
  BY DEF Init, RecordTells
<1>2. IInv /\ RecordTells /\ [Next]_vars => RecordTells'
  <2> SUFFICES ASSUME IInv, RecordTells, [Next]_vars PROVE RecordTells'
    OBVIOUS
  <2>1. TypeOK
    BY DEF IInv
  <2>2. ASSUME NEW r \in Runner, Step(r) PROVE RecordTells'
    <3>1. \A s \in Runner \ {r} : pc[s] = "idle"
      BY DEF OneThread
    <3> QED
      BY <2>1, <2>2, <3>1, StepsTell
  <2>3. CASE UNCHANGED vars
    BY <2>3 DEF vars, RecordTells, EffectNoted
  <2> QED
    BY <2>2, <2>3 DEF Next, OneThread
<1> QED
  BY IInvHolds, <1>1, <1>2, NotedIsNotRetried, PTL DEF Spec
-----------------------------------------------------------------------------
(* The stores side by side, as they are run.                               *)

\* What a behaviour of the three does, each of them does or stands still.
LEMMA PartsAreFollowed == StoresSpec => Spec /\ MigrationSpec /\ TaskSpec
<1>1. StoresInit => Init /\ MigrationInit /\ TaskInit
  BY DEF StoresInit
<1>2. [StoresNext]_storeVars => [Next]_vars /\ [MigrationNext]_migrationVars /\ [TaskNext]_taskVars
  BY DEF StoresNext, storeVars, Race, Alone, Effects, Migration, Tasks
<1>3. StoresSpec => StoresInit /\ [][StoresNext]_storeVars
  BY PTL DEF StoresSpec
<1> QED
  BY <1>1, <1>2, <1>3, PTL DEF Spec, MigrationSpec, TaskSpec

\* Every variable of the three stores holds a value of its type.
THEOREM StoresTypeCorrect == StoresSpec => []StoresTypeOK
<1>1. TypeOK /\ MigrationTypeOK /\ TaskTypeOK => StoresTypeOK
  BY DEF StoresTypeOK
<1> QED
  BY <1>1, PartsAreFollowed, TypeCorrect, MigrationTypeCorrect, TaskTypeCorrect, PTL

\* In the behaviours of one thread the others rest.
OthersRest ==
  part = "alone" => RecordTells /\ \A s \in (Runner \cup Beater) \ {r1} : pc[s] = "idle"

\* RecoveryPolicy::classify_running where there are two threads and a
\* heartbeat and only the first thread makes calls: it is killed, or fails, at
\* any step and starts over, and a turn that would be retried has no tool that
\* ran and left no committed result, for any set of calls and results.
THEOREM RetriesAlone ==
  ASSUME Runner = {r1, r2}, Beater = {b1}, r1 \notin {r2, b1}
  PROVE  StoresSpec => []RetryMeansNotRunAlone
<1>1. StoresInit => OthersRest
  BY DEF StoresInit, Init, RecordTells, OthersRest
<1>2. TypeOK /\ OthersRest /\ [StoresNext]_storeVars => OthersRest'
  <2> SUFFICES ASSUME TypeOK, OthersRest, [StoresNext]_storeVars, part' = "alone"
               PROVE  RecordTells' /\ \A s \in (Runner \cup Beater) \ {r1} : pc'[s] = "idle"
    BY DEF OthersRest
  <2>1. part = "alone" /\ RecordTells /\ \A s \in (Runner \cup Beater) \ {r1} : pc[s] = "idle"
    BY DEF OthersRest, StoresNext, storeVars, Race, Alone, Effects, Migration, Tasks
  <2>2. CASE UNCHANGED vars
    BY <2>1, <2>2 DEF vars, RecordTells, EffectNoted
  <2>3. CASE Next /\ pc'[r2] = "idle" /\ pc'[b1] = "idle"
    <3>1. ~ \E b \in Beater : Beat(b) \/ WriteBack(b)
      BY <2>1, <2>3 DEF Beat, WriteBack, Goes, TypeOK
    <3>2. ~Step(r2)
      BY <2>1, <2>3 DEF Step, Begin, Start, Look, Create, Fill, Replay, Refuse, Note, Execute, Commit,
         Close, Confirm, FailEarly, FailLate, Crash, Goes, TypeOK
    <3>3. Step(r1)
      BY <2>3, <3>1, <3>2 DEF Next
    <3>4. RecordTells'
      BY <2>1, <3>3, StepsTell
    <3> QED
      BY <2>3, <3>4
  <2> QED
    BY <2>1, <2>2, <2>3 DEF StoresNext, storeVars, Race, Alone, Effects, Migration, Tasks
<1>3. OthersRest => RetryMeansNotRunAlone
  BY NotedIsNotRetried DEF OthersRest, RetryMeansNotRunAlone
<1>4. StoresSpec => StoresInit /\ [][StoresNext]_storeVars
  BY PTL DEF StoresSpec
<1> QED
  BY <1>1, <1>2, <1>3, <1>4, PartsAreFollowed, TypeCorrect, PTL
=============================================================================
