----------------------------- MODULE FileChanges ----------------------------
(***************************************************************************)
(* Undo and redo of the files an agent changed, and the checkpoints of a   *)
(* workspace (http_runtime.rs, session_store.rs).  A session's state holds *)
(* two stacks of changes; a turn works on a copy of the state and writes   *)
(* it back, while undo and redo load, change and write it at any time.     *)
(*                                                                         *)
(* Contents are numbers; Absent is no file, and Binary one that cannot be  *)
(* read as text, of which a change keeps no content.                       *)
(***************************************************************************)
EXTENDS Naturals, Sequences, Orders

CONSTANTS
    Files,
    Texts,        \* the readable contents, from 1
    Large,        \* files above the size a checkpoint takes
    StackHolds,   \* MAX_FILE_CHANGE_STACK
    MaxRuns, MaxChanges, MaxOutside \* bounds: turns, their changes, other writers'

VARIABLES
    disk,        \* file -> its content
    stacks,      \* the saved state: [undo, redo]
    copy,        \* the running turn's state: [run, undo, redo, changed]
                 \* or NoCopy; changed are the files it has written
    runs,        \* turns begun
    changes,     \* changes made by turns
    outside,     \* edits and restored checkpoints so far
    checkpoint,  \* the latest checkpoint: the files it has
    foreign      \* files something else than the stacks' changes has moved

fileVars == <<disk, stacks, copy, runs, changes, outside, checkpoint, foreign>>

Absent == 0
Binary == 99
Contents == Texts \cup {Absent, Binary}
NoText == 98

ASSUME FileAssumption ==
    /\ 1 \in Texts /\ Texts \subseteq Nat \ {Absent, Binary, NoText}
    /\ StackHolds \in Nat \ {0} /\ MaxRuns \in Nat

NoCopy == [run |-> 0]
Kept(c) == IF c = Binary THEN NoText ELSE c

Change == [file : Files, run : 1..MaxRuns, before : Texts \cup {Absent, NoText}, after : Texts]

(* Entry i is the latest of its file, j is the next one of its file.       *)
IsLatest(stack, i) == \A k \in i + 1..Len(stack) : stack[k].file # stack[i].file
Follows(stack, i, j) == /\ i < j /\ stack[j].file = stack[i].file
                        /\ \A k \in i + 1..j - 1 : stack[k].file # stack[i].file

(* Mutant: nothing goes.                                            *)
PushUnbounded(stack, change) == Append(stack, change)

(* push_stack_entry: the oldest entries go when the stack is full. *)
Push(stack, change) ==
    LET longer == Append(stack, change)
        over == IF Len(longer) > StackHolds THEN Len(longer) - StackHolds ELSE 0
    IN SubSeq(longer, over + 1, Len(longer))
Popped(stack) == SubSeq(stack, 1, Len(stack) - 1)
Top(stack) == stack[Len(stack)]

(* apply_file_change_state: an error when the content was not kept. *)
Restorable(content) == content # NoText

-----------------------------------------------------------------------------
(* A turn, or the latest one again: when it waited for an approval its     *)
(* changes go on under the same run, and no later turn begins meanwhile.   *)

BeginsRun ==
    /\ copy = NoCopy
    /\ runs' \in {runs, runs + 1} \ {0} /\ runs' <= MaxRuns
    /\ copy' = [run |-> runs', undo |-> stacks.undo, redo |-> stacks.redo,
                changed |-> {}]
    /\ UNCHANGED <<disk, stacks, changes, outside, checkpoint, foreign>>

(* A write or edit: capture_file_change_before, the tool, then             *)
(* complete_file_change and push_file_change.                              *)
Changes(f, text) ==
    /\ copy # NoCopy /\ changes < MaxChanges
    /\ disk[f] # text
    /\ changes' = changes + 1
    /\ disk' = [disk EXCEPT ![f] = text]
    /\ copy' = [run |-> copy.run,
                undo |-> Push(copy.undo, [file |-> f, run |-> copy.run,
                                          before |-> Kept(disk[f]), after |-> text]),
                redo |-> <<>>,
                changed |-> copy.changed \cup {f}]
    /\ UNCHANGED <<stacks, runs, outside, checkpoint, foreign>>

SavesRun ==
    /\ copy # NoCopy
    /\ stacks' = [undo |-> copy.undo, redo |-> copy.redo]
    /\ \/ UNCHANGED copy
       \/ copy' = NoCopy
    /\ UNCHANGED <<disk, runs, changes, outside, checkpoint, foreign>>

(* What a turn had not saved is not on the stacks. *)
RunDies ==
    /\ copy # NoCopy
    /\ foreign' = foreign \cup copy.changed
    /\ copy' = NoCopy
    /\ UNCHANGED <<disk, stacks, runs, changes, outside, checkpoint>>

-----------------------------------------------------------------------------
(* The commands: the file first, then the stacks.  A process that dies in  *)
(* between has moved the file only, and a turn under way will write its    *)
(* own stacks over the new ones.                                           *)

Moves(f, content, new) ==
    /\ Restorable(content)
    /\ disk' = [disk EXCEPT ![f] = content]
    /\ \/ /\ stacks' = new
          /\ foreign' = IF copy = NoCopy THEN foreign ELSE foreign \cup {f}
       \/ /\ UNCHANGED stacks
          /\ foreign' = foreign \cup {f}
    /\ UNCHANGED <<copy, runs, changes, outside, checkpoint>>

(* undo_session_payload *)
Undoes ==
    /\ stacks.undo # <<>>
    /\ LET change == Top(stacks.undo) IN
       Moves(change.file, change.before,
             [undo |-> Popped(stacks.undo), redo |-> Push(stacks.redo, change)])

(* redo_session_payload *)
Redoes ==
    /\ stacks.redo # <<>>
    /\ LET change == Top(stacks.redo) IN
       Moves(change.file, change.after,
             [undo |-> Push(stacks.undo, change), redo |-> Popped(stacks.redo)])

(* undo_session_file_payload: all changes of one turn to one file, when    *)
(* the file still is what the last of them made it.                        *)
OfTurn(f, run) ==
    {i \in DOMAIN stacks.undo : stacks.undo[i].file = f /\ stacks.undo[i].run = run}
Others(f, run) == Retain(stacks.undo, {c \in Change : ~(c.file = f /\ c.run = run)})

(* As one change it goes from before the first to after the last.  A       *)
(* mutant keeps the last change as it is.                                  *)
GroupedAsLast(first, last) == last
Grouped(first, last) == [last EXCEPT !.before = first.before]

UndoesFile(f, run) ==
    \E i, j \in OfTurn(f, run) :
       LET first == stacks.undo[i]
           last == stacks.undo[j]
       IN /\ \A k \in OfTurn(f, run) : i <= k /\ k <= j
          /\ last.after = disk[f]
          /\ Restorable(first.before)
          /\ disk' = [disk EXCEPT ![f] = first.before]
          /\ \/ /\ stacks' = [undo |-> Others(f, run),
                              redo |-> Push(stacks.redo, Grouped(first, last))]
                /\ foreign' = IF copy = NoCopy /\ IsLatest(stacks.undo, j) THEN foreign
                              ELSE foreign \cup {f}
             \/ /\ UNCHANGED stacks
                /\ foreign' = foreign \cup {f}
          /\ UNCHANGED <<copy, runs, changes, outside, checkpoint>>

-----------------------------------------------------------------------------
(* The rest of the world, and checkpoints. *)

EditsOutside(f, content) ==
    /\ disk[f] # content /\ outside < MaxOutside
    /\ outside' = outside + 1
    /\ disk' = [disk EXCEPT ![f] = content]
    /\ foreign' = foreign \cup {f}
    /\ UNCHANGED <<stacks, copy, runs, changes, checkpoint>>

(* snapshot_workspace: what is too large is left out ... *)
Snapshot == [f \in Files |-> IF f \in Large THEN Absent ELSE disk[f]]

TakesCheckpoint ==
    /\ copy # NoCopy
    /\ checkpoint' = Snapshot
    /\ UNCHANGED <<disk, stacks, copy, runs, changes, outside, foreign>>

(* ... and what a checkpoint does not have, restoring it removes; the      *)
(* stacks stay.                                                            *)
Moved == {f \in Files : disk[f] # checkpoint[f]}

RestoresCheckpoint ==
    /\ outside < MaxOutside
    /\ outside' = outside + 1
    /\ disk' = checkpoint
    /\ foreign' = foreign \cup Moved
    /\ UNCHANGED <<stacks, copy, runs, changes, checkpoint>>

FileInit ==
    /\ disk \in [Files -> {Absent, Binary, 1}]
    /\ stacks = [undo |-> <<>>, redo |-> <<>>]
    /\ copy = NoCopy
    /\ runs = 0 /\ changes = 0 /\ outside = 0
    /\ checkpoint = Snapshot
    /\ foreign = {}

FileNext ==
    \/ BeginsRun \/ SavesRun \/ RunDies \/ Undoes \/ Redoes
    \/ TakesCheckpoint \/ RestoresCheckpoint
    \/ \E f \in Files :
         \/ \E text \in Texts : Changes(f, text)
         \/ \E run \in 1..MaxRuns : UndoesFile(f, run)
         \/ \E content \in Contents : EditsOutside(f, content)

FileSpec == FileInit /\ [][FileNext]_fileVars

-----------------------------------------------------------------------------
FileTypeOK ==
    /\ disk \in [Files -> Contents]
    /\ \A stack \in {stacks.undo, stacks.redo} :
         Len(stack) <= StackHolds /\ \A i \in DOMAIN stack : stack[i] \in Change
    /\ runs \in 0..MaxRuns /\ copy.run \in 0..runs
    /\ foreign \subseteq Files

(* However undo, redo and undoing one file of one turn are mixed with the  *)
(* changes of further turns, the stacks stay an exact path of each file:   *)
(* the changes to undo link up and end in what the file is, and those to   *)
(* redo start there and link up.  This is claimed of files that nothing    *)
(* else has moved: no edit from outside, no restored checkpoint, no death  *)
(* between the file and the state, no command during a turn, and no        *)
(* undoing of a turn's file behind a later turn's change to it.            *)
UndoPath(stack, f, content) ==
    \A i \in 1..Len(stack) : stack[i].file = f =>
        /\ IsLatest(stack, i) => stack[i].after = content
        /\ \A j \in 1..Len(stack) : Follows(stack, i, j) => stack[i].after = stack[j].before

RedoPath(stack, f, content) ==
    \A i \in 1..Len(stack) : stack[i].file = f =>
        /\ IsLatest(stack, i) => stack[i].before = content
        /\ \A j \in 1..Len(stack) : Follows(stack, i, j) => stack[i].before = stack[j].after

StacksLinkUp ==
    LET now == IF copy = NoCopy THEN stacks ELSE copy
    IN \A f \in Files \ foreign : /\ UndoPath(now.undo, f, disk[f])
                                 /\ RedoPath(now.redo, f, Kept(disk[f]))
=============================================================================
