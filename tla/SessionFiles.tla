----------------------------- MODULE SessionFiles -----------------------------
(***************************************************************************)
(* The state file of a session, state.latest.json, and the numbered event  *)
(* lines of a run, as the threads of a runtime rewrite and append them:    *)
(* load_session, record_event, save_state, write_json, replace_json_file.  *)
(*                                                                         *)
(* No lock is held anywhere.  write_json gives the temporary file of every *)
(* writer one name; replace_json_file moves the old state aside, the new   *)
(* one in, and removes the old one.  A file is an inode: its content, and  *)
(* the names that lead to it.                                              *)
(***************************************************************************)
EXTENDS Integers, Sequences, FiniteSets

CONSTANTS Savers,         \* threads that load, change and save the session
          MaxSaves,       \* bound: changes begun
          MaxDeaths       \* bound: kills of the runtime

ASSUME SessionFilesAssumption ==
  MaxSaves \in Nat /\ MaxDeaths \in Nat /\ {"state", "tmp"} \cap Savers = {}

VARIABLES inode,          \* content of each file ever created
          name,           \* the inode of the state file, of the temporary file and of
                          \* what each thread has moved aside; 0 is none
          left,           \* inodes moved aside by threads that are dead
          numbers,        \* the numbers of the event lines
          saver,          \* what each thread does next, the change it makes, the state
                          \* it loaded, the inode it writes, the number it will use
          begun, deaths,
          saved,          \* ghost: changes whose save returned
          overlapped      \* ghost: two threads were at it at once

filesVars == <<inode, name, left, numbers, saver, begun, deaths, saved, overlapped>>

Changes == 1..MaxSaves
Mixed == {0}              \* bytes of two writes: not JSON
Blank == {-1}             \* truncated and not written yet: not JSON
Whole(content) == content \subseteq Changes

Away == [at |-> "away", change |-> 0, copy |-> {}, fd |-> 0, number |-> 0]

FilesInit ==
  /\ inode = <<{}>>
  /\ name = [f \in {"state", "tmp"} \cup Savers |-> IF f = "state" THEN 1 ELSE 0]
  /\ left = {} /\ numbers = <<>>
  /\ saver = [t \in Savers |-> Away]
  /\ begun = 0 /\ deaths = 0 /\ saved = {} /\ overlapped = FALSE

-----------------------------------------------------------------------------
Stands(t, stop) == saver[t].at = stop
Moves(t, stop) == saver' = [saver EXCEPT ![t].at = stop]
Content(f) == inode[name[f]]
StateKept == UNCHANGED <<inode, name, left>>
GhostsKept == UNCHANGED <<begun, deaths, saved, overlapped>>

(* load_session: without a state file the metadata starts empty, with one  *)
(* that does not parse the call fails.                                     *)
LoadState(t) ==
  /\ Stands(t, "away") /\ begun < MaxSaves
  /\ begun' = begun + 1
  /\ overlapped' = (overlapped \/ \E other \in Savers \ {t} : ~Stands(other, "away"))
  /\ saver' = [saver EXCEPT ![t] =
       IF name["state"] # 0 /\ ~Whole(Content("state")) THEN Away
       ELSE [at |-> "count", change |-> begun', fd |-> 0, number |-> 0,
             copy |-> IF name["state"] = 0 THEN {} ELSE Content("state")]]
  /\ StateKept /\ UNCHANGED <<numbers, deaths, saved>>

(* record_event: next_seq, then the line.                                  *)
CountEvents(t) ==
  /\ Stands(t, "count")
  /\ saver' = [saver EXCEPT ![t].at = "record", ![t].number = Len(numbers) + 1]
  /\ StateKept /\ UNCHANGED numbers /\ GhostsKept

RecordEvent(t) ==
  /\ Stands(t, "record")
  /\ numbers' = Append(numbers, saver[t].number)
  /\ Moves(t, "create")
  /\ StateKept /\ GhostsKept

(* write_json: fs::write creates or truncates the temporary file, then     *)
(* writes; two writes to one file may leave bytes of both.                 *)
CreateTmp(t) ==
  /\ Stands(t, "create")
  /\ IF name["tmp"] = 0
     THEN /\ inode' = Append(inode, Blank)
          /\ name' = [name EXCEPT !["tmp"] = Len(inode')]
     ELSE /\ inode' = [inode EXCEPT ![name["tmp"]] = Blank]
          /\ UNCHANGED name
  /\ saver' = [saver EXCEPT ![t].at = "fill", ![t].fd = name'["tmp"]]
  /\ UNCHANGED <<left, numbers>> /\ GhostsKept

FillTmp(t) ==
  /\ Stands(t, "fill")
  /\ LET mine == saver[t].copy \cup {saver[t].change}
     IN \E content \in IF inode[saver[t].fd] = Blank THEN {mine} ELSE {mine, Mixed} :
          inode' = [inode EXCEPT ![saver[t].fd] = content]
  /\ Moves(t, IF name["state"] # 0 THEN "aside" ELSE "place")
  /\ UNCHANGED <<name, left, numbers>> /\ GhostsKept

Returned(t, done) ==
  /\ saver' = [saver EXCEPT ![t] = Away]
  /\ saved' = IF done THEN saved \cup {saver[t].change} ELSE saved
  /\ UNCHANGED <<numbers, begun, deaths, overlapped>>

(* The old state is removed before the new one is moved in.                *)
MoveAsideUnkept(t) ==
  /\ Stands(t, "aside")
  /\ name' = [name EXCEPT !["state"] = 0]
  /\ Moves(t, "place")
  /\ UNCHANGED <<inode, left, numbers>> /\ GhostsKept

(* replace_json_file: the state is moved aside; it may be gone by now.     *)
MoveAside(t) ==
  /\ Stands(t, "aside")
  /\ IF name["state"] = 0
     THEN Returned(t, FALSE) /\ StateKept
     ELSE /\ name' = [name EXCEPT ![t] = name["state"], !["state"] = 0]
          /\ Moves(t, "place")
          /\ UNCHANGED <<inode, left, numbers>> /\ GhostsKept

(* The new state is moved in; when that fails what was moved aside is put  *)
(* back.                                                                   *)
MoveIn(t) ==
  /\ Stands(t, "place")
  /\ IF name["tmp"] # 0
     THEN /\ name' = [name EXCEPT !["state"] = name["tmp"], !["tmp"] = 0]
          /\ IF name[t] # 0 THEN Moves(t, "remove") /\ UNCHANGED numbers /\ GhostsKept
             ELSE Returned(t, TRUE)
     ELSE /\ name' = [name EXCEPT !["state"] = IF name[t] # 0 THEN name[t] ELSE @, ![t] = 0]
          /\ Returned(t, FALSE)
  /\ UNCHANGED <<inode, left>>

RemoveAside(t) ==
  /\ Stands(t, "remove")
  /\ name' = [name EXCEPT ![t] = 0]
  /\ Returned(t, TRUE)
  /\ UNCHANGED <<inode, left>>

(* The runtime is killed; its files stay.                                  *)
Die ==
  /\ deaths < MaxDeaths /\ \E t \in Savers : ~Stands(t, "away")
  /\ deaths' = deaths + 1
  /\ saver' = [t \in Savers |-> Away]
  /\ left' = left \cup ({name[t] : t \in Savers} \ {0})
  /\ name' = [f \in DOMAIN name |-> IF f \in Savers THEN 0 ELSE name[f]]
  /\ UNCHANGED <<inode, numbers, begun, saved, overlapped>>

FilesNext ==
  \/ \E t \in Savers : \/ LoadState(t) \/ CountEvents(t) \/ RecordEvent(t)
                       \/ CreateTmp(t) \/ FillTmp(t)
                       \/ MoveAside(t) \/ MoveIn(t) \/ RemoveAside(t)
  \/ Die

FilesSpec == FilesInit /\ [][FilesNext]_filesVars

-----------------------------------------------------------------------------
FilesTypeOK ==
  /\ \A i \in DOMAIN inode : Whole(inode[i]) \/ inode[i] \in {Mixed, Blank}
  /\ \A f \in DOMAIN name : name[f] \in 0..Len(inode)
  /\ left \subseteq 1..Len(inode)
  /\ \A t \in Savers : saver[t].copy \subseteq Changes /\ saver[t].change \in 0..MaxSaves
  /\ begun \in 0..MaxSaves /\ deaths \in 0..MaxDeaths /\ saved \subseteq Changes

(* As long as no two threads were at it at once, a kill at any point costs *)
(* no change whose save had returned: the state file is whole whenever it  *)
(* is there, and each change is in it or, after a kill between the two     *)
(* renames, in a file that was moved aside.  The lines are numbered as     *)
(* they stand.                                                             *)
Reachable == ({name[f] : f \in {"state"} \cup Savers} \cup left) \ {0}
OneAtATimeKeepsAll ==
  ~overlapped =>
    /\ name["state"] # 0 => Whole(Content("state"))
    /\ saved \subseteq UNION {inode[i] : i \in Reachable}
    /\ \A i \in DOMAIN numbers : numbers[i] = i

(* "atomic state/checkpoint records": whoever loads the session finds a    *)
(* whole state file with each change whose save has returned.              *)
SavesAreAtomic ==
  /\ name["state"] # 0 /\ Whole(Content("state"))
  /\ saved \subseteq Content("state")
=============================================================================
