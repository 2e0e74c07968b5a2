-------------------------- MODULE SessionTranscript --------------------------
(***************************************************************************)
(* The transcript of one session: an append-only log of message lines,     *)
(* part lines and tombstones, and the projection that every reader and     *)
(* every later turn sees (FileSessionStore: append_message,                *)
(* list_messages_with_parts and their neighbours).  What is said is        *)
(* written twice, first as a line of the older form (v1), which readers    *)
(* use only while there is nothing of the newer form to show.              *)
(*                                                                         *)
(* One program at a time has the session open: the bridge, whose message   *)
(* ids are unique, or the command line, which names a message by its       *)
(* index.  It keeps the messages in memory.  A step is a call with all its *)
(* lines, or with those before the program was killed.  Every line carries *)
(* the rank of its message as a ghost, `msg`, and a part that is a summary *)
(* the rank of the last message it summarises, `upto`.                     *)
(***************************************************************************)
EXTENDS Integers, Sequences, FiniteSets, SequencesExt, Orders

CONSTANTS Programs,       \* who runs turns: a subset of {"bridge", "cli"}
          MaxTold,        \* bound: messages written
          MaxParts,       \* bound: parts of a message
          MaxLog,         \* bound: lines of the transcript
          MaxKills        \* bound: kills of a program

ASSUME TranscriptAssumption ==
  /\ Programs \subseteq {"bridge", "cli"}
  /\ MaxTold \in Nat /\ MaxParts \in Nat \ {0, 1}
  /\ MaxLog \in Nat /\ MaxKills \in Nat

VARIABLES log,            \* transcript.jsonl
          driver,         \* the program that has the session open, and its messages
          kills

transcriptVars == <<log, driver, kills>>

NoId == <<"none", 0>>

(* One shape for all lines; seq, kind, until and upto are of part lines.   *)
Line(line, id, role, msg) ==
  [line |-> line, id |-> id, role |-> role, msg |-> msg,
   seq |-> 0, kind |-> "", until |-> NoId, upto |-> 0]
PartLine(id, msg, seq, kind) == [Line("part", id, "", msg) EXCEPT !.seq = seq, !.kind = kind]
OldLine(id, role, msg, kind) == [Line("v1", id, role, msg) EXCEPT !.kind = kind]
Tombstone(m) == Line("gone", m.id, "", m.msg)
PartTombstone(p) == [Line("cut", p.id, "", p.msg) EXCEPT !.seq = p.seq]

Closed == [by |-> "nobody", memory |-> <<>>]

TranscriptInit ==
  /\ log = <<>> /\ driver = Closed /\ kills = 0

-----------------------------------------------------------------------------
(* The projection.                                                         *)

(* A tombstone takes away all messages of its id, also those that come     *)
(* after it, or all parts of its id and number; a part goes to the message *)
(* of its id that came last before it; and parts are sorted by their       *)
(* numbers.                                                                *)
Alive(lines) ==
  LET cut == {<<lines[i].id, lines[i].seq>> : i \in {j \in DOMAIN lines : lines[j].line = "cut"}}
      gone == {lines[i].id : i \in {j \in DOMAIN lines : lines[j].line = "gone"}}
      heads == {i \in DOMAIN lines : lines[i].line = "message" /\ lines[i].id \notin gone}
      order == Listed(InOrder(heads, [i \in heads |-> i]))
      Own(h) == {i \in DOMAIN lines : /\ lines[i].line = "part" /\ lines[i].id = lines[h].id
                                      /\ <<lines[i].id, lines[i].seq>> \notin cut /\ h < i
                                      /\ \A g \in heads : lines[g].id = lines[h].id /\ g < i => g <= h}
      BySeq(h) == Listed(SortedBy(Own(h),
                    {p \in Own(h) \X Own(h) :
                       \/ lines[p[1]].seq < lines[p[2]].seq
                       \/ lines[p[1]].seq = lines[p[2]].seq /\ p[1] < p[2]}))
      Message(h) == [id |-> lines[h].id, role |-> lines[h].role, msg |-> lines[h].msg,
                     parts |-> LET parts == BySeq(h)
                               IN Listed([j \in DOMAIN parts |-> lines[parts[j]]])]
  IN Listed([k \in DOMAIN order |-> Message(order[k])])

HasPart(m, kinds) == \E i \in DOMAIN m.parts : m.parts[i].kind \in kinds
UntilOf(m) == m.parts[Min({i \in DOMAIN m.parts : m.parts[i].kind = "compaction"})].until
Position(list, id) ==
  LET at == {i \in DOMAIN list : list[i].id = id} IN IF at = {} THEN 0 ELSE Min(at)

(* A boundary hides what lies up to its cut, except the output of skills;  *)
(* when no message has the id it names, the cut is right before it.        *)
Cut(list, boundary) ==
  LET named == Position(list, UntilOf(list[boundary]))
      cut == IF named # 0 THEN named ELSE Max({boundary - 1, 1})
      skills == {m \in ToSet(list) : HasPart(m, {"skill"})}
  IN Retain(SubSeq(list, 1, cut), skills) \o SubSeq(list, cut + 1, Len(list))

Boundaries(list) == {i \in DOMAIN list : HasPart(list[i], {"compaction"})}

(* Mutant: the first boundary counts.                                      *)
CompactedByFirst(list) ==
  IF Boundaries(list) = {} THEN list ELSE Cut(list, Min(Boundaries(list)))

(* Only the last boundary counts.                                          *)
Compacted(list) ==
  IF Boundaries(list) = {} THEN list ELSE Cut(list, Max(Boundaries(list)))

(* load_v2_messages_from_transcript                                        *)
Newer(lines) == Compacted(Alive(lines))

(* project_legacy_messages_from_transcript: a message for each line of the *)
(* older form, whatever was removed.                                       *)
Older(lines) ==
  LET heads == {i \in DOMAIN lines : lines[i].line = "v1"}
      order == Listed(InOrder(heads, [i \in heads |-> i]))
      Message(l) == [id |-> l.id, role |-> l.role, msg |-> l.msg,
                     parts |-> <<PartLine(l.id, l.msg, 1, l.kind)>>]
  IN Listed([k \in DOMAIN order |-> Message(lines[order[k]])])

(* list_messages_with_parts                                                *)
View(lines) == IF Newer(lines) = <<>> THEN Older(lines) ELSE Newer(lines)

(* message_parts_to_chat_messages: a message without parts is left out,    *)
(* and each call is followed by its result, which has no id of its own.    *)
Entry(id, msg, role) == [id |-> id, msg |-> msg, role |-> role]
ChatOf(m) ==
  (IF m.parts = <<>> THEN <<>> ELSE <<Entry(m.id, m.msg, m.role)>>)
  \o (IF HasPart(m, {"call"}) THEN <<Entry(NoId, m.msg, "tool")>> ELSE <<>>)
Chat(list) == FlattenSeq([i \in DOMAIN list |-> ChatOf(list[i])])

-----------------------------------------------------------------------------
(* The calls.  Each works out its lines from the log and the messages in   *)
(* memory, and appends them one by one.                                    *)
Memory == driver.memory
Ready == driver.by \in Programs
Torn == \E i \in DOMAIN log : log[i].line = "torn"
Free == driver = Closed /\ ~Torn

(* What was said: the messages, the parts of each that were not cut off,   *)
(* and what was removed.                                                   *)
Said == {log[i].msg : i \in {j \in DOMAIN log : log[j].line = "message"}}
WrittenOf(m) == {i \in DOMAIN log : log[i].line = "part" /\ log[i].msg = m}
CutOff == {<<log[i].id, log[i].seq>> : i \in {j \in DOMAIN log : log[j].line = "cut"}}
PartsOf(m) == {i \in WrittenOf(m) : <<log[i].id, log[i].seq>> \notin CutOff}
IsRemoved(m) == \E i \in DOMAIN log : log[i].line = "gone" /\ log[i].msg = m
SaidBefore == {log[i].msg : i \in {j \in DOMAIN log : log[j].line = "v1"}}
Coming == Max({0} \cup Said \cup SaidBefore) + 1

Writes(lines, torn) ==
  log' = log \o lines \o (IF torn THEN <<Line("torn", NoId, "", 0)>> ELSE <<>>)

(* All lines are written and the session stays with `next`; or the program *)
(* dies, and the line it was at is missing, or torn: then nothing reads    *)
(* the transcript any more.                                                *)
Appends(lines, next) ==
  /\ Len(log) + Len(lines) <= MaxLog
  /\ \/ /\ Writes(lines, FALSE)
        /\ driver' = next
        /\ UNCHANGED kills
     \/ /\ kills < MaxKills /\ kills' = kills + 1
        /\ driver' = Closed
        /\ \E n \in 0..(Len(lines) - 1), torn \in BOOLEAN : Writes(SubSeq(lines, 1, n), torn)

Performs(entries, lines) == Appends(lines, [driver EXCEPT !.memory = @ \o entries])

(* load_session, at the start of a run.                                    *)
Open(p) ==
  /\ Free
  /\ driver' = [by |-> p, memory |-> Chat(View(log))]
  /\ UNCHANGED <<log, kills>>

Close ==
  /\ Ready
  /\ driver' = Closed
  /\ UNCHANGED <<log, kills>>

(* The bridge names a message after its turn, the command line after its   *)
(* place in memory.                                                        *)
NewId == IF driver.by = "bridge" THEN <<"turn", Coming>> ELSE <<"index", Len(Memory)>>

(* append_message, for the user's input or the model's answer.             *)
Say(role, kind) ==
  /\ Ready /\ Coming <= MaxTold
  /\ Performs(<<Entry(NewId, Coming, role)>>,
              << OldLine(NewId, role, Coming, kind),
                 Line("message", NewId, role, Coming), PartLine(NewId, Coming, 1, kind) >>)

(* next_message_part_seq counts the parts of removed messages too.         *)
NextPartSeq(id) ==
  Max({0} \cup {log[i].seq : i \in {j \in DOMAIN log : log[j].line = "part" /\ log[j].id = id}}) + 1

AddPart(e, kind, entries, before) ==
  /\ Cardinality(WrittenOf(e.msg)) < MaxParts
  /\ Performs(entries, before \o <<PartLine(e.id, e.msg, NextPartSeq(e.id), kind)>>)

Assistants == {e \in ToSet(Memory) : e.role = "assistant"}
Wrote(msg, kinds) ==
  \E i \in DOMAIN log : log[i].line = "part" /\ log[i].msg = msg /\ log[i].kind \in kinds

(* The result of a tool call, after a line of the older form, is a part of *)
(* the message that made the call.                                         *)
Result(kind) ==
  /\ Ready
  /\ \E e \in Assistants :
       /\ \E i \in PartsOf(e.msg) : log[i].kind = "call"
       /\ ~Wrote(e.msg, {"result", "skill"})
       /\ AddPart(e, kind, <<Entry(NoId, e.msg, "tool")>>,
                  <<OldLine(NoId, "tool", e.msg, kind)>>)

(* The changes of a step, once its calls have results, are a part of its   *)
(* message.                                                                *)
Patch ==
  /\ Ready
  /\ \E e \in Assistants :
       /\ \A other \in Assistants : other.msg <= e.msg
       /\ Wrote(e.msg, {"result", "skill"}) /\ ~Wrote(e.msg, {"patch"})
       /\ AddPart(e, "patch", <<>>, <<>>)

(* append_compaction_boundary_with_metadata.                               *)
BoundaryLines(id, until, upto) ==
  << Line("message", id, "system", Coming),
     PartLine(id, Coming, 1, "text"),
     [PartLine(id, Coming, 2, "compaction") EXCEPT !.until = until, !.upto = upto] >>
BoundaryId == <<"compaction", Coming>>

(* Mutant: a result, which has no id, may be the end.                      *)
SummableAny == 1..(Len(Memory) - 1)

(* Where a compaction may end: at the last message with an id before the   *)
(* part that is kept, wherever that begins.                                *)
Summable == {k \in 1..(Len(Memory) - 1) : Memory[k].id # NoId}

(* A turn under pressure summarises a prefix of what it has in memory.     *)
AutoCompact ==
  /\ Ready /\ driver.by = "bridge" /\ Coming <= MaxTold
  /\ \E k \in Summable :
       Performs(<<Entry(BoundaryId, Coming, "system")>>,
                   BoundaryLines(BoundaryId, Memory[k].id, Memory[k].msg))

(* compact_session_payload summarises all messages, and goes by the index  *)
(* of the last one when that is a result.                                  *)
LastId(chat) ==
  IF chat[Len(chat)].id # NoId THEN chat[Len(chat)].id ELSE <<"index", Len(chat) - 1>>

Compact ==
  /\ Free /\ Coming <= MaxTold
  /\ LET chat == Chat(View(log))
     IN /\ chat # <<>>
        /\ Appends(BoundaryLines(BoundaryId, LastId(chat), chat[Len(chat)].msg), Closed)

(* The boundaries that are not undone, whether or not their last line was  *)
(* written.                                                                *)
ActiveBoundaries ==
  LET gone == {log[i].id : i \in {j \in DOMAIN log : log[j].line = "gone"}}
  IN {i \in DOMAIN log : /\ log[i].line = "message"
                         /\ log[i].id[1] = "compaction" /\ log[i].id \notin gone}

(* undo_session_compaction_payload takes the last of them away.            *)
Undo ==
  /\ Free /\ ActiveBoundaries # {}
  /\ Appends(<<Tombstone(log[Max(ActiveBoundaries)])>>, Closed)

(* truncate_messages_after, when the command line restores a checkpoint: a *)
(* tombstone for each part of the message it names after the part it names *)
(* (0 names none), and for each message that is shown after that one.      *)
Truncate(id, part) ==
  /\ Free
  /\ LET shown == Newer(log)
         at == Position(shown, id)
         parts == shown[at].parts
         rest == IF part = 0 THEN <<>> ELSE SubSeq(parts, part + 1, Len(parts))
     IN /\ at # 0 /\ part <= Len(parts)
        /\ Appends([i \in DOMAIN rest |-> PartTombstone(rest[i])]
                   \o [i \in 1..(Len(shown) - at) |-> Tombstone(shown[at + i])], Closed)

(* Mutant: all parts go to the first message of the fork.                  *)
ForkLinesOneOwner(list) ==
  FlattenSeq([i \in DOMAIN list |->
    <<Line("message", <<"fork", i>>, list[i].role, list[i].msg)>>
    \o [j \in DOMAIN list[i].parts |->
          [list[i].parts[j] EXCEPT !.id = <<"fork", 1>>, !.seq = j]]])

(* fork_session writes what is shown, up to a message, under new ids; the  *)
(* copy of a boundary still names a message of the source.                 *)
ForkLines(list) ==
  FlattenSeq([i \in DOMAIN list |->
    <<Line("message", <<"fork", i>>, list[i].role, list[i].msg)>>
    \o [j \in DOMAIN list[i].parts |->
          [list[i].parts[j] EXCEPT !.id = <<"fork", i>>, !.seq = j]]])

TranscriptNext ==
  \/ \E p \in Programs : Open(p)
  \/ Say("user", "text") \/ Say("assistant", "call")
  \/ Result("result") \/ Result("skill") \/ Patch
  \/ AutoCompact \/ Compact \/ Undo
  \/ \E id \in {log[i].id : i \in DOMAIN log}, part \in 0..MaxParts : Truncate(id, part)
  \/ Close

TranscriptSpec == TranscriptInit /\ [][TranscriptNext]_transcriptVars

-----------------------------------------------------------------------------
TranscriptTypeOK ==
  /\ \A i \in DOMAIN log : /\ log[i].line \in {"v1", "message", "part", "gone", "cut", "torn"}
                           /\ log[i].line \notin {"v1", "torn"} => log[i].msg \in Said
                           /\ log[i].upto < log[i].msg + 1
                           /\ log[i].kind = "compaction" => log[i].until # NoId
  /\ driver.by \in Programs \cup {"nobody"}
  /\ kills \in 0..MaxKills
  /\ Said \cup SaidBefore = 1..(Coming - 1) /\ Coming - 1 <= MaxTold
  /\ \A m \in Said : Cardinality(WrittenOf(m)) <= MaxParts

Standing == {m \in Said : ~IsRemoved(m) /\ PartsOf(m) # {}}
UpToOf(m) == Max({0} \cup {log[i].upto : i \in PartsOf(m)})
LastBoundary == Max({0} \cup {m \in Standing : UpToOf(m) > 0})
Adrift == LastBoundary # 0 /\ (UpToOf(LastBoundary) \notin Said \/ IsRemoved(UpToOf(LastBoundary)))
Hidden(m) == /\ LastBoundary # 0 /\ m <= UpToOf(LastBoundary)
             /\ \A i \in PartsOf(m) : log[i].kind # "skill"

(* What a reader sees is what was said: each message that no restore or    *)
(* undo removed and that the last standing compaction does not summarise,  *)
(* once, in the order it was said, with all the parts written for it and   *)
(* not cut off, in their order (a kill may leave a message without any,    *)
(* which says nothing); a summary that is undone or cut off gives back     *)
(* what it had hidden.  A message whose line of the newer form a kill      *)
(* prevented was not said; it is shown, from its older line, only while no *)
(* other message stands, and the next one to be said hides it for good.    *)
(* The exception is a boundary that names such a message, or one that a    *)
(* restore had removed when it was killed, and not yet the boundary.       *)
ShownAsTold ==
  ~Torn /\ ~Adrift =>
    LET view == View(log)
        shown == Listed(Retain(view, {m \in ToSet(view) : m.parts # <<>>}))
        onlyOlder == \A m \in Said : IsRemoved(m)
        said == IF onlyOlder THEN SaidBefore ELSE {m \in Standing : ~Hidden(m)}
    IN /\ [i \in DOMAIN shown |-> shown[i].msg] = InOrder(said, [m \in said |-> m])
       /\ onlyOlder \/ \A i \in DOMAIN shown :
            LET parts == shown[i].parts
            IN /\ Len(parts) = Cardinality(PartsOf(shown[i].msg))
               /\ \A j \in DOMAIN parts : /\ parts[j].msg = shown[i].msg
                                          /\ j > 1 => parts[j - 1].seq < parts[j].seq

Shape(list) ==
  [i \in DOMAIN list |-> <<list[i].msg, [j \in DOMAIN list[i].parts |-> list[i].parts[j].kind]>>]

(* A fork shows the messages that its source showed up to the message, or  *)
(* to the part of it, that it was cut at, with all their parts, and none   *)
(* that a tombstone or a compaction had taken away, unless a summary is    *)
(* among them.                                                             *)
ForkShowsTheSame ==
  ~Torn =>
    LET shown == View(log)
    IN \A k \in DOMAIN shown : \A n \in 0..Len(shown[k].parts) :
         LET last == [shown[k] EXCEPT !.parts = SubSeq(@, 1, n)]
             source == Append(SubSeq(shown, 1, k - 1), last)
         IN Boundaries(source) = {} => Shape(View(ForkLines(source))) = Shape(source)

(* A transcript says what was told, in the session and in its forks.       *)
TranscriptIsShown == ShownAsTold /\ ForkShowsTheSame
=============================================================================
