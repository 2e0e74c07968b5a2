----------------------------- MODULE ContextPack -----------------------------
(***************************************************************************)
(* What a provider request holds of a session (core.rs: ContextPackBuilder *)
(* and materialize_context_history; http_runtime.rs: provider_turn_result  *)
(* and automatic compaction; context_memory_runtime.rs).                   *)
(*                                                                         *)
(* Every step packs the session anew: items are collected in order, the    *)
(* same id twice counts once, required items are cut down until they fit,  *)
(* and by rank what the budget has room for goes in.  A pack that had to   *)
(* drop history makes the runtime summarise the older part, once per step, *)
(* and pack again.  A text is its size in tokens, one byte each.           *)
(***************************************************************************)
EXTENDS Integers, Sequences, FiniteSets, SequencesExt, Orders

CONSTANTS
    Fixed,        \* items every pack begins with: the sources and the system prompt
    SessionItems, \* the goal, plan, todos and checkpoints of a session
    Floors,       \* kind -> what its text is not cut below at first
    HardFloor,    \* ... and at last
    Limits,       \* input limits of models
    Overhead,     \* tokens of tools and options
    Questions,    \* <<size, size of the attachment or 0>> of user messages
    Replies,      \* <<size, sizes of the results of its calls, whether one of them
                  \* is the text of a skill>> of answers
    Preview,      \* the most a tool result may have
    SummaryMax,   \* the most a summary may have
    PruneKeepTurns,    \* user turns a compaction under mere pressure keeps
    OverflowKeepTurns, \* ... and one that is needed
    KeepRecent,   \* messages it keeps when there are no more turns than that
    MinNew,       \* messages worth a compaction under mere pressure
    MemoriesHold, \* memories a workspace keeps (MAX_WORKSPACE_MEMORY_ENTRIES)
    MemoriesShown,\* ... and a pack shows
    IdSchemes,    \* "fresh": call ids are new; "restarting": numbered per answer
    MaxMessages   \* bound: messages of the transcript

ASSUME PackAssumption ==
    /\ Limits \subseteq Nat /\ Overhead \in Nat
    /\ Questions \subseteq Nat \X Nat /\ Replies \subseteq Nat \X Seq(Nat) \X BOOLEAN
    /\ HardFloor \in Nat /\ \A k \in DOMAIN Floors : Floors[k] \in Nat /\ Floors[k] >= HardFloor
    /\ Preview \in Nat /\ SummaryMax \in Nat
    /\ PruneKeepTurns \in Nat \ {0} /\ OverflowKeepTurns \in Nat \ {0} /\ KeepRecent \in Nat
    /\ MemoriesHold \in Nat /\ MemoriesShown \in Nat

VARIABLES
    setting,   \* the model's limit, the strategy and the provider's call ids
    history,   \* the transcript
    loaded,    \* the running turn loaded what stands from here on in it, and skills
    memories,  \* summaries of the workspace, whether they are shown
    step,      \* "idle", "pack", "model" (a request is out), "failed"
    pack       \* the pack of the latest request

packVars == <<setting, history, loaded, memories, step, pack>>

Least(a, b) == IF a <= b THEN a ELSE b
NoPack == [items |-> <<>>, in |-> {}, overflowed |-> FALSE]

-----------------------------------------------------------------------------
(* The history of a request. *)

LastIn(S) == CHOOSE i \in S : \A j \in S : j <= i

Compactions(h) == {i \in DOMAIN h : h[i].role = "boundary"}
Latest(h) == LastIn(Compactions(h))
CutOf(h) == IF Compactions(h) = {} THEN 0 ELSE h[Latest(h)].until

(* Message parts become chat messages: an answer is followed by the        *)
(* results of its calls.                                                   *)
Expanded(h, i) ==
    LET m == h[i] IN
    <<[msg |-> i, role |-> m.role, id |-> <<i, 0>>, size |-> m.size, extra |-> m.extra]>>
    \o [k \in DOMAIN m.results |->
          [msg |-> i, role |-> "tool", id |-> m.results[k].id, size |-> m.results[k].size,
           extra |-> 0]]

(* The messages in memory: the store shows a new turn what stands after    *)
(* the cut of the latest boundary, and before it what holds the text of a  *)
(* skill; what the turn says and compacts is added to that.                *)
Holds(h, i) == i \in DOMAIN h /\ h[i].role # "undone" /\ (i >= loaded \/ h[i].skill)
InMemory(h) ==
    LET chat == Listed(FlattenSeq([i \in DOMAIN h |-> Expanded(h, i)]))
    IN Listed(Retain(chat, {m \in ToSet(chat) : Holds(h, m.msg)}))

(* What the latest boundary replaces, of those whose cut is in memory, is  *)
(* left out, up to that message, skills and all; the results of its calls, *)
(* which come after it, are not.  A boundary is a work state and no        *)
(* message.                                                                *)
InForce(h) == {b \in Compactions(h) : Holds(h, b) /\ Holds(h, h[b].until)}
Replaced(h, m) ==
    LET cut == h[LastIn(InForce(h))].until
    IN InForce(h) # {} /\ (m.msg < cut \/ (m.msg = cut /\ m.role # "tool"))
Conversation(h) ==
    LET chat == InMemory(h)
    IN Listed(Retain(chat, {m \in ToSet(chat) : m.role # "boundary" /\ ~Replaced(h, m)}))

-----------------------------------------------------------------------------
(* The items, in the order of collect_items and                            *)
(* message_and_session_context_items.                                      *)

Item(name, kind, priority, pinned, size) ==
    [name |-> name, kind |-> kind, priority |-> priority, pinned |-> pinned, size |-> size,
     stable |-> FALSE, sent |-> TRUE, text |-> name, repeats |-> FALSE]

(* required_context_truncation_order: what is cut down first.              *)
CutOrder == [checkpoint |-> 0, attachment |-> 10, todo |-> 20, goal |-> 25, plan |-> 27,
             sandbox |-> 30, work_state |-> 40, system |-> 50, message |-> 60]

IsItem(x) ==
    /\ x = [name |-> x.name, kind |-> x.kind, priority |-> x.priority, pinned |-> x.pinned,
            size |-> x.size, stable |-> x.stable, sent |-> x.sent, text |-> x.text,
            repeats |-> x.repeats]
    /\ x.priority \in Nat /\ x.size \in Nat
    /\ {x.pinned, x.stable, x.sent, x.repeats} \subseteq BOOLEAN
    /\ x.pinned /\ x.sent => x.kind \in DOMAIN CutOrder \cap DOMAIN Floors

(* What the history gives has names and kinds of its own, and a floor.     *)
ASSUME ItemsAssumption ==
    /\ \A q \in {Fixed, SessionItems} :
         /\ q \in Seq(ToSet(q))
         /\ \A x \in ToSet(q) :
              /\ IsItem(x)
              /\ x.kind \notin {"message", "tool_result", "work_state", "memory"}
              /\ x.name[1] \notin {"message", "result", "work_state", "memory", "attachment"}
    /\ {"message", "attachment", "work_state"} \subseteq DOMAIN Floors

WorkState(h) ==
    IF Compactions(h) = {} THEN <<>>
    ELSE <<Item(<<"work_state", Latest(h)>>, "work_state", 95, TRUE, h[Latest(h)].size)>>

(* A result is named by its call's id alone.                               *)
MessageItem(m, isLatest) ==
    IF m.role = "tool" THEN Item(<<"result", m.id>>, "tool_result", 50, FALSE, m.size)
    ELSE Item(<<"message", m.id>>, "message", IF isLatest THEN 90 ELSE 40, isLatest, m.size)

AttachmentOf(m) ==
    IF m.extra = 0 THEN <<>>
    ELSE <<Item(<<"attachment", m.id>>, "attachment", 75, TRUE, m.extra)>>

(* Goal, plan, todos and checkpoints stand before the latest user message. *)
MessageItems(chat) ==
    LET users == {i \in DOMAIN chat : chat[i].role = "user"}
        latest == IF users = {} THEN Len(chat) + 1
                  ELSE CHOOSE i \in users : \A j \in users : j <= i
        At(i) == (IF i = latest THEN SessionItems ELSE <<>>)
                 \o (IF i > Len(chat) THEN <<>>
                     ELSE <<MessageItem(chat[i], i = latest)>> \o AttachmentOf(chat[i]))
    IN FlattenSeq([i \in 1..(Len(chat) + 1) |-> At(i)])

(* Mutant: memories the user has switched off are shown too.               *)
ShownRegardless(mem) == mem

Shown(mem) ==
    LET active == Listed(Retain(mem, {m \in ToSet(mem) : m.active}))
    IN SubSeq(active, Len(active) - Least(Len(active), MemoriesShown) + 1, Len(active))

MemoryItems(mem) ==
    [i \in DOMAIN Shown(mem) |->
        [Item(<<"memory", Shown(mem)[i].of>>, "memory", 94, FALSE, Shown(mem)[i].size)
            EXCEPT !.stable = TRUE]]

Collected(h, mem) == Fixed \o WorkState(h) \o MessageItems(Conversation(h)) \o MemoryItems(mem)

(* dedupe_items: of items with one id the first counts, unless a later one *)
(* ranks higher, which takes its place.                                    *)
Outranks(a, b) == \/ a.pinned /\ ~b.pinned
                  \/ a.pinned = b.pinned /\ a.priority > b.priority
Deduped(items) ==
    LET Same(i) == {j \in DOMAIN items : items[j].name = items[i].name}
        First(i) == \A j \in Same(i) : i <= j
        Kept(i) == CHOOSE j \in Same(i) : /\ \A k \in Same(i) : ~Outranks(items[k], items[j])
                                          /\ \A k \in Same(i) : k < j => Outranks(items[j], items[k])
        firsts == {i \in DOMAIN items : First(i)}
        order == Listed(InOrder(firsts, [i \in firsts |-> i]))
    IN Listed([n \in DOMAIN order |-> items[Kept(order[n])]])

(* semantic_dedupe_items: a stable text that was there before is not sent. *)
WithRepeats(items) ==
    Listed([i \in DOMAIN items |->
        [items[i] EXCEPT !.repeats = \E j \in 1..(i - 1) :
            /\ items[i].stable /\ items[j].stable
            /\ <<items[j].kind, items[j].sent, items[j].text>>
                 = <<items[i].kind, items[i].sent, items[i].text>>]])

(* limit_tool_result_context *)
Previewed(items) ==
    Listed([i \in DOMAIN items |->
        IF items[i].kind = "tool_result" THEN [items[i] EXCEPT !.size = Least(@, Preview)]
        ELSE items[i]])

-----------------------------------------------------------------------------
(* fit_required_items: what is required is cut down when it exceeds the    *)
(* budget, the least important kind first, by what is still over; in a     *)
(* second round, when that was not enough, down to the hard floor.         *)

Required(items) == {i \in DOMAIN items : items[i].pinned /\ items[i].sent}
Total(items, S) == MapThenSumSet(LAMBDA i : items[i].size, S)

CutEarlier(items, i, j) ==
    LET x == CutOrder[items[i].kind]
        y == CutOrder[items[j].kind]
    IN \/ x < y
       \/ x = y /\ items[i].priority < items[j].priority
       \/ x = y /\ items[i].priority = items[j].priority /\ i < j

Room(item, floor) == item.size - Least(item.size, floor)

(* What is over when it is the turn of an item: those before it have given *)
(* all their room by then.                                                 *)
OverAt(items, room, over, i) ==
    over - MapThenSumSet(LAMBDA j : room[j], {j \in Required(items) : CutEarlier(items, j, i)})

CutSoftly(items, over) ==
    LET room == [i \in Required(items) |-> Room(items[i], Floors[items[i].kind])]
        Cut(i) == LET left == OverAt(items, room, over, i)
                  IN IF left > 0 THEN Least(left, room[i]) ELSE 0
    IN [i \in DOMAIN items |->
          IF i \in DOMAIN room THEN [items[i] EXCEPT !.size = @ - Cut(i)] ELSE items[i]]

CutHard(items, over) ==
    LET room == [i \in Required(items) |-> Room(items[i], HardFloor)]
        Cut(i) == IF OverAt(items, room, over, i) > 0 THEN room[i] ELSE 0
    IN [i \in DOMAIN items |->
          IF i \in DOMAIN room THEN [items[i] EXCEPT !.size = @ - Cut(i)] ELSE items[i]]

Over(items, budget) == Total(items, Required(items)) - budget

(* The first round, and a mutant of both: the second is left out.          *)
FittedSoftly(items, budget) ==
    IF Over(items, budget) <= 0 THEN items ELSE Listed(CutSoftly(items, Over(items, budget)))

Fitted(items, budget) ==
    LET softly == FittedSoftly(items, budget)
    IN IF Over(softly, budget) <= 0 THEN softly
       ELSE Listed(CutHard(softly, Over(softly, budget)))

(* project: pinned first, then by priority, then in order; what does not   *)
(* fit is skipped, and what is smaller may still go in.                    *)
ByRank(items) ==
    LET all == DOMAIN items
    IN SortedBy(all, {p \in all \X all : \/ Outranks(items[p[1]], items[p[2]])
                                       \/ /\ ~Outranks(items[p[2]], items[p[1]])
                                          /\ p[1] < p[2]})

Projected(items, budget) ==
    FoldLeft(LAMBDA acc, i :
               LET cost == IF items[i].sent THEN items[i].size ELSE 0
               IN IF items[i].repeats \/ (items[i].sent /\ acc.used + cost > budget) THEN acc
                  ELSE [in |-> acc.in \cup {i}, used |-> acc.used + cost],
             [in |-> {}, used |-> 0], ByRank(items)).in

ItemBudget == setting.limit - Least(setting.limit, Overhead)

(* build *)
PackOf(h, mem) ==
    LET all == Previewed(WithRepeats(Deduped(Collected(h, mem))))
        items == IF setting.strategy = "error" THEN all ELSE Fitted(all, ItemBudget)
        in == Projected(items, ItemBudget)
    IN [items |-> items, in |-> in,
        overflowed |-> \/ Overhead > setting.limit
                       \/ \E i \in Required(items) : i \notin in /\ ~items[i].repeats]

-----------------------------------------------------------------------------
(* Compaction. *)

(* runtime_context_pack_needs_auto_compaction *)
Pressed(p) ==
    /\ setting.strategy # "error"
    /\ \/ p.overflowed
       \/ \E i \in DOMAIN p.items \ p.in :
            ~p.items[i].pinned /\ p.items[i].kind \in {"message", "tool_result"}

(* runtime_auto_compaction_boundary, over the messages in memory: those of *)
(* the last turns stay, or, with no more turns than that, the last few.    *)
KeptFrom(turns) ==
    LET chat == InMemory(history)
        said == {i \in DOMAIN chat : chat[i].role = "user"}
        users == InOrder(said, [i \in said |-> i])
    IN IF Len(users) > turns THEN users[Len(users) - turns + 1] ELSE Len(chat) - KeepRecent + 1

(* Results have no id of their own: a compaction ends with a message.      *)
Ending(turns) == {i \in 1..(KeptFrom(turns) - 1) : InMemory(history)[i].role # "tool"}

(* runtime_auto_compact_context.  The messages are counted from the start  *)
(* of those in memory, summarised before or not.                           *)
TurnsKept(p) == IF p.overflowed THEN OverflowKeepTurns ELSE PruneKeepTurns
CanCompact(p) ==
    LET ending == Ending(TurnsKept(p))
    IN ending # {} /\ (p.overflowed \/ LastIn(ending) >= MinNew)
Until(p) == InMemory(history)[LastIn(Ending(TurnsKept(p)))].msg

NewMessage(role, size) ==
    [role |-> role, size |-> size, extra |-> 0, results |-> <<>>, skill |-> FALSE, until |-> 0]
Summary == LET third == ItemBudget \div 3
           IN Least(SummaryMax, IF third = 0 THEN 1 ELSE third)
Boundary(until) == [NewMessage("boundary", Summary) EXCEPT !.until = until]

(* persist_workspace_memory_from_compaction *)
Remembered(of) ==
    LET all == Append(memories, [of |-> of, size |-> Summary, active |-> TRUE])
    IN SubSeq(all, Len(all) - Least(Len(all), MemoriesHold) + 1, Len(all))

-----------------------------------------------------------------------------
(* provider_turn_result *)
SendsPack(p) == /\ pack' = p
            /\ step' = IF p.overflowed THEN "failed" ELSE "model"

SendsAsIs ==
    /\ step = "pack"
    /\ LET p == PackOf(history, memories)
       IN ~(Pressed(p) /\ CanCompact(p)) /\ SendsPack(p)
    /\ UNCHANGED <<setting, history, loaded, memories>>

CompactsFirst ==
    /\ step = "pack" /\ Len(history) < MaxMessages
    /\ LET p == PackOf(history, memories)
       IN Pressed(p) /\ CanCompact(p) /\ history' = Append(history, Boundary(Until(p)))
    /\ memories' = Remembered(Len(history) + 1)
    /\ SendsPack(PackOf(history', memories'))
    /\ UNCHANGED <<setting, loaded>>

(* A turn begins with the messages the store shows it. *)
Says(size, attached) ==
    /\ step \in {"idle", "failed"} /\ Len(history) < MaxMessages
    /\ history' = Append(history, [NewMessage("user", size) EXCEPT !.extra = attached])
    /\ loaded' = CutOf(history) + 1
    /\ step' = "pack"
    /\ UNCHANGED <<setting, memories, pack>>

(* The ids of an answer's calls: the provider's own, or, where it sends    *)
(* none, numbers that start over with every answer.                        *)
CallId(k) == IF setting.ids = "fresh" THEN <<Len(history) + 1, k>> ELSE <<0, k>>

Calls(size, results, skill) ==
    /\ step = "model" /\ Len(history) < MaxMessages
    /\ history' = Append(history, [NewMessage("assistant", size) EXCEPT
                    !.results = [k \in DOMAIN results |-> [id |-> CallId(k), size |-> results[k]]],
                    !.skill = skill])
    /\ step' = IF results = <<>> THEN "idle" ELSE "pack"
    /\ UNCHANGED <<setting, loaded, memories, pack>>

(* compact_session_payload summarises everything the store shows; undoing  *)
(* the latest compaction takes its boundary away and its memory out of use.*)
Visible == {i \in DOMAIN history : /\ history[i].role # "undone"
                                   /\ i > CutOf(history) \/ history[i].skill}
Compacts ==
    /\ step = "idle" /\ Visible # {} /\ Len(history) < MaxMessages
    /\ history' = Append(history, Boundary(LastIn(Visible)))
    /\ memories' = Remembered(Len(history) + 1)
    /\ UNCHANGED <<setting, loaded, step, pack>>

Undoes(i) ==
    /\ step = "idle" /\ Compactions(history) # {} /\ i = Latest(history)
    /\ history' = [history EXCEPT ![i].role = "undone"]
    /\ memories' = [k \in DOMAIN memories |->
                      [memories[k] EXCEPT !.active = @ /\ memories[k].of # i]]
    /\ UNCHANGED <<setting, loaded, step, pack>>

(* update_workspace_memory_payload *)
Switches(k) ==
    /\ step = "idle"
    /\ memories' = [memories EXCEPT ![k].active = ~@]
    /\ UNCHANGED <<setting, history, loaded, step, pack>>

PackInit ==
    /\ setting \in [limit : Limits, strategy : {"auto", "error"}, ids : IdSchemes]
    /\ history = <<>> /\ loaded = 1 /\ memories = <<>>
    /\ step = "idle" /\ pack = NoPack

PackNext ==
    \/ SendsAsIs \/ CompactsFirst \/ Compacts
    \/ \E q \in Questions : Says(q[1], q[2])
    \/ \E a \in Replies : Calls(a[1], a[2], a[3])
    \/ \E i \in DOMAIN history : Undoes(i)
    \/ \E k \in DOMAIN memories : Switches(k)

PackSpec == PackInit /\ [][PackNext]_packVars

-----------------------------------------------------------------------------
PackTypeOK ==
    /\ \A i \in DOMAIN history :
         history[i].role \in {"user", "assistant", "boundary", "undone"}
         /\ history[i].until < i
    /\ loaded \in 1..(Len(history) + 1)
    /\ Len(memories) <= MemoriesHold
    /\ step \in {"idle", "pack", "model", "failed"}
    /\ pack.in \subseteq DOMAIN pack.items

(* What a request that is out, or that failed, was made of.                *)
Names(p) == {p.items[i].name : i \in DOMAIN p.items}
Sent(p) == {i \in p.in : p.items[i].sent}

(* The explanation of a pack names everything of the session it could have *)
(* held: "This lets traces explain what was considered, retained,          *)
(* compacted, or dropped" (doc/context.md), and a result it does not name  *)
(* is none of these.                                                       *)
TraceExplainsAll ==
    step \in {"model", "failed"} =>
        /\ \A m \in ToSet(Conversation(history)) : MessageItem(m, FALSE).name \in Names(pack)
        /\ Cardinality({i \in DOMAIN pack.items : pack.items[i].kind = "tool_result"})
             = Cardinality({i \in DOMAIN Conversation(history) : Conversation(history)[i].role = "tool"})

(* A request stays within its budget and still has everything required;    *)
(* the turn fails for lack of room only when what is required has no room  *)
(* even when cut to the floor; nothing is cut or dropped while all of it   *)
(* fits; it holds the summary of the latest compaction and, of what that   *)
(* replaced, nothing but what belongs to an answer that loaded a skill and *)
(* results of the answer the cut fell on; and no memory that was switched  *)
(* off.                                                                    *)
PacksAreSound ==
    LET items == pack.items
        whole == Previewed(Deduped(Collected(history, memories)))
        all == {i \in DOMAIN whole : whole[i].sent}
        required == Required(whole)
        least == MapThenSumSet(LAMBDA i : Least(whole[i].size, HardFloor), required)
    IN /\ step = "model" =>
            /\ Total(items, Sent(pack)) <= ItemBudget
            /\ \A i \in required : items[i].repeats \/ i \in pack.in
       /\ step = "failed" /\ setting.strategy # "error" =>
            Overhead > setting.limit \/ least > ItemBudget
       /\ step \in {"model", "failed"} =>
            /\ TraceExplainsAll
            /\ Total(whole, all) <= ItemBudget =>
                 \A i \in all : items[i].size = whole[i].size /\ (items[i].repeats \/ i \in pack.in)
            /\ {i \in DOMAIN items : items[i].kind = "work_state"} = {}
                 <=> Compactions(history) = {}
            /\ \A m \in ToSet(Conversation(history)) :
                 \/ m.msg > CutOf(history) \/ history[m.msg].skill
                 \/ m.msg = CutOf(history) /\ m.role = "tool"
            /\ \A i \in DOMAIN items :
                 items[i].kind = "memory" =>
                   \E k \in DOMAIN memories : memories[k].active
                                              /\ items[i].name = <<"memory", memories[k].of>>
=============================================================================
