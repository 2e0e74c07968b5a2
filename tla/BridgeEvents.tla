---------------------------- MODULE BridgeEvents ----------------------------
(***************************************************************************)
(* The event files of turns and the clients that follow them               *)
(* (append_bridge_events, the SSE handlers of bridge_routes.rs, the        *)
(* attached command line and the terminal interface).                      *)
(*                                                                         *)
(* A writer counts the lines of the file, numbers its event after them and *)
(* appends it without a lock, in two writes: the text, then the newline.   *)
(* The driver of a turn writes one event after the other; an interrupt     *)
(* request writes beside it.  One client attaches to turn 1 and follows    *)
(* its numbers, the other polls the list of all events, which is sorted by *)
(* time and numbered anew at each read.  Clients only read, so a behaviour *)
(* has one of the two: the list with two turns and the clock, the stream   *)
(* with an interrupt and with kills.                                       *)
(***************************************************************************)
EXTENDS Integers, Sequences, FiniteSets, SequencesExt, FiniteSetsExt, Orders

CONSTANTS Turns,        \* turns 1..Turns, in the order their directories are listed
          MaxLines,     \* bound: events of a turn
          MaxClock,     \* bound: milliseconds
          MaxTears      \* bound: writers killed between text and newline

ASSUME EventsAssumption ==
  Turns \in Nat \ {0} /\ MaxLines \in Nat /\ MaxClock \in Nat \ {0} /\ MaxTears \in Nat

VARIABLES files,        \* turn -> lines; a line is what was written up to a newline
          clock,
          writers,      \* <<turn, who>> -> where it is, and the event it writes
          attached,     \* client of the stream of turn 1
          poller,       \* client of the list of all events
          client,       \* which of the two there is
          tears, crossed, jumped    \* ghosts: torn lines, two writers of a turn at once, the
                                    \* poller's cursor is not one of the list any more

eventsVars == <<files, clock, writers, attached, poller, client, tears, crossed, jumped>>

AllTurns == 1..Turns
Writers == (AllTurns \X {"driver"}) \cup {<<1, "interrupt">>}

Event(turn, seq, at, last) == [turn |-> turn, seq |-> seq, at |-> at, last |-> last]
Quiet(turn) == [at |-> "idle", event |-> Event(turn, 0, 0, FALSE)]

EventsInit ==
  /\ files = [t \in AllTurns |-> << <<>> >>]
  /\ clock = 1
  /\ writers = [w \in Writers |-> Quiet(w[1])]
  /\ attached = [at |-> "asks", cursor |-> 0, sent |-> 0, buffer |-> <<>>, shown |-> <<>>]
  /\ poller = [cursor |-> 0, shown |-> {}]
  /\ client \in {"attached", "poller"}
  /\ tears = 0 /\ crossed = FALSE /\ jumped = FALSE

-----------------------------------------------------------------------------
(* read_jsonl_values leaves out what is not one JSON value; a line without *)
(* its newline still is one.                                               *)
Recorded(t) ==
  LET whole == Retain(files[t], {line \in ToSet(files[t]) : Len(line) = 1})
  IN [i \in DOMAIN whole |-> whole[i][1]]

HasLast(events) == \E i \in DOMAIN events : events[i].last

(* Mutant: the numbers begin anew for each writer.                         *)
NumbersFromOne(w) == 1

(* append_bridge_events: one more than the lines that are there.           *)
Numbers(w) == Len(Recorded(w[1])) + 1

Counts(w, last) ==
  /\ writers[w].at = "idle" /\ Len(files[w[1]]) <= MaxLines
  /\ IF client = "attached" THEN w[1] = 1 ELSE w[2] = "driver"
  /\ IF w[2] = "driver" THEN ~HasLast(Recorded(w[1])) ELSE last /\ ~HasLast(Recorded(w[1]))
  /\ writers' = [writers EXCEPT ![w] = [at |-> "write",
                                        event |-> Event(w[1], Numbers(w), clock, last)]]
  /\ crossed' = (crossed \/ \E o \in Writers \ {w} : o[1] = w[1] /\ writers[o].at # "idle")
  /\ UNCHANGED <<files, clock, attached, poller, client, tears, jumped>>

(* append_json_line: the file was opened to append.                        *)
WritesText(w) ==
  /\ writers[w].at = "write"
  /\ LET t == w[1]
         e == writers[w].event
     IN /\ files' = [files EXCEPT ![t][Len(files[t])] = Append(@, e)]
        /\ jumped' = (jumped \/ \E s \in AllTurns \ {t} : \E i \in DOMAIN Recorded(s) :
                                   Recorded(s)[i].at >= e.at)
  /\ writers' = [writers EXCEPT ![w].at = "end"]
  /\ UNCHANGED <<clock, attached, poller, client, tears, crossed>>

WritesNewline(w) ==
  /\ writers[w].at = "end"
  /\ files' = [files EXCEPT ![w[1]] = Append(@, <<>>)]
  /\ writers' = [writers EXCEPT ![w] = Quiet(w[1])]
  /\ UNCHANGED <<clock, attached, poller, client, tears, crossed, jumped>>

(* A kill between the two; whoever writes next goes on in the same line.   *)
Tears(w) ==
  /\ client = "attached" /\ writers[w].at = "end" /\ tears < MaxTears
  /\ tears' = tears + 1
  /\ writers' = [writers EXCEPT ![w] = Quiet(w[1])]
  /\ UNCHANGED <<files, clock, attached, poller, client, crossed, jumped>>

Tick ==
  /\ client = "poller" /\ clock < MaxClock /\ clock' = clock + 1
  /\ UNCHANGED <<files, writers, attached, poller, client, tears, crossed, jumped>>

-----------------------------------------------------------------------------
(* The attached command line (remote_events_for_payload).                  *)

After(events, number) == Retain(events, {e \in ToSet(events) : e.seq > number})
MaxSeq(events, from) == Max({from} \cup {events[i].seq : i \in DOMAIN events})

(* The id of an event is made of its turn and its number: of several with  *)
(* one id only the first is shown.                                         *)
Known(shown, e) == \E i \in DOMAIN shown : shown[i].turn = e.turn /\ shown[i].seq = e.seq
ShowAll(shown, events) ==
  LET new == {i \in DOMAIN events : ~Known(shown \o SubSeq(events, 1, i - 1), events[i])}
      order == InOrder(new, [i \in new |-> i])
  IN shown \o [k \in DOMAIN order |-> events[order[k]]]

(* Mutant: every new event counts as sent, whatever was written meanwhile. *)
SentOneMore(number, new) == number + 1

(* The id of the last frame that was written.                              *)
SentUpTo(number, new) == IF new = <<>> THEN number ELSE new[Len(new)].seq

Asks ==
  /\ client = "attached" /\ attached.at = "asks"
  /\ attached' = [attached EXCEPT !.at = "stream", !.sent = attached.cursor, !.buffer = <<>>]
  /\ UNCHANGED <<files, clock, writers, poller, client, tears, crossed, jumped>>

(* write_live_sse_response: what is new each time it looks, until it has   *)
(* written a terminal event or its time is up.                             *)
Sends ==
  /\ attached.at = "stream"
  /\ LET new == After(Recorded(1), attached.sent)
     IN \E ends \in BOOLEAN :
          /\ HasLast(new) => ends
          /\ attached' = [attached EXCEPT !.at = IF ends THEN "read" ELSE "stream",
                                          !.sent = SentUpTo(attached.sent, new),
                                          !.buffer = @ \o new]
  /\ UNCHANGED <<files, clock, writers, poller, client, tears, crossed, jumped>>

(* The stream has ended: its events count.  The client stops when it has   *)
(* a terminal event, or has waited long enough without a new one.          *)
Takes ==
  /\ attached.at = "read"
  /\ LET shown == ShowAll(attached.shown, attached.buffer)
     IN \E late \in BOOLEAN :
          attached' = [attached EXCEPT
            !.at = IF HasLast(shown) \/ (late /\ shown = attached.shown) THEN "done" ELSE "asks",
            !.cursor = MaxSeq(attached.buffer, @), !.shown = shown, !.buffer = <<>>]
  /\ UNCHANGED <<files, clock, writers, poller, client, tears, crossed, jumped>>

(* The connection breaks: what this stream brought is dropped, and the     *)
(* client ends with what it has.  The person attaches again.               *)
LosesConnection ==
  /\ attached.at = "stream"
  /\ attached' = [attached EXCEPT !.at = "done", !.buffer = <<>>]
  /\ UNCHANGED <<files, clock, writers, poller, client, tears, crossed, jumped>>

AttachesAgain ==
  /\ attached.at = "done" /\ ~HasLast(attached.shown)
  /\ attached' = [attached EXCEPT !.at = "asks", !.cursor = 0, !.shown = <<>>]
  /\ UNCHANGED <<files, clock, writers, poller, client, tears, crossed, jumped>>

-----------------------------------------------------------------------------
(* The terminal interface polls the list of all events.                    *)

(* What all_bridge_events reads: turn, line, event.                        *)
Entries == UNION {{<<t, i, Recorded(t)[i]>> : i \in DOMAIN Recorded(t)} : t \in AllTurns}

(* The order of the directories (as a mutant: the list is left in it).     *)
ListedBefore(p, q) == p[1] < q[1] \/ (p[1] = q[1] /\ p[2] < q[2])

(* The list is sorted by time, with what is of one time left in the order  *)
(* of the directories; the place in the list is the number.                *)
Precedes(p, q) == p[3].at < q[3].at \/ (p[3].at = q[3].at /\ ListedBefore(p, q))
AllEvents ==
  LET all == Entries
  IN [k \in 1..Cardinality(all) |->
        (CHOOSE p \in all : Cardinality({q \in all : Precedes(q, p)}) = k - 1)[3]]

IdOf(e) == <<e.turn, e.seq>>

(* poll_bridge_events; an answer that does not arrive changes nothing.     *)
Polls ==
  /\ LET all == AllEvents
     IN /\ client = "poller" /\ Len(all) > poller.cursor
        /\ poller' = [cursor |-> Len(all),
                      shown |-> poller.shown \cup
                                {IdOf(all[k]) : k \in (poller.cursor + 1)..Len(all)}]
  /\ UNCHANGED <<files, clock, writers, attached, client, tears, crossed, jumped>>

(* The answer to a prompt brings the events of the turn so far, which have *)
(* their number in the turn as the number in the list.                     *)
TakesPayload(t) ==
  /\ client = "poller" /\ \E i \in DOMAIN Recorded(t) : IdOf(Recorded(t)[i]) \notin poller.shown
  /\ poller' = [cursor |-> MaxSeq(Recorded(t), poller.cursor),
                shown |-> poller.shown \cup {IdOf(Recorded(t)[i]) : i \in DOMAIN Recorded(t)}]
  /\ jumped' = TRUE
  /\ UNCHANGED <<files, clock, writers, attached, client, tears, crossed>>

Follows == Asks \/ Sends \/ Takes \/ LosesConnection \/ AttachesAgain

EventsNext ==
  \/ \E w \in Writers, last \in BOOLEAN : Counts(w, last)
  \/ \E w \in Writers : WritesText(w) \/ WritesNewline(w) \/ Tears(w)
  \/ Tick \/ Follows \/ Polls
  \/ \E t \in AllTurns : TakesPayload(t)

EventsSpec == EventsInit /\ [][EventsNext]_eventsVars

-----------------------------------------------------------------------------
EventsTypeOK ==
  /\ clock \in 1..MaxClock /\ tears \in 0..MaxTears
  /\ \A t \in AllTurns : Len(files[t]) \in 1..(MaxLines + 3)
  /\ \A w \in Writers : writers[w].at \in {"idle", "write", "end"} /\ writers[w].event.turn = w[1]
  /\ attached.cursor \in 0..(MaxLines + 2) /\ attached.at \in {"asks", "stream", "read", "done"}

(* Whoever attaches to a turn gets its events in order with none missing   *)
(* and none twice, over any number of streams: what was shown, what the    *)
(* stream has brought and what its cursor lets through are the file;       *)
(* whoever polls was shown all up to its cursor. The code gives this up    *)
(* when two wrote one file at once or a line was torn; the list also when  *)
(* a turn writes an event no younger than one of another turn that is      *)
(* there already, or numbers of a turn were taken for its own.             *)
StreamsLoseNothing ==
  ~crossed /\ tears = 0 =>
    /\ attached.shown \o After(Recorded(1), attached.cursor) = Recorded(1)
    /\ attached.at \in {"stream", "read"} =>
         attached.shown \o attached.buffer \o After(Recorded(1), attached.sent) = Recorded(1)
    /\ ~jumped =>
         LET all == AllEvents IN \A k \in 1..poller.cursor : IdOf(all[k]) \in poller.shown
=============================================================================
