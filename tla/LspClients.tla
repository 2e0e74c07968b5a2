----------------------------- MODULE LspClients -----------------------------
(***************************************************************************)
(* The pool of language servers (src/lsp/src/lib.rs).  Queries hold the    *)
(* pool's lock from their first connection to their last answer; a server  *)
(* is a process of its own that reads, answers, pushes diagnostics and     *)
(* dies when it likes, and the file a query is about is edited meanwhile.  *)
(*                                                                         *)
(* One workspace and one file are modelled; a text is the number of the    *)
(* edit it comes from, and a diagnostic the text it was computed on.       *)
(***************************************************************************)
EXTENDS Naturals, Sequences, FiniteSets

CONSTANTS
    Servers,     \* language servers that serve the file's language
    Selections,  \* the sequences of servers a query may go to
    MaxEdits,    \* bound: edits of the file
    MaxIds,      \* bound: requests sent to one process
    PipeHolds,   \* messages a process's input holds before a write waits
    MaxPushed    \* bound: unread messages a server sent of its own accord

ASSUME LspAssumption ==
    /\ IsFiniteSet(Servers)
    /\ \A selected \in Selections : selected \in Seq(Servers) \ {<<>>}
    /\ MaxEdits \in Nat \ {0} /\ MaxIds \in Nat \ {0}

VARIABLES
    edit,     \* the text the file has
    client,   \* server -> its connection in the pool or NoClient
    broken,   \* servers within the cooldown after a failed start
    server,   \* server -> its process: what it was sent, has seen, has sent
    query,    \* the query that holds the lock or NoQuery
    taken     \* <<text sent last, text answered about>> of the last answer taken

lspVars == <<edit, client, broken, server, query, taken>>

NoClient == [id |-> 0]
NoQuery == [at |-> "none"]
NoServer == [alive |-> FALSE, inbox |-> <<>>, asked |-> {}, text |-> 0, outbox |-> <<>>]

Operations == {"touch", "hover", "diagnostics", "workspaceSymbol"}
Serving == Head(query.todo)
Connected(s) == client[s] # NoClient
Writable(s) == server[s].alive /\ Len(server[s].inbox) < PipeHolds
Sends(s, msg) == server' = [server EXCEPT ![s].inbox = Append(@, msg)]
GoesTo(step) == query' = [query EXCEPT !.at = step]

-----------------------------------------------------------------------------
(* The world: the file is edited, a server reads what it was sent, answers *)
(* in any order, registers for diagnostics (which stands for all it sends  *)
(* of its own accord), and exits.                                          *)

Edits ==
    /\ edit < MaxEdits
    /\ edit' = edit + 1
    /\ UNCHANGED <<client, broken, server, query, taken>>

ServerReads(s) ==
    /\ server[s].alive /\ server[s].inbox # <<>>
    /\ LET msg == Head(server[s].inbox) IN
       server' = [server EXCEPT
           ![s].inbox = Tail(@),
           ![s].text = IF msg.kind = "document" THEN msg.text ELSE @,
           ![s].asked = IF msg.kind = "request"
                        THEN @ \cup {[id |-> msg.id, text |-> server[s].text]} ELSE @]
    /\ UNCHANGED <<edit, client, broken, query, taken>>

ServerAnswers(s) ==
    /\ server[s].alive
    /\ \E r \in server[s].asked :
         server' = [server EXCEPT
             ![s].asked = @ \ {r},
             ![s].outbox = Append(@, [kind |-> "answer", id |-> r.id, text |-> r.text])]
    /\ UNCHANGED <<edit, client, broken, query, taken>>

ServerPushes(s) ==
    /\ server[s].alive
    /\ Len(SelectSeq(server[s].outbox, LAMBDA o : o.kind # "answer")) < MaxPushed
    /\ server' = [server EXCEPT ![s].outbox =
                     Append(@, [kind |-> "register", id |-> 0, text |-> 0])]
    /\ UNCHANGED <<edit, client, broken, query, taken>>

ServerDies(s) ==
    /\ server[s].alive
    /\ server' = [server EXCEPT ![s].alive = FALSE]
    /\ UNCHANGED <<edit, client, broken, query, taken>>

(* broken_cooldown has passed: looked at whenever the entry is. *)
CooldownEnds(s) ==
    /\ s \in broken
    /\ broken' = broken \ {s}
    /\ UNCHANGED <<edit, client, server, query, taken>>

-----------------------------------------------------------------------------
(* A query takes the lock (query_selected_servers, touch_workspace_file,   *)
(* query_workspace_symbol_clients) and works through its servers.          *)

Asks(op) ==
    /\ query = NoQuery
    /\ \E selected \in Selections :
         query' = [at |-> "connect", op |-> op, todo |-> selected, round |-> 1,
                   id |-> 0, pulls |-> 0]
    /\ UNCHANGED <<edit, client, broken, server, taken>>

(* The next server's turn.  A search for symbols opens the file first and  *)
(* then asks every client of the workspace, whatever it serves.            *)
AskedNext(clients) ==
    LET rest == Tail(query.todo)
        next == [query EXCEPT !.at = IF query.round = 1 THEN "connect" ELSE "operate",
                              !.todo = rest, !.pulls = 0]
        all == CHOOSE q \in [1..Cardinality(clients) -> clients] :
                   \A i, j \in DOMAIN q : i # j => q[i] # q[j]
    IN CASE rest # <<>> -> next
         [] rest = <<>> /\ query.op = "workspaceSymbol" /\ query.round = 1 /\ clients # {} ->
              [next EXCEPT !.at = "operate", !.round = 2, !.todo = all]
         [] OTHER -> NoQuery

Clients == {s \in Servers : Connected(s)}

ServerDone ==
    /\ query' = AskedNext(Clients)
    /\ UNCHANGED <<edit, client, broken, server, taken>>

(* Whatever fails after the connection is there takes the client out of    *)
(* the pool and kills its process.                                         *)
Removes ==
    /\ client' = [client EXCEPT ![Serving] = NoClient]
    /\ server' = [server EXCEPT ![Serving] = NoServer]
    /\ query' = AskedNext(Clients \ {Serving})
    /\ UNCHANGED <<edit, broken, taken>>

(* client_for *)
FindsClient ==
    /\ query.at = "connect" /\ Connected(Serving) /\ Serving \notin broken
    /\ GoesTo("open")
    /\ UNCHANGED <<edit, client, broken, server, taken>>

(* A server within its cooldown is not started, nor is one that is there   *)
(* used: what is in the pool under its name is removed with the error.     *)
RefusesBroken ==
    /\ query.at = "connect" /\ Serving \in broken
    /\ Removes

StartFails ==
    /\ query.at = "connect" /\ ~Connected(Serving) /\ Serving \notin broken
    /\ broken' = broken \cup {Serving}
    /\ query' = AskedNext(Clients)
    /\ UNCHANGED <<edit, client, server, taken>>

StartsClient ==
    /\ query.at = "connect" /\ ~Connected(Serving) /\ Serving \notin broken
    /\ server' = [server EXCEPT ![Serving] =
                    [NoServer EXCEPT !.alive = TRUE,
                                     !.inbox = <<[kind |-> "request", id |-> 1, text |-> 0]>>]]
    /\ query' = [query EXCEPT !.at = "initialize", !.id = 1]
    /\ UNCHANGED <<edit, client, broken, taken>>

(* open_document sends the file as it is now, opened or changed. *)
OpensText ==
    /\ query.at = "open" /\ Writable(Serving)
    /\ Sends(Serving, [kind |-> "document", id |-> 0, text |-> edit])
    /\ client' = [client EXCEPT ![Serving].sent = edit]
    /\ GoesTo("operate")
    /\ UNCHANGED <<edit, broken, taken>>

(* run_lsp_operation.  A touch, and the first round of a search, only open *)
(* the file; diagnostics are pulled once per registered identifier.        *)
JustOpens == query.op = "touch" \/ (query.op = "workspaceSymbol" /\ query.round = 1)

Operates ==
    /\ query.at = "operate" /\ Writable(Serving)
    /\ ~JustOpens
    /\ client[Serving].id <= MaxIds
    /\ Sends(Serving, [kind |-> "request", id |-> client[Serving].id, text |-> 0])
    /\ client' = [client EXCEPT ![Serving].id = @ + 1]
    /\ query' = [query EXCEPT !.at = IF query.op = "diagnostics" THEN "pull" ELSE "answer",
                              !.id = client[Serving].id]
    /\ UNCHANGED <<edit, broken, taken>>

OnlyOpens ==
    /\ query.at = "operate"
    /\ JustOpens
    /\ GoesTo("collect")
    /\ UNCHANGED <<edit, client, broken, server, taken>>

-----------------------------------------------------------------------------
(* handle_message: what the reader thread has queued, in order. *)

(* An answer counts when its id is the one waited for.  A mutant takes any *)
(* answer for the one it waits for.                                        *)
BelongsAnyhow(msg) == msg.kind = "answer"
Belongs(msg) == msg.kind = "answer" /\ msg.id = query.id

Waiting == query.at \in {"initialize", "answer", "pull"}
Received == Head(server[Serving].outbox)
TakesAnswer == server' = [server EXCEPT ![Serving].outbox = Tail(@)]

(* Published diagnostics are kept for display, a registration adds an      *)
(* identifier to pull for, and an answer nobody waits for is dropped.      *)
Handles ==
    /\ query.at \in {"initialize", "operate", "answer", "pull", "collect"}
    /\ server[Serving].outbox # <<>>
    /\ ~(Waiting /\ Belongs(Received))
    /\ TakesAnswer
    /\ client' = IF Connected(Serving) /\ Received.kind = "register"
                 THEN [client EXCEPT ![Serving].registered = 1] ELSE client
    /\ UNCHANGED <<edit, broken, query, taken>>

Initialized ==
    /\ query.at = "initialize" /\ server[Serving].outbox # <<>> /\ Belongs(Received)
    /\ TakesAnswer
    /\ client' = [client EXCEPT ![Serving] =
                    [id |-> 2, sent |-> 0, registered |-> 0]]
    /\ GoesTo("open")
    /\ UNCHANGED <<edit, broken, taken>>

(* No answer in time, an error, or the server closed its output. *)
InitializeFails ==
    /\ query.at = "initialize"
    /\ broken' = broken \cup {Serving}
    /\ server' = [server EXCEPT ![Serving] = NoServer]
    /\ query' = AskedNext(Clients)
    /\ UNCHANGED <<edit, client, taken>>

Answered ==
    /\ query.at = "answer" /\ server[Serving].outbox # <<>> /\ Belongs(Received)
    /\ TakesAnswer
    /\ taken' = <<client[Serving].sent, Received.text>>
    /\ GoesTo("collect")
    /\ UNCHANGED <<edit, client, broken>>

(* A process that is gone cannot be written to, the file may not be read,  *)
(* or the query name no position; an answer may be an error or not come in *)
(* time.  A write to a process that lives and does not read has no limit:  *)
(* the query, and with it the pool, waits.                                 *)
OpenFails == query.at = "open" /\ Removes
OperationFails ==
    /\ \/ query.at = "operate" /\ ~JustOpens
       \/ query.at = "answer"
    /\ query.op # "diagnostics"
    /\ Removes

(* collect_diagnostics: a report that fails or comes too late is left out, *)
(* and the next identifier's is asked for.                                 *)
PullEnds ==
    query' = IF query.pulls < client[Serving].registered
             THEN [query EXCEPT !.at = "operate", !.pulls = @ + 1]
             ELSE [query EXCEPT !.at = "collect"]

Pulled ==
    /\ query.at = "pull" /\ server[Serving].outbox # <<>> /\ Belongs(Received)
    /\ TakesAnswer
    /\ taken' = <<client[Serving].sent, Received.text>>
    /\ PullEnds
    /\ UNCHANGED <<edit, client, broken>>

PullFails ==
    /\ \/ query.at = "pull"
       \/ query.at = "operate" /\ query.op = "diagnostics" /\ ~server[Serving].alive
    /\ PullEnds
    /\ UNCHANGED <<edit, client, broken, server, taken>>

Collected == query.at = "collect" /\ ServerDone

(* shutdown_workspace_clients *)
ShutsDown ==
    /\ query = NoQuery /\ (Clients # {} \/ broken # {})
    /\ client' = [s \in Servers |-> NoClient]
    /\ server' = [s \in Servers |-> NoServer]
    /\ broken' = {}
    /\ UNCHANGED <<edit, query, taken>>

LspInit ==
    /\ edit = 1
    /\ client = [s \in Servers |-> NoClient]
    /\ broken = {}
    /\ server = [s \in Servers |-> NoServer]
    /\ query = NoQuery
    /\ taken = <<0, 0>>

LspNext ==
    \/ Edits
    \/ \E s \in Servers : \/ ServerReads(s) \/ ServerAnswers(s) \/ ServerPushes(s)
                          \/ ServerDies(s) \/ CooldownEnds(s)
    \/ \E op \in Operations : Asks(op)
    \/ FindsClient \/ RefusesBroken \/ StartFails \/ StartsClient
    \/ OpensText \/ Operates \/ OnlyOpens \/ Handles \/ Initialized \/ InitializeFails
    \/ Answered \/ OpenFails \/ OperationFails \/ Pulled \/ PullFails \/ Collected
    \/ ShutsDown

LspSpec == LspInit /\ [][LspNext]_lspVars

-----------------------------------------------------------------------------
LspTypeOK ==
    /\ edit \in 1..MaxEdits
    /\ broken \subseteq Servers
    /\ \A s \in Servers :
         /\ server[s].alive \in BOOLEAN /\ server[s].text \in 0..MaxEdits
         /\ Connected(s) => /\ client[s].id \in 2..(MaxIds + 1)
                            /\ client[s].sent \in 0..MaxEdits
    /\ query # NoQuery => query.op \in Operations /\ query.todo # <<>>

(* An answer is about the text its connection was sent last, even when     *)
(* earlier requests were given up and are answered later; a pool client    *)
(* never is in its cooldown; and a process runs only for a client in the   *)
(* pool or one that is being started: no query leaves one behind.          *)
AnswersBelong ==
    /\ taken[1] = taken[2]
    /\ \A s \in Servers :
         /\ Connected(s) => s \notin broken
         /\ server[s].alive =>
              \/ Connected(s)
              \/ query.at = "initialize" /\ Serving = s
=============================================================================
