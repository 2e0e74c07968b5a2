--------------------------- MODULE McpCredentials ---------------------------
(***************************************************************************)
(* Remote MCP servers of the HTTP runtime: the configuration file and the  *)
(* OAuth credential kept for each server (runtime/http/src/mcp_runtime.rs). *)
(* Every request runs in a thread of its own; file and credentials are     *)
(* read and written without a lock, and a network call lies in between.    *)
(*                                                                         *)
(* A server's configuration is its URL, a number; so are tokens.           *)
(***************************************************************************)
EXTENDS Naturals, FiniteSets

CONSTANTS
    Remotes,            \* the names of remote servers
    Urls,               \* the URLs a server may be configured with, from 1
    Threads,            \* requests under way at the same time
    MaxTokens, MaxLogins \* bounds

ASSUME CredentialAssumption == 0 \notin Urls /\ MaxTokens \in Nat /\ MaxLogins \in Nat

VARIABLES
    config,      \* server -> its URL in the file, 0 when it has no entry
    credential,  \* server -> what its file in mcp_oauth holds
    job,         \* thread -> the request it works on
    token,       \* number -> the URL of the server it was issued for
    logins,      \* OAuth states handed out so far
    presented    \* <<token, URL>>: which token went to which server

mcpVars == <<config, credential, job, token, logins, presented>>

NoCredential == [url |-> 0, access |-> 0, pending |-> 0]
NoJob == [op |-> "none"]

Free(t) == job[t] = NoJob
Doing(t, op) == job[t].op = op
Becomes(t, j) == job' = [job EXCEPT ![t] = j]
Done(t) == Becomes(t, NoJob)

-----------------------------------------------------------------------------
(* The configuration file. *)

(* mutate_mcp_config: read, change one server, write all of it back. *)
ReadsConfig(t) ==
    /\ Free(t)
    /\ Becomes(t, [op |-> "edit", all |-> config])
    /\ UNCHANGED <<config, credential, token, logins, presented>>

WritesConfig(t) ==
    /\ Doing(t, "edit")
    /\ \E s \in Remotes, v \in Urls :
         config' = [job[t].all EXCEPT ![s] = v]
    /\ Done(t)
    /\ UNCHANGED <<credential, token, logins, presented>>

(* mcp_delete_server_payload: the credential goes after the entry. *)
DeletesServer(t) ==
    /\ Doing(t, "edit")
    /\ \E s \in Remotes :
         /\ job[t].all[s] # 0
         /\ config' = [job[t].all EXCEPT ![s] = 0]
         /\ Becomes(t, [op |-> "forget", s |-> s])
    /\ UNCHANGED <<credential, token, logins, presented>>

ForgetsCredential(t) ==
    /\ Doing(t, "forget")
    /\ credential' = [credential EXCEPT ![job[t].s] = NoCredential]
    /\ Done(t)
    /\ UNCHANGED <<config, token, logins, presented>>

-----------------------------------------------------------------------------
(* OAuth. *)

(* mcp_oauth_login_payload, up to the discovery at the server's own URL. *)
StartsLogin(t, s) ==
    /\ Free(t)
    /\ config[s] # 0 /\ logins < MaxLogins
    /\ Becomes(t, [op |-> "discover", s |-> s, url |-> config[s]])
    /\ UNCHANGED <<config, credential, token, logins, presented>>

(* The credential there is counts only if it is for the same URL.          *)
(* A mutant keeps the tokens of whatever credential there is.              *)
ExistingOfAny(s, url) == credential[s]
Existing(s, url) ==
    IF credential[s].url = url THEN credential[s] ELSE NoCredential

LooksUpClient(t) ==
    /\ Doing(t, "discover")
    /\ Becomes(t, [op |-> "login", s |-> job[t].s, url |-> job[t].url,
                   old |-> Existing(job[t].s, job[t].url)])
    /\ UNCHANGED <<config, credential, token, logins, presented>>

HandsOutLogin(t) ==
    /\ Doing(t, "login")
    /\ logins < MaxLogins
    /\ logins' = logins + 1
    /\ credential' = [credential EXCEPT ![job[t].s] =
                        [url |-> job[t].url, access |-> job[t].old.access,
                         pending |-> logins + 1]]
    /\ Done(t)
    /\ UNCHANGED <<config, token, presented>>

(* mcp_oauth_callback_response finds the credential by the state the       *)
(* browser brings and asks its token endpoint; mcp_oauth_refresh_payload   *)
(* loads it by name and wants the URL unchanged.                           *)
StartsCallback(t, s) ==
    /\ Free(t)
    /\ credential[s].pending # 0
    /\ Becomes(t, [op |-> "exchange", s |-> s, old |-> credential[s]])
    /\ UNCHANGED <<config, credential, token, logins, presented>>

StartsRefresh(t, s) ==
    /\ Free(t)
    /\ config[s] # 0
    /\ credential[s].access # 0 /\ credential[s].url = config[s]
    /\ Becomes(t, [op |-> "renew", s |-> s, old |-> credential[s]])
    /\ UNCHANGED <<config, credential, token, logins, presented>>

(* apply_oauth_token_response: the copy gets the new token and is written. *)
StoresToken(t) ==
    /\ job[t].op \in {"exchange", "renew"}
    /\ \E n \in 1..MaxTokens :
         /\ token[n] = 0
         /\ \A k \in 1..(n - 1) : token[k] # 0
         /\ token' = [token EXCEPT ![n] = job[t].old.url]
         /\ credential' = [credential EXCEPT ![job[t].s] =
                             [url |-> job[t].old.url, access |-> n, pending |-> 0]]
    /\ Done(t)
    /\ UNCHANGED <<config, logins, presented>>

(* A login that expired or was denied, a token endpoint that fails: the    *)
(* copy is written too, a callback's without what was pending.             *)
FailsExchange(t) ==
    /\ job[t].op \in {"exchange", "renew"}
    /\ credential' = [credential EXCEPT ![job[t].s] =
                        IF Doing(t, "exchange") THEN [job[t].old EXCEPT !.pending = 0]
                        ELSE job[t].old]
    /\ Done(t)
    /\ UNCHANGED <<config, token, logins, presented>>

(* mcp_oauth_revoke_payload: the file goes when the server agreed. *)
StartsRevoke(t, s) ==
    /\ Free(t)
    /\ config[s] # 0 /\ credential[s] # NoCredential
    /\ \E agreed \in BOOLEAN :
         Becomes(t, IF agreed THEN [op |-> "forget", s |-> s] ELSE NoJob)
    /\ UNCHANGED <<config, credential, token, logins, presented>>

-----------------------------------------------------------------------------
(* register_runtime_mcp_tools for a turn, mcp_payload and the requests     *)
(* about one server: the file is read, then the credentials, and a token   *)
(* that has not expired goes with what is sent.                            *)

StartsTurn(t) ==
    /\ Free(t)
    /\ Becomes(t, [op |-> "turn", all |-> config])
    /\ UNCHANGED <<config, credential, token, logins, presented>>

(* apply_mcp_oauth_credentials.  A mutant does not compare the URLs. *)
AppliesAnyway(s, url) == TRUE
Applies(s, url) == credential[s].url = url

Presents(t, s) ==
    /\ Doing(t, "turn")
    /\ job[t].all[s] # 0
    /\ credential[s].access # 0 /\ Applies(s, job[t].all[s])
    /\ presented' = presented \cup {<<credential[s].access, job[t].all[s]>>}
    /\ Done(t)
    /\ UNCHANGED <<config, credential, token, logins>>

McpInit ==
    /\ config = [s \in Remotes |-> 0]
    /\ credential = [s \in Remotes |-> NoCredential]
    /\ job = [t \in Threads |-> NoJob]
    /\ token = [n \in 1..MaxTokens |-> 0]
    /\ logins = 0
    /\ presented = {}

McpNext ==
    \E t \in Threads :
        \/ ReadsConfig(t) \/ WritesConfig(t) \/ DeletesServer(t) \/ ForgetsCredential(t)
        \/ LooksUpClient(t) \/ HandsOutLogin(t) \/ StoresToken(t) \/ FailsExchange(t)
        \/ StartsTurn(t)
        \/ \E s \in Remotes : \/ StartsLogin(t, s) \/ StartsCallback(t, s)
                              \/ StartsRefresh(t, s) \/ StartsRevoke(t, s) \/ Presents(t, s)

McpSpec == McpInit /\ [][McpNext]_mcpVars

-----------------------------------------------------------------------------
McpTypeOK ==
    /\ config \in [Remotes -> Urls \cup {0}]
    /\ credential \in [Remotes -> [url : Urls \cup {0}, access : 0..MaxTokens,
                                   pending : 0..MaxLogins]]
    /\ token \in [1..MaxTokens -> Urls \cup {0}]
    /\ logins \in 0..MaxLogins

(* Whatever logins, callbacks, refreshes, revocations, deletions and edits *)
(* overlap, a server is only ever shown a token that was issued for the    *)
(* URL it is configured with.                                              *)
TokensGoHome == \A pair \in presented : token[pair[1]] = pair[2]
=============================================================================
