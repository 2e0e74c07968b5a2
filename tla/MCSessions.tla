----------------------------- MODULE MCSessions -----------------------------
(***************************************************************************)
(* What a session is on disk, what its readers see of it and how one turn  *)
(* of it runs: transcript, state files, event files, queue lease, provider *)
(* loop, context packs and the tree of tasks it grows.  The parts are      *)
(* checked apart: a behaviour runs one of them and leaves the others at    *)
(* rest.                                                                   *)
(***************************************************************************)
EXTENDS SessionTranscript, SessionFiles, BridgeEvents, QueueLease, MCProviderLoop,
        MCContextPack, TaskTree

VARIABLE part             \* which of the parts this behaviour is about

sessionsVars ==
  <<transcriptVars, filesVars, eventsVars, leaseVars, loopVars, packVars, treeVars,
    part>>

(* A part at rest stays in one initial state.                              *)
AtRest ==
  /\ part # "events" => client = "poller"
  /\ part # "lease" => runtime[CHOOSE r \in Runtimes : TRUE].at = "serve"
  /\ part # "loop" => talk = <<>>
  /\ part # "pack" => setting = [limit |-> 0, strategy |-> "auto", ids |-> "fresh"]

SessionsInit ==
  /\ part \in {"transcript", "files", "events", "lease", "loop", "pack", "tree"}
  /\ TranscriptInit /\ FilesInit /\ EventsInit /\ LeaseInit /\ LoopInit /\ PackInit /\ TreeInit
  /\ AtRest
-----------------------------------------------------------------------------
Transcript ==
  /\ part = "transcript" /\ TranscriptNext
  /\ UNCHANGED <<filesVars, eventsVars, leaseVars, loopVars, packVars, treeVars, part>>
StateFiles ==
  /\ part = "files" /\ FilesNext
  /\ UNCHANGED <<transcriptVars, eventsVars, leaseVars, loopVars, packVars, treeVars, part>>
Events ==
  /\ part = "events" /\ EventsNext
  /\ UNCHANGED <<transcriptVars, filesVars, leaseVars, loopVars, packVars, treeVars, part>>
Lease ==
  /\ part = "lease" /\ LeaseNext
  /\ UNCHANGED <<transcriptVars, filesVars, eventsVars, loopVars, packVars, treeVars, part>>
Loop(A) ==
  /\ part = "loop" /\ A
  /\ UNCHANGED <<transcriptVars, filesVars, eventsVars, leaseVars, packVars, treeVars, part>>
Packs ==
  /\ part = "pack" /\ PackNext
  /\ UNCHANGED <<transcriptVars, filesVars, eventsVars, leaseVars, loopVars, treeVars, part>>
Tree ==
  /\ part = "tree" /\ TreeNext
  /\ UNCHANGED <<transcriptVars, filesVars, eventsVars, leaseVars, loopVars, packVars, part>>

SessionsNext ==
  Transcript \/ StateFiles \/ Events \/ Lease \/ Loop(LoopNext) \/ Packs \/ Tree

(* The fairness of LoopSpec, for its part.                                 *)
SessionsSpec ==
  /\ SessionsInit /\ [][SessionsNext]_sessionsVars
  /\ \A t \in Threads : WF_sessionsVars(Loop(RunsOf(t)))
  /\ WF_sessionsVars(Loop(WorkerReturns))
  /\ \A r \in Responders : WF_sessionsVars(Loop(Finishes(r)))
-----------------------------------------------------------------------------
(* Every variable of the models holds a value of its type.                 *)
SessionsTypeOK == TranscriptTypeOK /\ FilesTypeOK /\ EventsTypeOK /\ LeaseTypeOK
                  /\ LoopTypeOK /\ PackTypeOK /\ TreeTypeOK

(* The turn of a behaviour about something else is left where it is.       *)
LoopsRestThere == part = "loop" => LoopsRest
=============================================================================
