----------------------------- MODULE QueueLease -----------------------------
(***************************************************************************)
(* The lease of one queued turn when several runtimes share a session root *)
(* (claim_queued_turn_lease, refresh_queued_turn_lease,                    *)
(* recover_persisted_queued_turns, pop_next_schedulable_queued_turn).      *)
(*                                                                         *)
(* The lease is a file: created if there is none, filled by a second call, *)
(* removed and created again when it has expired.  Whoever has the turn in *)
(* its memory starts it without another look at the lease.                 *)
(***************************************************************************)
EXTENDS Integers, FiniteSets

CONSTANTS Runtimes,
          Ttl,           \* turn_queue_lease_stale_ms
          LeaseClock,      \* bound: time
          MaxBoots       \* bound: starts of runtimes

ASSUME LeaseAssumption ==
  Runtimes # {} /\ Ttl \in Nat \ {0} /\ LeaseClock \in Nat /\ MaxBoots \in Nat \ {0}

VARIABLES lease,         \* the lease file
          waiting,       \* the file of the payload is there
          indexed,       \* the status of the turn in the job index
          runtime,       \* what each runtime does, and whether the turn is in its queue
          beat,          \* runtimes whose heartbeat found its own lease and will write it
          now, boots,
          starts,        \* ghost: how often the turn was started
          excused        \* ghost: an expired lease was taken from a runtime that was alive,
                         \* two recoveries overlapped, or one claims by what it read before
                         \* the turn was started

leaseVars == <<lease, waiting, indexed, runtime, beat, now, boots, starts, excused>>

NoLease == [owner |-> 0, expires |-> 0, full |-> FALSE]
Empty(owner) == [owner |-> owner, expires |-> 0, full |-> FALSE]
LeaseOf(owner) == [owner |-> owner, expires |-> now + Ttl, full |-> TRUE]
Down == [at |-> "down", owner |-> 0, queued |-> FALSE]
Claiming == {"claim", "look", "remove", "again", "fill"}

(* A runtime has queued the turn: register_turn_job took the lease.        *)
LeaseInit ==
  /\ now = 0 /\ boots = 1
  /\ lease = LeaseOf(1) /\ waiting = TRUE /\ indexed = "queued"
  /\ \E first \in Runtimes :
       runtime = [r \in Runtimes |-> IF r = first
                                     THEN [at |-> "serve", owner |-> 1, queued |-> TRUE]
                                     ELSE Down]
  /\ beat = {} /\ starts = 0 /\ excused = FALSE

Is(r, stop) == runtime[r].at = stop
Steps(r, stop) == runtime' = [runtime EXCEPT ![r].at = stop]
RuntimeAlive(owner) == \E r \in Runtimes : runtime[r].at # "down" /\ runtime[r].owner = owner

-----------------------------------------------------------------------------
Boots(r) ==
  /\ Is(r, "down") /\ boots < MaxBoots
  /\ boots' = boots + 1
  /\ runtime' = [runtime EXCEPT ![r] = [at |-> "recover", owner |-> boots', queued |-> FALSE]]
  /\ UNCHANGED <<lease, waiting, indexed, beat, now, starts, excused>>

(* Payloads and the index are read once, before the leases.                *)
ReadsQueue(r) ==
  /\ Is(r, "recover")
  /\ IF waiting /\ indexed # "queued"
     THEN waiting' = FALSE /\ lease' = NoLease ELSE UNCHANGED <<waiting, lease>>
  /\ Steps(r, IF waiting /\ indexed = "queued" THEN "claim" ELSE "serve")
  /\ excused' = (excused \/ \E o \in Runtimes \ {r} : runtime[o].at \in Claiming)
  /\ UNCHANGED <<indexed, beat, now, boots, starts>>

(* create_queued_turn_lease makes the file, then writes it.                *)
Claims(r) ==
  /\ runtime[r].at \in {"claim", "again"}
  /\ IF lease = NoLease
     THEN lease' = Empty(runtime[r].owner) /\ Steps(r, "fill")
     ELSE UNCHANGED lease /\ Steps(r, IF Is(r, "claim") THEN "look" ELSE "serve")
  /\ excused' = (excused \/ ~waiting \/ indexed # "queued")
  /\ UNCHANGED <<waiting, indexed, beat, now, boots, starts>>

(* The file that was made may have been removed meanwhile.                 *)
Fills(r) ==
  /\ Is(r, "fill")
  /\ lease' = IF lease = Empty(runtime[r].owner) THEN LeaseOf(runtime[r].owner) ELSE lease
  /\ runtime' = [runtime EXCEPT ![r].at = "serve", ![r].queued = TRUE]
  /\ UNCHANGED <<waiting, indexed, beat, now, boots, starts, excused>>

(* Mutant: a lease is taken when it is about to expire.                    *)
ExpiredEarly(l) == l.expires <= now + 1

(* A file that cannot be parsed is taken for none.                         *)
Expired(l) == ~l.full \/ l.expires <= now

LooksAtLease(r) ==
  /\ Is(r, "look")
  /\ IF Expired(lease)
     THEN /\ Steps(r, "remove")
          /\ excused' = (excused \/ (RuntimeAlive(lease.owner) /\ lease.expires <= now))
     ELSE Steps(r, "serve") /\ UNCHANGED excused
  /\ UNCHANGED <<lease, waiting, indexed, beat, now, boots, starts>>

RemovesLease(r) ==
  /\ Is(r, "remove")
  /\ lease' = NoLease /\ Steps(r, "again")
  /\ UNCHANGED <<waiting, indexed, beat, now, boots, starts, excused>>

(* The heartbeat of a running turn keeps the leases of the queue: it reads *)
(* the file and writes it when it is its own.                              *)
Beats(r) ==
  /\ Is(r, "serve") /\ runtime[r].queued
  /\ IF r \in beat
     THEN lease' = LeaseOf(runtime[r].owner) /\ beat' = beat \ {r}
     ELSE /\ lease.full /\ lease.owner = runtime[r].owner
          /\ beat' = beat \cup {r} /\ UNCHANGED lease
  /\ UNCHANGED <<waiting, indexed, runtime, now, boots, starts, excused>>

(* The turn is popped, its snapshot stored; its files go in a second step. *)
Starts(r) ==
  /\ Is(r, "serve") /\ runtime[r].queued
  /\ starts' = starts + 1 /\ indexed' = "running"
  /\ runtime' = [runtime EXCEPT ![r].at = "clean", ![r].queued = FALSE]
  /\ beat' = beat \ {r}
  /\ UNCHANGED <<lease, waiting, now, boots, excused>>

Cleans(r) ==
  /\ Is(r, "clean")
  /\ waiting' = FALSE /\ lease' = NoLease /\ Steps(r, "serve")
  /\ UNCHANGED <<indexed, beat, now, boots, starts, excused>>

Crashes(r) ==
  /\ ~Is(r, "down")
  /\ runtime' = [runtime EXCEPT ![r] = Down] /\ beat' = beat \ {r}
  /\ UNCHANGED <<lease, waiting, indexed, now, boots, starts, excused>>

LeaseTick ==
  /\ now < LeaseClock /\ now' = now + 1
  /\ UNCHANGED <<lease, waiting, indexed, runtime, beat, boots, starts, excused>>

LeaseNext ==
  \/ \E r \in Runtimes : \/ Boots(r) \/ ReadsQueue(r) \/ Claims(r) \/ Fills(r)
                         \/ LooksAtLease(r) \/ RemovesLease(r) \/ Beats(r)
                         \/ Starts(r) \/ Cleans(r) \/ Crashes(r)
  \/ LeaseTick

LeaseSpec == LeaseInit /\ [][LeaseNext]_leaseVars

-----------------------------------------------------------------------------
LeaseTypeOK ==
  /\ lease \in [owner : 0..MaxBoots, expires : 0..(LeaseClock + Ttl), full : BOOLEAN]
  /\ waiting \in BOOLEAN /\ indexed \in {"queued", "running"}
  /\ \A r \in Runtimes : runtime[r].at \in Claiming \cup {"down", "recover", "serve", "clean"}
  /\ beat \subseteq Runtimes

(* However often runtimes are killed and started, a queued turn is started *)
(* at most once, as long as its owner keeps its lease, runtimes recover    *)
(* one after the other, and none goes on with a payload it has read before *)
(* the turn was started.                                                   *)
StartedByOne == ~excused => starts <= 1
=============================================================================
